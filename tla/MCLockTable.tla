----------------------------- MODULE MCLockTable -----------------------------
(* LockTable for TLC.                                                        *)
EXTENDS LockTable, TLC
=============================================================================
