----------------------------- MODULE MCFsmState -----------------------------
(* FsmState for TLC.                                                        *)
EXTENDS FsmState, TLC
=============================================================================
