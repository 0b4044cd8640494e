--------------------------- MODULE MCBatchSystem ---------------------------
(* BatchSystem for TLC.                                                     *)
EXTENDS BatchSystem, TLC
=============================================================================
