--------------------------- MODULE MCBatchChannel ---------------------------
(* BatchChannel for TLC.                                                    *)
EXTENDS BatchChannel, TLC
=============================================================================
