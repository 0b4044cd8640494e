--------------------------- MODULE MCLeaderLease ---------------------------
(* LeaderLease for TLC.                                                     *)
EXTENDS LeaderLease
=============================================================================
