------------------------------ MODULE MCRouter ------------------------------
(* Router for TLC.                                                          *)
EXTENDS Router, TLC

Symmetry == Permutations(Routers) \cup Permutations(Addrs) \cup Permutations(Mailboxes)
=============================================================================
