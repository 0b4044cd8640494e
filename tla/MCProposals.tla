---------------------------- MODULE MCProposals ----------------------------
(* Proposals for TLC.                                                       *)
EXTENDS Proposals

CONSTANTS r1, r2
MCRequests == {r1, r2}
Symmetric == Permutations(Requests)
=============================================================================
