---------------------------- MODULE MCResolvedTs ----------------------------
(* ResolvedTs for TLC: two transactions of one key each.                   *)
EXTENDS ResolvedTs

MCTxns == {1, 2}
MCKeysOf == <<{"a"}, {"b"}>>
=============================================================================
