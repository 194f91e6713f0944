---------------------------- MODULE MCCredentials ----------------------------
(* Two grants and two operations over two Commissions that share one entry. *)
EXTENDS Credentials, TLC

Symmetry == Permutations(Commission) \union Permutations(Grant) \union Permutations(Op)
=============================================================================
