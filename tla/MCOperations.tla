---------------------------- MODULE MCOperations ----------------------------
(* Small instances of Operations for TLC. *)
EXTENDS Operations, TLC

CONSTANTS o1, o2

OneOperation == {o1}
TwoOperations == {o1, o2}

OperationSymmetry == Permutations(Op)

=============================================================================
