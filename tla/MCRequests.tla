---------------------------- MODULE MCRequests ----------------------------
(* Small instances of Requests for TLC. *)
EXTENDS Requests, TLC

CONSTANTS a1, a2

TheAttachments == {a1, a2}
SteeringOnly == {{"steer"}}

KeySymmetry == Permutations(Key)

=============================================================================
