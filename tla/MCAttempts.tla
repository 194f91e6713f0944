----------------------------- MODULE MCAttempts -----------------------------
(* Small instances of Attempts for TLC. *)
EXTENDS Attempts, TLC

CONSTANTS w1, w2, c1, c2

OneWork == {w1}
TwoWork == {w1, w2}
OneConfig == {c1}
TwoConfigs == {c1, c2}

WorkSymmetry == Permutations(Work)
ConfigSymmetry == Permutations(Configs)

=============================================================================
