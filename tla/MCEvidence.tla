----------------------------- MODULE MCEvidence -----------------------------
(* Two criteria, two verifiers and two artifacts; a model criterion is a *)
(* Principal criterion without a gate. *)
EXTENDS Evidence, TLC

Settings == {[type |-> "deterministic", depth |-> "standard"],
             [type |-> "principal", depth |-> "independent"]}

Symmetry == Permutations(Criterion) \union Permutations(Verifier) \union Permutations(Artifact)
=============================================================================
