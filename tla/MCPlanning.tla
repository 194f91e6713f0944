----------------------------- MODULE MCPlanning -----------------------------
EXTENDS Planning, TLC

CONSTANTS x, y

Writes == {{x}, {y}}
Symmetry == Permutations({x, y})
=============================================================================
