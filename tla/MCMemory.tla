------------------------------ MODULE MCMemory ------------------------------
(* Instances of Memory for TLC: Commissions 1 and 2 of one Project, 3 of   *)
(* another, and 4, of no Project and still active.                         *)
EXTENDS Memory, TLC

CONSTANTS p1, p2, pr, s1, s2

TheProjects == {p1, p2}
TheCommissions == 1..4
TheTerminal == 1..3
TheMaterial == {1}
TheProjectOf == <<p1, p1, p2, pr>>
TheStatements == {s1, s2}
TheTokens == s1 :> 1 @@ s2 :> 2
TheClaimLimit == p1 :> 2 @@ p2 :> 1 @@ pr :> 1
TheTokenLimit == p1 :> 3 @@ p2 :> 2 @@ pr :> 2
TheStated == {<<1, s2>>, <<4, s2>>}
TheShown == {<<1, s1, "strong">>, <<2, s1, "weak">>, <<2, s1, "contradiction">>,
             <<3, s1, "strong">>}
TheExcluded == {<<3, s1>>, <<1, s2>>}
=============================================================================
