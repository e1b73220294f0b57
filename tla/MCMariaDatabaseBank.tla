------------------------- MODULE MCMariaDatabaseBank --------------------------
(* MariaDatabaseBank for TLC, on the processes of MCMariaDatabase. *)
EXTENDS MariaDatabaseBank, TLC

CONSTANTS p1, p2, w1, w2, w3

MCProcs == {p1, p2}
MCWorkers == {w1, w2, w3}
MCProcOf == w1 :> p1 @@ w2 :> p1 @@ w3 :> p2
MCLimit == <<2>>
MCValues == {-2, 3}
=============================================================================
