--------------------------- MODULE MCMariaDatabase ----------------------------
(***************************************************************************)
(* MariaDatabase for TLC.  Two processes, as docker-compose starts; the    *)
(* first has two workers, so that both kinds of contention occur: on the   *)
(* mutex inside a process and on the version between processes.  One       *)
(* customer (customers share no state but the connections), a ring of two, *)
(* 4-bit ints.                                                             *)
(***************************************************************************)
EXTENDS MariaDatabase, TLC

CONSTANTS p1, p2, w1, w2, w3

MCProcs == {p1, p2}
MCWorkers == {w1, w2, w3}
MCProcOf == w1 :> p1 @@ w2 :> p1 @@ w3 :> p2
MCWorkers2 == {w1, w3}
MCProcOf2 == w1 :> p1 @@ w3 :> p2
MCLimit == <<2>>
MCValues == {-2, 3}
MCDebits == {-3, -1}
=============================================================================
