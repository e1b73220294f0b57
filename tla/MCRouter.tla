------------------------------- MODULE MCRouter -------------------------------
(***************************************************************************)
(* Router for TLC: two threads, two UNIX connections to the first API      *)
(* process and one to the second, rings of three slots.  Both sides have   *)
(* served two connections, so that the indices wrap around.  The second    *)
(* and the fourth client use the same UNIX connection and ask for          *)
(* something; the second may close before it is answered.                  *)
(***************************************************************************)
EXTENDS Router, TLC

CONSTANTS t1, t2, u1, u2, u3

MCThreads == {t1, t2}
MCTcpFds == 1001 .. 1002
MCUnixFds == {u1, u2, u3}
MCSideOf == u1 :> 1 @@ u2 :> 1 @@ u3 :> 2
MCInitialRing == <<<<u1, u2>>, <<u3>>>>

MCRequests == <<0, 1, 0, 1>>
MCHasty == {2}
MCWarm == {2}
=============================================================================
