---------------------------- MODULE MCEpollServer ----------------------------
(***************************************************************************)
(* EpollServer for TLC: two threads in the pool and three clients over two *)
(* descriptors; the first client may close before its response.            *)
(***************************************************************************)
EXTENDS EpollServer

CONSTANTS w1, w2

MCWorkers == {w1, w2}
MCFds == 1 .. 2
MCRequests == <<1, 1, 1>>
MCHasty == {1}
=============================================================================
