---------------------------- MODULE MCIoThreadPool ----------------------------
(***************************************************************************)
(* IoThreadPool for TLC: two threads and three clients over two            *)
(* descriptors, so that descriptors are reused, and batches of two events. *)
(***************************************************************************)
EXTENDS IoThreadPool

CONSTANTS t1, t2

MCThreads == {t1, t2}
MCRequests == <<<<"transaction", "malformed">>, <<"malformed">>, <<"balance">>>>
MCTwoTransactions == <<<<"transaction", "transaction">>>>
=============================================================================
