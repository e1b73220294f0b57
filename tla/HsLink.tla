-------------------------------- MODULE HsLink --------------------------------
(***************************************************************************)
(* What a worker thread can tell of one of its two HandlerSocket           *)
(* connections between two calls of ReadCustomerHs or WriteCustomerHs:     *)
(*                                                                         *)
(*   good      the next request can be sent;                               *)
(*   poisoned  an error response was received and not removed (the early   *)
(*             returns of rinha/handler_socket.cc), so the next request    *)
(*             is refused as out of sync and closes the connection;        *)
(*   dead      closed; nothing in rinha/ ever calls reconnect().           *)
(*                                                                         *)
(* HandlerSocket.tla checks that the two functions, step by step over the  *)
(* client of Hstcpcli.tla, move between these states as said here;         *)
(* MariaDatabase.tla is built on the three states only.                    *)
(***************************************************************************)

Links == {"good", "poisoned", "dead"}

(* request_buf_exec_generic, then request_send: it fails on its own unless *)
(* the link is good, and a fault of the socket makes it fail.              *)
SendLinks(link) == IF link = "good" THEN {"good", "dead"} ELSE {"dead"}

=============================================================================
