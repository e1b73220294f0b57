---------------------------- MODULE HstcpcliCalls -----------------------------
(***************************************************************************)
(* One hstcpcli under every order of calls its public interface allows,    *)
(* with a HandlerSocket server that answers the requests of a connection   *)
(* in order.  The callers of this repository are special cases: the worker *)
(* threads (rinha/handler_socket.cc) keep one request in flight and the    *)
(* Ruby binding (libhsclient/handlersocket.cpp, execute_multi_internal)    *)
(* pipelines several.                                                      *)
(***************************************************************************)
EXTENDS Hstcpcli

CONSTANTS
    MaxRequests,    \* bound: requests that may be buffered in a behaviour
    MaxReconnects   \* bound: calls of reconnect()

ASSUME MaxRequestsAssumption == MaxRequests \in Nat
ASSUME MaxReconnectsAssumption == MaxReconnects \in Nat

VARIABLES
    cli,            \* the client
    toServer,       \* requests sent on the connection, not yet answered
    toClient,       \* responses the server wrote, not yet read by the client
    buffered,       \* number of requests buffered so far: the next one's name
    reconnects,
    outstanding     \* history: requests sent whose response is not removed

vars == <<cli, toServer, toClient, buffered, reconnects, outstanding>>

(* A response with an error has no rows; one without may have none. *)
Answers(r) ==
    {[req |-> r, code |-> 0, num_flds |-> 1, rows |-> <<"row">>],
     [req |-> r, code |-> 0, num_flds |-> 0, rows |-> <<>>],
     [req |-> r, code |-> 1, num_flds |-> 1, rows |-> <<>>]}

Init ==
    /\ \E outcome \in Fds : cli = hstcpcli(outcome)
    /\ toServer = <<>>
    /\ toClient = <<>>
    /\ buffered = 0
    /\ reconnects = 0
    /\ outstanding = <<>>

(* The connection of the client died in this step: what was in it is lost. *)
DropConnection ==
    /\ toServer' = <<>>
    /\ toClient' = <<>>
    /\ outstanding' = <<>>

KeepConnection == UNCHANGED <<toServer, toClient, outstanding>>

RequestBuf ==
    /\ buffered < MaxRequests
    /\ buffered' = buffered + 1
    /\ cli' \in {request_buf_open_index(cli, buffered + 1),
                 request_buf_auth(cli, buffered + 1),
                 request_buf_exec_generic(cli, buffered + 1)}
    /\ IF cli'.fd = "none" THEN DropConnection ELSE KeepConnection
    /\ UNCHANGED reconnects

(* Only a connected socket can take bytes. *)
RequestSend(wrote) ==
    /\ wrote => cli.fd = "connected"
    /\ cli' = request_send(cli, wrote)
    /\ IF cli'.fd = "none"
       THEN DropConnection
       ELSE IF cli'.num_req_sent > cli.num_req_sent
       THEN /\ toServer' = toServer \o cli.writebuf
            /\ outstanding' = outstanding \o cli.writebuf
            /\ UNCHANGED toClient
       ELSE KeepConnection
    /\ UNCHANGED <<buffered, reconnects>>

(* One read() may deliver several lines, or none and fail. *)
ResponseRecv(n) ==
    /\ IF CanReceive(cli) /\ cli.readbuf = <<>>
       THEN n \in 0 .. Len(toClient)
       ELSE n = 0
    /\ cli' = response_recv(cli, SubSeq(toClient, 1, n))
    /\ IF cli'.fd = "none"
       THEN DropConnection
       ELSE /\ toClient' = SubSeq(toClient, n + 1, Len(toClient))
            /\ UNCHANGED <<toServer, outstanding>>
    /\ UNCHANGED <<buffered, reconnects>>

GetNextRow ==
    /\ cli' = get_next_row(cli)
    /\ KeepConnection
    /\ UNCHANGED <<buffered, reconnects>>

ResponseBufRemove ==
    /\ cli' = response_buf_remove(cli)
    /\ IF cli'.fd = "none"
       THEN DropConnection
       ELSE /\ outstanding' = Tail(outstanding)
            /\ UNCHANGED <<toServer, toClient>>
    /\ UNCHANGED <<buffered, reconnects>>

Close ==
    /\ cli' = close(cli)
    /\ DropConnection
    /\ UNCHANGED <<buffered, reconnects>>

Reconnect ==
    /\ reconnects < MaxReconnects
    /\ reconnects' = reconnects + 1
    /\ \E outcome \in Fds : cli' = reconnect(cli, outcome)
    /\ DropConnection
    /\ UNCHANGED buffered

(* External: the server answers the oldest request of the connection. *)
ServerAnswer ==
    /\ toServer # <<>>
    /\ \E answer \in Answers(Head(toServer)) : toClient' = Append(toClient, answer)
    /\ toServer' = Tail(toServer)
    /\ UNCHANGED <<cli, buffered, reconnects, outstanding>>

Next ==
    \/ RequestBuf
    \/ \E wrote \in BOOLEAN : RequestSend(wrote)
    \/ \E n \in 0 .. MaxRequests : ResponseRecv(n)
    \/ GetNextRow
    \/ ResponseBufRemove
    \/ Close
    \/ Reconnect
    \/ ServerAnswer

Spec == Init /\ [][Next]_vars

-----------------------------------------------------------------------------
(* The requests that a sequence of responses answers. *)
Answered(responses) == [i \in 1 .. Len(responses) |-> responses[i].req]

(***************************************************************************)
(* Whatever the order of calls, the response a caller is reading answers   *)
(* the oldest request it has not removed the response of, and the lines    *)
(* behind it answer the following ones in order: no earlier connection's   *)
(* bytes and no skipped removal can shift answers onto other requests.     *)
(***************************************************************************)
ResponsesInOrder ==
    Answered(cli.readbuf) \o Answered(toClient) \o toServer = outstanding

(***************************************************************************)
(* The three request counters account for every request: buffered ones are *)
(* in writebuf, and sent plus received are those whose response is still   *)
(* to be removed.  At most one response is current, and requests are not   *)
(* buffered while responses are pending.  (The counters are unsigned: the  *)
(* decrements of response_recv and response_buf_remove never wrap.)        *)
(***************************************************************************)
CountersAccount ==
    /\ cli.num_req_bufd = Len(cli.writebuf)
    /\ cli.num_req_sent + cli.num_req_rcvd = Len(outstanding)
    /\ cli.num_req_rcvd = cli.response_end_offset
    /\ cli.num_req_bufd > 0 => Len(outstanding) = 0

(***************************************************************************)
(* A client that failed stays failed through every call until a reconnect  *)
(* that succeeds, and that leaves nothing of the old connection behind.    *)
(***************************************************************************)
DeadUntilReconnect ==
    [][cli.error_code < 0 /\ cli'.error_code >= 0
         => cli' = hstcpcli("connected")]_vars
=============================================================================
