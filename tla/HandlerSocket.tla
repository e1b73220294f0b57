---------------------------- MODULE HandlerSocket -----------------------------
(***************************************************************************)
(* rinha/handler_socket.cc: the calls one worker thread makes over its two *)
(* connections to the HandlerSocket plugin of MariaDB, on the row of one   *)
(* customer that other threads and processes update too.  InitializeHs     *)
(* opens both connections; ReadCustomerHs reads the row; WriteCustomerHs   *)
(* is a compare-and-swap on its version column.                            *)
(*                                                                         *)
(* A call is two steps of the thread, up to and after the wait for the     *)
(* response, with the server and the other writers running in between.     *)
(* The values of requests and rows travel as the bytes HsWire encodes.     *)
(***************************************************************************)
EXTENDS Hstcpcli, HsLink, HsWire

CONSTANTS
    MaxCalls,       \* bound: Read/Write calls of the thread
    MaxFaults,      \* bound: failed sends, lost or late answers, error codes
    MaxOthers       \* bound: updates by other threads and processes

ASSUME MaxCallsAssumption == MaxCalls \in Nat
ASSUME MaxFaultsAssumption == MaxFaults \in Nat
ASSUME MaxOthersAssumption == MaxOthers \in Nat

VARIABLES
    cli,            \* read_ptr and write_ptr, both thread_local
    asked,          \* the requests the server has yet to execute, by connection
    told,           \* the responses on their way back, by connection
    row,            \* the row in the database
    customer, version,  \* the locals of MariaDbExecuteTransaction
    pc,             \* where the thread is
    call,           \* number of calls begun: names requests and new data
    faults, others, \* counters for the bounds
    ret,            \* what the last finished call returned
    applied,        \* history: write calls the server applied
    refused,        \* history: write calls that returned false
    accepted,       \* history: write calls that returned true
    seen,           \* history: the request that the last read's row answers
    held            \* history: every row the table has held

vars == <<cli, asked, told, row, customer, version, pc, call, faults, others,
          ret, applied, refused, accepted, seen, held>>

Conns == {"read_ptr", "write_ptr"}
NoData == -1

(***************************************************************************)
(* The bytes of a Customer: the integers and short strings of the struct   *)
(* are full of zeros and of small numbers, the protocol's own tab, newline *)
(* and escape prefix among them.  n tells the contents apart; the others   *)
(* are the bytes that the encoding treats in its own way, what looks like  *)
(* an escaped byte included.                                               *)
(***************************************************************************)
Blob(n) == <<n, 0, TAB, NL, 15, 16, 1, 64, 1, 1, 255>>
Id == to_string(1)

(* Control points of InitializeHs: before and after the request. *)
Opening(k) == IF k = "read_ptr" THEN "open read" ELSE "open write"
Waiting(k) == IF k = "read_ptr" THEN "opening read" ELSE "opening write"

(* The state of a connection between calls, as HsLink describes it. *)
Link(c) ==
    CASE c.error_code < 0 -> "dead"
      [] c.error_code >= 0 /\ c.num_req_rcvd > 0 -> "poisoned"
      [] OTHER -> "good"

Fault == faults < MaxFaults /\ faults' = faults + 1

(* Runs a possibly faulty operation: b says whether this one is faulty. *)
Budget(b) == IF b THEN Fault ELSE UNCHANGED faults

Init ==
    /\ cli = [k \in Conns |-> NoConnection]
    /\ asked = [k \in Conns |-> <<>>]
    /\ told = [k \in Conns |-> <<>>]
    /\ row = [data |-> Blob(0), version |-> 1] /\ held = {row}
    /\ customer = <<>> /\ version = NoData
    /\ pc = Opening("read_ptr")
    /\ call = 0 /\ faults = 0 /\ others = 0
    /\ ret = "none"
    /\ applied = {} /\ refused = {} /\ accepted = {}
    /\ seen = NoData

-----------------------------------------------------------------------------
(* The server, external.                                                   *)

(* What it answers to an open_index or read request: the row as it is now. *)
RowAnswer(r) ==
    [req |-> r.req, code |-> 0, num_flds |-> 3,
     rows |-> <<append_delim_values(<<Id, row.data, to_string(row.version)>>)>>]
ModifiedAnswer(r, n) ==
    [req |-> r.req, code |-> 0, num_flds |-> 1, rows |-> <<append_delim_value(to_string(n))>>]

ErrorAnswer(r) == [req |-> r.req, code |-> 1, num_flds |-> 1, rows |-> <<>>]
OpenAnswer(r) == [req |-> r.req, code |-> 0, num_flds |-> 1, rows |-> <<>>]

(* A response to a connection the client has closed goes nowhere. *)
Reply(k, answer) ==
    told' = [told EXCEPT ![k] = IF cli[k].fd = "connected"
                                THEN Append(@, answer) ELSE @]

(* The update is one statement on writers_index (id, version). *)
ServerExecute(k) ==
    /\ asked[k] # <<>>
    /\ LET r == Head(asked[k])
       IN  CASE r.op = "open" ->
                    Reply(k, OpenAnswer(r)) /\ UNCHANGED <<row, applied, held>>
             [] r.op = "read" ->
                    Reply(k, RowAnswer(r)) /\ UNCHANGED <<row, applied, held>>
             [] r.op = "write" /\ fields(r.kvs, 2) = <<Id, to_string(row.version)>> ->
                    LET mvs == fields(r.mvs, 3)
                    IN  /\ row' = [data |-> mvs[2], version |-> stoi(mvs[3])]
                        /\ held' = held \cup {[data |-> Blob(r.req),
                                              version |-> row.version + 1]}
                        /\ applied' = applied \cup {r.req}
                        /\ Reply(k, ModifiedAnswer(r, 1))
             [] OTHER ->
                    Reply(k, ModifiedAnswer(r, 0)) /\ UNCHANGED <<row, applied, held>>
    /\ asked' = [asked EXCEPT ![k] = Tail(@)]
    /\ UNCHANGED <<cli, customer, version, pc, call, faults, others, ret,
                   refused, accepted, seen>>

(* It answers with an error code and executes nothing. *)
ServerError(k) ==
    /\ asked[k] # <<>>
    /\ Fault
    /\ Reply(k, ErrorAnswer(Head(asked[k])))
    /\ asked' = [asked EXCEPT ![k] = Tail(@)]
    /\ UNCHANGED <<cli, row, customer, version, pc, call, others, ret,
                   applied, refused, accepted, seen, held>>

(* Another thread or process wins its compare-and-swap on the row. *)
OtherWrite ==
    /\ others < MaxOthers
    /\ others' = others + 1
    /\ row' = [data |-> Blob(100 + others), version |-> row.version + 1]
    /\ held' = held \cup {row'}
    /\ UNCHANGED <<cli, asked, told, customer, version, pc, call, faults, ret,
                   applied, refused, accepted, seen>>

-----------------------------------------------------------------------------
(* The thread.                                                             *)

(* Buffer one request on connection k and send it. *)
SendRequest(k, c, r, wrote) ==
    LET d == request_send(request_buf_exec_generic(c, r), wrote)
    IN  /\ cli' = [cli EXCEPT ![k] = d]
        /\ asked' = [asked EXCEPT ![k] = IF d.num_req_sent > 0
                                         THEN Append(@, r) ELSE @]

(* The client after response_recv, when `arrived' is what read() delivers. *)
Received(k, arrived) == response_recv(cli[k], arrived)

(* read() delivers the response, or fails or times out (a fault). *)
Arrivals(k, lost) == IF lost THEN <<>> ELSE told[k]
Arrival(k, lost) ==
    /\ lost \/ told[k] # <<>>
    /\ Budget(lost)

(* The fields of the row that get_next_row returns. *)
CurrentRow(c) == fields(Head(c.readbuf).rows[c.cur_row_offset], c.num_flds)

ThreadRest == UNCHANGED <<row, others, applied, held>>

(* create(), request_buf_open_index, request_send; CHECK aborts on false.  *)
OpenSend(k, outcome, wrote) ==
    /\ pc = Opening(k)
    /\ wrote => outcome = "connected"
    /\ Budget(~wrote)
    /\ SendRequest(k, hstcpcli(outcome), [op |-> "open", req |-> 0], wrote)
    /\ pc' = IF cli'[k].error_code # 0 THEN "aborted" ELSE Waiting(k)
    /\ UNCHANGED <<told, customer, version, call, ret, refused, accepted, seen>>
    /\ ThreadRest

(* `if (e >= 0)': a lost answer (e < 0) does not fail the initialisation. *)
OpenRecv(k, lost) ==
    /\ pc = Waiting(k)
    /\ Arrival(k, lost)
    /\ LET c == Received(k, Arrivals(k, lost))
       IN  /\ cli' = [cli EXCEPT ![k] = IF c.error_code = 0
                                        THEN response_buf_remove(c) ELSE c]
           /\ pc' = CASE c.error_code > 0 -> "aborted"
                      [] k = "read_ptr" /\ c.error_code <= 0 -> Opening("write_ptr")
                      [] OTHER -> "ready"
    /\ told' = [told EXCEPT ![k] = <<>>]
    /\ UNCHANGED <<asked, customer, version, call, ret, refused, accepted, seen>>
    /\ ThreadRest

(* ReadCustomerHs up to the wait. *)
ReadSend(wrote) ==
    /\ pc = "ready"
    /\ call < MaxCalls
    /\ call' = call + 1
    /\ Budget(~wrote)
    /\ SendRequest("read_ptr", cli["read_ptr"],
           [op |-> "read", req |-> call', kvs |-> append_delim_value(Id)], wrote)
    /\ IF cli'["read_ptr"].error_code # 0
       THEN ret' = "false" /\ UNCHANGED pc
       ELSE pc' = "reading" /\ UNCHANGED ret
    /\ UNCHANGED <<told, customer, version, refused, accepted, seen>>
    /\ ThreadRest

(* Mutant: rows are used before the error code is looked at. *)
ReadRecv_ErrorIgnored(lost) ==
    /\ pc = "reading"
    /\ Arrival("read_ptr", lost)
    /\ LET c == Received("read_ptr", Arrivals("read_ptr", lost))
       IN  /\ cli' = [cli EXCEPT !["read_ptr"] = response_buf_remove(c)]
           /\ ret' = "true"
           /\ UNCHANGED <<customer, version, seen>>
    /\ pc' = "ready"
    /\ told' = [told EXCEPT !["read_ptr"] = <<>>]
    /\ UNCHANGED <<asked, call, refused, accepted>>
    /\ ThreadRest

(* ReadCustomerHs after the wait: the fields of the (only) row are copied. *)
ReadRecv(lost) ==
    /\ pc = "reading"
    /\ Arrival("read_ptr", lost)
    /\ LET c == Received("read_ptr", Arrivals("read_ptr", lost))
       IN  IF c.error_code # 0
           THEN /\ cli' = [cli EXCEPT !["read_ptr"] = c]
                /\ ret' = "false"
                /\ UNCHANGED <<customer, version, seen>>
           ELSE /\ cli' = [cli EXCEPT !["read_ptr"] = response_buf_remove(c)]
                /\ ret' = "true"
                /\ seen' = Head(c.readbuf).req
                /\ IF HasRow(c)
                   THEN LET r == CurrentRow(c)
                        IN  /\ customer' = IF r[2] # Null THEN r[2] ELSE customer
                            /\ version' = IF r[3] # Null THEN stoi(r[3]) ELSE version
                   ELSE UNCHANGED <<customer, version>>
    /\ pc' = "ready"
    /\ told' = [told EXCEPT !["read_ptr"] = <<>>]
    /\ UNCHANGED <<asked, call, refused, accepted>>
    /\ ThreadRest

(* WriteCustomerHs up to the wait: new data for the version that was read. *)
WriteSend(wrote) ==
    /\ pc = "ready"
    /\ ret = "true" /\ seen = call          \* the caller has just read the row
    /\ call < MaxCalls
    /\ call' = call + 1
    /\ Budget(~wrote)
    /\ SendRequest("write_ptr", cli["write_ptr"],
           [op |-> "write", req |-> call',
            kvs |-> append_delim_values(<<Id, to_string(version)>>),
            mvs |-> append_delim_values(<<Id, Blob(call'), to_string(version + 1)>>)],
           wrote)
    /\ IF cli'["write_ptr"].error_code # 0
       THEN ret' = "false" /\ refused' = refused \cup {call'} /\ UNCHANGED pc
       ELSE pc' = "writing" /\ UNCHANGED <<ret, refused>>
    /\ UNCHANGED <<told, customer, version, accepted, seen>>
    /\ ThreadRest

(* Mutant: only more than one modified row counts as modified. *)
WriteRecv_ModifiedOffByOne(lost) ==
    /\ pc = "writing"
    /\ Arrival("write_ptr", lost)
    /\ LET c == Received("write_ptr", Arrivals("write_ptr", lost))
           modified == HasRow(c) /\ stoi(CurrentRow(c)[1]) > 1
       IN  /\ cli' = [cli EXCEPT !["write_ptr"] =
                          IF c.error_code = 0 THEN response_buf_remove(c) ELSE c]
           /\ IF c.error_code # 0 \/ modified
              THEN /\ ret' = "true"
                   /\ accepted' = accepted \cup {call}
                   /\ UNCHANGED refused
              ELSE /\ ret' = "false"
                   /\ refused' = refused \cup {call}
                   /\ UNCHANGED accepted
    /\ pc' = "ready"
    /\ told' = [told EXCEPT !["write_ptr"] = <<>>]
    /\ UNCHANGED <<asked, customer, version, call, seen>>
    /\ ThreadRest

(***************************************************************************)
(* WriteCustomerHs after the wait.  An error code of either sign takes     *)
(* `return 1', which the caller reads as true.                             *)
(***************************************************************************)
WriteRecv(lost) ==
    /\ pc = "writing"
    /\ Arrival("write_ptr", lost)
    /\ LET c == Received("write_ptr", Arrivals("write_ptr", lost))
           modified == HasRow(c) /\ stoi(CurrentRow(c)[1]) > 0
       IN  /\ cli' = [cli EXCEPT !["write_ptr"] =
                          IF c.error_code = 0 THEN response_buf_remove(c) ELSE c]
           /\ IF c.error_code # 0 \/ modified
              THEN /\ ret' = "true"
                   /\ accepted' = accepted \cup {call}
                   /\ UNCHANGED refused
              ELSE /\ ret' = "false"
                   /\ refused' = refused \cup {call}
                   /\ UNCHANGED accepted
    /\ pc' = "ready"
    /\ told' = [told EXCEPT !["write_ptr"] = <<>>]
    /\ UNCHANGED <<asked, customer, version, call, seen>>
    /\ ThreadRest

(* The bound is reached, or CHECK(InitializeHs) ended the process. *)
Stopped ==
    /\ \/ pc = "aborted"
       \/ pc = "ready" /\ call = MaxCalls
    /\ UNCHANGED vars

Next ==
    \/ \E k \in Conns : ServerExecute(k) \/ ServerError(k)
    \/ OtherWrite
    \/ \E k \in Conns, outcome \in Fds, wrote \in BOOLEAN : OpenSend(k, outcome, wrote)
    \/ \E k \in Conns, lost \in BOOLEAN : OpenRecv(k, lost)
    \/ \E wrote \in BOOLEAN : ReadSend(wrote) \/ WriteSend(wrote)
    \/ \E lost \in BOOLEAN : ReadRecv(lost) \/ WriteRecv(lost)
    \/ Stopped

Spec == Init /\ [][Next]_vars

-----------------------------------------------------------------------------
(***************************************************************************)
(* A read that returns true delivers the answer to the request of that     *)
(* very call: answers that were lost, late, or left unread in the buffer   *)
(* by an early return never surface in a later call.                       *)
(***************************************************************************)
ReadAnswersItsCall ==
    [][pc = "reading" /\ pc' = "ready" /\ ret' = "true" => seen' = call]_vars

OneLine(bytes) == \A i \in 1 .. Len(bytes) : bytes[i] # NL

(***************************************************************************)
(* Whatever bytes a customer is made of, they come through the wire: the   *)
(* row a thread has read is one the table has held, data and version       *)
(* together, and so is the row in the table; and no line on its way holds  *)
(* a newline, on which its end and the next one's start depend.            *)
(***************************************************************************)
RowsSurviveTheWire ==
    /\ row \in held
    /\ version # NoData => [data |-> customer, version |-> version] \in held
    /\ \A k \in Conns :
           /\ \A i \in 1 .. Len(asked[k]) :
                  asked[k][i].op = "write" => OneLine(asked[k][i].mvs)
           /\ \A i \in 1 .. Len(told[k]) :
                  \A j \in 1 .. Len(told[k][i].rows) : OneLine(told[k][i].rows[j])

(***************************************************************************)
(* A write that returned false was not applied and never will be, so the   *)
(* retry loop of MariaDbExecuteTransaction cannot apply one transaction    *)
(* twice.                                                                  *)
(***************************************************************************)
FalseMeansNotApplied ==
    \A n \in refused :
        /\ n \notin applied
        /\ \A i \in 1 .. Len(asked["write_ptr"]) : asked["write_ptr"][i].req # n

(***************************************************************************)
(* Between calls each connection is in the state HsLink predicts: only a   *)
(* good link carries a request, a poisoned one dies at the next, a dead    *)
(* one stays dead (nobody reconnects); a read returns true exactly when it *)
(* leaves the link good, and a write that got a response and returns false *)
(* leaves it good.                                                         *)
(***************************************************************************)
LinkMoves ==
    [][/\ \A k \in Conns :
              pc = "ready" /\ cli'[k] # cli[k]
                 => Link(cli'[k]) \in SendLinks(Link(cli[k]))
       /\ pc = "reading" /\ pc' = "ready"
              => (ret' = "true" <=> Link(cli'["read_ptr"]) = "good")
       /\ pc = "writing" /\ pc' = "ready" /\ ret' = "false"
              => Link(cli'["write_ptr"]) = "good"]_vars

(***************************************************************************)
(* What WriteCustomerHs's assertion DCHECK(e == 0) and its caller rely on: *)
(* a write that returned true was applied by the server.                   *)
(***************************************************************************)
TrueMeansApplied == accepted \subseteq applied
=============================================================================
