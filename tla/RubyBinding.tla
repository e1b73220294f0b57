----------------------------- MODULE RubyBinding -----------------------------
(***************************************************************************)
(* The Ruby binding of libhsclient/handlersocket.cpp: what each of its     *)
(* methods does with the client of HstcpcliCalls, one call of hstcpcli     *)
(* after the other.  Ruby code runs one method at a time; only the server  *)
(* acts in between.  A behaviour is either one of the binding, or one of   *)
(* C++ code that calls hstcpcli in any order.                              *)
(***************************************************************************)
EXTENDS HstcpcliCalls

CONSTANTS
    MaxMulti    \* bound: requests in one execute_multi

ASSUME MaxMultiAssumption == MaxMulti \in Nat

VARIABLES
    ruby,       \* the method being executed and its locals
    results,    \* retval or rvs: what the last method found for its requests
    raised      \* history: an exception has left requests in the client

rubyVars == <<ruby, results, raised>>
allVars == <<vars, rubyVars>>

(* first is the name of the method's first request, left the number of     *)
(* requests that were buffered already when it started.                    *)
Returned == [pc |-> "returned", method |-> "none", num_args |-> 0, first |-> 0, left |-> 0]
AnyCaller == [Returned EXCEPT !.pc = "any order"]

At(label) == ruby.pc = label
Goto(label) == ruby' = [ruby EXCEPT !.pc = label]
Return == ruby' = Returned

(* alloc and initialize: a client, connected or not. *)
initialize == Init /\ ruby = Returned

RubyInit ==
    /\ initialize \/ (Init /\ ruby = AnyCaller)
    /\ results = <<>>
    /\ raised = FALSE

(* A method has checked its arguments. *)
Start(method, n) ==
    /\ At("returned")
    /\ buffered + n <= MaxRequests
    /\ ruby' = [pc |-> "buffer", method |-> method, num_args |-> n,
                first |-> buffered + 1, left |-> Len(cli.writebuf)]
    /\ results' = <<>>
    /\ UNCHANGED <<vars, raised>>

open_index == Start("open_index", 1)
execute_internal == Start("execute_internal", 1)
execute_multi_internal == \E n \in 0 .. MaxMulti : Start("execute_multi_internal", n)

Buffered == buffered + 1 - ruby.first

(* The arguments are converted one request at a time: an exception leaves  *)
(* the requests before it in the client.                                   *)
Raise ==
    /\ At("buffer")
    /\ Buffered < ruby.num_args
    /\ raised' = (raised \/ Buffered > 0)
    /\ Return
    /\ UNCHANGED <<vars, results>>

Buffer ==
    /\ At("buffer")
    /\ Buffered < ruby.num_args
    /\ RequestBuf
    /\ UNCHANGED rubyVars

(* A failed send ends the method; execute_multi has one result for it. *)
Send ==
    /\ At("buffer")
    /\ Buffered = ruby.num_args
    /\ \E wrote \in BOOLEAN : RequestSend(wrote)
    /\ IF cli'.error_code # 0
       THEN /\ Return
            /\ results' = IF ruby.method = "execute_multi_internal"
                          THEN <<[code |-> cli'.error_code, req |-> 0]>> ELSE <<>>
       ELSE Goto("recv") /\ UNCHANGED results
    /\ UNCHANGED raised

(* The result notes, for the properties, which request was answered. *)
Recv ==
    /\ At("recv")
    /\ \E n \in 0 .. MaxRequests : ResponseRecv(n)
    /\ IF cli'.error_code < 0
       THEN /\ Return
            /\ results' = Append(results, [code |-> cli'.error_code, req |-> 0])
       ELSE /\ Goto(IF cli'.error_code = 0 /\ ruby.method # "open_index"
                    THEN "rows" ELSE "remove")
            /\ results' = Append(results, [code |-> cli'.error_code,
                                           req |-> Head(cli'.readbuf).req])
    /\ UNCHANGED raised

Rows ==
    /\ At("rows")
    /\ GetNextRow
    /\ Goto(IF HasRow(cli) THEN "rows" ELSE "remove")
    /\ UNCHANGED <<results, raised>>

(* Mutant: the response of a request that failed is not removed. *)
Remove_OnlyIfOk ==
    /\ At("remove")
    /\ IF cli.error_code = 0 THEN ResponseBufRemove ELSE UNCHANGED vars
    /\ IF Len(results) < ruby.num_args THEN Goto("recv") ELSE Return
    /\ UNCHANGED <<results, raised>>

Remove ==
    /\ At("remove")
    /\ ResponseBufRemove
    /\ IF Len(results) < ruby.num_args THEN Goto("recv") ELSE Return
    /\ UNCHANGED <<results, raised>>

(* Both drop what is buffered. *)
CloseOrReconnect ==
    /\ At("returned")
    /\ Close \/ Reconnect
    /\ raised' = FALSE
    /\ UNCHANGED <<ruby, results>>

RubyNext ==
    \/ open_index
    \/ execute_internal
    \/ execute_multi_internal
    \/ Raise
    \/ Buffer
    \/ Send
    \/ Recv
    \/ Rows
    \/ Remove
    \/ CloseOrReconnect
    \/ ServerAnswer /\ ruby # AnyCaller /\ UNCHANGED rubyVars
    \/ Next /\ ruby = AnyCaller /\ UNCHANGED rubyVars

RubySpec == RubyInit /\ [][RubyNext]_allVars

-----------------------------------------------------------------------------
(***************************************************************************)
(* The k-th result of a method is for its k-th request: answers are off    *)
(* by the requests that an exception left in the client before, by exactly *)
(* as many, and not at all if there was none.  Failures, error responses   *)
(* in the middle of a batch and new connections do not shift them.         *)
(***************************************************************************)
ResultsInOrder ==
    /\ \A k \in 1 .. Len(results) :
           results[k].code >= 0 /\ ruby.pc # "returned" =>
               results[k].req + ruby.left = ruby.first + k - 1
    /\ ruby.left > 0 => raised \/ cli.error_code < 0

(***************************************************************************)
(* Between two methods an open client is at a stable point or has failed,  *)
(* unless an exception interfered: no method leaves an answer behind that  *)
(* would make the next one fail.                                           *)
(***************************************************************************)
StableBetweenMethods ==
    At("returned") /\ cli.fd # "none" /\ cli.error_code >= 0 /\ ~raised
        => stable_point(cli)
=============================================================================
