----------------------------- MODULE IoThreadPool -----------------------------
(***************************************************************************)
(* The I/O threads of an API process (rinha/io_thread_pool.cc) and the way *)
(* they answer a request (rinha/request_processor.cc, rinha/from_http.cc). *)
(* The threads share one epoll instance whose events are edge-triggered    *)
(* but not one-shot, and a listening UNIX socket.  epoll_wait hands out    *)
(* events in batches, so an event may be old when its turn comes.          *)
(*                                                                         *)
(* The kernel's side (the ready list, descriptors, socket buffers) and the *)
(* clients, which are the router or nginx, are external.  A client does    *)
(* not send a request, or close, before it has the response to its last    *)
(* request.                                                                *)
(*                                                                         *)
(* A request is RequestSize units that arrive together.  A response is a   *)
(* header that announces whether a body follows, the body, and, for an     *)
(* accepted transaction, the NUL bytes at the end of                       *)
(* transaction_result_buffer: 71 bytes of header and 62 of body in an      *)
(* array of 140, all of which is sent.                                     *)
(***************************************************************************)
EXTENDS Integers, Sequences, FiniteSets

CONSTANTS
    Threads,                \* num_connection_threads
    NumClients,             \* bound: connections over the process's life
    NumFds,                 \* bound: descriptors for connections
    server_fd,              \* the listening socket
    None,
    kMaxEvents,             \* events one epoll_wait may return
    kBufferWrittableSize,   \* units a read buffer holds
    RequestSize,            \* units of a request
    SocketRoom,             \* parts of responses a socket buffer holds
    MaxOpen,                \* load: connections at a time; past NumFds accept()
                            \* fails, the loop ends and the event is used up
    Requests                \* bound: the kinds of each client's requests

Clients == 1 .. NumClients      \* in the order in which they connect
Fds == 1 .. NumFds
Kinds == {"transaction", "balance", "malformed"}

ASSUME FdAssumption == NumFds \in Nat /\ server_fd \notin Fds
ASSUME NoneAssumption == NumClients \in Nat /\ None \notin Clients \cup Fds
ASSUME SizeAssumption ==
    /\ kMaxEvents \in Nat \ {0}
    /\ RequestSize \in Nat \ {0}
    /\ kBufferWrittableSize \in Nat
    /\ SocketRoom \in Nat
    /\ MaxOpen \in Nat
ASSUME RequestsAssumption == Requests \in [Clients -> Seq(Kinds)]

VARIABLES
    thread,     \* control point and locals of each thread
    ready,      \* the ready list of the epoll instance
    watched,    \* connections' descriptors that were added to it
    desc,       \* the connection each descriptor designates, or None
    backlog,    \* connections that accept() has not returned
    client,     \* what each client is doing
    asked,      \* requests it sent
    inbox,      \* what it sent that was not read
    outbox,     \* what was written to it that it did not read
    got         \* what it read

kernelVars == <<ready, watched, desc, backlog>>
clientVars == <<client, asked, inbox, outbox, got>>
vars == <<thread, kernelVars, clientVars>>

(***************************************************************************)
(* Three kinds of records travel: an event has the descriptor fd, whether  *)
(* the connection was hung up (hup) and, for the properties only, the      *)
(* connection conn it was about; a unit of a request has its client, the   *)
(* number n of the request and its kind; a part of a response has the      *)
(* client and n it answers and which part it is ("head", "head+body",      *)
(* "body" or "nul").                                                       *)
(***************************************************************************)

Least(a, b) == IF a < b THEN a ELSE b

Idle == [pc |-> "wait", events |-> <<>>, infd |-> None, buffer |-> <<>>,
         done |-> FALSE, response |-> <<>>]

Init ==
    /\ thread = [t \in Threads |-> Idle]
    /\ ready = <<>>
    /\ watched = {}
    /\ desc = [f \in Fds |-> None]
    /\ backlog = <<>>
    /\ client = [c \in Clients |-> "new"]
    /\ asked = [c \in Clients |-> 0]
    /\ inbox = [c \in Clients |-> <<>>]
    /\ outbox = [c \in Clients |-> <<>>]
    /\ got = [c \in Clients |-> <<>>]

At(t, label) == thread[t].pc = label
Goto(t, r) == thread' = [thread EXCEPT ![t] = r]
FdOf(t) == Head(thread[t].events).fd

-----------------------------------------------------------------------------
(* The kernel.                                                             *)

(* Something happened on a descriptor: it is on the ready list, once. *)
Notified(list, f) == IF \E i \in 1 .. Len(list) : list[i] = f THEN list ELSE Append(list, f)

(* The same for the watched descriptor of a connection, if it has one. *)
NotifyConnection(c) ==
    ready' = IF \E f \in watched : desc[f] = c
             THEN Notified(ready, CHOOSE f \in watched : desc[f] = c)
             ELSE ready

(* The ready list without a descriptor, which is on it at most once. *)
Without(list, f) ==
    IF \E i \in 1 .. Len(list) : list[i] = f
    THEN LET i == CHOOSE i \in 1 .. Len(list) : list[i] = f
         IN  SubSeq(list, 1, i - 1) \o SubSeq(list, i + 1, Len(list))
    ELSE list

(* Closing a descriptor also takes it out of the epoll instance. *)
close(f) ==
    /\ desc' = [desc EXCEPT ![f] = None]
    /\ watched' = watched \ {f}
    /\ ready' = Without(ready, f)
    /\ UNCHANGED backlog

-----------------------------------------------------------------------------
(* The loop of a thread.                                                   *)

(* The peer of the connection has closed its end. *)
HungUp(c) == c # None /\ client[c] = "closed"

epoll_wait(t) ==
    LET n == Least(Len(ready), kMaxEvents)
        conn(f) == IF f = server_fd THEN None ELSE desc[f]
    IN  /\ At(t, "wait")
        /\ n > 0
        /\ Goto(t, [Idle EXCEPT
                !.pc = "event",
                !.events = [i \in 1 .. n |->
                              [fd |-> ready[i], hup |-> HungUp(conn(ready[i])),
                               conn |-> conn(ready[i])]]])
        /\ ready' = SubSeq(ready, n + 1, Len(ready))
        /\ UNCHANGED <<watched, desc, backlog, clientVars>>

(* The next event of the batch, or the next batch. *)
NextEvent(t) ==
    LET rest == Tail(thread[t].events)
    IN  [Idle EXCEPT !.pc = IF rest = <<>> THEN "wait" ELSE "event",
                     !.events = rest]

(* Mutant: the descriptor of a closed connection stays open. *)
HandleError_NoClose(t) ==
    /\ At(t, "event")
    /\ Head(thread[t].events).hup
    /\ Goto(t, NextEvent(t))
    /\ UNCHANGED <<kernelVars, clientVars>>

HandleError(t) ==
    /\ At(t, "event")
    /\ Head(thread[t].events).hup
    /\ close(FdOf(t))
    /\ Goto(t, NextEvent(t))
    /\ UNCHANGED clientVars

HandleListening(t) ==
    /\ At(t, "event")
    /\ ~Head(thread[t].events).hup
    /\ FdOf(t) = server_fd
    /\ Goto(t, [thread[t] EXCEPT !.pc = "accept"])
    /\ UNCHANGED <<kernelVars, clientVars>>

(* Mutant: done is left at 1 by an earlier end of a connection. *)
HandleReadable_NoReset(t) ==
    /\ At(t, "event")
    /\ ~Head(thread[t].events).hup
    /\ FdOf(t) # server_fd
    /\ Goto(t, [thread[t] EXCEPT !.pc = "read", !.done = TRUE, !.buffer = <<>>])
    /\ UNCHANGED <<kernelVars, clientVars>>

(* done and total_count start at 0 for every event. *)
HandleReadable(t) ==
    /\ At(t, "event")
    /\ ~Head(thread[t].events).hup
    /\ FdOf(t) # server_fd
    /\ Goto(t, [thread[t] EXCEPT !.pc = "read", !.done = FALSE, !.buffer = <<>>])
    /\ UNCHANGED <<kernelVars, clientVars>>

Free == {f \in Fds : desc[f] = None}
Lowest(S) == CHOOSE f \in S : \A g \in S : f <= g

(* accept() returns the lowest free descriptor, or -1 when nobody waits or *)
(* no descriptor is left, which both end the loop.                         *)
accept(t) ==
    /\ At(t, "accept")
    /\ IF backlog = <<>> \/ Free = {}
       THEN /\ Goto(t, NextEvent(t))
            /\ UNCHANGED kernelVars
       ELSE /\ desc' = [desc EXCEPT ![Lowest(Free)] = Head(backlog)]
            /\ backlog' = Tail(backlog)
            /\ Goto(t, [thread[t] EXCEPT !.pc = "add", !.infd = Lowest(Free)])
            /\ UNCHANGED <<ready, watched>>
    /\ UNCHANGED clientVars

(* The thread that called abort(); no other thread goes on either. *)
Aborted == [Idle EXCEPT !.pc = "aborted"]
Running == \A t \in Threads : ~At(t, "aborted")

(* Mutant: the loop ends after one connection. *)
epoll_ctl_add_Once(t) ==
    LET f == thread[t].infd
        c == desc[f]
    IN  /\ At(t, "add")
        /\ IF c = None
           THEN Goto(t, Aborted) /\ UNCHANGED <<ready, watched>>
           ELSE /\ watched' = watched \cup {f}
                /\ ready' = IF inbox[c] # <<>> \/ HungUp(c) THEN Notified(ready, f) ELSE ready
                /\ Goto(t, NextEvent(t))
        /\ UNCHANGED <<desc, backlog, clientVars>>

(* EPOLL_CTL_ADD reports at once what has happened already.  It fails, and *)
(* the process aborts, if the descriptor was closed meanwhile.             *)
epoll_ctl_add(t) ==
    LET f == thread[t].infd
        c == desc[f]
    IN  /\ At(t, "add")
        /\ IF c = None
           THEN Goto(t, Aborted) /\ UNCHANGED <<ready, watched>>
           ELSE /\ watched' = watched \cup {f}
                /\ ready' = IF inbox[c] # <<>> \/ HungUp(c) THEN Notified(ready, f) ELSE ready
                /\ Goto(t, [thread[t] EXCEPT !.pc = "accept"])
        /\ UNCHANGED <<desc, backlog, clientVars>>

(***************************************************************************)
(* One read() of what the buffer has room for.  It ends the loop when it   *)
(* returns -1 with EAGAIN, or 0 at the end of the connection, or 0 because *)
(* the buffer is full, or -1 because the descriptor is closed: the last    *)
(* three set done.                                                         *)
(***************************************************************************)
read(t) ==
    LET c == desc[FdOf(t)]
        room == kBufferWrittableSize - Len(thread[t].buffer)
        count == IF c = None THEN 0 ELSE Least(room, Len(inbox[c]))
    IN  /\ At(t, "read")
        /\ IF count > 0
           THEN /\ Goto(t, [thread[t] EXCEPT !.buffer = @ \o SubSeq(inbox[c], 1, count)])
                /\ inbox' = [inbox EXCEPT ![c] = SubSeq(@, count + 1, Len(@))]
           ELSE /\ Goto(t, [thread[t] EXCEPT
                        !.pc = IF thread[t].buffer = <<>> THEN "finish" ELSE "process",
                        !.done = @ \/ c = None \/ room = 0 \/ HungUp(c)])
                /\ UNCHANGED inbox
        /\ UNCHANGED <<kernelVars, client, asked, outbox, got>>

-----------------------------------------------------------------------------
(* ProcessRequest.                                                         *)

(* The buffer holds one request and nothing else. *)
Whole(buffer) ==
    /\ Len(buffer) = RequestSize
    /\ \A i \in 1 .. RequestSize : buffer[i] = buffer[1]

(* FromHttp on the bytes that were read: a request, or failure. *)
FromHttp(buffer) ==
    IF Whole(buffer) /\ buffer[1].kind # "malformed" THEN buffer[1].kind ELSE "none"

(* HandleRequest: the limit may be exceeded, the customer may not exist. *)
HandleRequest(kind) ==
    CASE kind = "transaction" -> {"SUCCESS", "INVALID_REQUEST", "NOT_FOUND"}
      [] kind = "balance" -> {"SUCCESS", "NOT_FOUND"}
      [] OTHER -> {"INVALID_REQUEST"}

(* The parts of the response that are sent, sizeof(array) in one case. *)
Parts(kind, result) ==
    CASE result = "SUCCESS" /\ kind = "transaction" -> <<"head+body", "body", "nul">>
      [] result = "SUCCESS" /\ kind = "balance" -> <<"head+body", "body">>
      [] OTHER -> <<"head">>

(* Whom a response is really for, which only the model knows. *)
Response(buffer, parts) ==
    [i \in 1 .. Len(parts) |->
        [client |-> IF Whole(buffer) THEN buffer[1].client ELSE None,
         n |-> IF Whole(buffer) THEN buffer[1].n ELSE 0,
         part |-> parts[i]]]

BuildResponse(t) ==
    LET kind == FromHttp(thread[t].buffer) IN
    /\ At(t, "process")
    /\ \E result \in HandleRequest(kind) :
          Goto(t, [thread[t] EXCEPT !.pc = "write",
                      !.response = Response(thread[t].buffer, Parts(kind, result))])
    /\ UNCHANGED <<kernelVars, clientVars>>

(***************************************************************************)
(* One write() of what is left of the response.  With a full socket buffer *)
(* (EAGAIN) the rest is dropped; with an error the descriptor is closed.   *)
(* (A peer that has closed would raise SIGPIPE, which nothing ignores; the *)
(* clients of this module have not closed.)                                *)
(***************************************************************************)
write(t) ==
    LET c == desc[FdOf(t)]
        response == thread[t].response
        room == IF c = None THEN 0 ELSE SocketRoom - Len(outbox[c])
        count == Least(room, Len(response))
        left == SubSeq(response, count + 1, Len(response))
    IN  /\ At(t, "write")
        /\ IF c = None
           THEN close(FdOf(t)) /\ UNCHANGED outbox
           ELSE /\ outbox' = [outbox EXCEPT ![c] = @ \o SubSeq(response, 1, count)]
                /\ UNCHANGED kernelVars
        /\ Goto(t, [thread[t] EXCEPT
                      !.response = left,
                      !.pc = IF count > 0 /\ left # <<>> THEN "write" ELSE "finish"])
        /\ UNCHANGED <<client, asked, inbox, got>>

(* The end of an event on a connection. *)
Finish(t) ==
    /\ At(t, "finish")
    /\ IF thread[t].done THEN close(FdOf(t)) ELSE UNCHANGED kernelVars
    /\ Goto(t, NextEvent(t))
    /\ UNCHANGED clientVars

-----------------------------------------------------------------------------
(* Clients (external).                                                     *)

(* The connections that the process has not closed. *)
Open == {c \in Clients : \/ \E f \in Fds : desc[f] = c
                         \/ \E i \in 1 .. Len(backlog) : backlog[i] = c}

Connect(c) ==
    /\ client[c] = "new"
    /\ \A d \in Clients : d < c => client[d] # "new"
    /\ Cardinality(Open) < MaxOpen
    /\ client' = [client EXCEPT ![c] = "idle"]
    /\ backlog' = Append(backlog, c)
    /\ ready' = Notified(ready, server_fd)
    /\ UNCHANGED <<thread, watched, desc, asked, inbox, outbox, got>>

Send(c) ==
    /\ client[c] = "idle"
    /\ asked[c] < Len(Requests[c])
    /\ client' = [client EXCEPT ![c] = "waiting"]
    /\ asked' = [asked EXCEPT ![c] = @ + 1]
    /\ inbox' = [inbox EXCEPT ![c] = @ \o
                   [i \in 1 .. RequestSize |->
                      [client |-> c, n |-> asked[c] + 1, kind |-> Requests[c][asked[c] + 1]]]]
    /\ NotifyConnection(c)
    /\ UNCHANGED <<thread, watched, desc, backlog, outbox, got>>

(* The responses a client has seen the end of, by their Content-Length. *)
Complete(stream) ==
    Cardinality({i \in 1 .. Len(stream) : stream[i].part \in {"head", "body"}})

Receive(c) ==
    /\ outbox[c] # <<>>
    /\ got' = [got EXCEPT ![c] = @ \o outbox[c]]
    /\ outbox' = [outbox EXCEPT ![c] = <<>>]
    /\ client' = [client EXCEPT ![c] =
                    IF @ = "waiting" /\ Complete(got'[c]) = asked[c] THEN "idle" ELSE @]
    /\ UNCHANGED <<thread, kernelVars, asked, inbox>>

Disconnect(c) ==
    /\ client[c] = "idle"
    /\ client' = [client EXCEPT ![c] = "closed"]
    /\ NotifyConnection(c)
    /\ UNCHANGED <<thread, watched, desc, backlog, asked, inbox, outbox, got>>

-----------------------------------------------------------------------------
ThreadStep(t) ==
    \/ epoll_wait(t)
    \/ HandleError(t)
    \/ HandleListening(t)
    \/ HandleReadable(t)
    \/ accept(t)
    \/ epoll_ctl_add(t)
    \/ read(t)
    \/ BuildResponse(t)
    \/ write(t)
    \/ Finish(t)

Next ==
    \/ \E t \in Threads : Running /\ ThreadStep(t)
    \/ \E c \in Clients :
          \/ Connect(c)
          \/ Send(c)
          \/ Receive(c)
          \/ Disconnect(c)

Spec == Init /\ [][Next]_vars

(* The threads never stop running, and clients read what they are sent. *)
Fairness ==
    /\ \A t \in Threads : WF_vars(Running /\ ThreadStep(t))
    /\ \A c \in Clients : WF_vars(Receive(c))

FairSpec == Spec /\ Fairness

-----------------------------------------------------------------------------
(***************************************************************************)
(* An event that a thread holds is still about the connection it was about *)
(* when epoll_wait returned it, however long the events before it in the   *)
(* batch took: no thread reads, writes or closes a descriptor that was     *)
(* closed meanwhile and given to another connection.  (A thread is through *)
(* with its current event once it has written and done is not set.)  Nor   *)
(* is a descriptor closed between accept() and epoll_ctl(), which aborts.  *)
(***************************************************************************)
OwnDescriptor ==
    /\ Running
    /\ \A t \in Threads : \A i \in 1 .. Len(thread[t].events) :
          LET e == thread[t].events[i]
              over == i = 1 /\ At(t, "finish") /\ ~thread[t].done
          IN  e.fd # server_fd /\ ~over => desc[e.fd] = e.conn

(***************************************************************************)
(* What a client reads are the responses to its own requests, one for each *)
(* and in their order, whichever threads served them.                      *)
(***************************************************************************)
OwnResponsesInOrder ==
    \A c \in Clients :
        LET stream == got[c] \o outbox[c]
        IN  \A i \in 1 .. Len(stream) :
               /\ stream[i].client = c
               /\ stream[i].part \in {"head", "body"}
                      => stream[i].n = Complete(SubSeq(stream, 1, i))

(* Every request is answered: edge-triggered events lose none. *)
RequestsAnswered ==
    \A c \in Clients : client[c] = "waiting" ~> client[c] = "idle"

(***************************************************************************)
(* The descriptor of a connection that its client closed is closed too,    *)
(* also when the client closed before accept() returned the connection.    *)
(***************************************************************************)
DescriptorsReleased ==
    \A c \in Clients :
        client[c] = "closed" ~> c \notin Open

(***************************************************************************)
(* A response is as long as its Content-Length says: on a connection that  *)
(* carries several, each header comes right after the end of the response  *)
(* before it.  Two comments in ProcessRequest say "Don't include null      *)
(* terminator".                                                            *)
(***************************************************************************)
ResponsesFramed ==
    \A c \in Clients : \A i \in 2 .. Len(got[c]) :
        got[c][i].part \in {"head", "head+body"}
            => got[c][i - 1].part \in {"head", "body"}
=============================================================================
