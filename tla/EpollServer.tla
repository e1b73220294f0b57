------------------------------ MODULE EpollServer ------------------------------
(***************************************************************************)
(* The stand-in for an API process (rinha/epoll.cc): one thread accepts    *)
(* connections on a UNIX socket and reads requests, and puts the           *)
(* descriptor of each in a queue from which a pool of threads              *)
(* (rinha/thread_pool_200.cc) takes it, sleeps and writes a fixed answer.  *)
(* The queue is a std::queue under a mutex and a condition variable.       *)
(*                                                                         *)
(* A task holds only a descriptor: for the properties it also notes whose  *)
(* request it is for.  Requests fit in the 4096 bytes of one read.  The    *)
(* kernel's side and the clients are external.                             *)
(***************************************************************************)
EXTENDS Integers, Sequences, FiniteSets

CONSTANTS
    Workers,        \* threads of the pool
    Main,           \* the thread of main()
    NumClients,     \* bound: connections over the process's life
    Fds,            \* descriptors accept() may return
    server_fd,      \* the listening socket
    None,
    MAX_EVENTS,     \* events one epoll_wait may return
    Requests,       \* bound: requests of each client
    Hasty,          \* clients that may close before they have their response
    Spurious        \* bound: spurious wake-ups of the condition variable

Clients == 1 .. NumClients      \* in the order in which they connect

ASSUME FdsAssumption == Fds \subseteq Nat /\ server_fd \notin Fds
ASSUME ThreadsAssumption == Main \notin Workers /\ None \notin Workers \cup {Main}
ASSUME NoneAssumption ==
    None \notin Clients \cup [client_fd : Fds, for : Clients]
ASSUME BoundsAssumption ==
    /\ NumClients \in Nat /\ MAX_EVENTS \in Nat \ {0} /\ Spurious \in Nat
    /\ Requests \in [Clients -> Nat] /\ Hasty \subseteq Clients

VARIABLES
    tasks, queue_mutex,     \* queue_mutex: the thread that holds it, or None
    waiting,    \* threads blocked on the condition variable
    worker,     \* control point and task of each thread of the pool
    main,       \* control point and locals of main()
    killed,     \* SIGPIPE ended the process
    spurious,   \* spurious wake-ups so far
    ready,      \* the ready list of the epoll instance
    watched,    \* descriptors that were added to it
    peer,       \* the client behind each open descriptor
    backlog,    \* clients that accept() has not returned
    client,     \* what each client is doing
    asked,      \* requests it sent
    unread,     \* of them, the ones that were not read
    got,        \* whose responses it received
    early       \* history: clients that closed before their response

poolVars == <<tasks, queue_mutex, waiting, worker, spurious>>
kernelVars == <<ready, watched, peer, backlog>>
clientVars == <<client, asked, unread, got, early>>
vars == <<poolVars, main, killed, kernelVars, clientVars>>

Init ==
    /\ tasks = <<>> /\ queue_mutex = None
    /\ waiting = {} /\ spurious = 0
    /\ worker = [w \in Workers |-> [pc |-> "lock", task |-> None]]
    /\ main = [pc |-> "epoll_wait", events |-> <<>>, fd |-> None, for |-> None]
    /\ killed = FALSE
    /\ ready = <<>> /\ watched = {} /\ backlog = <<>>
    /\ peer = [f \in Fds |-> None]
    /\ client = [c \in Clients |-> "new"]
    /\ asked = [c \in Clients |-> 0] /\ unread = [c \in Clients |-> 0]
    /\ got = [c \in Clients |-> <<>>]
    /\ early = {}

MainAt(label) == ~killed /\ main.pc = label
WorkerAt(w, label) == ~killed /\ worker[w].pc = label

-----------------------------------------------------------------------------
(* The kernel.                                                             *)

Notified(list, f) == IF \E i \in 1 .. Len(list) : list[i] = f THEN list ELSE Append(list, f)

(* Something happened on the connection of client c. *)
Notify(c) ==
    ready' = IF \E f \in watched : peer[f] = c
             THEN Notified(ready, CHOOSE f \in watched : peer[f] = c)
             ELSE ready

HungUp(f) == f # server_fd /\ client[peer[f]] = "closed"

(* The ready list without a descriptor, which is on it at most once. *)
Without(list, f) ==
    IF \E i \in 1 .. Len(list) : list[i] = f
    THEN LET i == CHOOSE i \in 1 .. Len(list) : list[i] = f
         IN  SubSeq(list, 1, i - 1) \o SubSeq(list, i + 1, Len(list))
    ELSE list

close(f) ==
    /\ peer' = [peer EXCEPT ![f] = None]
    /\ watched' = watched \ {f}
    /\ ready' = Without(ready, f)
    /\ UNCHANGED backlog

Unused == {f \in Fds : peer[f] = None}
Lowest == CHOOSE f \in Unused : \A g \in Unused : f <= g

-----------------------------------------------------------------------------
(* The thread of main().                                                   *)

epoll_wait ==
    LET n == IF Len(ready) < MAX_EVENTS THEN Len(ready) ELSE MAX_EVENTS IN
    /\ MainAt("epoll_wait")
    /\ n > 0
    /\ main' = [main EXCEPT !.pc = "event",
                            !.events = [i \in 1 .. n |-> [fd |-> ready[i], hup |-> HungUp(ready[i])]]]
    /\ ready' = SubSeq(ready, n + 1, Len(ready))
    /\ UNCHANGED <<poolVars, killed, watched, peer, backlog, clientVars>>

(* The event that is being handled. *)
event == Head(main.events)

(* The loop goes on with the next event, or to epoll_wait. *)
NextEvent ==
    main' = [pc |-> IF Len(main.events) = 1 THEN "epoll_wait" ELSE "event",
             events |-> Tail(main.events), fd |-> None, for |-> None]

HandleError ==
    /\ MainAt("event")
    /\ event.hup
    /\ close(event.fd)
    /\ NextEvent
    /\ UNCHANGED <<poolVars, killed, clientVars>>

HandleEvent ==
    /\ MainAt("event")
    /\ ~event.hup
    /\ main' = [main EXCEPT !.pc = IF event.fd = server_fd THEN "accept" ELSE "read"]
    /\ UNCHANGED <<poolVars, killed, kernelVars, clientVars>>

(* Mutant: one connection is accepted for each event. *)
accept_Once ==
    /\ MainAt("accept")
    /\ IF backlog # <<>> /\ main.fd = None
       THEN /\ peer' = [peer EXCEPT ![Lowest] = Head(backlog)]
            /\ backlog' = Tail(backlog)
            /\ main' = [main EXCEPT !.pc = "add", !.fd = Lowest]
       ELSE NextEvent /\ UNCHANGED <<peer, backlog>>
    /\ UNCHANGED <<poolVars, killed, ready, watched, clientVars>>

(* accept() until it has nothing to return. *)
accept ==
    /\ MainAt("accept")
    /\ IF backlog # <<>> /\ Unused # {}
       THEN /\ peer' = [peer EXCEPT ![Lowest] = Head(backlog)]
            /\ backlog' = Tail(backlog)
            /\ main' = [main EXCEPT !.pc = "add", !.fd = Lowest]
       ELSE NextEvent /\ UNCHANGED <<peer, backlog>>
    /\ UNCHANGED <<poolVars, killed, ready, watched, clientVars>>

(* An event that is already there is reported when the descriptor is added. *)
epoll_ctl_add ==
    LET c == peer[main.fd] IN
    /\ MainAt("add")
    /\ watched' = watched \cup {main.fd}
    /\ ready' = IF unread[c] > 0 \/ client[c] = "closed" THEN Notified(ready, main.fd) ELSE ready
    /\ main' = [main EXCEPT !.pc = "accept"]
    /\ UNCHANGED <<poolVars, killed, peer, backlog, clientVars>>

(* read() takes what has arrived, and each time a task is queued.  With    *)
(* nothing to read the loop ends, at the end of the file with a close().   *)
read ==
    LET f == event.fd
        c == peer[f]
    IN  /\ MainAt("read")
        /\ \/ /\ unread[c] > 0
              /\ unread' = [unread EXCEPT ![c] = 0]
              /\ main' = [main EXCEPT !.pc = "enqueue", !.fd = f, !.for = c]
              /\ UNCHANGED kernelVars
           \/ /\ unread[c] = 0 /\ client[c] = "closed"
              /\ close(f)
              /\ NextEvent
              /\ UNCHANGED unread
           \/ /\ unread[c] = 0 /\ client[c] # "closed"
              /\ NextEvent
              /\ UNCHANGED <<kernelVars, unread>>
        /\ UNCHANGED <<poolVars, killed, client, asked, got, early>>

(* EnqueueProcessRequest: the mutex covers the push, not the notification. *)
EnqueueLock ==
    /\ MainAt("enqueue")
    /\ queue_mutex = None
    /\ queue_mutex' = Main
    /\ main' = [main EXCEPT !.pc = "push"]
    /\ UNCHANGED <<tasks, waiting, worker, spurious, killed, kernelVars, clientVars>>

EnqueuePush ==
    /\ MainAt("push")
    /\ tasks' = Append(tasks, [client_fd |-> main.fd, for |-> main.for])
    /\ queue_mutex' = None
    /\ main' = [main EXCEPT !.pc = "notify"]
    /\ UNCHANGED <<waiting, worker, spurious, killed, kernelVars, clientVars>>

(* One blocked thread, any of them, goes on to lock the mutex again. *)
Wake(w) ==
    /\ waiting' = waiting \ {w}
    /\ worker' = [worker EXCEPT ![w].pc = "lock"]

(* Mutant: the thread is woken only when the queue holds two tasks. *)
NotifyOne_Late ==
    /\ MainAt("notify")
    /\ IF Len(tasks) < 2 THEN UNCHANGED <<waiting, worker>>
       ELSE IF waiting = {} THEN UNCHANGED <<waiting, worker>>
       ELSE \E w \in waiting : Wake(w)
    /\ main' = [main EXCEPT !.pc = "read", !.fd = None, !.for = None]
    /\ UNCHANGED <<tasks, queue_mutex, spurious, killed, kernelVars, clientVars>>

NotifyOne ==
    /\ MainAt("notify")
    /\ IF waiting = {} THEN UNCHANGED <<waiting, worker>>
       ELSE \E w \in waiting : Wake(w)
    /\ main' = [main EXCEPT !.pc = "read", !.fd = None, !.for = None]
    /\ UNCHANGED <<tasks, queue_mutex, spurious, killed, kernelVars, clientVars>>

-----------------------------------------------------------------------------
(* A thread of the pool.                                                   *)

WorkerLock(w) ==
    /\ WorkerAt(w, "lock")
    /\ queue_mutex = None
    /\ queue_mutex' = w
    /\ worker' = [worker EXCEPT ![w].pc = "test"]
    /\ UNCHANGED <<tasks, waiting, spurious, main, killed, kernelVars, clientVars>>

(* Mutant: the task stays in the queue until it has been served. *)
TakeTask_NoPop(w) ==
    /\ WorkerAt(w, "test")
    /\ tasks # <<>>
    /\ worker' = [worker EXCEPT ![w] = [pc |-> "serve", task |-> Head(tasks)]]
    /\ queue_mutex' = None
    /\ UNCHANGED <<tasks, waiting, spurious, main, killed, kernelVars, clientVars>>

(* The predicate of wait() holds; stop is never set. *)
TakeTask(w) ==
    /\ WorkerAt(w, "test")
    /\ tasks # <<>>
    /\ worker' = [worker EXCEPT ![w] = [pc |-> "serve", task |-> Head(tasks)]]
    /\ tasks' = Tail(tasks)
    /\ queue_mutex' = None
    /\ UNCHANGED <<waiting, spurious, main, killed, kernelVars, clientVars>>

(* It does not: the thread blocks and gives the mutex up in one step. *)
Wait(w) ==
    /\ WorkerAt(w, "test")
    /\ tasks = <<>>
    /\ worker' = [worker EXCEPT ![w].pc = "wait"]
    /\ waiting' = waiting \cup {w}
    /\ queue_mutex' = None
    /\ UNCHANGED <<tasks, spurious, main, killed, kernelVars, clientVars>>

SpuriousWake(w) ==
    /\ WorkerAt(w, "wait")
    /\ spurious < Spurious
    /\ spurious' = spurious + 1
    /\ Wake(w)
    /\ UNCHANGED <<tasks, queue_mutex, main, killed, kernelVars, clientVars>>

(* The answer goes to whatever the descriptor designates after the sleep:  *)
(* nothing, a client that is there, or one that has closed, and then       *)
(* SIGPIPE ends the process.                                               *)
Serve(w) ==
    LET t == worker[w].task
        c == peer[t.client_fd]
    IN  /\ WorkerAt(w, "serve")
        /\ killed' = (c # None /\ client[c] = "closed")
        /\ got' = IF c = None \/ killed' THEN got ELSE [got EXCEPT ![c] = Append(@, t.for)]
        /\ worker' = [worker EXCEPT ![w] = [pc |-> "lock", task |-> None]]
        /\ UNCHANGED <<tasks, queue_mutex, waiting, spurious, main, kernelVars,
                       client, asked, unread, early>>

-----------------------------------------------------------------------------
(* Clients: one request at a time, as the router sends them.               *)

(* Load: connections that have no descriptor yet will find one. *)
Connect(c) ==
    /\ ~killed
    /\ client[c] = "new"
    /\ \A d \in Clients : d < c => client[d] # "new"
    /\ Cardinality(Unused) > Len(backlog)
    /\ client' = [client EXCEPT ![c] = "open"]
    /\ backlog' = Append(backlog, c)
    /\ ready' = Notified(ready, server_fd)
    /\ UNCHANGED <<poolVars, main, killed, watched, peer, asked, unread, got, early>>

Send(c) ==
    /\ ~killed
    /\ client[c] = "open"
    /\ asked[c] < Requests[c] /\ asked[c] <= Len(got[c])
    /\ asked' = [asked EXCEPT ![c] = @ + 1]
    /\ unread' = [unread EXCEPT ![c] = @ + 1]
    /\ Notify(c)
    /\ UNCHANGED <<poolVars, main, killed, watched, peer, backlog, client, got, early>>

Disconnect(c) ==
    /\ ~killed
    /\ client[c] = "open"
    /\ c \in Hasty \/ asked[c] <= Len(got[c])
    /\ client' = [client EXCEPT ![c] = "closed"]
    /\ early' = IF asked[c] <= Len(got[c]) THEN early ELSE early \cup {c}
    /\ Notify(c)
    /\ UNCHANGED <<poolVars, main, killed, watched, peer, backlog, asked, unread, got>>

(* Every client has gone, or the process has. *)
Stopped ==
    /\ \/ killed
       \/ /\ \A c \in Clients : client[c] = "closed"
          /\ main.pc = "epoll_wait" /\ ready = <<>> /\ waiting = Workers
    /\ UNCHANGED vars

MainNext ==
    \/ epoll_wait \/ HandleError \/ HandleEvent \/ accept \/ epoll_ctl_add
    \/ read \/ EnqueueLock \/ EnqueuePush \/ NotifyOne

WorkerNext(w) == WorkerLock(w) \/ TakeTask(w) \/ Wait(w) \/ Serve(w)

Next ==
    \/ MainNext
    \/ \E w \in Workers : WorkerNext(w) \/ SpuriousWake(w)
    \/ \E c \in Clients : Connect(c) \/ Send(c) \/ Disconnect(c)
    \/ Stopped

Spec == Init /\ [][Next]_vars

(* Every thread runs; clients may stay silent. *)
Fairness ==
    /\ WF_vars(MainNext)
    /\ \A w \in Workers : WF_vars(WorkerNext(w))

FairSpec == Spec /\ Fairness

-----------------------------------------------------------------------------
(* Responses to requests of client c that were delivered, to anyone. *)
Deliveries(c) ==
    Cardinality(UNION {{<<d, k>> : k \in {i \in 1 .. Len(got[d]) : got[d][i] = c}} : d \in Clients})

(* Tasks for client c in the queue or in the hands of a thread. *)
Underway(c) ==
    Cardinality({i \in 1 .. Len(tasks) : tasks[i].for = c})
        + Cardinality({w \in Workers : worker[w].task # None /\ worker[w].task.for = c})

(***************************************************************************)
(* The pool serves every task once: however the threads interleave, a      *)
(* request is unread, about to be queued, queued, in the hands of one      *)
(* thread, or answered, and only one of these, while clients wait for      *)
(* their responses; and the responses are their own.  A client that closes *)
(* early may leave a task whose descriptor is then another client's; even  *)
(* so no task is served twice.                                             *)
(***************************************************************************)
TasksServedOnce ==
    \A c \in Clients :
        LET inHand == IF main.for = c /\ main.pc \in {"enqueue", "push"} THEN 1 ELSE 0
            total == unread[c] + inHand + Underway(c) + Deliveries(c)
        IN  /\ total <= asked[c]
            /\ early = {} => /\ ~killed
                             /\ total = asked[c]
                             /\ \A k \in 1 .. Len(got[c]) : got[c][k] = c

(***************************************************************************)
(* No wake-up is lost between the push, the notification and the threads   *)
(* that test the queue, and no edge-triggered event between main() and the *)
(* kernel: every request of a client that waits is answered.               *)
(***************************************************************************)
RequestsAnswered ==
    \A c \in Clients : asked[c] > Len(got[c]) ~> asked[c] <= Len(got[c]) \/ early # {}

(***************************************************************************)
(* The descriptor of a client that closed is given back, whether main()    *)
(* learns of it from EPOLLHUP or from the end of the file, early or not.   *)
(***************************************************************************)
DescriptorsReleased ==
    \A c \in Clients : client[c] = "closed" ~>
        \/ killed
        \/ /\ \A f \in Fds : peer[f] # c
           /\ \A i \in 1 .. Len(backlog) : backlog[i] # c
=============================================================================
