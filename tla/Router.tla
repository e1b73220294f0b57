-------------------------------- MODULE Router --------------------------------
(***************************************************************************)
(* The reverse proxy of rinha/thread_pool_router.cc.  Threads share one    *)
(* epoll instance.  Each TCP connection is paired, from accept to close,   *)
(* with one of the UNIX connections opened at start-up to the two API      *)
(* processes; free UNIX connections wait in two rings of atomic indices.   *)
(* The maps between the two kinds of descriptor are plain arrays.          *)
(*                                                                         *)
(* A message is known by the client that asked for it, which the program   *)
(* cannot see: bytes are only told apart by the descriptor they come from. *)
(* The kernel (epoll, sockets) and the API processes are external.         *)
(***************************************************************************)
EXTENDS Integers, Sequences, FiniteSets

CONSTANTS
    Threads,        \* worker threads
    NumClients,     \* bound: TCP connections over the router's life
    TcpFds,         \* descriptors accept() may return; the kernel reuses them
    UnixFds,        \* descriptors of the UNIX connections
    SideOf,         \* 1 or 2: the API process a UNIX connection leads to
    InitialRing,    \* what InitializeThreadPool puts in the rings, by side
    kMaxConnections,    \* length of each ring
    None,           \* -1
    Hasty,          \* clients that may close before they have their response
    Warm,           \* connections each side may have served, one at a time,
                    \* before the behaviour starts
    MaxOpen,        \* load: connections the router has not closed yet
    Prompt,         \* no thread is stopped between moving an index of a ring
                    \* and accessing the slot for so long that another thread
                    \* moves an index to the same slot
    Requests        \* bound: requests of each client

Sides == {1, 2}
Clients == 1 .. NumClients      \* in the order in which they connect

ASSUME FdsAssumption == TcpFds \subseteq Nat /\ TcpFds \cap UnixFds = {}
ASSUME SidesAssumption == SideOf \in [UnixFds -> Sides]
ASSUME RingAssumption ==
    /\ kMaxConnections \in Nat \ {0}
    /\ \A s \in Sides : /\ InitialRing[s] \in Seq(UnixFds)
                        /\ Len(InitialRing[s]) < kMaxConnections
                        /\ \A k \in 1 .. Len(InitialRing[s]) : SideOf[InitialRing[s][k]] = s
                        /\ \A j, k \in 1 .. Len(InitialRing[s]) :
                               InitialRing[s][j] = InitialRing[s][k] => j = k
                        /\ \A u \in UnixFds : SideOf[u] = s =>
                               \E k \in 1 .. Len(InitialRing[s]) : InitialRing[s][k] = u
                        /\ InitialRing[s] = << >> => Warm \subseteq {0}
ASSUME NoneAssumption == None \notin TcpFds \cup UnixFds \cup Clients
ASSUME PromptAssumption == Prompt \in BOOLEAN
ASSUME BoundsAssumption ==
    /\ NumClients \in Nat /\ Requests \in [Clients -> Nat] /\ MaxOpen \in Nat
    /\ Hasty \subseteq Clients /\ Warm \subseteq Nat

VARIABLES
    tcp_to_unix, unix_to_tcp,
    available,      \* available_unix_connections_1 and _2
    start_idx, end_idx,
    round_robin_counter,
    thread,         \* control point and locals of each thread
    aborted,        \* a CHECK failed
    armed,          \* descriptors whose EPOLLONESHOT event is enabled
    peer,           \* the client behind each open TCP descriptor
    client,         \* what each client is doing
    sent,           \* requests a client sent that the router has not read
    fin,            \* clients that closed their end
    asked,          \* requests each client made in all
    toServer, toRouter, \* bytes on each UNIX connection
    got,            \* history: whose responses each client received
    early           \* history: clients that closed before their response

mapVars == <<tcp_to_unix, unix_to_tcp>>
ringVars == <<available, start_idx, end_idx>>
clientVars == <<client, sent, fin, asked, early>>
vars == <<mapVars, ringVars, round_robin_counter, thread, aborted, armed, peer,
          clientVars, toServer, toRouter, got>>

Idle == [pc |-> "wait", src |-> None, dst |-> None, idx |-> 0, side |-> 1,
         buf |-> << >>, closed |-> FALSE]

(* create_unix_socket_connection notes in connection_1_fds which side a    *)
(* descriptor belongs to.                                                  *)
ConnectionsTo(s) == {u \in UnixFds : SideOf[u] = s}

(* What the k-th place of side s was given last, when n places have been   *)
(* used: connections served one at a time come back in turn.               *)
Slot(s, k, n) ==
    LET used == {j \in 0 .. n - 1 : j % kMaxConnections = k}
        last == CHOOSE j \in used : \A i \in used : i <= j
    IN  IF used = {} THEN None
        ELSE InitialRing[s][(last % Len(InitialRing[s])) + 1]

(* InitializeThreadPool: every UNIX connection is open, in epoll and free; *)
(* each side has since served the connections of Warm, one at a time.      *)
Init ==
    /\ tcp_to_unix = [f \in TcpFds |-> None]
    /\ unix_to_tcp = [u \in UnixFds |-> None]
    /\ \E served \in Warm :
        /\ start_idx = [s \in Sides |-> served]
        /\ end_idx = [s \in Sides |-> Len(InitialRing[s]) + served]
        /\ round_robin_counter = 2 * served
    /\ available = [s \in Sides |-> [k \in 0 .. kMaxConnections - 1 |-> Slot(s, k, end_idx[s])]]
    /\ thread = [t \in Threads |-> Idle]
    /\ aborted = FALSE
    /\ armed = ConnectionsTo(1) \cup ConnectionsTo(2)
    /\ peer = [f \in TcpFds |-> None]
    /\ client = [c \in Clients |-> "new"]
    /\ sent = [c \in Clients |-> << >>]
    /\ fin = {}
    /\ asked = [c \in Clients |-> 0]
    /\ toServer = [u \in UnixFds |-> << >>]
    /\ toRouter = [u \in UnixFds |-> << >>]
    /\ got = [c \in Clients |-> << >>]
    /\ early = {}

Running == ~aborted

At(t, label) == Running /\ thread[t].pc = label

Goto(t, r) == thread' = [thread EXCEPT ![t] = r]

-----------------------------------------------------------------------------
(* Accepting a connection.                                                 *)

(* The descriptor accept() returns, the lowest one that is not in use. *)
Unused == {f \in TcpFds : peer[f] = None}
Lowest == CHOOSE f \in Unused : \A g \in Unused : f <= g

(* Mutant: start_idx is loaded and not advanced. *)
Accept_NoAdvance(t, c) ==
    LET f == Lowest
        s == (round_robin_counter % 2) + 1
    IN
    /\ At(t, "wait")
    /\ client[c] = "connecting"
    /\ Unused # {}
    /\ peer' = [peer EXCEPT ![f] = c]
    /\ client' = [client EXCEPT ![c] = "open"]
    /\ round_robin_counter' = round_robin_counter + 1
    /\ UNCHANGED start_idx
    /\ Goto(t, [Idle EXCEPT !.pc = "take", !.src = f, !.side = s,
                            !.idx = start_idx[s] % kMaxConnections])
    /\ UNCHANGED <<mapVars, available, end_idx, aborted, armed, sent, fin, asked,
                   early, toServer, toRouter, got>>

(* accept() returns a descriptor; the counters pick a side and *)
(* an index of its ring.                                                   *)
Accept(t, c) ==
    LET f == Lowest
        s == (round_robin_counter % 2) + 1
    IN
    /\ At(t, "wait")
    /\ client[c] = "connecting"
    /\ Unused # {}
    /\ peer' = [peer EXCEPT ![f] = c]
    /\ client' = [client EXCEPT ![c] = "open"]
    /\ round_robin_counter' = round_robin_counter + 1
    /\ start_idx' = [start_idx EXCEPT ![s] = @ + 1]
    /\ Goto(t, [Idle EXCEPT !.pc = "take", !.src = f, !.side = s,
                            !.idx = start_idx[s] % kMaxConnections])
    /\ UNCHANGED <<mapVars, available, end_idx, aborted, armed, sent, fin, asked,
                   early, toServer, toRouter, got>>

(* A thread has reserved slot k of side s and not stored it yet, or has    *)
(* moved start_idx past it and not loaded it yet.                          *)
SlotAt(s, k, label) ==
    \E r \in Threads : thread[r].pc = label /\ thread[r].side = s /\ thread[r].idx = k
Unstored(s, k) == SlotAt(s, k, "store")
Unread(s, k) == SlotAt(s, k, "take")

(* Mutant: the descriptor is added to epoll before the maps are written. *)
TakeUnix_AddsFirst(t) ==
    LET u == available[thread[t].side][thread[t].idx] IN
    /\ At(t, "take")
    /\ Prompt => ~Unstored(thread[t].side, thread[t].idx)
    /\ aborted' = (u = None)
    /\ armed' = armed \cup {thread[t].src}
    /\ Goto(t, [thread[t] EXCEPT !.pc = "associate", !.dst = u])
    /\ UNCHANGED <<mapVars, ringVars, round_robin_counter, peer, clientVars,
                   toServer, toRouter, got>>

(* The slot is read, and CHECK(unix_fd != -1). *)
TakeUnix(t) ==
    LET u == available[thread[t].side][thread[t].idx] IN
    /\ At(t, "take")
    /\ Prompt => ~Unstored(thread[t].side, thread[t].idx)
    /\ aborted' = (u = None)
    /\ Goto(t, [thread[t] EXCEPT !.pc = "associate", !.dst = u])
    /\ UNCHANGED <<mapVars, ringVars, round_robin_counter, armed, peer, clientVars,
                   toServer, toRouter, got>>

(* Both maps are written, then the descriptor is added to epoll. *)
Associate(t) ==
    LET f == thread[t].src
        u == thread[t].dst
    IN  /\ At(t, "associate")
        /\ tcp_to_unix' = [tcp_to_unix EXCEPT ![f] = u]
        /\ unix_to_tcp' = [unix_to_tcp EXCEPT ![u] = f]
        /\ Goto(t, [thread[t] EXCEPT !.pc = "add"])
        /\ UNCHANGED <<ringVars, round_robin_counter, aborted, armed, peer,
                       clientVars, toServer, toRouter, got>>

AddToEpoll(t) ==
    /\ At(t, "add")
    /\ armed' = armed \cup {thread[t].src}
    /\ Goto(t, Idle)
    /\ UNCHANGED <<mapVars, ringVars, round_robin_counter, aborted, peer,
                   clientVars, toServer, toRouter, got>>

-----------------------------------------------------------------------------
(* Handling an event.                                                      *)

(* What read() delivers from a descriptor until EAGAIN, and end of file. *)
Pending(f) ==
    IF f \in UnixFds THEN toRouter[f]
    ELSE IF peer[f] = None THEN << >> ELSE sent[peer[f]]
AtEof(f) == f \in TcpFds /\ peer[f] \in fin

(* epoll_wait returns an event, which disarms the descriptor. *)
TakeEvent(t, f) ==
    /\ At(t, "wait")
    /\ f \in armed
    /\ Pending(f) # << >> \/ AtEof(f)
    /\ armed' = armed \ {f}
    /\ Goto(t, [Idle EXCEPT !.pc = "lookup", !.src = f])
    /\ UNCHANGED <<mapVars, ringVars, round_robin_counter, aborted, peer,
                   clientVars, toServer, toRouter, got>>

(* dst_fd from tcp_to_unix or else unix_to_tcp, and CHECK(dst_fd != -1). *)
Lookup(t) ==
    LET f == thread[t].src
        d == IF f \in TcpFds THEN tcp_to_unix[f] ELSE unix_to_tcp[f]
    IN  /\ At(t, "lookup")
        /\ aborted' = (d = None)
        /\ Goto(t, [thread[t] EXCEPT !.pc = "read", !.dst = d])
        /\ UNCHANGED <<mapVars, ringVars, round_robin_counter, armed, peer,
                       clientVars, toServer, toRouter, got>>

(* HandleMessage reads until EAGAIN or end of file. *)
Read(t) ==
    LET f == thread[t].src IN
    /\ At(t, "read")
    /\ IF f \in UnixFds
       THEN toRouter' = [toRouter EXCEPT ![f] = << >>] /\ UNCHANGED sent
       ELSE sent' = [sent EXCEPT ![peer[f]] = << >>] /\ UNCHANGED toRouter
    /\ Goto(t, [thread[t] EXCEPT !.pc = IF Pending(f) # << >> THEN "write" ELSE "erase",
                                 !.buf = Pending(f), !.closed = AtEof(f)])
    /\ UNCHANGED <<mapVars, ringVars, round_robin_counter, aborted, armed, peer,
                   client, fin, asked, early, toServer, got>>

(* Bytes written to a descriptor reach whatever it designates now; the     *)
(* result of write() is ignored.                                           *)
Deliver(d, bytes) ==
    IF d \in UnixFds
    THEN /\ toServer' = [toServer EXCEPT ![d] = @ \o bytes]
         /\ UNCHANGED got
    ELSE /\ got' = IF peer[d] = None \/ peer[d] \in fin THEN got
                   ELSE [got EXCEPT ![peer[d]] = @ \o bytes]
         /\ UNCHANGED toServer

Write(t) ==
    /\ At(t, "write")
    /\ Deliver(thread[t].dst, thread[t].buf)
    /\ Goto(t, [thread[t] EXCEPT !.pc = "rearm", !.buf = << >>])
    /\ UNCHANGED <<mapVars, ringVars, round_robin_counter, aborted, armed, peer,
                   clientVars, toRouter>>

(* Mutant: only the descriptor of a client is re-armed. *)
Rearm_TcpOnly(t) ==
    /\ At(t, "rearm")
    /\ armed' = armed \cup ({thread[t].src} \cap TcpFds)
    /\ aborted' = thread[t].closed
    /\ Goto(t, Idle)
    /\ UNCHANGED <<mapVars, ringVars, round_robin_counter, peer, clientVars,
                   toServer, toRouter, got>>

(* EPOLL_CTL_MOD, and CHECK(total_count == 0) when the source is closed:   *)
(* bytes and end of file in one event abort the router.                    *)
Rearm(t) ==
    /\ At(t, "rearm")
    /\ armed' = armed \cup {thread[t].src}
    /\ aborted' = thread[t].closed
    /\ Goto(t, Idle)
    /\ UNCHANGED <<mapVars, ringVars, round_robin_counter, peer, clientVars,
                   toServer, toRouter, got>>

(* Mutant: the pairing is left in unix_to_tcp. *)
EraseMaps_OneWay(t) ==
    LET f == thread[t].src
        u == tcp_to_unix[f]
    IN  /\ At(t, "erase")
        /\ tcp_to_unix' = [tcp_to_unix EXCEPT ![f] = None]
        /\ UNCHANGED unix_to_tcp
        /\ Goto(t, [thread[t] EXCEPT !.pc = "reserve", !.dst = u, !.side = SideOf[u]])
        /\ UNCHANGED <<ringVars, round_robin_counter, aborted, armed, peer,
                       clientVars, toServer, toRouter, got>>

(* erase_from_maps for a TCP descriptor whose client closed. *)
EraseMaps(t) ==
    LET f == thread[t].src
        u == tcp_to_unix[f]
    IN  /\ At(t, "erase")
        /\ unix_to_tcp' = [unix_to_tcp EXCEPT ![u] = None]
        /\ tcp_to_unix' = [tcp_to_unix EXCEPT ![f] = None]
        /\ Goto(t, [thread[t] EXCEPT !.pc = "reserve", !.dst = u, !.side = SideOf[u]])
        /\ UNCHANGED <<ringVars, round_robin_counter, aborted, armed, peer,
                       clientVars, toServer, toRouter, got>>

(* The index is advanced first, the slot is stored after that. *)
ReserveSlot(t) ==
    LET s == thread[t].side
        k == end_idx[s] % kMaxConnections
    IN
    /\ At(t, "reserve")
    /\ Prompt => ~Unstored(s, k) /\ ~Unread(s, k)
    /\ end_idx' = [end_idx EXCEPT ![s] = @ + 1]
    /\ Goto(t, [thread[t] EXCEPT !.pc = "store", !.idx = k])
    /\ UNCHANGED <<mapVars, available, start_idx, round_robin_counter, aborted,
                   armed, peer, clientVars, toServer, toRouter, got>>

StoreSlot(t) ==
    /\ At(t, "store")
    /\ available' = [available EXCEPT ![thread[t].side][thread[t].idx] = thread[t].dst]
    /\ Goto(t, [thread[t] EXCEPT !.pc = "close"])
    /\ UNCHANGED <<mapVars, start_idx, end_idx, round_robin_counter, aborted,
                   armed, peer, clientVars, toServer, toRouter, got>>

CloseTcp(t) ==
    /\ At(t, "close")
    /\ peer' = [peer EXCEPT ![thread[t].src] = None]
    /\ armed' = armed \ {thread[t].src}
    /\ Goto(t, Idle)
    /\ UNCHANGED <<mapVars, ringVars, round_robin_counter, aborted, clientVars,
                   toServer, toRouter, got>>

-----------------------------------------------------------------------------
(* External: clients and API processes.                                    *)

(* Load: few connections that the router has not closed yet, and a client  *)
(* connects when the side whose turn will come has a free UNIX connection. *)
OpenClients ==
    {c \in Clients : client[c] = "connecting" \/ \E f \in TcpFds : peer[f] = c}
Connecting == Cardinality({c \in Clients : client[c] = "connecting"})
HasRoom ==
    LET s == ((round_robin_counter + Connecting) % 2) + 1
    IN  /\ Cardinality(OpenClients) < MaxOpen
        /\ end_idx[s] - start_idx[s] > Connecting \div 2

Connect(c) ==
    /\ Running
    /\ HasRoom
    /\ client[c] = "new"
    /\ \A d \in Clients : d < c => client[d] # "new"
    /\ client' = [client EXCEPT ![c] = "connecting"]
    /\ UNCHANGED <<mapVars, ringVars, round_robin_counter, thread, aborted, armed,
                   peer, sent, fin, asked, early, toServer, toRouter, got>>

(* One request at a time, on an open connection. *)
Request(c) ==
    /\ Running
    /\ client[c] = "open" /\ c \notin fin
    /\ asked[c] < Requests[c]
    /\ asked[c] <= Len(got[c])
    /\ asked' = [asked EXCEPT ![c] = @ + 1]
    /\ sent' = [sent EXCEPT ![c] = Append(@, c)]
    /\ UNCHANGED <<mapVars, ringVars, round_robin_counter, thread, aborted, armed,
                   peer, client, fin, early, toServer, toRouter, got>>

Finish(c) ==
    /\ Running
    /\ client[c] = "open" /\ c \notin fin
    /\ c \in Hasty \/ Len(got[c]) >= asked[c]
    /\ early' = IF Len(got[c]) >= asked[c] THEN early ELSE early \cup {c}
    /\ fin' = fin \cup {c}
    /\ UNCHANGED <<mapVars, ringVars, round_robin_counter, thread, aborted, armed,
                   peer, client, sent, asked, toServer, toRouter, got>>

ServerReply(u) ==
    /\ Running
    /\ toServer[u] # << >>
    /\ toServer' = [toServer EXCEPT ![u] = Tail(@)]
    /\ toRouter' = [toRouter EXCEPT ![u] = Append(@, Head(toServer[u]))]
    /\ UNCHANGED <<mapVars, ringVars, round_robin_counter, thread, aborted, armed,
                   peer, clientVars, got>>

(* The process is gone, or every client is but those whose response went   *)
(* elsewhere after an early close.                                         *)
Stopped ==
    /\ \/ aborted
       \/ /\ fin = Clients \/ early # {}
          /\ \A t \in Threads : thread[t].pc = "wait"
    /\ UNCHANGED vars

ThreadNext(t) ==
    \/ \E c \in Clients : Accept(t, c)
    \/ TakeUnix(t)
    \/ Associate(t)
    \/ AddToEpoll(t)
    \/ \E f \in TcpFds \cup UnixFds : TakeEvent(t, f)
    \/ Lookup(t)
    \/ Read(t)
    \/ Write(t)
    \/ Rearm(t)
    \/ EraseMaps(t)
    \/ ReserveSlot(t)
    \/ StoreSlot(t)
    \/ CloseTcp(t)

Next ==
    \/ \E t \in Threads : ThreadNext(t)
    \/ \E c \in Clients : Connect(c) \/ Request(c) \/ Finish(c)
    \/ \E u \in UnixFds : ServerReply(u)
    \/ Stopped

Spec == Init /\ [][Next]_vars

Fairness ==
    /\ \A t \in Threads : WF_vars(ThreadNext(t))
    /\ \A u \in UnixFds : WF_vars(ServerReply(u))

FairSpec == Spec /\ Fairness

-----------------------------------------------------------------------------
(* How often client c's responses were delivered, to anyone. *)
Deliveries(c) ==
    Cardinality(UNION {{<<d, k>> : k \in {i \in 1 .. Len(got[d]) : got[d][i] = c}} : d \in Clients})

(***************************************************************************)
(* The router only knows descriptors, which it and the kernel reuse.  As   *)
(* long as every client waits for its responses, each goes to the client   *)
(* whose request it answers; and whatever clients do, none is delivered    *)
(* twice.                                                                  *)
(***************************************************************************)
ResponsesToOwner ==
    \A c \in Clients :
        /\ early = {} => \A k \in 1 .. Len(got[c]) : got[c][k] = c
        /\ Deliveries(c) <= asked[c]

(***************************************************************************)
(* Clients that wait for their responses and stay within the number of     *)
(* UNIX connections never bring the router down: no CHECK fails, unless    *)
(* some client closed its connection before its response.                  *)
(***************************************************************************)
NeverAborts == aborted => early # {}

(* The UNIX connections between start_idx and end_idx of side s, but for   *)
(* the slots a thread has reserved and not stored yet.                     *)
FreeSlots(s) ==
    {k \in start_idx[s] .. end_idx[s] - 1 : ~Unstored(s, k % kMaxConnections)}
Free(s) == {available[s][k % kMaxConnections] : k \in FreeSlots(s)}

(* The UNIX connections a thread is about to pair or to give back. *)
InHand(s) ==
    {thread[t].dst : t \in {r \in Threads :
        thread[r].pc \in {"associate", "reserve", "store"} /\ thread[r].side = s}}
        \cup {available[s][thread[t].idx] : t \in {r \in Threads :
                   /\ thread[r].pc = "take" /\ thread[r].side = s
                   /\ ~Unstored(s, thread[r].idx)}}
Paired(s) == {u \in UnixFds : SideOf[u] = s /\ unix_to_tcp[u] # None}

(***************************************************************************)
(* No UNIX connection is lost, duplicated or moved to the other side: each *)
(* is free, paired or in the hands of one thread, and only one of these.   *)
(***************************************************************************)
ConnectionsConserved ==
    \A s \in Sides :
        /\ Free(s) \cup InHand(s) \cup Paired(s) = {u \in UnixFds : SideOf[u] = s}
        /\ Free(s) \cap InHand(s) = {}
        /\ Free(s) \cap Paired(s) = {}
        /\ InHand(s) \cap Paired(s) = {}
        /\ Cardinality(Free(s)) = Cardinality(FreeSlots(s))

(* The elements of the maps that a thread's next step writes, or accesses. *)
Writes(t) ==
    CASE At(t, "associate") -> {<<"tcp", thread[t].src>>, <<"unix", thread[t].dst>>}
      [] At(t, "erase") -> {<<"tcp", thread[t].src>>,
                            <<"unix", tcp_to_unix[thread[t].src]>>}
      [] OTHER -> {}
Accesses(t) ==
    IF At(t, "lookup")
    THEN {<<IF thread[t].src \in TcpFds THEN "tcp" ELSE "unix", thread[t].src>>}
    ELSE Writes(t)

(***************************************************************************)
(* tcp_to_unix and unix_to_tcp are plain ints, about which the code says   *)
(* "These are probably thread safe since the threads shouldn't access the  *)
(* same index at the same time": no thread is about to write an element    *)
(* that another is about to read or write.  The exception: the response to *)
(* a client that closed early may be looked up in unix_to_tcp while its    *)
(* pairing is erased or the next one is made.                              *)
(***************************************************************************)
MapsRaceFree ==
    \A t, r \in Threads : t # r =>
        \A element \in Writes(t) \cap Accesses(r) :
            early # {} /\ element[1] = "unix" /\ At(r, "lookup")

(***************************************************************************)
(* EPOLLET with EPOLLONESHOT loses no event, whichever thread takes it:    *)
(* every request is answered in the end if clients wait for responses.     *)
(***************************************************************************)
RequestsAnswered ==
    \A c \in Clients : asked[c] > Len(got[c]) ~> asked[c] <= Len(got[c]) \/ early # {}
=============================================================================
