---------------------------- MODULE Router_proofs -----------------------------
(***************************************************************************)
(* Proofs about the reverse proxy of rinha/thread_pool_router.cc, for any  *)
(* number of threads, clients, descriptors and UNIX connections.           *)
(***************************************************************************)
EXTENDS Router, FiniteSetTheorems, FunctionTheorems, SequenceTheorems,
        NaturalsInduction, WellFoundedInduction, TLAPS

Fds == TcpFds \cup UnixFds

PCs == {"wait", "take", "associate", "add", "lookup", "read", "write", "rearm",
        "erase", "reserve", "store", "close"}

ThreadType ==
    [pc : PCs, src : Fds \cup {None}, dst : Fds \cup {None},
     idx : 0 .. kMaxConnections - 1, side : Sides, buf : Seq(Clients), closed : BOOLEAN]

TypeOK ==
    /\ tcp_to_unix \in [TcpFds -> UnixFds \cup {None}]
    /\ unix_to_tcp \in [UnixFds -> TcpFds \cup {None}]
    /\ available \in [Sides -> [0 .. kMaxConnections - 1 -> UnixFds \cup {None}]]
    /\ start_idx \in [Sides -> Nat]
    /\ end_idx \in [Sides -> Nat]
    /\ round_robin_counter \in Nat
    /\ thread \in [Threads -> ThreadType]
    /\ aborted \in BOOLEAN
    /\ armed \subseteq Fds
    /\ peer \in [TcpFds -> Clients \cup {None}]
    /\ client \in [Clients -> {"new", "connecting", "open"}]
    /\ sent \in [Clients -> Seq(Clients)]
    /\ fin \subseteq Clients
    /\ asked \in [Clients -> Nat]
    /\ toServer \in [UnixFds -> Seq(Clients)]
    /\ toRouter \in [UnixFds -> Seq(Clients)]
    /\ got \in [Clients -> Seq(Clients)]
    /\ early \subseteq Clients

Busy(t) == thread[t].pc # "wait"
Accepting == {"take", "associate"}
Closing == {"reserve", "store", "close"}
Handling == {"lookup", "read", "write", "rearm"}

(* EPOLLONESHOT: a descriptor is in the hands of at most one thread, and   *)
(* disarmed while it is; only TCP descriptors are accepted and closed, and *)
(* each has a client from accept() to close().                             *)
Exclusive ==
    /\ \A t \in Threads : Busy(t) =>
           /\ thread[t].src \in Fds
           /\ thread[t].src \notin armed
           /\ thread[t].src \in TcpFds => peer[thread[t].src] # None
           /\ thread[t].pc \notin Handling => thread[t].src \in TcpFds
    /\ \A t, r \in Threads :
           Busy(t) /\ Busy(r) /\ thread[t].src = thread[r].src => t = r
    /\ \A f \in TcpFds : f \in armed => peer[f] # None

(* A client has one connection. *)
Peers ==
    /\ \A f \in TcpFds : peer[f] # None => client[peer[f]] = "open"
    /\ \A f, g \in TcpFds : peer[f] # None /\ peer[f] = peer[g] => f = g

(* The maps are inverse to each other, and a TCP descriptor is paired from *)
(* Associate to EraseMaps.                                                 *)
Pairing ==
    /\ \A f \in TcpFds : tcp_to_unix[f] # None => unix_to_tcp[tcp_to_unix[f]] = f
    /\ \A u \in UnixFds : unix_to_tcp[u] # None => tcp_to_unix[unix_to_tcp[u]] = u
    /\ \A f \in TcpFds : f \in armed => tcp_to_unix[f] # None
    /\ \A f \in TcpFds : peer[f] = None => tcp_to_unix[f] = None
    /\ \A t \in Threads : Busy(t) /\ thread[t].src \in TcpFds =>
           (tcp_to_unix[thread[t].src] = None
                <=> thread[t].pc \in Accepting \cup Closing)
    /\ \A t \in Threads : thread[t].pc \in {"read", "write"} =>
           IF thread[t].src \in TcpFds
           THEN thread[t].dst = tcp_to_unix[thread[t].src]
           ELSE aborted \/ thread[t].dst \in TcpFds

-----------------------------------------------------------------------------
(* The rings.                                                              *)

(* Slot k is that of a number between start_idx and end_idx. *)
InWindow(s, k) ==
    \E n \in start_idx[s] .. end_idx[s] - 1 : n % kMaxConnections = k

(* Slot k holds a UNIX connection that was given back and not taken yet. *)
Stored(s, k) == (InWindow(s, k) \/ Unread(s, k)) /\ ~Unstored(s, k)

(* A thread has a UNIX connection in its hands. *)
Holds(t) == thread[t].pc \in {"associate", "reserve", "store"}

(* The numbers between the two indices have different slots, and no thread *)
(* is about to read one of them; two threads are never about to access the *)
(* same slot, but to store and then to read it.                            *)
Slots ==
    /\ \A s \in Sides : start_idx[s] <= end_idx[s]
                        /\ end_idx[s] - start_idx[s] < kMaxConnections
    /\ \A s \in Sides, k \in 0 .. kMaxConnections - 1 : Unread(s, k) => ~InWindow(s, k)
    /\ \A s \in Sides, k \in 0 .. kMaxConnections - 1 :
           Unstored(s, k) => InWindow(s, k) \/ Unread(s, k)
    /\ \A t, r \in Threads :
           /\ thread[t].pc = thread[r].pc /\ thread[t].pc \in {"take", "store"}
           /\ thread[t].side = thread[r].side /\ thread[t].idx = thread[r].idx
           => t = r

(* Every UNIX connection is in one slot, in one thread's hands or paired.  *)
Contents ==
    /\ \A s \in Sides, k \in 0 .. kMaxConnections - 1 : Stored(s, k) =>
           available[s][k] \in ConnectionsTo(s) /\ unix_to_tcp[available[s][k]] = None
    /\ \A s \in Sides, j, k \in 0 .. kMaxConnections - 1 :
           Stored(s, j) /\ Stored(s, k) /\ available[s][j] = available[s][k] => j = k
    /\ \A t \in Threads, s \in Sides : Holds(t) /\ thread[t].side = s =>
           /\ thread[t].dst \in ConnectionsTo(s)
           /\ unix_to_tcp[thread[t].dst] = None
           /\ \A k \in 0 .. kMaxConnections - 1 :
                  Stored(s, k) => available[s][k] # thread[t].dst
    /\ \A t, r \in Threads :
           Holds(t) /\ Holds(r) /\ thread[t].dst = thread[r].dst => t = r
    /\ \A s \in Sides, u \in UnixFds : SideOf[u] = s =>
           \/ unix_to_tcp[u] # None
           \/ \E t \in Threads : Holds(t) /\ thread[t].dst = u
           \/ \E k \in 0 .. kMaxConnections - 1 : Stored(s, k) /\ available[s][k] = u

(* The side whose turn is next has a free UNIX connection for every second *)
(* client that waits to be accepted, the other side for the others.        *)
Next_side == (round_robin_counter % 2) + 1
Room ==
    \A s \in Sides :
        end_idx[s] - start_idx[s]
            >= IF s = Next_side THEN (Connecting + 1) \div 2 ELSE Connecting \div 2

-----------------------------------------------------------------------------
(* The messages.                                                           *)

(* What is there to read of a descriptor whose event was taken stays       *)
(* there; a connection is only closed when its client closed it.           *)
Events ==
    /\ \A t \in Threads : thread[t].pc \in {"lookup", "read"} =>
           IF thread[t].src \in UnixFds THEN toRouter[thread[t].src] # << >>
           ELSE sent[peer[thread[t].src]] # << >> \/ peer[thread[t].src] \in fin
    /\ \A t \in Threads : thread[t].pc \in Closing \cup {"erase"} =>
           peer[thread[t].src] \in fin
    /\ \A t \in Threads : thread[t].pc # "write" => thread[t].buf = << >>

(* The places a message can be in. *)
Places == ({"sent"} \X Clients) \cup ({"buf"} \X Threads) \cup ({"toServer"} \X UnixFds)
              \cup ({"toRouter"} \X UnixFds) \cup ({"got"} \X Clients)
Box == [p \in Places |->
            CASE p[1] = "sent" -> sent[p[2]]
              [] p[1] = "buf" -> thread[p[2]].buf
              [] p[1] = "toServer" -> toServer[p[2]]
              [] p[1] = "toRouter" -> toRouter[p[2]]
              [] OTHER -> got[p[2]]]

(* Where the messages of client c are in the boxes B. *)
CopiesIn(B, c) == {x \in Places \X (Nat \ {0}) : x[2] <= Len(B[x[1]]) /\ B[x[1]][x[2]] = c}

(* No message is in two places. *)
Counted ==
    \A c \in Clients : /\ IsFiniteSet(CopiesIn(Box, c))
                       /\ Cardinality(CopiesIn(Box, c)) <= asked[c]

(* Until a client closes early, every message is on the way between the    *)
(* client and the UNIX connection that it is paired with.                  *)
AllOf(seq, c) == \A i \in 1 .. Len(seq) : seq[i] = c

Addressed ==
    /\ \A c \in Clients : AllOf(sent[c], c)
    /\ \A t \in Threads : thread[t].pc = "write" /\ thread[t].src \in TcpFds =>
           AllOf(thread[t].buf, peer[thread[t].src])
    /\ early = {} =>
        /\ \A u \in UnixFds : toServer[u] # << >> =>
               unix_to_tcp[u] # None /\ AllOf(toServer[u], peer[unix_to_tcp[u]])
        /\ \A u \in UnixFds : toRouter[u] # << >> =>
               unix_to_tcp[u] # None /\ AllOf(toRouter[u], peer[unix_to_tcp[u]])
        /\ \A t \in Threads : thread[t].pc = "read" /\ thread[t].src \in UnixFds =>
               thread[t].dst = unix_to_tcp[thread[t].src]
        /\ \A t \in Threads : thread[t].pc = "write" /\ thread[t].src \in UnixFds =>
               AllOf(thread[t].buf, peer[thread[t].dst])
        /\ \A c \in Clients : AllOf(got[c], c)
        /\ \A c \in fin : Len(got[c]) >= asked[c]
        /\ \A t \in Threads : thread[t].pc \in {"write", "rearm"} => ~thread[t].closed
        /\ ~aborted

Inv ==
    /\ TypeOK /\ Exclusive /\ Peers /\ Pairing /\ Slots /\ Contents /\ Room
    /\ Events /\ Counted /\ Addressed

-----------------------------------------------------------------------------
(* What the operators and the steps of Router come to.                     *)

LEMMA NoneIsNothing ==
    /\ None \notin TcpFds /\ None \notin UnixFds /\ None \notin Clients /\ None \notin Fds
    /\ \A f \in TcpFds : f \notin UnixFds
BY NoneAssumption, FdsAssumption DEF Fds

(* A set of numbers has a smallest one. *)
LEMMA Smallest ==
    ASSUME NEW S, S \subseteq Nat, S # {}
    PROVE  \E n \in S : \A m \in S : n <= m
<1> DEFINE R == OpToRel(<, Nat)
<1>1. IsWellFoundedOn(R, Nat)
    BY NatLessThanWellFounded
<1>2. \A m, n \in Nat : m < n => <<m, n>> \in R
    BY DEF OpToRel
<1> HIDE DEF R
<1>3. PICK n \in S : \A m \in S : ~(<<m, n>> \in R)
    BY <1>1, WFMin
<1>4. \A m \in S : m \in Nat /\ n \in Nat /\ ~(m < n)
    BY <1>2, <1>3, Zenon
<1> QED BY <1>3, <1>4

(* accept() returns a descriptor that is not in use. *)
LEMMA LowestUnused ==
    ASSUME TypeOK, Unused # {}
    PROVE  Lowest \in TcpFds /\ peer[Lowest] = None
<1>1. Unused \subseteq Nat
    BY FdsAssumption DEF Unused
<1>2. \E f \in Unused : \A g \in Unused : f <= g
    BY <1>1, Smallest
<1>3. Lowest \in Unused
    BY <1>2 DEF Lowest
<1> QED BY <1>3 DEF Unused

LEMMA ThreadFields ==
    ASSUME TypeOK, NEW t \in Threads
    PROVE  /\ thread[t] \in ThreadType
           /\ thread[t].pc \in PCs
           /\ thread[t].src \in Fds \cup {None}
           /\ thread[t].dst \in Fds \cup {None}
           /\ thread[t].idx \in 0 .. kMaxConnections - 1
           /\ thread[t].side \in Sides
           /\ thread[t].buf \in Seq(Clients)
           /\ thread[t].closed \in BOOLEAN
BY DEF TypeOK, ThreadType

LEMMA AvailableFields ==
    ASSUME TypeOK, NEW s \in Sides, NEW k \in 0 .. kMaxConnections - 1
    PROVE  available[s][k] \in UnixFds \cup {None}
<1> DEFINE D == 0 .. kMaxConnections - 1
<1>1. available \in [Sides -> [D -> UnixFds \cup {None}]] /\ k \in D
    BY DEF TypeOK
<1> HIDE DEF D
<1>2. available[s] \in [D -> UnixFds \cup {None}]
    BY <1>1, Zenon
<1> QED BY <1>1, <1>2, Zenon

(* A thread that waits for events holds nothing. *)
LEMMA IdleFields ==
    /\ Idle.pc = "wait" /\ Idle.buf = << >> /\ Idle.closed = FALSE
    /\ Idle \in ThreadType
<1>1. 0 \in 0 .. kMaxConnections - 1
    BY RingAssumption
<1>2. << >> \in Seq(Clients)
    OBVIOUS
<1> QED BY <1>1, <1>2 DEF Idle, ThreadType, PCs, Sides

(* A step of thread t changes no other thread. *)
OthersStay(t) == \A r \in Threads : r # t => thread'[r] = thread[r]

LEMMA Moved ==
    ASSUME TypeOK, NEW t \in Threads, NEW rec, Goto(t, rec)
    PROVE  /\ thread'[t] = rec /\ OthersStay(t)
           /\ rec \in ThreadType => thread' \in [Threads -> ThreadType]
BY DEF TypeOK, Goto, OthersStay

(* The fields of a thread that a step leaves alone. *)

LEMMA AcceptEffect ==
    ASSUME TypeOK, NEW t \in Threads, NEW c \in Clients, Accept(t, c)
    PROVE  \E f \in TcpFds, s \in Sides :
           /\ s = Next_side
           /\ peer[f] = None /\ peer' = [peer EXCEPT ![f] = c]
           /\ OthersStay(t)
           /\ thread[t].pc = "wait"
           /\ thread' \in [Threads -> ThreadType]
           /\ thread'[t].pc = "take" /\ thread'[t].src = f /\ thread'[t].side = s
           /\ thread'[t].idx = start_idx[s] % kMaxConnections
           /\ thread'[t].buf = << >>
           /\ start_idx' = [start_idx EXCEPT ![s] = @ + 1]
<1> DEFINE f == Lowest
           s == Next_side
<1>1. f \in TcpFds /\ peer[f] = None
    BY LowestUnused DEF Accept
<1>2. s \in Sides
    BY DEF TypeOK, Sides, Next_side
<1>3. start_idx[s] % kMaxConnections \in 0 .. kMaxConnections - 1
    <2> HIDE DEF s
    <2>1. start_idx[s] \in Nat /\ kMaxConnections \in Nat /\ kMaxConnections # 0
        BY <1>2, RingAssumption DEF TypeOK
    <2> HIDE DEF Sides
    <2> QED BY <2>1
<1> DEFINE k == start_idx[s] % kMaxConnections
           rec == [Idle EXCEPT !.pc = "take", !.src = f, !.side = s, !.idx = k]
<1>4. Goto(t, rec) /\ peer' = [peer EXCEPT ![f] = c] /\ thread[t].pc = "wait"
      /\ start_idx' = [start_idx EXCEPT ![s] = @ + 1]
    BY DEF Accept, At, Next_side
<1> HIDE DEF k, f, s
<1>5. /\ rec \in ThreadType /\ rec.pc = "take" /\ rec.src = f /\ rec.side = s
      /\ rec.idx = k /\ rec.buf = << >>
    <2>1. << >> \in Seq(Clients)
        OBVIOUS
    <2> QED BY <1>1, <1>2, <1>3, <2>1 DEF Idle, ThreadType, PCs, Fds, k
<1> HIDE DEF rec
<1>6. thread'[t] = rec /\ OthersStay(t) /\ thread' \in [Threads -> ThreadType]
    BY <1>4, <1>5, Moved
<1>7. s = Next_side /\ k = start_idx[s] % kMaxConnections
    BY DEF s, k
<1> QED BY <1>1, <1>2, <1>4, <1>5, <1>6, <1>7

LEMMA TakeUnixEffect ==
    ASSUME TypeOK, NEW t \in Threads, TakeUnix(t)
    PROVE  /\ ~aborted /\ aborted' = (thread'[t].dst = None)
           /\ OthersStay(t)
           /\ thread[t].pc = "take"
           /\ thread' \in [Threads -> ThreadType]
           /\ thread'[t].pc = "associate"
           /\ thread'[t].dst = available[thread[t].side][thread[t].idx]
           /\ thread'[t].src = thread[t].src /\ thread'[t].idx = thread[t].idx
           /\ thread'[t].side = thread[t].side /\ thread'[t].buf = thread[t].buf
<1> DEFINE u == available[thread[t].side][thread[t].idx]
           rec == [thread[t] EXCEPT !.pc = "associate", !.dst = u]
<1>1. Goto(t, rec) /\ ~aborted /\ thread[t].pc = "take" /\ aborted' = (u = None)
    BY DEF TakeUnix, At, Running
<1>2. u \in UnixFds \cup {None}
    BY ThreadFields, AvailableFields
<1> HIDE DEF u
<1>3. /\ rec \in ThreadType /\ rec.pc = "associate" /\ rec.dst = u
      /\ rec.src = thread[t].src /\ rec.idx = thread[t].idx
      /\ rec.side = thread[t].side /\ rec.buf = thread[t].buf
    BY ThreadFields, <1>2 DEF ThreadType, PCs, Fds
<1> HIDE DEF rec
<1>4. thread'[t] = rec /\ OthersStay(t) /\ thread' \in [Threads -> ThreadType]
    BY <1>1, <1>3, Moved
<1> QED BY <1>1, <1>3, <1>4 DEF u

LEMMA AssociateEffect ==
    ASSUME TypeOK, NEW t \in Threads, Associate(t)
    PROVE  /\ OthersStay(t)
           /\ thread[t].pc = "associate"
           /\ thread' \in [Threads -> ThreadType]
           /\ thread'[t].pc = "add"
           /\ thread'[t].src = thread[t].src /\ thread'[t].buf = thread[t].buf
<1> DEFINE rec == [thread[t] EXCEPT !.pc = "add"]
<1>1. Goto(t, rec) /\ thread[t].pc = "associate"
    BY DEF Associate, At
<1>2. rec \in ThreadType /\ rec.pc = "add" /\ rec.src = thread[t].src /\ rec.buf = thread[t].buf
    BY ThreadFields DEF ThreadType, PCs
<1> HIDE DEF rec
<1>3. thread'[t] = rec /\ OthersStay(t) /\ thread' \in [Threads -> ThreadType]
    BY <1>1, <1>2, Moved
<1> QED BY <1>1, <1>2, <1>3

(* AddToEpoll, Rearm and CloseTcp are the last steps of a thread. *)
LEMMA IdleEffect ==
    ASSUME TypeOK, NEW t \in Threads, Goto(t, Idle)
    PROVE  /\ OthersStay(t)
           /\ thread' \in [Threads -> ThreadType]
           /\ thread'[t].pc = "wait" /\ thread'[t].buf = << >>
BY Moved, IdleFields

LEMMA TakeEventEffect ==
    ASSUME TypeOK, NEW t \in Threads, NEW f \in Fds, TakeEvent(t, f)
    PROVE  /\ OthersStay(t)
           /\ thread[t].pc = "wait"
           /\ thread' \in [Threads -> ThreadType]
           /\ thread'[t].pc = "lookup"
           /\ thread'[t].src = f /\ thread'[t].buf = << >>
<1> DEFINE rec == [Idle EXCEPT !.pc = "lookup", !.src = f]
<1>1. Goto(t, rec) /\ thread[t].pc = "wait"
    BY DEF TakeEvent, At
<1>2. rec \in ThreadType /\ rec.pc = "lookup" /\ rec.src = f /\ rec.buf = << >>
    <2>1. Idle = [pc |-> "wait", src |-> None, dst |-> None, idx |-> 0, side |-> 1,
                  buf |-> << >>, closed |-> FALSE]
        BY DEF Idle
    <2>2. Idle \in ThreadType
        BY IdleFields
    <2> QED BY <2>1, <2>2 DEF ThreadType, PCs
<1> HIDE DEF rec
<1>3. thread'[t] = rec /\ OthersStay(t) /\ thread' \in [Threads -> ThreadType]
    BY <1>1, <1>2, Moved
<1> QED BY <1>1, <1>2, <1>3

LEMMA LookupEffect ==
    ASSUME TypeOK, NEW t \in Threads, thread[t].src \in Fds, Lookup(t)
    PROVE  /\ OthersStay(t)
           /\ ~aborted /\ aborted' = (thread'[t].dst = None)
           /\ thread[t].pc = "lookup"
           /\ thread' \in [Threads -> ThreadType]
           /\ thread'[t].pc = "read"
           /\ thread'[t].src = thread[t].src /\ thread'[t].buf = thread[t].buf
           /\ thread'[t].dst = IF thread[t].src \in TcpFds THEN tcp_to_unix[thread[t].src]
                               ELSE unix_to_tcp[thread[t].src]
<1> DEFINE d == IF thread[t].src \in TcpFds THEN tcp_to_unix[thread[t].src]
                ELSE unix_to_tcp[thread[t].src]
           rec == [thread[t] EXCEPT !.pc = "read", !.dst = d]
<1>1. Goto(t, rec) /\ thread[t].pc = "lookup" /\ ~aborted /\ aborted' = (d = None)
    BY DEF Lookup, At, Running
<1>2. d \in Fds \cup {None}
    BY DEF TypeOK, Fds
<1> HIDE DEF d
<1>3. /\ rec \in ThreadType /\ rec.pc = "read" /\ rec.src = thread[t].src
      /\ rec.buf = thread[t].buf /\ rec.dst = d
    BY <1>2, ThreadFields DEF ThreadType, PCs
<1> HIDE DEF rec
<1>4. thread'[t] = rec /\ OthersStay(t) /\ thread' \in [Threads -> ThreadType]
    BY <1>1, <1>3, Moved
<1> QED BY <1>1, <1>3, <1>4 DEF d

(* What read() delivers. *)
LEMMA PendingType ==
    ASSUME TypeOK, NEW f \in Fds
    PROVE  /\ Pending(f) \in Seq(Clients)
           /\ AtEof(f) \in BOOLEAN
           /\ f \in UnixFds => Pending(f) = toRouter[f] /\ ~AtEof(f)
           /\ f \in TcpFds /\ peer[f] # None => Pending(f) = sent[peer[f]]
           /\ f \in TcpFds => (AtEof(f) <=> peer[f] \in fin)
<1>1. << >> \in Seq(Clients)
    OBVIOUS
<1> QED BY <1>1, NoneIsNothing DEF TypeOK, Fds, Pending, AtEof

LEMMA ReadEffect ==
    ASSUME TypeOK, NEW t \in Threads, thread[t].src \in Fds, Read(t)
    PROVE  /\ OthersStay(t)
           /\ thread[t].pc = "read"
           /\ thread' \in [Threads -> ThreadType]
           /\ thread'[t].pc = IF Pending(thread[t].src) # << >> THEN "write" ELSE "erase"
           /\ thread'[t].src = thread[t].src /\ thread'[t].dst = thread[t].dst
           /\ thread'[t].buf = Pending(thread[t].src)
           /\ thread'[t].closed = AtEof(thread[t].src)
<1> DEFINE b == Pending(thread[t].src)
           e == AtEof(thread[t].src)
           p == IF b # << >> THEN "write" ELSE "erase"
           rec == [thread[t] EXCEPT !.pc = p, !.buf = b, !.closed = e]
<1>1. Goto(t, rec) /\ thread[t].pc = "read"
    BY DEF Read, At
<1>2. b \in Seq(Clients) /\ e \in BOOLEAN
    BY PendingType
<1>3. p \in PCs /\ p = IF Pending(thread[t].src) # << >> THEN "write" ELSE "erase"
    BY DEF PCs
<1> HIDE DEF b, e, p
<1>4. /\ rec \in ThreadType /\ rec.pc = p /\ rec.src = thread[t].src
      /\ rec.dst = thread[t].dst /\ rec.buf = b /\ rec.closed = e
    BY <1>2, <1>3, ThreadFields DEF ThreadType
<1> HIDE DEF rec
<1>5. thread'[t] = rec /\ OthersStay(t) /\ thread' \in [Threads -> ThreadType]
    BY <1>1, <1>4, Moved
<1> QED BY <1>1, <1>3, <1>4, <1>5 DEF b, e

LEMMA WriteEffect ==
    ASSUME TypeOK, NEW t \in Threads, Write(t)
    PROVE  /\ OthersStay(t)
           /\ thread[t].pc = "write"
           /\ thread' \in [Threads -> ThreadType]
           /\ thread'[t].pc = "rearm"
           /\ thread'[t].src = thread[t].src /\ thread'[t].dst = thread[t].dst
           /\ thread'[t].buf = << >>
           /\ thread'[t].closed = thread[t].closed
<1> DEFINE rec == [thread[t] EXCEPT !.pc = "rearm", !.buf = << >>]
<1>1. Goto(t, rec) /\ thread[t].pc = "write"
    BY DEF Write, At
<1>2. << >> \in Seq(Clients)
    OBVIOUS
<1>3. /\ rec \in ThreadType /\ rec.pc = "rearm" /\ rec.src = thread[t].src
      /\ rec.dst = thread[t].dst /\ rec.buf = << >> /\ rec.closed = thread[t].closed
    BY <1>2, ThreadFields DEF ThreadType, PCs
<1> HIDE DEF rec
<1>4. thread'[t] = rec /\ OthersStay(t) /\ thread' \in [Threads -> ThreadType]
    BY <1>1, <1>3, Moved
<1> QED BY <1>1, <1>3, <1>4

LEMMA EraseMapsEffect ==
    ASSUME TypeOK, NEW t \in Threads, EraseMaps(t), thread[t].src \in TcpFds,
           tcp_to_unix[thread[t].src] \in UnixFds
    PROVE  /\ OthersStay(t)
           /\ thread[t].pc = "erase"
           /\ thread' \in [Threads -> ThreadType]
           /\ thread'[t].pc = "reserve"
           /\ thread'[t].src = thread[t].src
           /\ thread'[t].dst = tcp_to_unix[thread[t].src]
           /\ thread'[t].side = SideOf[tcp_to_unix[thread[t].src]]
           /\ thread'[t].buf = thread[t].buf
<1> DEFINE u == tcp_to_unix[thread[t].src]
           rec == [thread[t] EXCEPT !.pc = "reserve", !.dst = u, !.side = SideOf[u]]
<1>1. Goto(t, rec) /\ thread[t].pc = "erase"
    BY DEF EraseMaps, At
<1>2. u \in UnixFds /\ SideOf[u] \in Sides
    BY SidesAssumption
<1> HIDE DEF u
<1>3. /\ rec \in ThreadType /\ rec.pc = "reserve" /\ rec.src = thread[t].src
      /\ rec.dst = u /\ rec.side = SideOf[u] /\ rec.buf = thread[t].buf
    BY <1>2, ThreadFields DEF ThreadType, PCs, Fds
<1> HIDE DEF rec
<1>4. thread'[t] = rec /\ OthersStay(t) /\ thread' \in [Threads -> ThreadType]
    BY <1>1, <1>3, Moved
<1> QED BY <1>1, <1>3, <1>4 DEF u

LEMMA ReserveSlotEffect ==
    ASSUME TypeOK, NEW t \in Threads, ReserveSlot(t)
    PROVE  /\ OthersStay(t)
           /\ thread[t].pc = "reserve"
           /\ thread' \in [Threads -> ThreadType]
           /\ thread'[t].pc = "store"
           /\ thread'[t].src = thread[t].src /\ thread'[t].dst = thread[t].dst
           /\ thread'[t].side = thread[t].side /\ thread'[t].buf = thread[t].buf
           /\ thread'[t].idx = end_idx[thread[t].side] % kMaxConnections
<1> DEFINE k == end_idx[thread[t].side] % kMaxConnections
           rec == [thread[t] EXCEPT !.pc = "store", !.idx = k]
<1>1. Goto(t, rec) /\ thread[t].pc = "reserve"
    BY DEF ReserveSlot, At
<1>2. k \in 0 .. kMaxConnections - 1
    <2>1. kMaxConnections \in Nat /\ kMaxConnections # 0
        BY RingAssumption
    <2> DEFINE n == end_idx[thread[t].side]
    <2>2. n \in Nat
        BY ThreadFields DEF TypeOK
    <2> HIDE DEF n
    <2>3. n % kMaxConnections \in 0 .. kMaxConnections - 1
        BY <2>1, <2>2
    <2> QED BY <2>3 DEF n
<1> HIDE DEF k
<1>3. /\ rec \in ThreadType /\ rec.pc = "store" /\ rec.src = thread[t].src
      /\ rec.dst = thread[t].dst /\ rec.side = thread[t].side
      /\ rec.buf = thread[t].buf /\ rec.idx = k
    BY <1>2, ThreadFields DEF ThreadType, PCs
<1> HIDE DEF rec
<1>4. thread'[t] = rec /\ OthersStay(t) /\ thread' \in [Threads -> ThreadType]
    BY <1>1, <1>3, Moved
<1> QED BY <1>1, <1>3, <1>4 DEF k

LEMMA StoreSlotEffect ==
    ASSUME TypeOK, NEW t \in Threads, StoreSlot(t)
    PROVE  /\ OthersStay(t)
           /\ thread[t].pc = "store"
           /\ thread' \in [Threads -> ThreadType]
           /\ thread'[t].pc = "close"
           /\ thread'[t].src = thread[t].src /\ thread'[t].buf = thread[t].buf
<1> DEFINE rec == [thread[t] EXCEPT !.pc = "close"]
<1>1. Goto(t, rec) /\ thread[t].pc = "store"
    BY DEF StoreSlot, At
<1>2. rec \in ThreadType /\ rec.pc = "close" /\ rec.src = thread[t].src /\ rec.buf = thread[t].buf
    BY ThreadFields DEF ThreadType, PCs
<1> HIDE DEF rec
<1>3. thread'[t] = rec /\ OthersStay(t) /\ thread' \in [Threads -> ThreadType]
    BY <1>1, <1>2, Moved
<1> QED BY <1>1, <1>2, <1>3

-----------------------------------------------------------------------------
(* A descriptor is in one thread's hands.                                  *)

(* A thread that is about to erase a pairing has one. *)
LEMMA ErasePaired ==
    ASSUME Inv, NEW t \in Threads, thread[t].pc = "erase"
    PROVE  thread[t].src \in TcpFds /\ tcp_to_unix[thread[t].src] \in UnixFds
<1>1. thread[t].src \in TcpFds
    BY DEF Inv, Exclusive, Busy, Handling
<1>2. tcp_to_unix[thread[t].src] # None
    BY <1>1 DEF Inv, Pairing, Busy, Accepting, Closing
<1>3. tcp_to_unix[thread[t].src] \in UnixFds \cup {None}
    BY <1>1 DEF Inv, TypeOK
<1> QED BY <1>1, <1>2, <1>3

(* A thread that is about to pair or to give back a UNIX connection. *)
LEMMA HeldConnection ==
    ASSUME Inv, NEW t \in Threads, Holds(t)
    PROVE  /\ thread[t].dst \in UnixFds /\ SideOf[thread[t].dst] = thread[t].side
           /\ unix_to_tcp[thread[t].dst] = None
<1>1. thread[t].side \in Sides
    BY ThreadFields DEF Inv
<1>2. thread[t].dst \in ConnectionsTo(thread[t].side) /\ unix_to_tcp[thread[t].dst] = None
    BY <1>1 DEF Inv, Contents
<1> QED BY <1>2 DEF ConnectionsTo

LEMMA ExclusiveStep ==
    ASSUME Inv, [Next]_vars
    PROVE  Exclusive'
<1> USE NoneIsNothing DEF Inv, Exclusive, Busy, Handling
<1>1. CASE UNCHANGED vars
    BY <1>1 DEF vars, mapVars, ringVars, clientVars
<1>2. ASSUME NEW t \in Threads, NEW c \in Clients, Accept(t, c)
      PROVE  Exclusive'
    <2>1. armed' = armed
        BY <1>2 DEF Accept
    <2>2. PICK f \in TcpFds :
              /\ peer[f] = None /\ peer' = [peer EXCEPT ![f] = c]
              /\ OthersStay(t)
              /\ thread'[t].pc = "take" /\ thread'[t].src = f
        BY <1>2, AcceptEffect
    <2>3. peer'[f] = c /\ \A g \in TcpFds : g # f => peer'[g] = peer[g]
        BY <2>2 DEF TypeOK
    <2>4. f \in Fds /\ f \notin armed
        BY <2>2 DEF Fds
    <2>5. \A r \in Threads : r # t /\ Busy(r) => thread[r].src # f
        BY <2>2
    <2> QED BY <2>1, <2>2, <2>3, <2>4, <2>5 DEF OthersStay
<1>3. ASSUME NEW t \in Threads, TakeUnix(t)
      PROVE  Exclusive'
    <2>1. armed' = armed /\ peer' = peer
        BY <1>3 DEF TakeUnix
    <2> QED BY <1>3, <2>1, TakeUnixEffect DEF OthersStay
<1>4. ASSUME NEW t \in Threads, Associate(t)
      PROVE  Exclusive'
    <2>1. armed' = armed /\ peer' = peer
        BY <1>4 DEF Associate
    <2> QED BY <1>4, <2>1, AssociateEffect DEF OthersStay
<1>5. ASSUME NEW t \in Threads, AddToEpoll(t)
      PROVE  Exclusive'
    <2>1. thread[t].pc = "add" /\ armed' = armed \cup {thread[t].src} /\ peer' = peer
        BY <1>5 DEF AddToEpoll, At
    <2>2. OthersStay(t) /\ thread'[t].pc = "wait"
        BY <1>5, IdleEffect DEF AddToEpoll
    <2> QED BY <2>1, <2>2 DEF OthersStay
<1>6. ASSUME NEW t \in Threads, NEW f \in Fds, TakeEvent(t, f)
      PROVE  Exclusive'
    <2>1. f \in armed /\ armed' = armed \ {f} /\ peer' = peer
        BY <1>6 DEF TakeEvent
    <2> QED BY <1>6, <2>1, TakeEventEffect DEF OthersStay
<1>7. ASSUME NEW t \in Threads, Lookup(t)
      PROVE  Exclusive'
    <2>1. armed' = armed /\ peer' = peer /\ thread[t].pc = "lookup"
        BY <1>7 DEF Lookup, At
    <2> QED BY <1>7, <2>1, LookupEffect DEF OthersStay
<1>8. ASSUME NEW t \in Threads, Read(t)
      PROVE  Exclusive'
    <2>1. armed' = armed /\ peer' = peer /\ thread[t].pc = "read"
        BY <1>8 DEF Read, At
    <2>2. thread[t].src \in Fds
        BY <2>1
    <2>3. thread'[t].pc \notin Handling => thread[t].src \in TcpFds
        BY <1>8, <2>1, <2>2, ReadEffect, PendingType DEF Events, Fds
    <2> QED BY <1>8, <2>1, <2>2, <2>3, ReadEffect DEF OthersStay
<1>9. ASSUME NEW t \in Threads, Write(t)
      PROVE  Exclusive'
    <2>1. armed' = armed /\ peer' = peer
        BY <1>9 DEF Write
    <2> QED BY <1>9, <2>1, WriteEffect DEF OthersStay
<1>10. ASSUME NEW t \in Threads, Rearm(t)
       PROVE  Exclusive'
    <2>1. thread[t].pc = "rearm" /\ armed' = armed \cup {thread[t].src} /\ peer' = peer
        BY <1>10 DEF Rearm, At
    <2>2. OthersStay(t) /\ thread'[t].pc = "wait"
        BY <1>10, IdleEffect DEF Rearm
    <2> QED BY <2>1, <2>2 DEF OthersStay
<1>11. ASSUME NEW t \in Threads, EraseMaps(t)
       PROVE  Exclusive'
    <2>1. armed' = armed /\ peer' = peer /\ thread[t].pc = "erase"
        BY <1>11 DEF EraseMaps, At
    <2>2. thread[t].src \in TcpFds /\ tcp_to_unix[thread[t].src] \in UnixFds
        BY <2>1, ErasePaired
    <2> QED BY <1>11, <2>1, <2>2, EraseMapsEffect DEF OthersStay
<1>12. ASSUME NEW t \in Threads, ReserveSlot(t)
       PROVE  Exclusive'
    <2>1. armed' = armed /\ peer' = peer
        BY <1>12 DEF ReserveSlot
    <2> QED BY <1>12, <2>1, ReserveSlotEffect DEF OthersStay
<1>13. ASSUME NEW t \in Threads, StoreSlot(t)
       PROVE  Exclusive'
    <2>1. armed' = armed /\ peer' = peer
        BY <1>13 DEF StoreSlot
    <2> QED BY <1>13, <2>1, StoreSlotEffect DEF OthersStay
<1>14. ASSUME NEW t \in Threads, CloseTcp(t)
       PROVE  Exclusive'
    <2>1. thread[t].pc = "close" /\ armed' = armed \ {thread[t].src}
          /\ peer' = [peer EXCEPT ![thread[t].src] = None]
        BY <1>14 DEF CloseTcp, At
    <2>2. OthersStay(t) /\ thread'[t].pc = "wait"
        BY <1>14, IdleEffect DEF CloseTcp
    <2>3. thread[t].src \in TcpFds
        BY <2>1
    <2>4. \A g \in TcpFds : g # thread[t].src => peer'[g] = peer[g]
        BY <2>1 DEF TypeOK
    <2>5. \A r \in Threads : r # t /\ Busy(r) => thread[r].src # thread[t].src
        BY <2>1
    <2> QED BY <2>1, <2>2, <2>3, <2>4, <2>5 DEF OthersStay
<1>15. ASSUME UNCHANGED <<thread, armed, peer>>
       PROVE  Exclusive'
    BY <1>15
<1> QED
    BY <1>1, <1>2, <1>3, <1>4, <1>5, <1>6, <1>7, <1>8, <1>9, <1>10, <1>11, <1>12,
       <1>13, <1>14, <1>15
    DEF Next, ThreadNext, Connect, Request, Finish, ServerReply, Stopped, Fds

-----------------------------------------------------------------------------
(* A client has one connection.                                            *)

LEMMA PeersStep ==
    ASSUME Inv, [Next]_vars
    PROVE  Peers'
<1> USE NoneIsNothing DEF Inv, Peers
<1>1. ASSUME UNCHANGED <<peer, client>>
      PROVE  Peers'
    BY <1>1
<1>2. ASSUME NEW t \in Threads, NEW c \in Clients, Accept(t, c)
      PROVE  Peers'
    <2>1. PICK f \in TcpFds : peer[f] = None /\ peer' = [peer EXCEPT ![f] = c]
        BY <1>2, AcceptEffect
    <2>2. peer'[f] = c /\ \A g \in TcpFds : g # f => peer'[g] = peer[g]
        BY <2>1 DEF TypeOK
    <2>3. client[c] = "connecting" /\ client' = [client EXCEPT ![c] = "open"]
        BY <1>2 DEF Accept
    <2>4. client'[c] = "open" /\ \A d \in Clients : d # c => client'[d] = client[d]
        BY <2>3 DEF TypeOK
    <2>5. \A g \in TcpFds : peer[g] # c
        BY <2>3
    <2>6. \A g \in TcpFds : peer[g] # None => peer[g] \in Clients
        BY DEF TypeOK
    <2> QED BY <2>2, <2>4, <2>5, <2>6
<1>3. ASSUME NEW t \in Threads, CloseTcp(t)
      PROVE  Peers'
    <2>1. client' = client /\ peer' = [peer EXCEPT ![thread[t].src] = None]
        BY <1>3 DEF CloseTcp, clientVars
    <2>2. \A g \in TcpFds : peer'[g] # None => peer'[g] = peer[g]
        BY <2>1 DEF TypeOK
    <2> QED BY <2>1, <2>2
<1>4. ASSUME NEW c \in Clients, Connect(c)
      PROVE  Peers'
    <2>1. peer' = peer /\ client[c] = "new" /\ client' = [client EXCEPT ![c] = "connecting"]
        BY <1>4 DEF Connect
    <2>2. \A d \in Clients : client[d] = "open" => client'[d] = "open"
        BY <2>1 DEF TypeOK
    <2>3. \A g \in TcpFds : peer[g] # None => peer[g] \in Clients
        BY DEF TypeOK
    <2> QED BY <2>1, <2>2, <2>3
<1> QED
    BY <1>1, <1>2, <1>3, <1>4
    DEF Next, ThreadNext, TakeUnix, Associate, AddToEpoll, TakeEvent, Lookup, Read, Write,
        Rearm, EraseMaps, ReserveSlot, StoreSlot, Request, Finish, ServerReply, Stopped,
        clientVars, vars

-----------------------------------------------------------------------------
(* The maps are inverse to each other.                                     *)

LEMMA PairingStep ==
    ASSUME Inv, [Next]_vars, Exclusive'
    PROVE  Pairing'
<1> USE NoneIsNothing DEF Inv, Pairing, Busy, Accepting, Closing
<1>1. ASSUME UNCHANGED <<tcp_to_unix, unix_to_tcp, thread, armed, peer, aborted>>
      PROVE  Pairing'
    BY <1>1
<1>2. ASSUME NEW t \in Threads, NEW c \in Clients, Accept(t, c)
      PROVE  Pairing'
    <2>1. UNCHANGED <<tcp_to_unix, unix_to_tcp, armed, aborted>>
        BY <1>2 DEF Accept, mapVars
    <2>2. PICK f \in TcpFds :
              /\ peer[f] = None /\ peer' = [peer EXCEPT ![f] = c]
              /\ OthersStay(t)
              /\ thread'[t].pc = "take" /\ thread'[t].src = f
        BY <1>2, AcceptEffect
    <2>3. peer'[f] = c /\ \A g \in TcpFds : g # f => peer'[g] = peer[g]
        BY <2>2 DEF TypeOK
    <2> QED BY <2>1, <2>2, <2>3 DEF OthersStay
<1>3. ASSUME NEW t \in Threads, TakeUnix(t)
      PROVE  Pairing'
    <2>1. UNCHANGED <<tcp_to_unix, unix_to_tcp, armed, peer>> /\ ~aborted
        BY <1>3 DEF TakeUnix, mapVars, At, Running
    <2> QED BY <1>3, <2>1, TakeUnixEffect DEF OthersStay
<1>4. ASSUME NEW t \in Threads, Associate(t)
      PROVE  Pairing'
    <2> DEFINE f == thread[t].src
               u == thread[t].dst
    <2>1. /\ tcp_to_unix' = [tcp_to_unix EXCEPT ![f] = u]
          /\ unix_to_tcp' = [unix_to_tcp EXCEPT ![u] = f]
          /\ UNCHANGED <<armed, peer, aborted>> /\ thread[t].pc = "associate"
        BY <1>4 DEF Associate, At
    <2>2. f \in TcpFds /\ tcp_to_unix[f] = None /\ peer[f] # None /\ f \notin armed
        BY <2>1 DEF Exclusive, Handling
    <2>3. u \in UnixFds /\ unix_to_tcp[u] = None
        BY <2>1, HeldConnection DEF Holds
    <2>4. tcp_to_unix'[f] = u /\ \A g \in TcpFds : g # f => tcp_to_unix'[g] = tcp_to_unix[g]
        BY <2>1, <2>2 DEF TypeOK
    <2>5. unix_to_tcp'[u] = f /\ \A v \in UnixFds : v # u => unix_to_tcp'[v] = unix_to_tcp[v]
        BY <2>1, <2>3 DEF TypeOK
    <2>6. \A r \in Threads : r # t /\ Busy(r) => thread[r].src # f
        BY <2>1 DEF Exclusive
    <2>7. \A g \in TcpFds : tcp_to_unix[g] # None => tcp_to_unix[g] \in UnixFds
        BY DEF TypeOK
    <2>8. \A v \in UnixFds : unix_to_tcp[v] # None => unix_to_tcp[v] \in TcpFds
        BY DEF TypeOK
    <2>9. OthersStay(t) /\ thread'[t].pc = "add" /\ thread'[t].src = f
        BY <1>4, AssociateEffect
    <2> HIDE DEF f, u
    <2>10. \A g \in TcpFds : tcp_to_unix'[g] # None => unix_to_tcp'[tcp_to_unix'[g]] = g
        BY <2>2, <2>3, <2>4, <2>5, <2>7
    <2>11. \A v \in UnixFds : unix_to_tcp'[v] # None => tcp_to_unix'[unix_to_tcp'[v]] = v
        BY <2>2, <2>3, <2>4, <2>5, <2>8
    <2> QED BY <2>1, <2>2, <2>3, <2>4, <2>6, <2>9, <2>10, <2>11 DEF OthersStay
<1>5. ASSUME NEW t \in Threads, AddToEpoll(t)
      PROVE  Pairing'
    <2>1. thread[t].pc = "add" /\ armed' = armed \cup {thread[t].src}
          /\ UNCHANGED <<tcp_to_unix, unix_to_tcp, peer, aborted>>
        BY <1>5 DEF AddToEpoll, At, mapVars
    <2>2. OthersStay(t) /\ thread'[t].pc = "wait"
        BY <1>5, IdleEffect DEF AddToEpoll
    <2> QED BY <2>1, <2>2 DEF OthersStay
<1>6. ASSUME NEW t \in Threads, NEW f \in Fds, TakeEvent(t, f)
      PROVE  Pairing'
    <2>1. f \in armed /\ armed' = armed \ {f}
          /\ UNCHANGED <<tcp_to_unix, unix_to_tcp, peer, aborted>>
        BY <1>6 DEF TakeEvent, mapVars
    <2> QED BY <1>6, <2>1, TakeEventEffect DEF OthersStay
<1>7. ASSUME NEW t \in Threads, Lookup(t)
      PROVE  Pairing'
    <2>1. UNCHANGED <<tcp_to_unix, unix_to_tcp, armed, peer>> /\ thread[t].pc = "lookup" /\ ~aborted
        BY <1>7 DEF Lookup, At, mapVars, Running
    <2>2. thread[t].src \in Fds
        BY <2>1 DEF Exclusive
    <2>3. thread[t].src \notin TcpFds => thread'[t].dst \in TcpFds \cup {None}
        BY <1>7, <2>2, LookupEffect DEF Fds, TypeOK
    <2>4. OthersStay(t) /\ thread'[t].pc = "read" /\ thread'[t].src = thread[t].src
          /\ aborted' = (thread'[t].dst = None)
          /\ (thread[t].src \in TcpFds => thread'[t].dst = tcp_to_unix[thread[t].src])
        BY <1>7, <2>2, LookupEffect
    <2>5. thread[t].src \notin TcpFds => aborted' \/ thread'[t].dst \in TcpFds
        BY <2>3, <2>4, Zenon
    <2>6. \A r \in Threads : thread'[r].pc \in {"read", "write"} =>
              IF thread'[r].src \in TcpFds
              THEN thread'[r].dst = tcp_to_unix'[thread'[r].src]
              ELSE aborted' \/ thread'[r].dst \in TcpFds
        BY <2>1, <2>4, <2>5 DEF OthersStay
    <2> QED BY <2>1, <2>4, <2>6 DEF OthersStay
<1>8. ASSUME NEW t \in Threads, Read(t)
      PROVE  Pairing'
    <2>1. UNCHANGED <<tcp_to_unix, unix_to_tcp, armed, peer, aborted>> /\ thread[t].pc = "read"
        BY <1>8 DEF Read, At, mapVars
    <2>2. thread[t].src \in Fds
        BY <2>1 DEF Exclusive
    <2> QED BY <1>8, <2>1, <2>2, ReadEffect DEF OthersStay
<1>9. ASSUME NEW t \in Threads, Write(t)
      PROVE  Pairing'
    <2>1. UNCHANGED <<tcp_to_unix, unix_to_tcp, armed, peer, aborted>>
        BY <1>9 DEF Write, mapVars
    <2> QED BY <1>9, <2>1, WriteEffect DEF OthersStay
<1>10. ASSUME NEW t \in Threads, Rearm(t)
       PROVE  Pairing'
    <2>1. thread[t].pc = "rearm" /\ armed' = armed \cup {thread[t].src} /\ ~aborted
          /\ UNCHANGED <<tcp_to_unix, unix_to_tcp, peer>>
        BY <1>10 DEF Rearm, At, mapVars, Running
    <2>2. OthersStay(t) /\ thread'[t].pc = "wait"
        BY <1>10, IdleEffect DEF Rearm
    <2> QED BY <2>1, <2>2 DEF OthersStay
<1>11. ASSUME NEW t \in Threads, EraseMaps(t)
       PROVE  Pairing'
    <2> DEFINE f == thread[t].src
               u == tcp_to_unix[f]
    <2>1. /\ tcp_to_unix' = [tcp_to_unix EXCEPT ![f] = None]
          /\ unix_to_tcp' = [unix_to_tcp EXCEPT ![u] = None]
          /\ UNCHANGED <<armed, peer, aborted>> /\ thread[t].pc = "erase"
        BY <1>11 DEF EraseMaps, At
    <2>2. f \in TcpFds /\ u \in UnixFds /\ unix_to_tcp[u] = f
        BY <2>1, ErasePaired
    <2>3. f \notin armed /\ \A r \in Threads : r # t /\ Busy(r) => thread[r].src # f
        BY <2>1 DEF Exclusive
    <2>4. tcp_to_unix'[f] = None /\ \A g \in TcpFds : g # f => tcp_to_unix'[g] = tcp_to_unix[g]
        BY <2>1, <2>2 DEF TypeOK
    <2>5. unix_to_tcp'[u] = None /\ \A v \in UnixFds : v # u => unix_to_tcp'[v] = unix_to_tcp[v]
        BY <2>1, <2>2 DEF TypeOK
    <2>6. \A g \in TcpFds : tcp_to_unix[g] # None => tcp_to_unix[g] \in UnixFds
        BY DEF TypeOK
    <2>7. \A v \in UnixFds : unix_to_tcp[v] # None => unix_to_tcp[v] \in TcpFds
        BY DEF TypeOK
    <2>8. OthersStay(t) /\ thread'[t].pc = "reserve" /\ thread'[t].src = f
        BY <1>11, <2>2, EraseMapsEffect
    <2>9. u = tcp_to_unix[f]
        OBVIOUS
    <2> HIDE DEF f, u
    <2>10. \A g \in TcpFds : tcp_to_unix'[g] # None => unix_to_tcp'[tcp_to_unix'[g]] = g
        BY <2>2, <2>4, <2>5, <2>6
    <2>11. \A v \in UnixFds : unix_to_tcp'[v] # None => tcp_to_unix'[unix_to_tcp'[v]] = v
        BY <2>2, <2>4, <2>5, <2>7, <2>9
    <2> QED BY <2>1, <2>2, <2>3, <2>4, <2>8, <2>10, <2>11 DEF OthersStay
<1>12. ASSUME NEW t \in Threads, ReserveSlot(t)
       PROVE  Pairing'
    <2>1. UNCHANGED <<tcp_to_unix, unix_to_tcp, armed, peer, aborted>>
        BY <1>12 DEF ReserveSlot, mapVars
    <2> QED BY <1>12, <2>1, ReserveSlotEffect DEF OthersStay
<1>13. ASSUME NEW t \in Threads, StoreSlot(t)
       PROVE  Pairing'
    <2>1. UNCHANGED <<tcp_to_unix, unix_to_tcp, armed, peer, aborted>>
        BY <1>13 DEF StoreSlot, mapVars
    <2> QED BY <1>13, <2>1, StoreSlotEffect DEF OthersStay
<1>14. ASSUME NEW t \in Threads, CloseTcp(t)
       PROVE  Pairing'
    <2>1. thread[t].pc = "close" /\ armed' = armed \ {thread[t].src}
          /\ peer' = [peer EXCEPT ![thread[t].src] = None]
          /\ UNCHANGED <<tcp_to_unix, unix_to_tcp, aborted>>
        BY <1>14 DEF CloseTcp, At, mapVars
    <2>2. OthersStay(t) /\ thread'[t].pc = "wait"
        BY <1>14, IdleEffect DEF CloseTcp
    <2>3. thread[t].src \in TcpFds /\ tcp_to_unix[thread[t].src] = None
        BY <2>1 DEF Exclusive, Handling
    <2>4. \A g \in TcpFds : g # thread[t].src => peer'[g] = peer[g]
        BY <2>1 DEF TypeOK
    <2> QED BY <2>1, <2>2, <2>3, <2>4 DEF OthersStay
<1> QED
    BY <1>1, <1>2, <1>3, <1>4, <1>5, <1>6, <1>7, <1>8, <1>9, <1>10, <1>11, <1>12,
       <1>13, <1>14
    DEF Next, ThreadNext, Connect, Request, Finish, ServerReply, Stopped, Fds, vars, mapVars

-----------------------------------------------------------------------------
(* Types.                                                                  *)

LEMMA SequenceTypes ==
    ASSUME NEW s \in Seq(Clients)
    PROVE  /\ \A r \in Seq(Clients) : s \o r \in Seq(Clients)
           /\ \A c \in Clients : Append(s, c) \in Seq(Clients)
           /\ s # << >> => Head(s) \in Clients /\ Tail(s) \in Seq(Clients)
           /\ << >> \in Seq(Clients)
OBVIOUS

(* A request is written to the client's UNIX connection; a response to the *)
(* TCP descriptor that was looked up, where nobody may listen any more.    *)
LEMMA WriteDelivers ==
    ASSUME Inv, NEW t \in Threads, Write(t)
    PROVE  LET d == thread[t].dst
               b == thread[t].buf
           IN \/ /\ thread[t].src \in TcpFds /\ d \in UnixFds /\ got' = got
                 /\ d = tcp_to_unix[thread[t].src]
                 /\ toServer' = [toServer EXCEPT ![d] = toServer[d] \o b]
              \/ /\ thread[t].src \in UnixFds /\ d \in TcpFds
                 /\ UNCHANGED <<got, toServer>>
              \/ /\ thread[t].src \in UnixFds /\ d \in TcpFds
                 /\ peer[d] \in Clients /\ peer[d] \notin fin /\ toServer' = toServer
                 /\ got' = [got EXCEPT ![peer[d]] = got[peer[d]] \o b]
<1> DEFINE d == thread[t].dst
           b == thread[t].buf
<1>1. thread[t].pc = "write" /\ ~aborted /\ Deliver(d, b)
    BY DEF Write, At, Running
<1>2. thread[t].src \in Fds
    BY <1>1 DEF Inv, Exclusive, Busy
<1>3. CASE thread[t].src \in TcpFds
    <2>1. d = tcp_to_unix[thread[t].src] /\ tcp_to_unix[thread[t].src] # None
        BY <1>1, <1>3 DEF Inv, Pairing, Busy, Accepting, Closing
    <2>2. d \in UnixFds
        BY <1>3, <2>1 DEF Inv, TypeOK
    <2> HIDE DEF b
    <2>3. got' = got /\ toServer' = [toServer EXCEPT ![d] = toServer[d] \o b]
        BY <1>1, <2>2 DEF Deliver
    <2> QED BY <1>3, <2>1, <2>2, <2>3 DEF b
<1>4. CASE thread[t].src \in UnixFds
    <2>1. d \in TcpFds /\ d \notin UnixFds
        BY <1>1, <1>4, NoneIsNothing DEF Inv, Pairing
    <2>2. peer[d] \in Clients \cup {None}
        BY <2>1 DEF Inv, TypeOK
    <2> HIDE DEF b
    <2>3. toServer' = toServer
          /\ got' = IF peer[d] = None \/ peer[d] \in fin THEN got
                    ELSE [got EXCEPT ![peer[d]] = got[peer[d]] \o b]
        BY <1>1, <2>1 DEF Deliver
    <2> QED BY <1>4, <2>1, <2>2, <2>3 DEF b
<1> QED BY <1>2, <1>3, <1>4 DEF Fds

LEMMA Updated ==
    ASSUME NEW D, NEW T, NEW f \in [D -> T], NEW x, NEW y \in T
    PROVE  [f EXCEPT ![x] = y] \in [D -> T]
OBVIOUS

(* A slot that is stored to keeps the rings' type. *)
LEMMA StoredType ==
    ASSUME TypeOK, NEW s \in Sides, NEW k \in 0 .. kMaxConnections - 1, NEW u \in UnixFds
    PROVE  /\ [available EXCEPT ![s][k] = u]
                  \in [Sides -> [0 .. kMaxConnections - 1 -> UnixFds \cup {None}]]
           /\ [available EXCEPT ![s][k] = u][s][k] = u
           /\ \A r \in Sides, j \in 0 .. kMaxConnections - 1 :
                  r # s \/ j # k => [available EXCEPT ![s][k] = u][r][j] = available[r][j]
<1> DEFINE D == 0 .. kMaxConnections - 1
           A == [available EXCEPT ![s][k] = u]
<1>1. available \in [Sides -> [D -> UnixFds \cup {None}]] /\ k \in D
    BY DEF TypeOK
<1>2. A = [available EXCEPT ![s] = [available[s] EXCEPT ![k] = u]]
    OBVIOUS
<1> HIDE DEF D, A
<1>3. available[s] \in [D -> UnixFds \cup {None}]
    BY <1>1, Zenon
<1>4. [available[s] EXCEPT ![k] = u] \in [D -> UnixFds \cup {None}]
      /\ [available[s] EXCEPT ![k] = u][k] = u
      /\ \A j \in D : j # k => [available[s] EXCEPT ![k] = u][j] = available[s][j]
    BY <1>1, <1>3
<1> DEFINE row == [available[s] EXCEPT ![k] = u]
<1> HIDE DEF row
<1>5. A \in [Sides -> [D -> UnixFds \cup {None}]] /\ A[s] = row
      /\ \A r \in Sides : r # s => A[r] = available[r]
    BY <1>1, <1>2, <1>4 DEF row
<1> QED BY <1>1, <1>4, <1>5 DEF D, A, row

LEMMA TypeStep ==
    ASSUME Inv, [Next]_vars
    PROVE  TypeOK'
<1> USE NoneIsNothing DEF Inv
<1>1. CASE UNCHANGED vars
    BY <1>1 DEF vars, mapVars, ringVars, clientVars, TypeOK
<1>2. ASSUME NEW t \in Threads, NEW c \in Clients, Accept(t, c)
      PROVE  TypeOK'
    <2>1. PICK f \in TcpFds, s \in Sides :
              /\ peer' = [peer EXCEPT ![f] = c]
              /\ start_idx' = [start_idx EXCEPT ![s] = @ + 1]
              /\ thread' \in [Threads -> ThreadType]
        BY <1>2, AcceptEffect
    <2>2. peer' \in [TcpFds -> Clients \cup {None}]
        BY <2>1 DEF TypeOK
    <2>3. start_idx' \in [Sides -> Nat]
        BY <2>1 DEF TypeOK
    <2> QED BY <1>2, <2>1, <2>2, <2>3, SMTT(30) DEF Accept, TypeOK, mapVars
<1>3. ASSUME NEW t \in Threads, TakeUnix(t)
      PROVE  TypeOK'
    <2>1. thread' \in [Threads -> ThreadType]
        BY <1>3, TakeUnixEffect
    <2> QED BY <1>3, <2>1 DEF TakeUnix, TypeOK, mapVars, ringVars, clientVars
<1>4. ASSUME NEW t \in Threads, Associate(t)
      PROVE  TypeOK'
    <2>1. thread' \in [Threads -> ThreadType] /\ thread[t].pc = "associate"
        BY <1>4, AssociateEffect
    <2>2. thread[t].src \in TcpFds /\ thread[t].dst \in UnixFds
        BY <2>1, HeldConnection DEF Exclusive, Busy, Handling, Holds
    <2>3. /\ tcp_to_unix' \in [TcpFds -> UnixFds \cup {None}]
          /\ unix_to_tcp' \in [UnixFds -> TcpFds \cup {None}]
        BY <1>4, <2>2 DEF Associate, TypeOK
    <2> QED BY <1>4, <2>1, <2>3 DEF Associate, TypeOK, ringVars, clientVars
<1>5. ASSUME NEW t \in Threads, AddToEpoll(t)
      PROVE  TypeOK'
    <2>1. thread' \in [Threads -> ThreadType]
        BY <1>5, IdleEffect DEF AddToEpoll
    <2>2. thread[t].src \in Fds
        BY <1>5 DEF AddToEpoll, At, Exclusive, Busy
    <2> QED BY <1>5, <2>1, <2>2 DEF AddToEpoll, TypeOK, mapVars, ringVars, clientVars
<1>6. ASSUME NEW t \in Threads, NEW f \in Fds, TakeEvent(t, f)
      PROVE  TypeOK'
    <2>1. thread' \in [Threads -> ThreadType]
        BY <1>6, TakeEventEffect
    <2> QED BY <1>6, <2>1 DEF TakeEvent, TypeOK, mapVars, ringVars, clientVars
<1>7. ASSUME NEW t \in Threads, Lookup(t)
      PROVE  TypeOK'
    <2>1. thread[t].src \in Fds
        BY <1>7 DEF Lookup, At, Exclusive, Busy
    <2>2. thread' \in [Threads -> ThreadType]
        BY <1>7, <2>1, LookupEffect
    <2> QED BY <1>7, <2>2 DEF Lookup, TypeOK, mapVars, ringVars, clientVars
<1>8. ASSUME NEW t \in Threads, Read(t)
      PROVE  TypeOK'
    <2>1. thread[t].src \in Fds
        BY <1>8 DEF Read, At, Exclusive, Busy
    <2>2. thread' \in [Threads -> ThreadType]
        BY <1>8, <2>1, ReadEffect
    <2>3. sent' \in [Clients -> Seq(Clients)] /\ toRouter' \in [UnixFds -> Seq(Clients)]
        <3>1. \/ toRouter' = [toRouter EXCEPT ![thread[t].src] = << >>] /\ sent' = sent
              \/ sent' = [sent EXCEPT ![peer[thread[t].src]] = << >>] /\ toRouter' = toRouter
            BY <1>8 DEF Read
        <3>2. << >> \in Seq(Clients)
            OBVIOUS
        <3> QED BY <3>1, <3>2, Updated DEF TypeOK
    <2> QED BY <1>8, <2>2, <2>3 DEF Read, TypeOK, mapVars, ringVars
<1>9. ASSUME NEW t \in Threads, Write(t)
      PROVE  TypeOK'
    <2>1. thread' \in [Threads -> ThreadType]
        BY <1>9, WriteEffect
    <2>2. thread[t].buf \in Seq(Clients)
        BY ThreadFields
    <2> DEFINE d == thread[t].dst
               b == thread[t].buf
    <2>3. \/ toServer' = toServer
          \/ d \in UnixFds /\ toServer' = [toServer EXCEPT ![d] = toServer[d] \o b]
        BY <1>9, WriteDelivers
    <2>4. \/ got' = got
          \/ peer[d] \in Clients /\ got' = [got EXCEPT ![peer[d]] = got[peer[d]] \o b]
        BY <1>9, WriteDelivers
    <2>5. /\ d \in UnixFds => toServer[d] \in Seq(Clients)
          /\ peer[d] \in Clients => got[peer[d]] \in Seq(Clients)
        BY DEF TypeOK
    <2> HIDE DEF d, b
    <2>6. /\ d \in UnixFds => toServer[d] \o b \in Seq(Clients)
          /\ peer[d] \in Clients => got[peer[d]] \o b \in Seq(Clients)
        BY <2>2, <2>5 DEF b
    <2>7. toServer' \in [UnixFds -> Seq(Clients)]
        BY <2>3, <2>6, Updated DEF TypeOK
    <2>8. got' \in [Clients -> Seq(Clients)]
        BY <2>4, <2>6, Updated DEF TypeOK
    <2> QED BY <1>9, <2>1, <2>7, <2>8 DEF Write, TypeOK, mapVars, ringVars, clientVars
<1>10. ASSUME NEW t \in Threads, Rearm(t)
       PROVE  TypeOK'
    <2>1. thread' \in [Threads -> ThreadType]
        BY <1>10, IdleEffect DEF Rearm
    <2>2. thread[t].src \in Fds /\ thread[t].closed \in BOOLEAN
        BY <1>10, ThreadFields DEF Rearm, At, Exclusive, Busy
    <2>3. aborted' \in BOOLEAN
        BY <1>10, <2>2, Zenon DEF Rearm
    <2> QED BY <1>10, <2>1, <2>2, <2>3 DEF Rearm, TypeOK, mapVars, ringVars, clientVars
<1>11. ASSUME NEW t \in Threads, EraseMaps(t)
       PROVE  TypeOK'
    <2>1. thread[t].src \in TcpFds /\ tcp_to_unix[thread[t].src] \in UnixFds
        BY <1>11, ErasePaired DEF EraseMaps, At
    <2>2. thread' \in [Threads -> ThreadType]
        BY <1>11, <2>1, EraseMapsEffect
    <2>3. /\ tcp_to_unix' \in [TcpFds -> UnixFds \cup {None}]
          /\ unix_to_tcp' \in [UnixFds -> TcpFds \cup {None}]
        BY <1>11, <2>1 DEF EraseMaps, TypeOK
    <2> QED BY <1>11, <2>2, <2>3 DEF EraseMaps, TypeOK, ringVars, clientVars
<1>12. ASSUME NEW t \in Threads, ReserveSlot(t)
       PROVE  TypeOK'
    <2>1. thread' \in [Threads -> ThreadType]
        BY <1>12, ReserveSlotEffect
    <2>2. end_idx' \in [Sides -> Nat]
        <3> DEFINE s == thread[t].side
                   n == end_idx[s] + 1
        <3>1. n \in Nat
            BY ThreadFields DEF TypeOK
        <3>2. end_idx' = [end_idx EXCEPT ![s] = n]
            BY <1>12 DEF ReserveSlot
        <3> HIDE DEF s, n
        <3> QED BY <3>1, <3>2, Updated DEF TypeOK
    <2> QED BY <1>12, <2>1, <2>2 DEF ReserveSlot, TypeOK, mapVars, clientVars
<1>13. ASSUME NEW t \in Threads, StoreSlot(t)
       PROVE  TypeOK'
    <2>1. thread' \in [Threads -> ThreadType] /\ thread[t].pc = "store"
        BY <1>13, StoreSlotEffect
    <2>2. thread[t].side \in Sides /\ thread[t].idx \in 0 .. kMaxConnections - 1
          /\ thread[t].dst \in UnixFds
        BY <2>1, ThreadFields, HeldConnection DEF Holds
    <2>3. available' \in [Sides -> [0 .. kMaxConnections - 1 -> UnixFds \cup {None}]]
        BY <1>13, <2>2, StoredType DEF StoreSlot
    <2> QED BY <1>13, <2>1, <2>3 DEF StoreSlot, TypeOK, mapVars, clientVars
<1>14. ASSUME NEW t \in Threads, CloseTcp(t)
       PROVE  TypeOK'
    <2>1. thread' \in [Threads -> ThreadType]
        BY <1>14, IdleEffect DEF CloseTcp
    <2>2. peer' \in [TcpFds -> Clients \cup {None}]
        BY <1>14 DEF CloseTcp, TypeOK
    <2> QED BY <1>14, <2>1, <2>2 DEF CloseTcp, TypeOK, mapVars, ringVars, clientVars
<1>15. ASSUME NEW c \in Clients, Connect(c)
       PROVE  TypeOK'
    BY <1>15 DEF Connect, TypeOK, mapVars, ringVars
<1>16. ASSUME NEW c \in Clients, Request(c)
       PROVE  TypeOK'
    <2>1. sent' \in [Clients -> Seq(Clients)] /\ asked' \in [Clients -> Nat]
        BY <1>16, SequenceTypes DEF Request, TypeOK
    <2> QED BY <1>16, <2>1 DEF Request, TypeOK, mapVars, ringVars
<1>17. ASSUME NEW c \in Clients, Finish(c)
       PROVE  TypeOK'
    BY <1>17 DEF Finish, TypeOK, mapVars, ringVars
<1>18. ASSUME NEW u \in UnixFds, ServerReply(u)
       PROVE  TypeOK'
    <2>1. toServer[u] # << >> /\ toServer[u] \in Seq(Clients) /\ toRouter[u] \in Seq(Clients)
        BY <1>18 DEF ServerReply, TypeOK
    <2>2. Tail(toServer[u]) \in Seq(Clients) /\ Append(toRouter[u], Head(toServer[u])) \in Seq(Clients)
        BY <2>1, SequenceTypes
    <2>3. toServer' \in [UnixFds -> Seq(Clients)] /\ toRouter' \in [UnixFds -> Seq(Clients)]
        BY <1>18, <2>2 DEF ServerReply, TypeOK
    <2> QED BY <1>18, <2>3 DEF ServerReply, TypeOK, mapVars, ringVars, clientVars
<1> QED
    BY <1>1, <1>2, <1>3, <1>4, <1>5, <1>6, <1>7, <1>8, <1>9, <1>10, <1>11, <1>12,
       <1>13, <1>14, <1>15, <1>16, <1>17, <1>18
    DEF Next, ThreadNext, Stopped, Fds

-----------------------------------------------------------------------------
(* Room in the rings for the clients that are waiting.                     *)

LEMMA ConnectingFinite ==
    ASSUME NEW S \in SUBSET Clients
    PROVE  IsFiniteSet(S) /\ Cardinality(S) \in Nat
<1>1. IsFiniteSet(Clients)
    BY FS_Interval, BoundsAssumption DEF Clients
<1>2. IsFiniteSet(S)
    BY <1>1, FS_Subset
<1> QED BY <1>2, FS_CardinalityType

(* Of the clients that wait, every second one goes to each side. *)
LEMMA Turns ==
    ASSUME NEW n \in Nat, NEW q \in Nat
    PROVE  /\ (n + 1) % 2 = 1 - (n % 2) /\ n % 2 \in {0, 1}
           /\ (n + 1) \div 2 + n \div 2 = n
           /\ (n + 2) \div 2 = n \div 2 + 1
           /\ n % 2 = 0 => (n + 1) \div 2 = n \div 2 /\ (q + n) % 2 = q % 2
           /\ n % 2 = 1 => (n + 1) \div 2 = n \div 2 + 1 /\ (q + n) % 2 = 1 - (q % 2)
           /\ n \div 2 \in Nat /\ (n + 1) \div 2 \in Nat
OBVIOUS

LEMMA RoomStep ==
    ASSUME Inv, [Next]_vars
    PROVE  Room'
<1> USE DEF Inv
<1> DEFINE Waiting == {c \in Clients : client[c] = "connecting"}
           n == Connecting
           q == round_robin_counter
<1>0. IsFiniteSet(Waiting) /\ n = Cardinality(Waiting) /\ n \in Nat /\ q \in Nat
    BY ConnectingFinite DEF Connecting, TypeOK
<1>1. ASSUME UNCHANGED <<start_idx, end_idx, round_robin_counter, client>>
      PROVE  Room'
    BY <1>1 DEF Room, Connecting, Next_side
<1>2. ASSUME NEW t \in Threads, NEW c \in Clients, Accept(t, c)
      PROVE  Room'
    <2>1. q' = q + 1 /\ client[c] = "connecting" /\ end_idx' = end_idx
          /\ client' = [client EXCEPT ![c] = "open"]
        BY <1>2 DEF Accept
    <2>2. PICK s \in Sides : s = Next_side /\ start_idx' = [start_idx EXCEPT ![s] = @ + 1]
        BY <1>2, AcceptEffect
    <2>3. n' = n - 1 /\ n > 0
        <3>1. Waiting' = Waiting \ {c} /\ c \in Waiting
            BY <2>1 DEF TypeOK
        <3>2. Cardinality(Waiting \ {c}) = Cardinality(Waiting) - 1
            BY <1>0, <3>1, FS_RemoveElement
        <3>3. n' = Cardinality(Waiting')
            BY DEF Connecting
        <3>4. Waiting' \subseteq Clients
            OBVIOUS
        <3>5. Cardinality(Waiting') \in Nat
            BY <3>4, ConnectingFinite
        <3> QED BY <1>0, <3>1, <3>2, <3>3, <3>5
    <2>4. start_idx'[s] = start_idx[s] + 1
          /\ \A r \in Sides : r # s => start_idx'[r] = start_idx[r]
        BY <2>2 DEF TypeOK
    <2>5. s = (q % 2) + 1 /\ Next_side' = (q' % 2) + 1
        BY <2>2 DEF Next_side
    <2>6. \A r \in Sides : start_idx[r] \in Nat /\ end_idx[r] \in Nat
        BY DEF TypeOK
    <2>7. \A r \in Sides : end_idx[r] - start_idx[r]
                              >= IF r = s THEN (n + 1) \div 2 ELSE n \div 2
        BY <2>2 DEF Room
    <2> HIDE DEF n, q
    <2>8. /\ (q + 1) % 2 = 1 - (q % 2) /\ q % 2 \in {0, 1}
          /\ n - 1 \in Nat /\ (n - 1) + 2 = n + 1 /\ (n - 1) + 1 = n
          /\ (n + 1) \div 2 = (n - 1) \div 2 + 1 /\ (n - 1) \div 2 \in Nat
        BY <1>0, <2>3, Turns
    <2>9. \A r \in Sides : r = Next_side' <=> r # s
        BY <2>1, <2>5, <2>8 DEF Sides
    <2>10. \A r \in Sides : end_idx'[r] - start_idx'[r]
                               >= IF r # s THEN n \div 2 ELSE (n - 1) \div 2
        <3>1. \A r \in Sides : r # s => end_idx'[r] - start_idx'[r] >= n \div 2
            BY <2>1, <2>4, <2>7
        <3>2. end_idx[s] - start_idx[s] >= (n - 1) \div 2 + 1
            BY <2>7, <2>8
        <3>3. end_idx[s] - (start_idx[s] + 1) >= (n - 1) \div 2
            BY <2>6, <2>8, <3>2
        <3> QED BY <2>1, <2>4, <3>1, <3>3
    <2>11. (n' + 1) \div 2 = n \div 2 /\ n' \div 2 = (n - 1) \div 2
        BY <2>3, <2>8
    <2>12. \A r \in Sides : end_idx'[r] - start_idx'[r]
                               >= IF r = Next_side' THEN (n' + 1) \div 2 ELSE n' \div 2
        BY <2>9, <2>10, <2>11
    <2> QED BY <2>12 DEF Room, n
<1>3. ASSUME NEW t \in Threads, ReserveSlot(t)
      PROVE  Room'
    <2>1. UNCHANGED <<start_idx, round_robin_counter, client>>
          /\ end_idx' = [end_idx EXCEPT ![thread[t].side] = @ + 1]
        BY <1>3 DEF ReserveSlot, clientVars
    <2>2. \A r \in Sides : end_idx'[r] \in Nat /\ end_idx'[r] >= end_idx[r]
        BY <2>1 DEF TypeOK
    <2>3. n' = n /\ Next_side' = Next_side
        BY <2>1 DEF Connecting, Next_side
    <2>4. \A r \in Sides : start_idx[r] \in Nat /\ end_idx[r] \in Nat
        BY DEF TypeOK
    <2> HIDE DEF n
    <2>5. \A r \in Sides : end_idx[r] - start_idx[r]
                              >= IF r = Next_side THEN (n + 1) \div 2 ELSE n \div 2
        BY DEF Room, n
    <2>6. n \div 2 \in Nat /\ (n + 1) \div 2 \in Nat
        BY <1>0, Turns
    <2>7. \A r \in Sides : end_idx'[r] - start_idx'[r]
                              >= IF r = Next_side' THEN (n' + 1) \div 2 ELSE n' \div 2
        BY <2>1, <2>2, <2>3, <2>4, <2>5, <2>6
    <2> QED BY <2>7 DEF Room, n
<1>4. ASSUME NEW c \in Clients, Connect(c)
      PROVE  Room'
    <2>1. UNCHANGED <<start_idx, end_idx, round_robin_counter>> /\ client[c] = "new"
          /\ client' = [client EXCEPT ![c] = "connecting"] /\ HasRoom
        BY <1>4 DEF Connect, ringVars
    <2>2. n' = n + 1
        <3>1. Waiting' = Waiting \cup {c} /\ c \notin Waiting
            BY <2>1 DEF TypeOK
        <3>2. Cardinality(Waiting \cup {c}) = Cardinality(Waiting) + 1
            BY <1>0, <3>1, FS_AddElement
        <3> QED BY <1>0, <3>1, <3>2 DEF Connecting
    <2>3. Next_side' = Next_side /\ Next_side = (q % 2) + 1
        BY <2>1 DEF Next_side
    <2>4. \A r \in Sides : start_idx[r] \in Nat /\ end_idx[r] \in Nat
        BY DEF TypeOK
    <2>5. \A r \in Sides : end_idx[r] - start_idx[r]
                              >= IF r = Next_side THEN (n + 1) \div 2 ELSE n \div 2
        BY DEF Room
    <2>6. \A r \in Sides : r = ((q + n) % 2) + 1 => end_idx[r] - start_idx[r] > n \div 2
        BY <2>1 DEF HasRoom
    <2> HIDE DEF n, q
    <2>7. /\ (n + 2) \div 2 = n \div 2 + 1 /\ n % 2 \in {0, 1} /\ q % 2 \in {0, 1}
          /\ n % 2 = 0 => (n + 1) \div 2 = n \div 2 /\ (q + n) % 2 = q % 2
          /\ n % 2 = 1 => (n + 1) \div 2 = n \div 2 + 1 /\ (q + n) % 2 = 1 - (q % 2)
          /\ n \div 2 \in Nat /\ (n + 1) + 1 = n + 2
        BY <1>0, Turns
    <2>8. \A r \in Sides : end_idx[r] - start_idx[r]
                              >= IF r = Next_side THEN (n + 2) \div 2 ELSE (n + 1) \div 2
        BY <1>0, <2>3, <2>4, <2>5, <2>6, <2>7 DEF Sides
    <2>9. \A r \in Sides : end_idx'[r] - start_idx'[r]
                              >= IF r = Next_side' THEN (n' + 1) \div 2 ELSE n' \div 2
        BY <2>1, <2>2, <2>3, <2>7, <2>8
    <2> QED BY <2>9 DEF Room, n
<1> QED
    BY <1>1, <1>2, <1>3, <1>4
    DEF Next, ThreadNext, TakeUnix, Associate, AddToEpoll, TakeEvent, Lookup, Read, Write,
        Rearm, EraseMaps, StoreSlot, CloseTcp, Request, Finish, ServerReply, Stopped,
        ringVars, clientVars, vars

(* The side whose turn it is has a free UNIX connection. *)
LEMMA RoomToAccept ==
    ASSUME Inv, NEW c \in Clients, client[c] = "connecting"
    PROVE  Next_side \in Sides /\ start_idx[Next_side] < end_idx[Next_side]
<1> DEFINE Waiting == {d \in Clients : client[d] = "connecting"}
<1>1. IsFiniteSet(Waiting) /\ Cardinality(Waiting) \in Nat /\ Waiting # {}
    BY ConnectingFinite
<1>2. Cardinality(Waiting) # 0
    BY <1>1, FS_EmptySet
<1>3. Connecting \in Nat /\ Connecting > 0
    BY <1>1, <1>2 DEF Connecting
<1>4. Next_side \in Sides
    BY DEF Inv, TypeOK, Next_side, Sides
<1>5. end_idx[Next_side] - start_idx[Next_side] >= (Connecting + 1) \div 2
    BY <1>4 DEF Inv, Room
<1>6. start_idx[Next_side] \in Nat /\ end_idx[Next_side] \in Nat
    BY <1>4 DEF Inv, TypeOK
<1>7. (Connecting + 1) \div 2 >= 1
    BY <1>3
<1> QED BY <1>3, <1>4, <1>5, <1>6, <1>7

-----------------------------------------------------------------------------
(* The numbers of the slots.                                               *)

LEMMA Division ==
    ASSUME NEW K \in Nat \ {0}, NEW n \in Nat
    PROVE  n % K \in 0 .. K - 1 /\ \E q \in Int : n = q * K + (n % K)
<1>1. n = (n \div K) * K + (n % K) /\ n \div K \in Int
    OBVIOUS
<1>2. n % K \in 0 .. K - 1
    OBVIOUS
<1> QED BY <1>1, <1>2, Zenon

(* Numbers less than the length of the ring apart have different slots. *)
LEMMA Residues ==
    ASSUME NEW K \in Nat \ {0}, NEW m \in Nat, NEW n \in Nat, m < n, n - m < K
    PROVE  m % K # n % K
<1> SUFFICES ASSUME m % K = n % K PROVE FALSE
    OBVIOUS
<1> DEFINE r == n % K
<1>1. r \in Int /\ m % K = r
    BY Division
<1>2. PICK p \in Int : n = p * K + r
    BY Division
<1>3. PICK q \in Int : m = q * K + r
    BY Division
<1> HIDE DEF r
<1>4. n - m = (p - q) * K
    <2>1. (p - q) * K = p * K - q * K
        OBVIOUS
    <2> QED BY <1>1, <1>2, <1>3, <2>1
<1>5. (p - q) * K > 0 /\ (p - q) * K < K
    BY <1>4
<1> DEFINE d == p - q
<1>6. d \in Int
    OBVIOUS
<1> HIDE DEF d
<1>7. d <= 0 => d * K <= 0
    BY <1>6
<1>8. d >= 1 => d * K >= K
    BY <1>6
<1> QED BY <1>5, <1>6, <1>7, <1>8 DEF d

(* Moving start_idx takes one slot out of the window, moving end_idx puts  *)
(* one into it.                                                            *)
LEMMA WindowMoves ==
    ASSUME NEW a \in Nat, NEW b \in Nat, a <= b, b - a < kMaxConnections
    PROVE  LET In(x, y, k) == \E n \in x .. y - 1 : n % kMaxConnections = k
           IN  /\ a < b => \A k : In(a, b, k) <=> In(a + 1, b, k) \/ k = a % kMaxConnections
               /\ ~In(a + 1, b, a % kMaxConnections)
               /\ \A k : In(a, b + 1, k) <=> In(a, b, k) \/ k = b % kMaxConnections
               /\ ~In(a, b, b % kMaxConnections)
<1> DEFINE In(x, y, k) == \E n \in x .. y - 1 : n % kMaxConnections = k
<1>1. kMaxConnections \in Nat \ {0}
    BY RingAssumption
<1>2. a < b => \A k : In(a, b, k) <=> In(a + 1, b, k) \/ k = a % kMaxConnections
    <2>1. a < b => \A n : n \in a .. b - 1 <=> n \in a + 1 .. b - 1 \/ n = a
        OBVIOUS
    <2> QED BY <2>1, Zenon
<1>3. ~In(a + 1, b, a % kMaxConnections)
    <2> SUFFICES ASSUME NEW n \in a + 1 .. b - 1, n % kMaxConnections = a % kMaxConnections
                 PROVE  FALSE
        OBVIOUS
    <2>1. n \in Nat /\ a < n /\ n - a < kMaxConnections
        BY <1>1
    <2> QED BY <1>1, <2>1, Residues
<1>4. \A k : In(a, b + 1, k) <=> In(a, b, k) \/ k = b % kMaxConnections
    <2>1. \A n : n \in a .. (b + 1) - 1 <=> n \in a .. b - 1 \/ n = b
        OBVIOUS
    <2> QED BY <2>1, Zenon
<1>5. ~In(a, b, b % kMaxConnections)
    <2> SUFFICES ASSUME NEW n \in a .. b - 1, n % kMaxConnections = b % kMaxConnections
                 PROVE  FALSE
        OBVIOUS
    <2>1. n \in Nat /\ n < b /\ b - n < kMaxConnections
        BY <1>1
    <2> QED BY <1>1, <2>1, Residues
<1> QED BY <1>2, <1>3, <1>4, <1>5

-----------------------------------------------------------------------------
(* Steps that leave the rings alone.                                       *)

LEMMA SameSlots ==
    ASSUME UNCHANGED <<start_idx, end_idx>>, NEW t \in Threads, OthersStay(t),
           thread[t].pc \notin {"take", "store"}, thread'[t].pc \notin {"take", "store"}
    PROVE  \A s \in Sides, k \in 0 .. kMaxConnections - 1 :
               /\ Unread(s, k)' <=> Unread(s, k)
               /\ Unstored(s, k)' <=> Unstored(s, k)
               /\ InWindow(s, k)' <=> InWindow(s, k)
               /\ Stored(s, k)' <=> Stored(s, k)
<1> SUFFICES ASSUME NEW s \in Sides, NEW k \in 0 .. kMaxConnections - 1
             PROVE  /\ Unread(s, k)' <=> Unread(s, k)
                    /\ Unstored(s, k)' <=> Unstored(s, k)
                    /\ InWindow(s, k)' <=> InWindow(s, k)
                    /\ Stored(s, k)' <=> Stored(s, k)
    OBVIOUS
<1>1. Unread(s, k)' <=> Unread(s, k)
    BY DEF Unread, SlotAt, OthersStay
<1>2. Unstored(s, k)' <=> Unstored(s, k)
    BY DEF Unstored, SlotAt, OthersStay
<1>3. InWindow(s, k)' <=> InWindow(s, k)
    BY DEF InWindow
<1> QED BY <1>1, <1>2, <1>3 DEF Stored

LEMMA SlotsStay ==
    ASSUME Slots, UNCHANGED <<start_idx, end_idx>>, NEW t \in Threads, OthersStay(t),
           thread[t].pc \notin {"take", "store"}, thread'[t].pc \notin {"take", "store"}
    PROVE  Slots'
<1>1. \A s \in Sides, k \in 0 .. kMaxConnections - 1 :
          /\ Unread(s, k)' <=> Unread(s, k)
          /\ Unstored(s, k)' <=> Unstored(s, k)
          /\ InWindow(s, k)' <=> InWindow(s, k)
    BY SameSlots
<1>2. \A r, v \in Threads :
          /\ thread'[r].pc = thread'[v].pc /\ thread'[r].pc \in {"take", "store"}
          /\ thread'[r].side = thread'[v].side /\ thread'[r].idx = thread'[v].idx
          => r = v
    BY DEF Slots, OthersStay
<1> QED BY <1>1, <1>2 DEF Slots

LEMMA ContentsStay ==
    ASSUME Contents, UNCHANGED <<start_idx, end_idx, available, unix_to_tcp>>,
           NEW t \in Threads, OthersStay(t),
           thread[t].pc \notin {"take", "associate", "reserve", "store"},
           thread'[t].pc \notin {"take", "associate", "reserve", "store"}
    PROVE  Contents'
<1>1. \A s \in Sides, k \in 0 .. kMaxConnections - 1 : Stored(s, k)' <=> Stored(s, k)
    BY SameSlots
<1>2. \A r \in Threads :
          /\ Holds(r)' <=> Holds(r)
          /\ Holds(r) => thread'[r] = thread[r]
    BY DEF Holds, OthersStay
<1> QED BY <1>1, <1>2 DEF Contents

LEMMA RingsUnchanged ==
    ASSUME UNCHANGED <<start_idx, end_idx, available, unix_to_tcp, thread>>, Slots, Contents
    PROVE  Slots' /\ Contents'
BY DEF Slots, Contents, Stored, InWindow, Unread, Unstored, SlotAt, Holds

-----------------------------------------------------------------------------
(* A thread gives a UNIX connection back: the ring is not full.            *)

(* UNIX connection u is in the slot of number n, or will be. *)
Carries(s, n, u) ==
    \/ Stored(s, n % kMaxConnections) /\ available[s][n % kMaxConnections] = u
    \/ \E r \in Threads : /\ thread[r].pc = "store" /\ thread[r].side = s
                          /\ thread[r].idx = n % kMaxConnections /\ thread[r].dst = u

LEMMA WindowCarries ==
    ASSUME Inv, NEW s \in Sides
    PROVE  /\ \A n \in start_idx[s] .. end_idx[s] - 1 :
                  \E u \in ConnectionsTo(s) : Carries(s, n, u)
           /\ \A m, n \in start_idx[s] .. end_idx[s] - 1 : \A u :
                  Carries(s, m, u) /\ Carries(s, n, u) => m = n
<1> DEFINE K == kMaxConnections
<1>0. K \in Nat \ {0} /\ start_idx[s] \in Nat /\ end_idx[s] \in Nat
      /\ end_idx[s] - start_idx[s] < K
    BY RingAssumption DEF Inv, TypeOK, Slots
<1>1. \A n \in start_idx[s] .. end_idx[s] - 1 : n \in Nat /\ n % K \in 0 .. K - 1
    <2>1. \A n \in start_idx[s] .. end_idx[s] - 1 : n \in Nat
        BY <1>0
    <2>2. \A n \in Nat : n % K \in 0 .. K - 1
        BY <1>0, Division
    <2> QED BY <2>1, <2>2
<1>2. ASSUME NEW n \in start_idx[s] .. end_idx[s] - 1
      PROVE  \E u \in ConnectionsTo(s) : Carries(s, n, u)
    <2>1. InWindow(s, n % K)
        BY DEF InWindow
    <2>2. CASE Unstored(s, n % K)
        <3>1. PICK r \in Threads : /\ thread[r].pc = "store" /\ thread[r].side = s
                                   /\ thread[r].idx = n % K
            BY <2>2 DEF Unstored, SlotAt
        <3>2. thread[r].dst \in ConnectionsTo(s)
            BY <3>1, HeldConnection DEF Holds, ConnectionsTo
        <3> QED BY <3>1, <3>2 DEF Carries
    <2>3. CASE ~Unstored(s, n % K)
        <3>1. Stored(s, n % K)
            BY <2>1, <2>3 DEF Stored
        <3>2. available[s][n % K] \in ConnectionsTo(s)
            BY <1>1, <3>1 DEF Inv, Contents
        <3> QED BY <3>1, <3>2 DEF Carries
    <2> QED BY <2>2, <2>3
<1>3. ASSUME NEW m \in start_idx[s] .. end_idx[s] - 1, NEW n \in start_idx[s] .. end_idx[s] - 1,
             NEW u, Carries(s, m, u), Carries(s, n, u)
      PROVE  m = n
    <2> DEFINE j == m % K
               k == n % K
    <2>1. j \in 0 .. K - 1 /\ k \in 0 .. K - 1
        BY <1>1
    <2>2. \/ Stored(s, j) /\ available[s][j] = u
          \/ \E r \in Threads : /\ thread[r].pc = "store" /\ thread[r].side = s
                                /\ thread[r].idx = j /\ thread[r].dst = u
        BY <1>3 DEF Carries
    <2>3. \/ Stored(s, k) /\ available[s][k] = u
          \/ \E r \in Threads : /\ thread[r].pc = "store" /\ thread[r].side = s
                                /\ thread[r].idx = k /\ thread[r].dst = u
        BY <1>3 DEF Carries
    <2> HIDE DEF j, k, K
    <2>4. j = k
        BY <2>1, <2>2, <2>3 DEF Inv, Contents, Holds, K
    <2>5. m \in Nat /\ n \in Nat /\ (m < n => n - m < K) /\ (n < m => m - n < K)
        BY <1>0
    <2>6. ~(m < n) /\ ~(n < m)
        BY <1>0, <2>4, <2>5, Residues DEF j, k
    <2> QED BY <2>5, <2>6
<1> QED BY <1>2, <1>3

LEMMA RoomToReserve ==
    ASSUME Inv, NEW t \in Threads, thread[t].pc = "reserve", NEW s \in Sides,
           thread[t].side = s
    PROVE  end_idx[s] + 1 - start_idx[s] < kMaxConnections
<1> DEFINE a == start_idx[s]
           b == end_idx[s]
           ring == InitialRing[s]
           d == thread[t].dst
           Has(n, u) == IF n = b THEN u = d ELSE Carries(s, n, u)
           f == [n \in a .. b |-> CHOOSE j \in 1 .. Len(ring) : Has(n, ring[j])]
<1>1. a \in Nat /\ b \in Nat /\ a <= b
    BY DEF Inv, TypeOK, Slots
<1>2. Len(ring) \in Nat /\ Len(ring) < kMaxConnections /\ kMaxConnections \in Nat
      /\ \A u \in ConnectionsTo(s) : \E j \in 1 .. Len(ring) : ring[j] = u
    BY RingAssumption DEF ConnectionsTo
<1>3. d \in ConnectionsTo(s)
    BY HeldConnection DEF Holds, ConnectionsTo
<1>4. \A n \in a .. b : \E j \in 1 .. Len(ring) : Has(n, ring[j])
    <2> SUFFICES ASSUME NEW n \in a .. b PROVE \E j \in 1 .. Len(ring) : Has(n, ring[j])
        OBVIOUS
    <2>1. CASE n = b
        BY <1>2, <1>3, <2>1
    <2>2. CASE n # b
        <3>1. n \in a .. b - 1
            BY <1>1, <2>2
        <3>2. PICK u \in ConnectionsTo(s) : Carries(s, n, u)
            BY <3>1, WindowCarries
        <3> HIDE DEF a, b, ring
        <3> QED BY <1>2, <2>2, <3>2
    <2> QED BY <2>1, <2>2
<1>5. \A n \in a .. b - 1 : ~Carries(s, n, d)
    <2> SUFFICES ASSUME NEW n \in a .. b - 1, Carries(s, n, d) PROVE FALSE
        OBVIOUS
    <2>1. n % kMaxConnections \in 0 .. kMaxConnections - 1
        <3>1. n \in Nat /\ kMaxConnections \in Nat \ {0}
            BY <1>1, RingAssumption
        <3> QED BY <3>1, Division
    <2>2. ~(Stored(s, n % kMaxConnections) /\ available[s][n % kMaxConnections] = d)
        BY <2>1 DEF Inv, Contents, Holds
    <2>3. \A r \in Threads : thread[r].pc = "store" => thread[r].dst # d
        BY DEF Inv, Contents, Holds
    <2> QED BY <2>2, <2>3 DEF Carries
<1>6. \A m, n \in a .. b : \A u : Has(m, u) /\ Has(n, u) => m = n
    <2>1. \A n \in a .. b : n # b => n \in a .. b - 1
        BY <1>1
    <2>2. \A m, n \in a .. b - 1 : \A u : Carries(s, m, u) /\ Carries(s, n, u) => m = n
        BY WindowCarries
    <2> HIDE DEF a, b, d
    <2> QED BY <1>5, <2>1, <2>2
<1> HIDE DEF Has, a, b, d
<1>7. \A n \in a .. b : f[n] \in 1 .. Len(ring) /\ Has(n, ring[f[n]])
    BY <1>4
<1>8. f \in Injection(a .. b, 1 .. Len(ring))
    <2>1. f \in [a .. b -> 1 .. Len(ring)]
        BY <1>7
    <2> HIDE DEF f
    <2>2. \A m, n \in a .. b : f[m] = f[n] => m = n
        BY <1>6, <1>7
    <2> QED BY <2>1, <2>2 DEF Injection, IsInjective
<1> HIDE DEF f
<1>9. IsFiniteSet(1 .. Len(ring)) /\ Cardinality(1 .. Len(ring)) = Len(ring)
    <2> DEFINE l == Len(ring)
    <2>1. l \in Nat
        BY <1>2
    <2> HIDE DEF l
    <2>2. IsFiniteSet(1 .. l) /\ Cardinality(1 .. l) = l
        BY <2>1, FS_Interval
    <2> QED BY <2>2 DEF l
<1>10. Cardinality(a .. b) = b - a + 1
    BY <1>1, FS_Interval
<1>11. Cardinality(a .. b) <= Len(ring)
    BY <1>8, <1>9, FS_Injection
<1>12. b + 1 - a < kMaxConnections
    BY <1>1, <1>2, <1>10, <1>11
<1> QED BY <1>12 DEF a, b

-----------------------------------------------------------------------------
(* Steps that take from the rings or give back to them.                    *)

LEMMA AcceptRings ==
    ASSUME Inv, NEW t \in Threads, NEW c \in Clients, Accept(t, c)
    PROVE  Slots' /\ Contents'
<1> USE DEF Inv
<1>1. UNCHANGED <<available, end_idx, unix_to_tcp>> /\ client[c] = "connecting"
    BY DEF Accept, mapVars
<1>2. PICK s \in Sides :
          /\ s = Next_side
          /\ OthersStay(t)
          /\ thread[t].pc = "wait"
          /\ thread'[t].pc = "take" /\ thread'[t].side = s
          /\ thread'[t].idx = start_idx[s] % kMaxConnections
          /\ start_idx' = [start_idx EXCEPT ![s] = @ + 1]
    BY AcceptEffect
<1>3. /\ start_idx'[s] = start_idx[s] + 1
      /\ \A r \in Sides : r # s => start_idx'[r] = start_idx[r]
      /\ \A r \in Sides : start_idx[r] \in Nat /\ end_idx[r] \in Nat
    BY <1>2 DEF TypeOK
<1>4. start_idx[s] < end_idx[s]
    BY <1>1, <1>2, RoomToAccept
<1>5. kMaxConnections \in Nat \ {0}
    BY RingAssumption
<1>6. PICK k0 \in 0 .. kMaxConnections - 1 : k0 = start_idx[s] % kMaxConnections
    BY <1>3, <1>5, Division
<1>7. \A r \in Sides : start_idx'[r] <= end_idx'[r]
                       /\ end_idx'[r] - start_idx'[r] < kMaxConnections
    BY <1>1, <1>3, <1>4, <1>5 DEF Slots
<1>8. /\ \A k : InWindow(s, k) <=> InWindow(s, k)' \/ k = k0
      /\ ~InWindow(s, k0)'
    <2>1. start_idx[s] <= end_idx[s] /\ end_idx[s] - start_idx[s] < kMaxConnections
        BY DEF Slots
    <2>2. PICK a \in Nat, b \in Nat : a = start_idx[s] /\ b = end_idx[s]
        BY <1>3
    <2>3. a < b /\ a <= b /\ b - a < kMaxConnections
        BY <1>4, <2>1, <2>2
    <2> DEFINE In(x, y, k) == \E n \in x .. y - 1 : n % kMaxConnections = k
    <2>4. \A k : /\ In(a, b, k) <=> InWindow(s, k)
                 /\ In(a + 1, b, k) <=> InWindow(s, k)'
        BY <1>1, <1>3, <2>2 DEF InWindow
    <2>5. /\ \A k : In(a, b, k) <=> In(a + 1, b, k) \/ k = a % kMaxConnections
          /\ ~In(a + 1, b, a % kMaxConnections)
        BY <2>3, WindowMoves
    <2> HIDE DEF In
    <2> QED BY <1>6, <2>2, <2>4, <2>5
<1>9. \A r \in Sides, k \in 0 .. kMaxConnections - 1 :
          r # s => (InWindow(r, k)' <=> InWindow(r, k))
    BY <1>1, <1>3 DEF InWindow
<1>10. \A r \in Sides, k \in 0 .. kMaxConnections - 1 :
          Unread(r, k)' <=> Unread(r, k) \/ (r = s /\ k = k0)
    BY <1>2, <1>6 DEF Unread, SlotAt, OthersStay
<1>11. \A r \in Sides, k \in 0 .. kMaxConnections - 1 : Unstored(r, k)' <=> Unstored(r, k)
    BY <1>2 DEF Unstored, SlotAt, OthersStay
<1>12. \A r \in Sides, k \in 0 .. kMaxConnections - 1 : Stored(r, k)' <=> Stored(r, k)
    BY <1>8, <1>9, <1>10, <1>11 DEF Stored
<1>13. ~Unread(s, k0)
    BY <1>6, <1>8 DEF Slots
<1>14. \A q, r \in Threads :
           /\ thread'[q].pc = thread'[r].pc /\ thread'[q].pc \in {"take", "store"}
           /\ thread'[q].side = thread'[r].side /\ thread'[q].idx = thread'[r].idx
           => q = r
    <2>1. \A r \in Threads : r # t => ~(thread[r].pc = "take" /\ thread[r].side = s
                                        /\ thread[r].idx = k0)
        BY <1>13 DEF Unread, SlotAt
    <2> QED BY <1>2, <1>6, <2>1 DEF Slots, OthersStay
<1>15. Slots'
    BY <1>6, <1>7, <1>8, <1>9, <1>10, <1>11, <1>14 DEF Slots
<1>16. \A r \in Threads : (Holds(r)' <=> Holds(r)) /\ (Holds(r) => thread'[r] = thread[r])
    BY <1>2 DEF Holds, OthersStay
<1>17. Contents'
    BY <1>1, <1>12, <1>16 DEF Contents
<1> QED BY <1>15, <1>17

LEMMA TakeUnixRings ==
    ASSUME Inv, Prompt, NEW t \in Threads, TakeUnix(t)
    PROVE  Slots' /\ Contents' /\ ~aborted'
<1> USE DEF Inv
<1> DEFINE s == thread[t].side
           k0 == thread[t].idx
           u == available[s][k0]
<1>1. UNCHANGED <<available, start_idx, end_idx, unix_to_tcp>> /\ ~Unstored(s, k0)
    BY DEF TakeUnix, mapVars, ringVars
<1>2. /\ aborted' = (u = None) /\ OthersStay(t)
      /\ thread[t].pc = "take" /\ thread'[t].pc = "associate"
      /\ thread'[t].dst = u /\ thread'[t].side = s
    BY TakeUnixEffect
<1>3. s \in Sides /\ k0 \in 0 .. kMaxConnections - 1
    BY ThreadFields
<1>4. thread[t].side = s /\ thread[t].idx = k0 /\ u = available[s][k0]
    OBVIOUS
<1> HIDE DEF s, k0, u
<1>5. Unread(s, k0)
    BY <1>2, <1>4 DEF Unread, SlotAt
<1>6. Stored(s, k0) /\ ~InWindow(s, k0)
    BY <1>1, <1>3, <1>5 DEF Stored, Slots
<1>7. u \in ConnectionsTo(s) /\ unix_to_tcp[u] = None
    BY <1>3, <1>4, <1>6 DEF Contents
<1>8. ~aborted'
    BY <1>2, <1>7, NoneIsNothing, Zenon DEF ConnectionsTo
<1>9. \A r \in Sides, k \in 0 .. kMaxConnections - 1 :
          Unread(r, k)' <=> Unread(r, k) /\ ~(r = s /\ k = k0)
    <2>1. \A r \in Threads : r # t => ~(thread[r].pc = "take" /\ thread[r].side = s
                                        /\ thread[r].idx = k0)
        BY <1>2, <1>4 DEF Slots
    <2> QED BY <1>2, <1>4, <2>1 DEF Unread, SlotAt, OthersStay
<1>10. \A r \in Sides, k \in 0 .. kMaxConnections - 1 : Unstored(r, k)' <=> Unstored(r, k)
    BY <1>2 DEF Unstored, SlotAt, OthersStay
<1>11. \A r \in Sides, k \in 0 .. kMaxConnections - 1 : InWindow(r, k)' <=> InWindow(r, k)
    BY <1>1 DEF InWindow
<1>12. \A r \in Sides, k \in 0 .. kMaxConnections - 1 :
          Stored(r, k)' <=> Stored(r, k) /\ ~(r = s /\ k = k0)
    BY <1>6, <1>9, <1>10, <1>11 DEF Stored
<1>13. \A q, r \in Threads :
           /\ thread'[q].pc = thread'[r].pc /\ thread'[q].pc \in {"take", "store"}
           /\ thread'[q].side = thread'[r].side /\ thread'[q].idx = thread'[r].idx
           => q = r
    BY <1>2 DEF Slots, OthersStay
<1>14. Slots'
    BY <1>1, <1>9, <1>10, <1>11, <1>13 DEF Slots
<1>15. \A r \in Threads : /\ Holds(r)' <=> Holds(r) \/ r = t
                          /\ Holds(r) => thread'[r] = thread[r] /\ r # t
    BY <1>2 DEF Holds, OthersStay
<1>16. Contents'
    <2>1. \A r \in Threads, v \in Sides : Holds(r) /\ thread[r].side = v => thread[r].dst # u
        <3>1. \A r \in Threads : Holds(r) => thread[r].side = s \/ thread[r].dst \notin ConnectionsTo(s)
            BY HeldConnection DEF ConnectionsTo
        <3> QED BY <1>3, <1>4, <1>6, <1>7, <3>1 DEF Contents
    <2>2. \A r \in Threads, v \in Sides : Holds(r)' /\ thread'[r].side = v =>
              /\ thread'[r].dst \in ConnectionsTo(v)
              /\ unix_to_tcp'[thread'[r].dst] = None
              /\ \A k \in 0 .. kMaxConnections - 1 :
                     Stored(v, k)' => available'[v][k] # thread'[r].dst
        BY <1>1, <1>2, <1>3, <1>4, <1>6, <1>7, <1>12, <1>15 DEF Contents
    <2>3. \A q, r \in Threads :
              Holds(q)' /\ Holds(r)' /\ thread'[q].dst = thread'[r].dst => q = r
        <3>1. \A r \in Threads : Holds(r) => thread[r].dst # u
            BY <2>1, ThreadFields
        <3> QED BY <1>2, <1>15, <3>1 DEF Contents
    <2>4. \A v \in Sides, w \in UnixFds : SideOf[w] = v =>
              \/ unix_to_tcp'[w] # None
              \/ \E r \in Threads : Holds(r)' /\ thread'[r].dst = w
              \/ \E k \in 0 .. kMaxConnections - 1 : Stored(v, k)' /\ available'[v][k] = w
        BY <1>1, <1>2, <1>4, <1>12, <1>15 DEF Contents
    <2> QED BY <1>1, <1>12, <2>2, <2>3, <2>4 DEF Contents
<1> QED BY <1>8, <1>14, <1>16

LEMMA AssociateRings ==
    ASSUME Inv, NEW t \in Threads, Associate(t)
    PROVE  Slots' /\ Contents'
<1> USE DEF Inv
<1>1. PICK f, u : f = thread[t].src /\ u = thread[t].dst
    OBVIOUS
<1>2. /\ UNCHANGED <<available, start_idx, end_idx>>
      /\ unix_to_tcp' = [unix_to_tcp EXCEPT ![u] = f]
    BY <1>1 DEF Associate, ringVars
<1>3. OthersStay(t) /\ thread[t].pc = "associate" /\ thread'[t].pc = "add"
    BY AssociateEffect
<1>4. u \in UnixFds /\ f \in TcpFds /\ f # None /\ SideOf[u] = thread[t].side
    BY <1>1, <1>3, HeldConnection, NoneIsNothing DEF Holds, Exclusive, Busy, Handling
<1>5. unix_to_tcp'[u] = f /\ \A v \in UnixFds : v # u => unix_to_tcp'[v] = unix_to_tcp[v]
    BY <1>2, <1>4 DEF TypeOK
<1>6. Slots'
    BY <1>2, <1>3, SlotsStay
<1>7. \A s \in Sides, k \in 0 .. kMaxConnections - 1 : Stored(s, k)' <=> Stored(s, k)
    BY <1>2, <1>3, SameSlots
<1>8. \A r \in Threads : /\ Holds(r)' <=> Holds(r) /\ r # t
                         /\ Holds(r) /\ r # t => thread'[r] = thread[r]
    BY <1>3 DEF Holds, OthersStay
<1>9. \A r \in Threads : Holds(r) /\ r # t => thread[r].dst # u
    BY <1>1, <1>3 DEF Contents, Holds
<1>10. \A s \in Sides, k \in 0 .. kMaxConnections - 1 : Stored(s, k) =>
           available[s][k] \in UnixFds /\ SideOf[available[s][k]] = s /\ available[s][k] # u
    <2> SUFFICES ASSUME NEW s \in Sides, NEW k \in 0 .. kMaxConnections - 1, Stored(s, k)
                 PROVE  /\ available[s][k] \in UnixFds /\ SideOf[available[s][k]] = s
                        /\ available[s][k] # u
        OBVIOUS
    <2>1. available[s][k] \in UnixFds /\ SideOf[available[s][k]] = s
        BY DEF Contents, ConnectionsTo
    <2>2. Holds(t) /\ thread[t].side \in Sides
        BY <1>3, ThreadFields DEF Holds
    <2>3. s = thread[t].side => available[s][k] # u
        BY <1>1, <2>2 DEF Contents
    <2> QED BY <1>4, <2>1, <2>3
<1>11. Contents'
    <2>1. \A s \in Sides, k \in 0 .. kMaxConnections - 1 : Stored(s, k)' =>
              available'[s][k] \in ConnectionsTo(s) /\ unix_to_tcp'[available'[s][k]] = None
        BY <1>2, <1>5, <1>7, <1>10 DEF Contents
    <2>2. \A r \in Threads, s \in Sides : Holds(r)' /\ thread'[r].side = s =>
              /\ thread'[r].dst \in ConnectionsTo(s)
              /\ unix_to_tcp'[thread'[r].dst] = None
              /\ \A k \in 0 .. kMaxConnections - 1 :
                     Stored(s, k)' => available'[s][k] # thread'[r].dst
        BY <1>2, <1>5, <1>7, <1>8, <1>9, HeldConnection DEF Contents
    <2>3. \A s \in Sides, v \in UnixFds : SideOf[v] = s =>
              \/ unix_to_tcp'[v] # None
              \/ \E r \in Threads : Holds(r)' /\ thread'[r].dst = v
              \/ \E k \in 0 .. kMaxConnections - 1 : Stored(s, k)' /\ available'[s][k] = v
        BY <1>1, <1>2, <1>4, <1>5, <1>7, <1>8 DEF Contents
    <2> QED BY <1>2, <1>7, <1>8, <2>1, <2>2, <2>3 DEF Contents
<1> QED BY <1>6, <1>11

LEMMA EraseMapsRings ==
    ASSUME Inv, NEW t \in Threads, EraseMaps(t)
    PROVE  Slots' /\ Contents'
<1> USE DEF Inv
<1>1. thread[t].pc = "erase" /\ UNCHANGED <<available, start_idx, end_idx>>
    BY DEF EraseMaps, At, ringVars
<1>2. PICK f \in TcpFds, u \in UnixFds : f = thread[t].src /\ u = tcp_to_unix[f]
    BY <1>1, ErasePaired
<1>3. unix_to_tcp' = [unix_to_tcp EXCEPT ![u] = None] /\ unix_to_tcp[u] = f /\ f # None
    BY <1>2, NoneIsNothing DEF EraseMaps, Pairing
<1>4. OthersStay(t) /\ thread'[t].pc = "reserve" /\ thread'[t].dst = u
      /\ thread'[t].side = SideOf[u]
    BY <1>2, EraseMapsEffect
<1>5. unix_to_tcp'[u] = None /\ \A v \in UnixFds : v # u => unix_to_tcp'[v] = unix_to_tcp[v]
    BY <1>3 DEF TypeOK
<1>6. Slots'
    BY <1>1, <1>4, SlotsStay
<1>7. \A s \in Sides, k \in 0 .. kMaxConnections - 1 : Stored(s, k)' <=> Stored(s, k)
    BY <1>1, <1>4, SameSlots
<1>8. \A r \in Threads : /\ Holds(r)' <=> Holds(r) \/ r = t
                         /\ Holds(r) => thread'[r] = thread[r] /\ r # t
    BY <1>1, <1>4 DEF Holds, OthersStay
<1>9. \A r \in Threads : Holds(r) => thread[r].dst \in UnixFds /\ thread[r].dst # u
    BY <1>3, HeldConnection
<1>10. \A s \in Sides, k \in 0 .. kMaxConnections - 1 : Stored(s, k) =>
           available[s][k] \in UnixFds /\ available[s][k] # u
    BY <1>3 DEF Contents, ConnectionsTo
<1>11. Contents'
    <2>1. \A s \in Sides, k \in 0 .. kMaxConnections - 1 : Stored(s, k)' =>
              available'[s][k] \in ConnectionsTo(s) /\ unix_to_tcp'[available'[s][k]] = None
        BY <1>1, <1>5, <1>7, <1>10 DEF Contents
    <2>2. \A r \in Threads, s \in Sides : Holds(r)' /\ thread'[r].side = s =>
              /\ thread'[r].dst \in ConnectionsTo(s)
              /\ unix_to_tcp'[thread'[r].dst] = None
              /\ \A k \in 0 .. kMaxConnections - 1 :
                     Stored(s, k)' => available'[s][k] # thread'[r].dst
        <3>1. u \in ConnectionsTo(SideOf[u])
            BY DEF ConnectionsTo
        <3> QED BY <1>1, <1>4, <1>5, <1>7, <1>8, <1>9, <1>10, <3>1 DEF Contents
    <2>3. \A q, r \in Threads :
              Holds(q)' /\ Holds(r)' /\ thread'[q].dst = thread'[r].dst => q = r
        BY <1>4, <1>8, <1>9 DEF Contents
    <2>4. \A s \in Sides, v \in UnixFds : SideOf[v] = s =>
              \/ unix_to_tcp'[v] # None
              \/ \E r \in Threads : Holds(r)' /\ thread'[r].dst = v
              \/ \E k \in 0 .. kMaxConnections - 1 : Stored(s, k)' /\ available'[s][k] = v
        BY <1>1, <1>4, <1>5, <1>7, <1>8 DEF Contents
    <2> QED BY <1>1, <1>7, <2>1, <2>2, <2>3, <2>4 DEF Contents
<1> QED BY <1>6, <1>11

LEMMA ReserveSlotRings ==
    ASSUME Inv, Prompt, NEW t \in Threads, ReserveSlot(t)
    PROVE  Slots' /\ Contents'
<1> USE DEF Inv
<1>1. PICK s \in Sides : s = thread[t].side
    BY ThreadFields
<1>2. kMaxConnections \in Nat \ {0}
    BY RingAssumption
<1>3. \A r \in Sides : start_idx[r] \in Nat /\ end_idx[r] \in Nat
    BY DEF TypeOK
<1>4. PICK k0 \in 0 .. kMaxConnections - 1 : k0 = end_idx[s] % kMaxConnections
    BY <1>2, <1>3, Division
<1>5. /\ UNCHANGED <<available, start_idx, unix_to_tcp>>
      /\ end_idx' = [end_idx EXCEPT ![s] = @ + 1]
      /\ ~Unstored(s, k0) /\ ~Unread(s, k0)
    BY <1>1, <1>4 DEF ReserveSlot, mapVars
<1>6. /\ OthersStay(t) /\ thread[t].pc = "reserve" /\ thread'[t].pc = "store"
      /\ thread'[t].dst = thread[t].dst /\ thread'[t].side = s /\ thread'[t].idx = k0
    BY <1>1, <1>4, ReserveSlotEffect
<1>7. /\ end_idx'[s] = end_idx[s] + 1
      /\ \A r \in Sides : r # s => end_idx'[r] = end_idx[r]
    BY <1>5 DEF TypeOK
<1>8. end_idx[s] + 1 - start_idx[s] < kMaxConnections
    BY <1>1, <1>6, RoomToReserve
<1>9. \A r \in Sides : start_idx'[r] <= end_idx'[r]
                       /\ end_idx'[r] - start_idx'[r] < kMaxConnections
    BY <1>3, <1>5, <1>7, <1>8 DEF Slots
<1>10. /\ \A k : InWindow(s, k)' <=> InWindow(s, k) \/ k = k0
       /\ ~InWindow(s, k0)
    <2>1. start_idx[s] <= end_idx[s] /\ end_idx[s] - start_idx[s] < kMaxConnections
        BY DEF Slots
    <2>2. PICK a \in Nat, b \in Nat : a = start_idx[s] /\ b = end_idx[s]
        BY <1>3
    <2>3. a <= b /\ b - a < kMaxConnections
        BY <2>1, <2>2
    <2> DEFINE In(x, y, k) == \E n \in x .. y - 1 : n % kMaxConnections = k
    <2>4. \A k : /\ In(a, b, k) <=> InWindow(s, k)
                 /\ In(a, b + 1, k) <=> InWindow(s, k)'
        BY <1>5, <1>7, <2>2 DEF InWindow
    <2>5. /\ \A k : In(a, b + 1, k) <=> In(a, b, k) \/ k = b % kMaxConnections
          /\ ~In(a, b, b % kMaxConnections)
        BY <2>3, WindowMoves, ZenonT(40)
    <2> HIDE DEF In
    <2> QED BY <1>4, <2>2, <2>4, <2>5
<1>11. \A r \in Sides, k \in 0 .. kMaxConnections - 1 :
          r # s => (InWindow(r, k)' <=> InWindow(r, k))
    BY <1>5, <1>7 DEF InWindow
<1>12. \A r \in Sides, k \in 0 .. kMaxConnections - 1 :
          Unstored(r, k)' <=> Unstored(r, k) \/ (r = s /\ k = k0)
    BY <1>6 DEF Unstored, SlotAt, OthersStay
<1>13. \A r \in Sides, k \in 0 .. kMaxConnections - 1 : Unread(r, k)' <=> Unread(r, k)
    BY <1>6 DEF Unread, SlotAt, OthersStay
<1>14. \A r \in Sides, k \in 0 .. kMaxConnections - 1 : Stored(r, k)' <=> Stored(r, k)
    BY <1>5, <1>10, <1>11, <1>12, <1>13 DEF Stored
<1>15. \A q, r \in Threads :
           /\ thread'[q].pc = thread'[r].pc /\ thread'[q].pc \in {"take", "store"}
           /\ thread'[q].side = thread'[r].side /\ thread'[q].idx = thread'[r].idx
           => q = r
    <2>1. \A r \in Threads : ~(thread[r].pc = "store" /\ thread[r].side = s
                               /\ thread[r].idx = k0)
        BY <1>5 DEF Unstored, SlotAt
    <2> QED BY <1>6, <2>1 DEF Slots, OthersStay
<1>16. Slots'
    BY <1>4, <1>5, <1>9, <1>10, <1>11, <1>12, <1>13, <1>15 DEF Slots
<1>17. \A r \in Threads : /\ Holds(r)' <=> Holds(r)
                          /\ Holds(r) => /\ thread'[r].dst = thread[r].dst
                                         /\ thread'[r].side = thread[r].side
    BY <1>1, <1>6 DEF Holds, OthersStay
<1>18. Contents'
    BY <1>5, <1>14, <1>17 DEF Contents
<1> QED BY <1>16, <1>18

LEMMA StoreSlotRings ==
    ASSUME Inv, NEW t \in Threads, StoreSlot(t)
    PROVE  Slots' /\ Contents'
<1> USE DEF Inv
<1>1. PICK s \in Sides, k0 \in 0 .. kMaxConnections - 1 :
          s = thread[t].side /\ k0 = thread[t].idx
    BY ThreadFields
<1>2. OthersStay(t) /\ thread[t].pc = "store" /\ thread'[t].pc = "close"
    BY StoreSlotEffect
<1>3. PICK u \in UnixFds : u = thread[t].dst /\ SideOf[u] = s /\ unix_to_tcp[u] = None
    BY <1>1, <1>2, HeldConnection DEF Holds
<1>4. /\ UNCHANGED <<start_idx, end_idx, unix_to_tcp>>
      /\ available' = [available EXCEPT ![s][k0] = u]
    BY <1>1, <1>3 DEF StoreSlot, mapVars
<1>5. /\ available'[s][k0] = u
      /\ \A r \in Sides, j \in 0 .. kMaxConnections - 1 :
             r # s \/ j # k0 => available'[r][j] = available[r][j]
    BY <1>4, StoredType
<1>6. Unstored(s, k0)
    BY <1>1, <1>2 DEF Unstored, SlotAt
<1>7. \A r \in Sides, k \in 0 .. kMaxConnections - 1 :
          Unstored(r, k)' <=> Unstored(r, k) /\ ~(r = s /\ k = k0)
    <2>1. \A r \in Threads : r # t => ~(thread[r].pc = "store" /\ thread[r].side = s
                                        /\ thread[r].idx = k0)
        BY <1>1, <1>2 DEF Slots
    <2> QED BY <1>1, <1>2, <2>1 DEF Unstored, SlotAt, OthersStay
<1>8. \A r \in Sides, k \in 0 .. kMaxConnections - 1 : Unread(r, k)' <=> Unread(r, k)
    BY <1>2 DEF Unread, SlotAt, OthersStay
<1>9. \A r \in Sides, k \in 0 .. kMaxConnections - 1 : InWindow(r, k)' <=> InWindow(r, k)
    BY <1>4 DEF InWindow
<1>10. InWindow(s, k0) \/ Unread(s, k0)
    BY <1>6 DEF Slots
<1>11. \A r \in Sides, k \in 0 .. kMaxConnections - 1 :
          Stored(r, k)' <=> Stored(r, k) \/ (r = s /\ k = k0)
    BY <1>7, <1>8, <1>9, <1>10 DEF Stored
<1>12. \A q, r \in Threads :
           /\ thread'[q].pc = thread'[r].pc /\ thread'[q].pc \in {"take", "store"}
           /\ thread'[q].side = thread'[r].side /\ thread'[q].idx = thread'[r].idx
           => q = r
    BY <1>2 DEF Slots, OthersStay
<1>13. Slots'
    BY <1>4, <1>7, <1>8, <1>9, <1>12 DEF Slots
<1>14. \A r \in Threads : /\ Holds(r)' <=> Holds(r) /\ r # t
                          /\ Holds(r) /\ r # t => thread'[r] = thread[r]
    BY <1>2 DEF Holds, OthersStay
<1>15. \A r \in Threads : Holds(r) /\ r # t => thread[r].dst # u
    BY <1>2, <1>3 DEF Contents, Holds
<1>16. \A k \in 0 .. kMaxConnections - 1 : Stored(s, k) => available[s][k] # u
    BY <1>1, <1>2, <1>3 DEF Contents, Holds
<1>17. ~Stored(s, k0)
    BY <1>6 DEF Stored
<1>18. Contents'
    <2>1. \A r \in Sides, k \in 0 .. kMaxConnections - 1 : Stored(r, k)' =>
              available'[r][k] \in ConnectionsTo(r) /\ unix_to_tcp'[available'[r][k]] = None
        BY <1>3, <1>4, <1>5, <1>11 DEF Contents, ConnectionsTo
    <2>2. \A r \in Sides, j, k \in 0 .. kMaxConnections - 1 :
              Stored(r, j)' /\ Stored(r, k)' /\ available'[r][j] = available'[r][k] => j = k
        BY <1>5, <1>11, <1>16, <1>17 DEF Contents
    <2>3. \A r \in Threads, v \in Sides : Holds(r)' /\ thread'[r].side = v =>
              /\ thread'[r].dst \in ConnectionsTo(v)
              /\ unix_to_tcp'[thread'[r].dst] = None
              /\ \A k \in 0 .. kMaxConnections - 1 :
                     Stored(v, k)' => available'[v][k] # thread'[r].dst
        BY <1>4, <1>5, <1>11, <1>14, <1>15 DEF Contents
    <2>4. \A v \in Sides, w \in UnixFds : SideOf[w] = v =>
              \/ unix_to_tcp'[w] # None
              \/ \E r \in Threads : Holds(r)' /\ thread'[r].dst = w
              \/ \E k \in 0 .. kMaxConnections - 1 : Stored(v, k)' /\ available'[v][k] = w
        <3> SUFFICES ASSUME NEW v \in Sides, NEW w \in UnixFds, SideOf[w] = v
                     PROVE  \/ unix_to_tcp'[w] # None
                            \/ \E r \in Threads : Holds(r)' /\ thread'[r].dst = w
                            \/ \E k \in 0 .. kMaxConnections - 1 :
                                   Stored(v, k)' /\ available'[v][k] = w
            OBVIOUS
        <3>1. CASE w = u
            BY <1>3, <1>5, <1>11, <3>1
        <3>2. CASE w # u
            BY <1>3, <1>4, <1>5, <1>11, <1>14, <1>17, <3>2 DEF Contents
        <3> QED BY <3>1, <3>2
    <2> QED BY <1>14, <2>1, <2>2, <2>3, <2>4 DEF Contents
<1> QED BY <1>13, <1>18

LEMMA RingsStep ==
    ASSUME Inv, Prompt, [Next]_vars
    PROVE  Slots' /\ Contents'
<1>1. ASSUME UNCHANGED <<start_idx, end_idx, available, unix_to_tcp, thread>>
      PROVE  Slots' /\ Contents'
    BY <1>1, RingsUnchanged DEF Inv
<1>2. ASSUME NEW t \in Threads, UNCHANGED <<start_idx, end_idx, available, unix_to_tcp>>,
             OthersStay(t),
             thread[t].pc \notin {"take", "associate", "reserve", "store"},
             thread'[t].pc \notin {"take", "associate", "reserve", "store"}
      PROVE  Slots' /\ Contents'
    BY <1>2, SlotsStay, ContentsStay DEF Inv
<1>3. ASSUME NEW t \in Threads, AddToEpoll(t) \/ Rearm(t) \/ CloseTcp(t)
      PROVE  Slots' /\ Contents'
    <2>1. /\ UNCHANGED <<start_idx, end_idx, available, unix_to_tcp>>
          /\ Goto(t, Idle) /\ thread[t].pc \in {"add", "rearm", "close"}
        BY <1>3 DEF AddToEpoll, Rearm, CloseTcp, At, ringVars, mapVars
    <2> QED BY <1>2, <2>1, IdleEffect DEF Inv
<1>4. ASSUME NEW t \in Threads, NEW f \in Fds, TakeEvent(t, f)
      PROVE  Slots' /\ Contents'
    <2>1. UNCHANGED <<start_idx, end_idx, available, unix_to_tcp>>
        BY <1>4 DEF TakeEvent, ringVars, mapVars
    <2> QED BY <1>2, <1>4, <2>1, TakeEventEffect DEF Inv
<1>5. ASSUME NEW t \in Threads, Lookup(t)
      PROVE  Slots' /\ Contents'
    <2>1. UNCHANGED <<start_idx, end_idx, available, unix_to_tcp>> /\ thread[t].pc = "lookup"
        BY <1>5 DEF Lookup, ringVars, mapVars, At
    <2>2. thread[t].src \in Fds
        BY <2>1 DEF Inv, Exclusive, Busy
    <2> QED BY <1>2, <1>5, <2>1, <2>2, LookupEffect DEF Inv
<1>6. ASSUME NEW t \in Threads, Read(t)
      PROVE  Slots' /\ Contents'
    <2>1. UNCHANGED <<start_idx, end_idx, available, unix_to_tcp>> /\ thread[t].pc = "read"
        BY <1>6 DEF Read, ringVars, mapVars, At
    <2>2. thread[t].src \in Fds
        BY <2>1 DEF Inv, Exclusive, Busy
    <2> QED BY <1>2, <1>6, <2>1, <2>2, ReadEffect DEF Inv
<1>7. ASSUME NEW t \in Threads, Write(t)
      PROVE  Slots' /\ Contents'
    <2>1. UNCHANGED <<start_idx, end_idx, available, unix_to_tcp>>
        BY <1>7 DEF Write, ringVars, mapVars
    <2> QED BY <1>2, <1>7, <2>1, WriteEffect DEF Inv
<1> QED
    BY <1>1, <1>3, <1>4, <1>5, <1>6, <1>7, AcceptRings, TakeUnixRings, AssociateRings,
       EraseMapsRings, ReserveSlotRings, StoreSlotRings
    DEF Next, ThreadNext, Connect, Request, Finish, ServerReply, Stopped, Fds,
        vars, ringVars, mapVars

-----------------------------------------------------------------------------
(* Events and end of file.                                                 *)

(* The TCP descriptors of the busy threads have their clients. *)
LEMMA BusyPeers ==
    ASSUME Inv
    PROVE  /\ \A t \in Threads : Busy(t) /\ thread[t].src \in TcpFds => peer[thread[t].src] \in Clients
           /\ \A t, r \in Threads :
                  /\ Busy(t) /\ thread[t].src \in TcpFds
                  /\ Busy(r) /\ thread[r].src \in TcpFds
                  /\ peer[thread[t].src] = peer[thread[r].src]
                  => t = r
<1>1. \A t \in Threads : Busy(t) /\ thread[t].src \in TcpFds =>
          peer[thread[t].src] \in Clients /\ peer[thread[t].src] # None
    BY DEF Inv, Exclusive, TypeOK
<1>2. \A t, r \in Threads :
          /\ Busy(t) /\ thread[t].src \in TcpFds
          /\ Busy(r) /\ thread[r].src \in TcpFds
          /\ peer[thread[t].src] = peer[thread[r].src]
          => thread[t].src = thread[r].src
    BY <1>1 DEF Inv, Peers
<1>3. \A t, r \in Threads : Busy(t) /\ Busy(r) /\ thread[t].src = thread[r].src => t = r
    BY DEF Inv, Exclusive
<1> QED BY <1>1, <1>2, <1>3

(* What Events says of thread t. *)
EventOf(t) ==
    /\ thread[t].pc \in {"lookup", "read"} =>
           IF thread[t].src \in UnixFds THEN toRouter[thread[t].src] # << >>
           ELSE sent[peer[thread[t].src]] # << >> \/ peer[thread[t].src] \in fin
    /\ thread[t].pc \in Closing \cup {"erase"} => peer[thread[t].src] \in fin
    /\ thread[t].pc # "write" => thread[t].buf = << >>

LEMMA EventsParts == Events <=> \A t \in Threads : EventOf(t)
BY DEF Events, EventOf

(* A thread that does not move keeps its event, if nobody else reads its   *)
(* descriptor and its client stays the same.                               *)
LEMMA EventStays ==
    ASSUME Inv, NEW r \in Threads, thread'[r] = thread[r], fin \subseteq fin',
           Busy(r) /\ thread[r].src \in TcpFds => peer'[thread[r].src] = peer[thread[r].src],
           \A c \in Clients : sent[c] # << >> /\ sent'[c] = << >> =>
               ~(Busy(r) /\ thread[r].src \in TcpFds /\ peer[thread[r].src] = c),
           \A u \in UnixFds : toRouter[u] # << >> /\ toRouter'[u] = << >> =>
               ~(Busy(r) /\ thread[r].src = u)
    PROVE  EventOf(r)'
<1>1. EventOf(r) /\ (Busy(r) => thread[r].src \in Fds)
    BY EventsParts DEF Inv, Exclusive
<1>2. Busy(r) /\ thread[r].src \in TcpFds => peer[thread[r].src] \in Clients
    BY BusyPeers
<1>3. thread[r].pc \in {"lookup", "read"} =>
          IF thread[r].src \in UnixFds THEN toRouter'[thread[r].src] # << >>
          ELSE sent'[peer'[thread[r].src]] # << >> \/ peer'[thread[r].src] \in fin'
    BY <1>1, <1>2, NoneIsNothing DEF EventOf, Busy, Fds
<1>4. thread[r].pc \in Closing \cup {"erase"} => peer'[thread[r].src] \in fin'
    <2>1. thread[r].pc \in Closing \cup {"erase"} => thread[r].src \in TcpFds
        BY DEF Inv, Exclusive, Busy, Handling, Closing
    <2> QED BY <1>1, <2>1 DEF EventOf, Busy, Closing
<1> QED BY <1>1, <1>3, <1>4 DEF EventOf

LEMMA EventsStep ==
    ASSUME Inv, [Next]_vars, Exclusive'
    PROVE  Events'
<1> USE DEF Inv
<1> SUFFICES ASSUME NEW r \in Threads PROVE EventOf(r)'
    BY DEF Events, EventOf
<1>1. ASSUME UNCHANGED <<thread, peer, sent, toRouter>>, fin \subseteq fin'
      PROVE  EventOf(r)'
    BY <1>1, EventStays
<1>2. ASSUME NEW t \in Threads, NEW c \in Clients, Accept(t, c)
      PROVE  EventOf(r)'
    <2>1. PICK f \in TcpFds :
              /\ peer[f] = None /\ peer' = [peer EXCEPT ![f] = c]
              /\ OthersStay(t)
              /\ thread'[t].pc = "take" /\ thread'[t].buf = << >>
        BY <1>2, AcceptEffect
    <2>2. \A g \in TcpFds : g # f => peer'[g] = peer[g]
        BY <2>1 DEF TypeOK
    <2>3. Busy(r) => thread[r].src # f
        BY <2>1 DEF Exclusive
    <2>4. UNCHANGED <<fin, sent, toRouter>>
        BY <1>2 DEF Accept
    <2>5. CASE r = t
        BY <2>1, <2>5 DEF EventOf, Closing
    <2>6. CASE r # t
        BY <2>1, <2>2, <2>3, <2>4, <2>6, EventStays DEF OthersStay
    <2> QED BY <2>5, <2>6
<1>3. ASSUME NEW t \in Threads, UNCHANGED <<peer, fin, sent, toRouter>>, OthersStay(t),
             thread'[t].pc \notin {"lookup", "read"},
             thread'[t].pc \in Closing \cup {"erase"} =>
                 thread'[t].src = thread[t].src /\ thread[t].pc \in Closing \cup {"erase"},
             thread'[t].buf = << >>
      PROVE  EventOf(r)'
    <2>1. CASE r = t
        BY <1>3, <2>1 DEF EventOf, Events
    <2>2. CASE r # t
        BY <1>3, <2>2, EventStays DEF OthersStay
    <2> QED BY <2>1, <2>2
<1>4. ASSUME NEW t \in Threads, TakeUnix(t)
      PROVE  EventOf(r)'
    <2>1. UNCHANGED <<peer, fin, sent, toRouter>>
        BY <1>4 DEF TakeUnix, clientVars
    <2> QED BY <1>3, <1>4, <2>1, TakeUnixEffect DEF Events, Closing
<1>5. ASSUME NEW t \in Threads, Associate(t)
      PROVE  EventOf(r)'
    <2>1. UNCHANGED <<peer, fin, sent, toRouter>>
        BY <1>5 DEF Associate, clientVars
    <2> QED BY <1>3, <1>5, <2>1, AssociateEffect DEF Events, Closing
<1>6. ASSUME NEW t \in Threads, AddToEpoll(t) \/ Rearm(t)
      PROVE  EventOf(r)'
    <2>1. UNCHANGED <<peer, fin, sent, toRouter>> /\ Goto(t, Idle)
        BY <1>6 DEF AddToEpoll, Rearm, clientVars
    <2> QED BY <1>3, <2>1, IdleEffect DEF Closing
<1>7. ASSUME NEW t \in Threads, NEW f \in Fds, TakeEvent(t, f)
      PROVE  EventOf(r)'
    <2>1. UNCHANGED <<peer, fin, sent, toRouter>> /\ (Pending(f) # << >> \/ AtEof(f)) /\ f \in armed
        BY <1>7 DEF TakeEvent, clientVars
    <2>2. OthersStay(t) /\ thread'[t].pc = "lookup" /\ thread'[t].src = f /\ thread'[t].buf = << >>
        BY <1>7, TakeEventEffect
    <2>3. CASE r = t
        <3>1. f \in TcpFds => peer[f] # None
            BY <2>1 DEF Exclusive
        <3>2. IF f \in UnixFds THEN toRouter[f] # << >>
              ELSE sent[peer[f]] # << >> \/ peer[f] \in fin
            BY <2>1, <3>1, PendingType DEF Fds
        <3> QED BY <2>1, <2>2, <2>3, <3>2 DEF EventOf, Closing
    <2>4. CASE r # t
        BY <2>1, <2>2, <2>4, EventStays DEF OthersStay
    <2> QED BY <2>3, <2>4
<1>8. ASSUME NEW t \in Threads, Lookup(t)
      PROVE  EventOf(r)'
    <2>1. UNCHANGED <<peer, fin, sent, toRouter>> /\ thread[t].pc = "lookup"
        BY <1>8 DEF Lookup, clientVars, At
    <2>2. thread[t].src \in Fds
        BY <2>1 DEF Exclusive, Busy
    <2>3. OthersStay(t) /\ thread'[t].pc = "read" /\ thread'[t].src = thread[t].src
          /\ thread'[t].buf = thread[t].buf
        BY <1>8, <2>2, LookupEffect
    <2>4. CASE r = t
        BY <2>1, <2>3, <2>4 DEF EventOf, Events, Closing
    <2>5. CASE r # t
        BY <2>1, <2>3, <2>5, EventStays DEF OthersStay
    <2> QED BY <2>4, <2>5
<1>9. ASSUME NEW t \in Threads, Read(t)
      PROVE  EventOf(r)'
    <2> DEFINE f == thread[t].src
    <2>1. UNCHANGED <<peer, fin>> /\ thread[t].pc = "read"
        BY <1>9 DEF Read, At
    <2>2. f \in Fds
        BY <2>1 DEF Exclusive, Busy
    <2>3. /\ OthersStay(t) /\ thread'[t].pc = IF Pending(f) # << >> THEN "write" ELSE "erase"
          /\ thread'[t].src = f /\ thread'[t].buf = Pending(f)
        BY <1>9, <2>2, ReadEffect
    <2>4. IF f \in UnixFds
          THEN toRouter' = [toRouter EXCEPT ![f] = << >>] /\ sent' = sent
          ELSE sent' = [sent EXCEPT ![peer[f]] = << >>] /\ toRouter' = toRouter
        BY <1>9 DEF Read
    <2>5. CASE r = t
        <3>1. Pending(f) = << >> => f \in TcpFds /\ peer[f] \in fin
            <4>1. f \in TcpFds => peer[f] # None
                BY <2>1 DEF Exclusive, Busy
            <4>2. IF f \in UnixFds THEN toRouter[f] # << >>
                  ELSE sent[peer[f]] # << >> \/ peer[f] \in fin
                BY <2>1 DEF Events
            <4> QED BY <2>2, <4>1, <4>2, PendingType DEF Fds
        <3> QED BY <2>1, <2>3, <2>5, <3>1 DEF EventOf, Closing
    <2>6. CASE r # t
        <3>1. \A c \in Clients : sent[c] # << >> /\ sent'[c] = << >> =>
                  f \in TcpFds /\ c = peer[f]
            BY <2>2, <2>4 DEF TypeOK, Fds
        <3>2. \A u \in UnixFds : toRouter[u] # << >> /\ toRouter'[u] = << >> => u = f
            BY <2>4 DEF TypeOK
        <3>3. \A c \in Clients : sent[c] # << >> /\ sent'[c] = << >> =>
                  ~(Busy(r) /\ thread[r].src \in TcpFds /\ peer[thread[r].src] = c)
            BY <2>1, <2>6, <3>1, BusyPeers DEF Busy
        <3>4. Busy(r) => thread[r].src # f
            BY <2>1, <2>6 DEF Exclusive, Busy
        <3> QED BY <2>1, <2>3, <2>6, <3>2, <3>3, <3>4, EventStays DEF OthersStay
    <2> QED BY <2>5, <2>6
<1>10. ASSUME NEW t \in Threads, Write(t)
       PROVE  EventOf(r)'
    <2>1. UNCHANGED <<peer, fin, sent, toRouter>>
        BY <1>10 DEF Write, clientVars
    <2> QED BY <1>3, <1>10, <2>1, WriteEffect DEF Closing
<1>11. ASSUME NEW t \in Threads, EraseMaps(t)
       PROVE  EventOf(r)'
    <2>1. UNCHANGED <<peer, fin, sent, toRouter>> /\ thread[t].pc = "erase"
        BY <1>11 DEF EraseMaps, clientVars, At
    <2>2. thread[t].src \in TcpFds /\ tcp_to_unix[thread[t].src] \in UnixFds
        BY <2>1, ErasePaired
    <2>3. thread[t].buf = << >>
        BY <2>1 DEF Events
    <2> QED BY <1>3, <1>11, <2>1, <2>2, <2>3, EraseMapsEffect
<1>12. ASSUME NEW t \in Threads, ReserveSlot(t)
       PROVE  EventOf(r)'
    <2>1. UNCHANGED <<peer, fin, sent, toRouter>>
        BY <1>12 DEF ReserveSlot, clientVars
    <2> QED BY <1>3, <1>12, <2>1, ReserveSlotEffect DEF Events, Closing
<1>13. ASSUME NEW t \in Threads, StoreSlot(t)
       PROVE  EventOf(r)'
    <2>1. UNCHANGED <<peer, fin, sent, toRouter>>
        BY <1>13 DEF StoreSlot, clientVars
    <2> QED BY <1>3, <1>13, <2>1, StoreSlotEffect DEF Events, Closing
<1>14. ASSUME NEW t \in Threads, CloseTcp(t)
       PROVE  EventOf(r)'
    <2>1. /\ thread[t].pc = "close" /\ UNCHANGED <<fin, sent, toRouter>>
          /\ peer' = [peer EXCEPT ![thread[t].src] = None]
        BY <1>14 DEF CloseTcp, At, clientVars
    <2>2. OthersStay(t) /\ thread'[t].pc = "wait" /\ thread'[t].buf = << >>
        BY <1>14, IdleEffect DEF CloseTcp
    <2>3. \A g \in TcpFds : g # thread[t].src => peer'[g] = peer[g]
        BY <2>1 DEF TypeOK
    <2>4. CASE r = t
        BY <2>2, <2>4 DEF EventOf, Closing
    <2>5. CASE r # t
        <3>1. Busy(r) => thread[r].src # thread[t].src
            BY <2>1, <2>5 DEF Exclusive, Busy
        <3> QED BY <2>1, <2>2, <2>3, <2>5, <3>1, EventStays DEF OthersStay
    <2> QED BY <2>4, <2>5
<1>15. ASSUME NEW c \in Clients, Request(c)
       PROVE  EventOf(r)'
    <2>1. UNCHANGED <<thread, peer, fin, toRouter>> /\ sent' = [sent EXCEPT ![c] = Append(@, c)]
        BY <1>15 DEF Request
    <2>2. \A d \in Clients : sent[d] # << >> => sent'[d] # << >>
        <3>1. sent[c] \in Seq(Clients)
            BY DEF TypeOK
        <3>2. Append(sent[c], c) # << >>
            BY <3>1, AppendProperties
        <3> QED BY <2>1, <3>2 DEF TypeOK
    <2> QED BY <2>1, <2>2, EventStays
<1>16. ASSUME NEW u \in UnixFds, ServerReply(u)
       PROVE  EventOf(r)'
    <2> DEFINE x == Head(toServer[u])
    <2>1. UNCHANGED <<thread, peer, fin, sent>> /\ toRouter' = [toRouter EXCEPT ![u] = Append(@, x)]
          /\ toServer[u] # << >>
        BY <1>16 DEF ServerReply, clientVars
    <2>2. \A v \in UnixFds : toRouter[v] # << >> => toRouter'[v] # << >>
        <3>1. toRouter[u] \in Seq(Clients) /\ x \in Clients
            BY <2>1 DEF TypeOK
        <3> HIDE DEF x
        <3>2. Append(toRouter[u], x) # << >>
            BY <3>1, AppendProperties
        <3> QED BY <2>1, <3>2 DEF TypeOK
    <2> QED BY <2>1, <2>2, EventStays
<1> QED
    BY <1>1, <1>2, <1>4, <1>5, <1>6, <1>7, <1>8, <1>9, <1>10, <1>11, <1>12, <1>13,
       <1>14, <1>15, <1>16
    DEF Next, ThreadNext, Connect, Finish, Stopped, Fds, vars, clientVars

-----------------------------------------------------------------------------
(* Counting messages.                                                      *)

Boxes == [Places -> Seq(Clients)]

LEMMA CopiesMember ==
    ASSUME NEW B \in Boxes, NEW c, NEW p \in Places, NEW i \in Int
    PROVE  <<p, i>> \in CopiesIn(B, c) <=> i \in 1 .. Len(B[p]) /\ B[p][i] = c
<1>1. Len(B[p]) \in Nat
    BY DEF Boxes
<1>2. <<p, i>> \in Places \X (Nat \ {0}) <=> i \in Nat \ {0}
    OBVIOUS
<1> QED BY <1>1, <1>2 DEF CopiesIn

(* The messages m go from the front of box p to the end of box q. *)
BoxesAfterMove(B, B2, p, q, m) ==
    /\ B \in Boxes /\ B2 \in Boxes /\ p \in Places /\ q \in Places /\ p # q
    /\ m \in Seq(Clients) /\ B[p] = m \o B2[p] /\ B2[q] = B[q] \o m
    /\ \A x \in Places : x # p /\ x # q => B2[x] = B[x]

LEMMA MessagesMove ==
    ASSUME NEW B, NEW B2, NEW p, NEW q, NEW m, BoxesAfterMove(B, B2, p, q, m),
           NEW c \in Clients, IsFiniteSet(CopiesIn(B, c))
    PROVE  /\ IsFiniteSet(CopiesIn(B2, c))
           /\ Cardinality(CopiesIn(B2, c)) <= Cardinality(CopiesIn(B, c))
<1> USE DEF BoxesAfterMove
<1> DEFINE S == CopiesIn(B2, c)
           T == CopiesIn(B, c)
           g == [x \in S |-> IF x[1] = p THEN <<p, x[2] + Len(m)>>
                             ELSE IF x[1] = q /\ x[2] > Len(B[q]) THEN <<p, x[2] - Len(B[q])>>
                             ELSE x]
<1>1. \A x \in S : /\ x = <<x[1], x[2]>> /\ x[1] \in Places
                   /\ x[2] \in 1 .. Len(B2[x[1]]) /\ B2[x[1]][x[2]] = c
    <2> SUFFICES ASSUME NEW x \in S
                 PROVE  /\ x = <<x[1], x[2]>> /\ x[1] \in Places
                        /\ x[2] \in 1 .. Len(B2[x[1]]) /\ B2[x[1]][x[2]] = c
        OBVIOUS
    <2>1. x \in Places \X (Nat \ {0}) /\ x[2] <= Len(B2[x[1]]) /\ B2[x[1]][x[2]] = c
        BY DEF CopiesIn
    <2>2. x = <<x[1], x[2]>> /\ x[1] \in Places /\ x[2] \in Nat \ {0}
        BY <2>1
    <2>3. Len(B2[x[1]]) \in Nat
        BY <2>2 DEF Boxes
    <2> QED BY <2>1, <2>2, <2>3
<1>2. PICK lm \in Nat, lq \in Nat, lp \in Nat : lm = Len(m) /\ lq = Len(B[q]) /\ lp = Len(B2[p])
    BY DEF Boxes
<1>3. /\ Len(B[p]) = lm + lp
      /\ \A i \in 1 .. lm : B[p][i] = m[i]
      /\ \A i \in 1 .. lp : B[p][i + lm] = B2[p][i]
    <2>1. B2[p] \in Seq(Clients)
        BY DEF Boxes
    <2> QED BY <1>2, <2>1
<1>4. /\ Len(B2[q]) = lq + lm
      /\ \A i \in 1 .. lq : B2[q][i] = B[q][i]
      /\ \A i \in lq + 1 .. lq + lm : B2[q][i] = m[i - lq]
    <2>1. B[q] \in Seq(Clients)
        BY DEF Boxes
    <2> QED BY <1>2, <2>1
<1>t. \A y \in Places, i \in Int : i \in 1 .. Len(B[y]) /\ B[y][i] = c => <<y, i>> \in T
    BY CopiesMember
<1> HIDE DEF S, T
<1>5. ASSUME NEW x \in S
      PROVE  g[x] \in T
    <2>1. PICK y \in Places, i \in Int : y = x[1] /\ i = x[2] /\ x = <<y, i>>
        BY <1>1
    <2>2. i \in 1 .. Len(B2[y]) /\ B2[y][i] = c
        BY <1>1, <2>1
    <2>3. CASE y = p
        <3>1. g[x] = <<p, i + lm>>
            BY <1>2, <2>1, <2>3
        <3>2. i + lm \in 1 .. Len(B[p]) /\ B[p][i + lm] = c /\ i + lm \in Int
            BY <1>2, <1>3, <2>2, <2>3
        <3>3. <<p, i + lm>> \in T
            BY <1>t, <3>2
        <3> QED BY <3>1, <3>3
    <2>4. CASE y = q /\ i > lq
        <3>1. g[x] = <<p, i - lq>>
            BY <1>2, <2>1, <2>4
        <3>2. i \in lq + 1 .. lq + lm
            BY <1>4, <2>2, <2>4
        <3>3. PICK j \in 1 .. lm : j = i - lq
            BY <3>2
        <3>4. m[j] = c
            BY <1>4, <2>2, <2>4, <3>2, <3>3
        <3>5. j \in 1 .. Len(B[p]) /\ j \in Int /\ B[p][j] = c
            BY <1>3, <3>4
        <3>6. <<p, j>> \in T
            BY <1>t, <3>5
        <3> QED BY <3>1, <3>3, <3>6
    <2>5. CASE y # p /\ ~(y = q /\ i > lq)
        <3>1. g[x] = <<y, i>>
            BY <1>2, <2>1, <2>5
        <3>2. i \in 1 .. Len(B[y]) /\ B[y][i] = c
            BY <1>2, <1>4, <2>2, <2>5
        <3>3. <<y, i>> \in T
            BY <1>t, <3>2
        <3> QED BY <3>1, <3>3
    <2> QED BY <2>3, <2>4, <2>5
<1>6. ASSUME NEW x \in S, NEW z \in S, g[x] = g[z]
      PROVE  x = z
    <2>1. PICK y \in Places, i \in Int : y = x[1] /\ i = x[2] /\ x = <<y, i>>
        BY <1>1
    <2>2. PICK v \in Places, j \in Int : v = z[1] /\ j = z[2] /\ z = <<v, j>>
        BY <1>1
    <2>3. i \in 1 .. Len(B2[y]) /\ j \in 1 .. Len(B2[v])
        BY <1>1, <2>1, <2>2
    <2>4. g[x] = IF y = p THEN <<p, i + lm>> ELSE IF y = q /\ i > lq THEN <<p, i - lq>> ELSE <<y, i>>
        BY <1>2, <2>1
    <2>5. g[z] = IF v = p THEN <<p, j + lm>> ELSE IF v = q /\ j > lq THEN <<p, j - lq>> ELSE <<v, j>>
        BY <1>2, <2>2
    <2>6. y = q => i <= lq + lm
        BY <1>4, <2>3
    <2>7. v = q => j <= lq + lm
        BY <1>4, <2>3
    <2>8. i >= 1 /\ j >= 1
        BY <2>3
    <2> HIDE DEF g
    <2> DEFINE gx == g[x]
    <2>9. /\ gx[1] = IF y = p \/ (y = q /\ i > lq) THEN p ELSE y
          /\ gx[2] = IF y = p THEN i + lm ELSE IF y = q /\ i > lq THEN i - lq ELSE i
        <3> HIDE DEF gx
        <3>1. gx = IF y = p THEN <<p, i + lm>>
                   ELSE IF y = q /\ i > lq THEN <<p, i - lq>> ELSE <<y, i>>
            BY <2>4 DEF gx
        <3> QED BY <3>1
    <2>10. /\ gx[1] = IF v = p \/ (v = q /\ j > lq) THEN p ELSE v
           /\ gx[2] = IF v = p THEN j + lm ELSE IF v = q /\ j > lq THEN j - lq ELSE j
        <3> HIDE DEF gx
        <3>1. gx = IF v = p THEN <<p, j + lm>>
                   ELSE IF v = q /\ j > lq THEN <<p, j - lq>> ELSE <<v, j>>
            BY <1>6, <2>5 DEF gx
        <3> QED BY <3>1
    <2> HIDE DEF gx
    <2>11. y = v /\ i = j
        BY <2>6, <2>7, <2>8, <2>9, <2>10
    <2> QED BY <2>1, <2>2, <2>11
<1>7. g \in Injection(S, T)
    <2>1. g \in [S -> T]
        BY <1>5
    <2> HIDE DEF g
    <2> QED BY <1>6, <2>1 DEF Injection, IsInjective
<1> HIDE DEF g
<1>8. IsFiniteSet(T)
    BY DEF T
<1>9. IsFiniteSet(S) /\ Cardinality(S) <= Cardinality(T)
    BY <1>7, <1>8, FS_Injection
<1> QED BY <1>9 DEF S, T

(* A box is emptied. *)
LEMMA MessagesDropped ==
    ASSUME NEW B \in Boxes, NEW B2 \in Boxes, NEW p \in Places, B2[p] = << >>,
           \A x \in Places : x # p => B2[x] = B[x],
           NEW c \in Clients, IsFiniteSet(CopiesIn(B, c))
    PROVE  /\ IsFiniteSet(CopiesIn(B2, c))
           /\ Cardinality(CopiesIn(B2, c)) <= Cardinality(CopiesIn(B, c))
<1>1. CopiesIn(B2, c) \subseteq CopiesIn(B, c)
    <2>1. Len(B2[p]) = 0
        OBVIOUS
    <2> QED BY <2>1 DEF CopiesIn
<1> QED BY <1>1, FS_Subset

(* A client sends a request. *)
LEMMA MessageSent ==
    ASSUME NEW B \in Boxes, NEW B2 \in Boxes, NEW p \in Places, NEW d \in Clients,
           B2[p] = Append(B[p], d), \A x \in Places : x # p => B2[x] = B[x],
           NEW c \in Clients, IsFiniteSet(CopiesIn(B, c))
    PROVE  /\ IsFiniteSet(CopiesIn(B2, c))
           /\ Cardinality(CopiesIn(B2, c)) <= Cardinality(CopiesIn(B, c)) + (IF c = d THEN 1 ELSE 0)
<1> DEFINE T == CopiesIn(B, c)
           S == CopiesIn(B2, c)
           new == <<p, Len(B[p]) + 1>>
<1>1. B[p] \in Seq(Clients) /\ Len(B[p]) \in Nat
    BY DEF Boxes
<1>2. /\ Len(B2[p]) = Len(B[p]) + 1
      /\ \A i \in 1 .. Len(B[p]) : B2[p][i] = B[p][i]
      /\ B2[p][Len(B[p]) + 1] = d
    BY <1>1, AppendProperties
<1>3. \A x \in S : x \in T \/ (x = new /\ c = d)
    <2> SUFFICES ASSUME NEW x \in S, x \notin T PROVE x = new /\ c = d
        OBVIOUS
    <2>1. x \in Places \X (Nat \ {0}) /\ x[2] <= Len(B2[x[1]]) /\ B2[x[1]][x[2]] = c
        BY DEF CopiesIn
    <2>2. x = <<x[1], x[2]>> /\ x[1] \in Places /\ x[2] \in Nat \ {0}
        BY <2>1
    <2>3. ~(x[2] <= Len(B[x[1]]) /\ B[x[1]][x[2]] = c)
        BY <2>1 DEF CopiesIn
    <2>4. x[1] = p
        BY <2>1, <2>2, <2>3
    <2>5. x[2] = Len(B[p]) + 1
        BY <1>1, <1>2, <2>1, <2>2, <2>3, <2>4
    <2> QED BY <1>2, <2>1, <2>2, <2>4, <2>5
<1> HIDE DEF S, T
<1>4. IsFiniteSet(T) /\ Cardinality(T) \in Nat
    BY FS_CardinalityType DEF T
<1>5. CASE c = d
    <2> HIDE DEF new
    <2>1. IsFiniteSet(T \cup {new}) /\ Cardinality(T \cup {new}) <= Cardinality(T) + 1
        <3>1. /\ IsFiniteSet(T \cup {new})
              /\ Cardinality(T \cup {new}) = IF new \in T THEN Cardinality(T) ELSE Cardinality(T) + 1
            BY <1>4, FS_AddElement
        <3> QED BY <1>4, <3>1
    <2>2. S \in SUBSET (T \cup {new})
        BY <1>3
    <2>3. IsFiniteSet(S) /\ Cardinality(S) <= Cardinality(T \cup {new})
        BY <2>1, <2>2, FS_Subset
    <2>4. Cardinality(T \cup {new}) \in Nat /\ Cardinality(S) \in Nat
        BY <2>1, <2>3, FS_CardinalityType
    <2> QED BY <1>4, <1>5, <2>1, <2>3, <2>4 DEF S, T
<1>6. CASE c # d
    <2>1. S \in SUBSET T
        BY <1>3, <1>6
    <2>2. IsFiniteSet(S) /\ Cardinality(S) <= Cardinality(T)
        BY <1>4, <2>1, FS_Subset
    <2> QED BY <1>4, <1>6, <2>2 DEF S, T
<1> QED BY <1>5, <1>6

(* The boxes of Router. *)
LEMMA BoxAt ==
    /\ \A c \in Clients : <<"sent", c>> \in Places /\ Box[<<"sent", c>>] = sent[c]
    /\ \A t \in Threads : <<"buf", t>> \in Places /\ Box[<<"buf", t>>] = thread[t].buf
    /\ \A u \in UnixFds : <<"toServer", u>> \in Places /\ Box[<<"toServer", u>>] = toServer[u]
    /\ \A u \in UnixFds : <<"toRouter", u>> \in Places /\ Box[<<"toRouter", u>>] = toRouter[u]
    /\ \A c \in Clients : <<"got", c>> \in Places /\ Box[<<"got", c>>] = got[c]
BY DEF Box, Places

LEMMA PlacesAre ==
    ASSUME NEW p \in Places
    PROVE  \/ \E c \in Clients : p = <<"sent", c>>
           \/ \E t \in Threads : p = <<"buf", t>>
           \/ \E u \in UnixFds : p = <<"toServer", u>>
           \/ \E u \in UnixFds : p = <<"toRouter", u>>
           \/ \E c \in Clients : p = <<"got", c>>
BY DEF Places

LEMMA BoxType == ASSUME TypeOK PROVE Box \in Boxes
<1>1. \A p \in Places : Box[p] \in Seq(Clients)
    <2> SUFFICES ASSUME NEW p \in Places PROVE Box[p] \in Seq(Clients)
        OBVIOUS
    <2>1. CASE \E c \in Clients : p = <<"sent", c>>
        BY <2>1, BoxAt DEF TypeOK
    <2>2. CASE \E t \in Threads : p = <<"buf", t>>
        BY <2>2, BoxAt, ThreadFields
    <2>3. CASE \E u \in UnixFds : p = <<"toServer", u>>
        BY <2>3, BoxAt DEF TypeOK
    <2>4. CASE \E u \in UnixFds : p = <<"toRouter", u>>
        BY <2>4, BoxAt DEF TypeOK
    <2>5. CASE \E c \in Clients : p = <<"got", c>>
        BY <2>5, BoxAt DEF TypeOK
    <2> QED BY <2>1, <2>2, <2>3, <2>4, <2>5, PlacesAre
<1>2. Box = [p \in Places |-> Box[p]]
    BY DEF Box
<1> HIDE DEF Boxes
<1> QED BY <1>1, <1>2 DEF Boxes

(* The boxes after a step. *)
LEMMA NextBoxAt ==
    /\ \A c \in Clients : Box'[<<"sent", c>>] = sent'[c]
    /\ \A t \in Threads : Box'[<<"buf", t>>] = thread'[t].buf
    /\ \A u \in UnixFds : Box'[<<"toServer", u>>] = toServer'[u]
    /\ \A u \in UnixFds : Box'[<<"toRouter", u>>] = toRouter'[u]
    /\ \A c \in Clients : Box'[<<"got", c>>] = got'[c]
BY DEF Box, Places

LEMMA NextBoxType == ASSUME TypeOK' PROVE Box' \in Boxes
<1>1. (TypeOK => Box \in Boxes)'
    BY BoxType, PTL
<1> QED BY <1>1 DEF Boxes, Places

LEMMA BoxStays ==
    ASSUME UNCHANGED <<sent, toServer, toRouter, got>>,
           \A t \in Threads : thread'[t].buf = thread[t].buf
    PROVE  Box' = Box
BY DEF Box, Places

(* The boxes outside C stay as they are. *)
LEMMA BoxElsewhere ==
    ASSUME NEW C,
           \A c \in Clients : <<"sent", c>> \notin C => sent'[c] = sent[c],
           \A t \in Threads : <<"buf", t>> \notin C => thread'[t].buf = thread[t].buf,
           \A u \in UnixFds : <<"toServer", u>> \notin C => toServer'[u] = toServer[u],
           \A u \in UnixFds : <<"toRouter", u>> \notin C => toRouter'[u] = toRouter[u],
           \A c \in Clients : <<"got", c>> \notin C => got'[c] = got[c]
    PROVE  \A x \in Places : x \notin C => Box'[x] = Box[x]
<1> SUFFICES ASSUME NEW x \in Places, x \notin C PROVE Box'[x] = Box[x]
    OBVIOUS
<1> QED BY PlacesAre, BoxAt, NextBoxAt

LEMMA CountedPrime ==
    ASSUME \A c \in Clients : /\ IsFiniteSet(CopiesIn(Box', c))
                              /\ Cardinality(CopiesIn(Box', c)) <= asked'[c]
    PROVE  Counted'
BY DEF Counted, CopiesIn

(* Nothing is sent, and no message is copied. *)
LEMMA CountKept ==
    ASSUME Inv, asked' = asked,
           \A c \in Clients :
               IsFiniteSet(CopiesIn(Box, c)) =>
                   /\ IsFiniteSet(CopiesIn(Box', c))
                   /\ Cardinality(CopiesIn(Box', c)) <= Cardinality(CopiesIn(Box, c))
    PROVE  Counted'
<1> SUFFICES ASSUME NEW c \in Clients
             PROVE  /\ IsFiniteSet(CopiesIn(Box', c))
                    /\ Cardinality(CopiesIn(Box', c)) <= asked'[c]
    BY CountedPrime
<1> DEFINE S == CopiesIn(Box', c)
           T == CopiesIn(Box, c)
<1>1. IsFiniteSet(T) /\ Cardinality(T) <= asked[c] /\ asked[c] \in Nat
    BY DEF Inv, Counted, TypeOK
<1> HIDE DEF S, T
<1>2. IsFiniteSet(S) /\ Cardinality(S) <= Cardinality(T)
    BY <1>1 DEF S, T
<1>3. Cardinality(S) \in Nat /\ Cardinality(T) \in Nat
    BY <1>1, <1>2, FS_CardinalityType
<1>4. IsFiniteSet(S) /\ Cardinality(S) <= asked[c]
    BY <1>1, <1>2, <1>3
<1> QED BY <1>4 DEF S

LEMMA SameBoxes ==
    ASSUME Inv, asked' = asked, UNCHANGED <<sent, toServer, toRouter, got>>,
           \A t \in Threads : thread'[t].buf = thread[t].buf
    PROVE  Counted'
<1>1. Box' = Box
    BY BoxStays
<1>2. \A c \in Clients : CopiesIn(Box', c) = CopiesIn(Box, c)
    BY <1>1
<1>3. \A c \in Clients : /\ IsFiniteSet(CopiesIn(Box', c))
                         /\ Cardinality(CopiesIn(Box', c)) <= asked'[c]
    BY <1>2 DEF Inv, Counted
<1> QED BY <1>3, CountedPrime

LEMMA CountedMove ==
    ASSUME Inv, TypeOK', asked' = asked, NEW p \in Places, NEW q \in Places, p # q,
           NEW m \in Seq(Clients), Box[p] = m \o Box'[p], Box'[q] = Box[q] \o m,
           \A x \in Places : x \notin {p, q} => Box'[x] = Box[x]
    PROVE  Counted'
<1> PICK B, B2 : B = Box /\ B2 = Box'
    OBVIOUS
<1>1. B \in Boxes /\ B2 \in Boxes
    BY BoxType, NextBoxType DEF Inv
<1>2. \A c \in Clients :
          IsFiniteSet(CopiesIn(B, c)) =>
              /\ IsFiniteSet(CopiesIn(B2, c))
              /\ Cardinality(CopiesIn(B2, c)) <= Cardinality(CopiesIn(B, c))
    <2>1. BoxesAfterMove(B, B2, p, q, m)
        BY <1>1 DEF BoxesAfterMove
    <2> QED BY <2>1, MessagesMove
<1> QED BY <1>2, CountKept

LEMMA CountedDrop ==
    ASSUME Inv, TypeOK', asked' = asked, NEW p \in Places, Box'[p] = << >>,
           \A x \in Places : x \notin {p} => Box'[x] = Box[x]
    PROVE  Counted'
<1> PICK B, B2 : B = Box /\ B2 = Box'
    OBVIOUS
<1>1. B \in Boxes /\ B2 \in Boxes
    BY BoxType, NextBoxType DEF Inv
<1>2. \A c \in Clients :
          IsFiniteSet(CopiesIn(B, c)) =>
              /\ IsFiniteSet(CopiesIn(B2, c))
              /\ Cardinality(CopiesIn(B2, c)) <= Cardinality(CopiesIn(B, c))
    BY <1>1, MessagesDropped
<1> QED BY <1>2, CountKept

LEMMA CountedStep ==
    ASSUME Inv, [Next]_vars, TypeOK'
    PROVE  Counted'
<1> USE DEF Inv
<1>1. ASSUME NEW t \in Threads, UNCHANGED <<asked, sent, toServer, toRouter, got>>,
             OthersStay(t), thread'[t].buf = thread[t].buf
      PROVE  Counted'
    BY <1>1, SameBoxes DEF OthersStay
<1>2. ASSUME NEW t \in Threads, NEW c \in Clients, Accept(t, c)
      PROVE  Counted'
    <2>1. UNCHANGED <<asked, sent, toServer, toRouter, got>>
        BY <1>2 DEF Accept
    <2>2. OthersStay(t) /\ thread'[t].buf = << >> /\ thread[t].buf = << >>
        BY <1>2, AcceptEffect DEF Events
    <2> QED BY <1>1, <2>1, <2>2
<1>3. ASSUME NEW t \in Threads, TakeUnix(t)
      PROVE  Counted'
    <2>1. UNCHANGED <<asked, sent, toServer, toRouter, got>>
        BY <1>3 DEF TakeUnix, clientVars
    <2> QED BY <1>1, <1>3, <2>1, TakeUnixEffect
<1>4. ASSUME NEW t \in Threads, Associate(t)
      PROVE  Counted'
    <2>1. UNCHANGED <<asked, sent, toServer, toRouter, got>>
        BY <1>4 DEF Associate, clientVars
    <2> QED BY <1>1, <1>4, <2>1, AssociateEffect
<1>5. ASSUME NEW t \in Threads, AddToEpoll(t) \/ Rearm(t) \/ CloseTcp(t)
      PROVE  Counted'
    <2>1. UNCHANGED <<asked, sent, toServer, toRouter, got>> /\ Goto(t, Idle)
          /\ thread[t].pc # "write"
        BY <1>5 DEF AddToEpoll, Rearm, CloseTcp, At, clientVars
    <2>2. OthersStay(t) /\ thread'[t].buf = << >> /\ thread[t].buf = << >>
        BY <2>1, IdleEffect DEF Events
    <2> QED BY <1>1, <2>1, <2>2
<1>6. ASSUME NEW t \in Threads, NEW f \in Fds, TakeEvent(t, f)
      PROVE  Counted'
    <2>1. UNCHANGED <<asked, sent, toServer, toRouter, got>>
        BY <1>6 DEF TakeEvent, clientVars
    <2>2. OthersStay(t) /\ thread'[t].buf = << >> /\ thread[t].buf = << >>
        BY <1>6, TakeEventEffect DEF Events
    <2> QED BY <1>1, <2>1, <2>2
<1>7. ASSUME NEW t \in Threads, Lookup(t)
      PROVE  Counted'
    <2>1. UNCHANGED <<asked, sent, toServer, toRouter, got>> /\ thread[t].pc = "lookup"
        BY <1>7 DEF Lookup, clientVars, At
    <2>2. thread[t].src \in Fds
        BY <2>1 DEF Exclusive, Busy
    <2> QED BY <1>1, <1>7, <2>1, <2>2, LookupEffect
<1>8. ASSUME NEW t \in Threads, Read(t)
      PROVE  Counted'
    <2>1. UNCHANGED <<asked, toServer, got>> /\ thread[t].pc = "read"
        BY <1>8 DEF Read, At
    <2>2. PICK f \in Fds : f = thread[t].src
        BY <2>1 DEF Exclusive, Busy
    <2>3. OthersStay(t) /\ thread'[t].buf = Pending(f) /\ thread[t].buf = << >>
        BY <1>8, <2>1, <2>2, ReadEffect DEF Events
    <2>4. IF f \in UnixFds
          THEN toRouter' = [toRouter EXCEPT ![f] = << >>] /\ sent' = sent
          ELSE sent' = [sent EXCEPT ![peer[f]] = << >>] /\ toRouter' = toRouter
        BY <1>8, <2>2 DEF Read
    <2>5. PICK m \in Seq(Clients) : m = Pending(f)
        BY PendingType
    <2>6. m \o << >> = m /\ << >> \o m = m
        BY <2>5
    <2>7. CASE f \in UnixFds
        <3> DEFINE p == <<"toRouter", f>>
                   q == <<"buf", t>>
        <3>1. m = toRouter[f] /\ toRouter'[f] = << >>
              /\ \A u \in UnixFds : u # f => toRouter'[u] = toRouter[u]
            BY <2>4, <2>5, <2>7, PendingType DEF TypeOK
        <3>2. p \in Places /\ q \in Places /\ p # q
            BY <2>7, BoxAt
        <3>3. Box[p] = m \o Box'[p] /\ Box'[q] = Box[q] \o m
            BY <2>3, <2>5, <2>6, <2>7, <3>1, BoxAt, NextBoxAt
        <3>4. \A x \in Places : x \notin {p, q} => Box'[x] = Box[x]
            <4>1. sent' = sent
                BY <2>4, <2>7
            <4>2. \A u \in UnixFds : <<"toRouter", u>> \notin {p, q} => u # f
                OBVIOUS
            <4>3. \A r \in Threads : <<"buf", r>> \notin {p, q} => r # t
                OBVIOUS
            <4> HIDE DEF p, q
            <4> QED BY <2>1, <2>3, <3>1, <4>1, <4>2, <4>3, BoxElsewhere DEF OthersStay
        <3> HIDE DEF p, q
        <3> QED BY <2>1, <3>2, <3>3, <3>4, CountedMove
    <2>8. CASE f \in TcpFds
        <3>1. PICK c \in Clients : c = peer[f]
            BY <2>1, <2>2, <2>8, BusyPeers DEF Busy
        <3> DEFINE p == <<"sent", c>>
                   q == <<"buf", t>>
        <3>2. f \notin UnixFds
            BY <2>8, NoneIsNothing
        <3>3. m = sent[c] /\ sent'[c] = << >> /\ toRouter' = toRouter
              /\ \A d \in Clients : d # c => sent'[d] = sent[d]
            BY <2>4, <2>5, <2>8, <3>1, <3>2, PendingType, NoneIsNothing DEF TypeOK
        <3>4. p \in Places /\ q \in Places /\ p # q
            BY BoxAt
        <3>5. Box[p] = m \o Box'[p] /\ Box'[q] = Box[q] \o m
            BY <2>3, <2>5, <2>6, <3>3, BoxAt, NextBoxAt
        <3>6. \A x \in Places : x \notin {p, q} => Box'[x] = Box[x]
            <4>1. \A d \in Clients : <<"sent", d>> \notin {p, q} => d # c
                OBVIOUS
            <4>2. \A r \in Threads : <<"buf", r>> \notin {p, q} => r # t
                OBVIOUS
            <4> HIDE DEF p, q
            <4> QED BY <2>1, <2>3, <3>3, <4>1, <4>2, BoxElsewhere DEF OthersStay
        <3> HIDE DEF p, q
        <3> QED BY <2>1, <3>4, <3>5, <3>6, CountedMove
    <2> QED BY <2>7, <2>8 DEF Fds
<1>9. ASSUME NEW t \in Threads, Write(t)
      PROVE  Counted'
    <2>1. UNCHANGED <<asked, sent, toRouter>>
        BY <1>9 DEF Write, clientVars
    <2>2. OthersStay(t) /\ thread'[t].buf = << >>
        BY <1>9, WriteEffect
    <2>3. PICK m \in Seq(Clients) : m = thread[t].buf
        BY ThreadFields
    <2>4. m \o << >> = m
        BY <2>3
    <2>5. PICK d : d = thread[t].dst
        OBVIOUS
    <2> DEFINE p == <<"buf", t>>
    <2>6. p \in Places /\ Box[p] = m /\ Box'[p] = << >> /\ Box[p] = m \o Box'[p]
        BY <2>2, <2>3, <2>4, BoxAt, NextBoxAt
    <2>7. CASE d \in UnixFds /\ got' = got
               /\ toServer' = [toServer EXCEPT ![d] = toServer[d] \o m]
        <3> DEFINE q == <<"toServer", d>>
        <3>1. toServer'[d] = toServer[d] \o m
              /\ \A u \in UnixFds : u # d => toServer'[u] = toServer[u]
            BY <2>7 DEF TypeOK
        <3>2. q \in Places /\ p # q /\ Box'[q] = Box[q] \o m
            BY <2>7, <3>1, BoxAt, NextBoxAt
        <3>3. \A x \in Places : x \notin {p, q} => Box'[x] = Box[x]
            <4>1. \A u \in UnixFds : <<"toServer", u>> \notin {p, q} => u # d
                OBVIOUS
            <4>2. \A r \in Threads : <<"buf", r>> \notin {p, q} => r # t
                OBVIOUS
            <4> HIDE DEF p, q
            <4> QED BY <2>1, <2>2, <2>7, <3>1, <4>1, <4>2, BoxElsewhere DEF OthersStay
        <3> HIDE DEF p, q
        <3> QED BY <2>1, <2>6, <3>2, <3>3, CountedMove
    <2>8. CASE UNCHANGED <<got, toServer>>
        <3>1. \A x \in Places : x \notin {p} => Box'[x] = Box[x]
            <4>1. \A r \in Threads : <<"buf", r>> \notin {p} => r # t
                OBVIOUS
            <4> HIDE DEF p
            <4> QED BY <2>1, <2>2, <2>8, <4>1, BoxElsewhere DEF OthersStay
        <3> HIDE DEF p
        <3> QED BY <2>1, <2>6, <3>1, CountedDrop
    <2>9. CASE peer[d] \in Clients /\ toServer' = toServer
               /\ got' = [got EXCEPT ![peer[d]] = got[peer[d]] \o m]
        <3>1. PICK c \in Clients : c = peer[d]
            BY <2>9
        <3> DEFINE q == <<"got", c>>
        <3>2. got'[c] = got[c] \o m /\ \A e \in Clients : e # c => got'[e] = got[e]
            BY <2>9, <3>1 DEF TypeOK
        <3>3. q \in Places /\ p # q /\ Box'[q] = Box[q] \o m
            BY <3>2, BoxAt, NextBoxAt
        <3>4. \A x \in Places : x \notin {p, q} => Box'[x] = Box[x]
            <4>1. \A e \in Clients : <<"got", e>> \notin {p, q} => e # c
                OBVIOUS
            <4>2. \A r \in Threads : <<"buf", r>> \notin {p, q} => r # t
                OBVIOUS
            <4> HIDE DEF p, q
            <4> QED BY <2>1, <2>2, <2>9, <3>2, <4>1, <4>2, BoxElsewhere DEF OthersStay
        <3> HIDE DEF p, q
        <3> QED BY <2>1, <2>6, <3>3, <3>4, CountedMove
    <2> QED BY <1>9, <2>3, <2>5, <2>7, <2>8, <2>9, WriteDelivers
<1>10. ASSUME NEW t \in Threads, EraseMaps(t)
       PROVE  Counted'
    <2>1. UNCHANGED <<asked, sent, toServer, toRouter, got>> /\ thread[t].pc = "erase"
        BY <1>10 DEF EraseMaps, clientVars, At
    <2>2. thread[t].src \in TcpFds /\ tcp_to_unix[thread[t].src] \in UnixFds
        BY <2>1, ErasePaired
    <2> QED BY <1>1, <1>10, <2>1, <2>2, EraseMapsEffect
<1>11. ASSUME NEW t \in Threads, ReserveSlot(t)
       PROVE  Counted'
    <2>1. UNCHANGED <<asked, sent, toServer, toRouter, got>>
        BY <1>11 DEF ReserveSlot, clientVars
    <2> QED BY <1>1, <1>11, <2>1, ReserveSlotEffect
<1>12. ASSUME NEW t \in Threads, StoreSlot(t)
       PROVE  Counted'
    <2>1. UNCHANGED <<asked, sent, toServer, toRouter, got>>
        BY <1>12 DEF StoreSlot, clientVars
    <2> QED BY <1>1, <1>12, <2>1, StoreSlotEffect
<1>13. ASSUME UNCHANGED <<thread, asked, sent, toServer, toRouter, got>>
       PROVE  Counted'
    BY <1>13, SameBoxes
<1>14. ASSUME NEW d \in Clients, Request(d)
       PROVE  Counted'
    <2>1. UNCHANGED <<thread, toServer, toRouter, got>>
          /\ sent' = [sent EXCEPT ![d] = Append(@, d)] /\ asked' = [asked EXCEPT ![d] = @ + 1]
        BY <1>14 DEF Request
    <2>2. sent'[d] = Append(sent[d], d) /\ \A c \in Clients : c # d => sent'[c] = sent[c]
        BY <2>1 DEF TypeOK
    <2>3. asked'[d] = asked[d] + 1 /\ \A c \in Clients : c # d => asked'[c] = asked[c]
        BY <2>1 DEF TypeOK
    <2> DEFINE p == <<"sent", d>>
    <2>4. p \in Places /\ Box'[p] = Append(Box[p], d)
        BY <2>2, BoxAt, NextBoxAt
    <2>5. \A x \in Places : x \notin {p} => Box'[x] = Box[x]
        <3>1. \A c \in Clients : <<"sent", c>> \notin {p} => c # d
            OBVIOUS
        <3> HIDE DEF p
        <3> QED BY <2>1, <2>2, <3>1, BoxElsewhere
    <2> HIDE DEF p
    <2>6. PICK B, B2 : B = Box /\ B2 = Box'
        OBVIOUS
    <2>7. B \in Boxes /\ B2 \in Boxes
        BY <2>6, BoxType, NextBoxType
    <2>8. ASSUME NEW c \in Clients
          PROVE  IsFiniteSet(CopiesIn(B2, c)) /\ Cardinality(CopiesIn(B2, c)) <= asked'[c]
        <3> DEFINE S == CopiesIn(B2, c)
                   T == CopiesIn(B, c)
        <3>1. IsFiniteSet(T) /\ Cardinality(T) <= asked[c] /\ asked[c] \in Nat
            BY <2>6 DEF Counted, TypeOK
        <3>2. IsFiniteSet(S) /\ Cardinality(S) <= Cardinality(T) + (IF c = d THEN 1 ELSE 0)
            BY <2>4, <2>5, <2>6, <2>7, <3>1, MessageSent
        <3> HIDE DEF S, T
        <3>3. Cardinality(S) \in Nat /\ Cardinality(T) \in Nat
            BY <3>1, <3>2, FS_CardinalityType
        <3>4. Cardinality(S) <= asked'[c]
            BY <2>3, <3>1, <3>2, <3>3
        <3> QED BY <3>2, <3>4 DEF S
    <2> QED BY <2>6, <2>8, CountedPrime
<1>15. ASSUME NEW u \in UnixFds, ServerReply(u)
       PROVE  Counted'
    <2>1. PICK x : x = Head(toServer[u])
        OBVIOUS
    <2>2. UNCHANGED <<thread, asked, sent, got>> /\ toServer[u] # << >>
          /\ toServer' = [toServer EXCEPT ![u] = Tail(@)]
          /\ toRouter' = [toRouter EXCEPT ![u] = Append(@, x)]
        BY <1>15, <2>1 DEF ServerReply, clientVars
    <2>3. toServer[u] \in Seq(Clients) /\ toRouter[u] \in Seq(Clients)
        BY DEF TypeOK
    <2>4. /\ toServer'[u] = Tail(toServer[u]) /\ toRouter'[u] = Append(toRouter[u], x)
          /\ \A v \in UnixFds : v # u => toServer'[v] = toServer[v] /\ toRouter'[v] = toRouter[v]
        BY <2>2 DEF TypeOK
    <2>5. x \in Clients
        BY <2>1, <2>2, <2>3
    <2>6. PICK m \in Seq(Clients) : m = <<x>>
        <3>1. <<x>> \in Seq(Clients)
            BY <2>5
        <3> QED BY <3>1
    <2>7. toServer[u] = m \o Tail(toServer[u])
        BY <2>1, <2>2, <2>3, <2>6
    <2>8. Append(toRouter[u], x) = toRouter[u] \o m
        BY <2>3, <2>5, <2>6, AppendIsConcat
    <2> DEFINE p == <<"toServer", u>>
               q == <<"toRouter", u>>
    <2>9. p \in Places /\ q \in Places /\ p # q
        BY BoxAt
    <2>10. Box[p] = m \o Box'[p] /\ Box'[q] = Box[q] \o m
        BY <2>4, <2>7, <2>8, BoxAt, NextBoxAt
    <2>11. \A y \in Places : y \notin {p, q} => Box'[y] = Box[y]
        <3>1. \A v \in UnixFds : <<"toServer", v>> \notin {p, q} => v # u
            OBVIOUS
        <3>2. \A v \in UnixFds : <<"toRouter", v>> \notin {p, q} => v # u
            OBVIOUS
        <3> HIDE DEF p, q
        <3> QED BY <2>2, <2>4, <3>1, <3>2, BoxElsewhere
    <2> HIDE DEF p, q
    <2> QED BY <2>2, <2>9, <2>10, <2>11, CountedMove
<1> QED
    BY <1>2, <1>3, <1>4, <1>5, <1>6, <1>7, <1>8, <1>9, <1>10, <1>11, <1>12, <1>13,
       <1>14, <1>15
    DEF Next, ThreadNext, Connect, Finish, Stopped, Fds, vars, clientVars

-----------------------------------------------------------------------------
(* Messages stay between a client and its UNIX connection.                 *)

(* Until a client closes early, one that has a request or a response on    *)
(* the way has fewer responses than requests, and has not closed.          *)
LEMMA InFlight ==
    ASSUME Inv, early = {}, NEW c \in Clients, NEW p \in Places,
           p # <<"got", c>>, NEW i \in 1 .. Len(Box[p]), Box[p][i] = c
    PROVE  c \notin fin
<1> USE DEF Inv
<1> PICK B : B = Box
    OBVIOUS
<1>1. B \in Boxes
    BY BoxType
<1> DEFINE T == CopiesIn(B, c)
           q == <<"got", c>>
<1>2. IsFiniteSet(T) /\ Cardinality(T) <= asked[c] /\ asked[c] \in Nat
    BY DEF Counted, TypeOK
<1>3. PICK n \in Nat : n = Len(got[c])
    BY DEF TypeOK
<1>4. AllOf(got[c], c)
    BY DEF Addressed
<1>5. q \in Places /\ B[q] = got[c]
    BY BoxAt
<1>6. <<p, i>> \in T
    <2>1. B[p] \in Seq(Clients)
        BY <1>1 DEF Boxes
    <2>2. i \in Int /\ i \in 1 .. Len(B[p]) /\ B[p][i] = c
        BY <2>1
    <2> QED BY <1>1, <2>2, CopiesMember
<1>7. \A j \in 1 .. n : <<q, j>> \in T
    <2> SUFFICES ASSUME NEW j \in 1 .. n PROVE <<q, j>> \in T
        OBVIOUS
    <2>1. j \in Int /\ j \in 1 .. Len(B[q]) /\ B[q][j] = c
        BY <1>3, <1>4, <1>5 DEF AllOf
    <2> HIDE DEF q
    <2> QED BY <1>1, <1>5, <2>1, CopiesMember
<1> DEFINE g == [j \in 1 .. n + 1 |-> IF j <= n THEN <<q, j>> ELSE <<p, i>>]
<1> HIDE DEF T, q
<1>8. g \in [1 .. n + 1 -> T]
    BY <1>6, <1>7
<1>9. \A j, k \in 1 .. n + 1 : g[j] = g[k] => j = k
    <2> SUFFICES ASSUME NEW j \in 1 .. n + 1, NEW k \in 1 .. n + 1, g[j] = g[k]
                 PROVE  j = k
        OBVIOUS
    <2>1. /\ g[j] = IF j <= n THEN <<q, j>> ELSE <<p, i>>
          /\ g[k] = IF k <= n THEN <<q, k>> ELSE <<p, i>>
        OBVIOUS
    <2>2. q # p
        BY DEF q
    <2>3. j <= n <=> k <= n
        BY <2>1, <2>2
    <2>4. j <= n => j = k
        BY <2>1, <2>3
    <2> QED BY <2>3, <2>4
<1>10. g \in Injection(1 .. n + 1, T)
    <2> HIDE DEF g
    <2> QED BY <1>8, <1>9 DEF Injection, IsInjective
<1>11. Cardinality(1 .. n + 1) <= Cardinality(T)
    <2> HIDE DEF g
    <2> QED BY <1>2, <1>10, FS_Injection
<1>12. Cardinality(1 .. n + 1) = n + 1
    <2>1. n + 1 \in Int /\ 1 \in Int
        OBVIOUS
    <2>2. Cardinality(1 .. n + 1) = IF 1 > n + 1 THEN 0 ELSE n + 1 - 1 + 1
        BY <2>1, FS_Interval
    <2> QED BY <2>2
<1>13. Cardinality(T) \in Nat
    BY <1>2, FS_CardinalityType
<1>14. n < asked[c]
    BY <1>2, <1>11, <1>12, <1>13
<1>15. c \in fin => Len(got[c]) >= asked[c]
    BY DEF Addressed
<1> QED BY <1>2, <1>3, <1>14, <1>15

(* The same for the first message of a sequence of messages. *)
LEMMA NothingInFlight ==
    ASSUME Inv, early = {}, NEW c \in Clients, NEW p \in Places, p # <<"got", c>>,
           AllOf(Box[p], c), Box[p] # << >>
    PROVE  c \notin fin
<1>1. Box[p] \in Seq(Clients)
    BY BoxType DEF Boxes, Inv
<1>2. 1 \in 1 .. Len(Box[p])
    BY <1>1
<1>3. Box[p][1] = c
    BY <1>2 DEF AllOf
<1> QED BY <1>2, <1>3, InFlight

LEMMA NothingOnTheWay ==
    ASSUME Inv, early = {}, NEW c \in Clients, c \in fin
    PROVE  /\ AllOf(sent[c], c) => sent[c] = << >>
           /\ \A u \in UnixFds : AllOf(toServer[u], c) => toServer[u] = << >>
           /\ \A u \in UnixFds : AllOf(toRouter[u], c) => toRouter[u] = << >>
           /\ \A t \in Threads : AllOf(thread[t].buf, c) => thread[t].buf = << >>
<1>1. \A p \in Places : AllOf(Box[p], c) /\ p # <<"got", c>> => Box[p] = << >>
    BY NothingInFlight
<1>2. sent[c] = Box[<<"sent", c>>] /\ <<"sent", c>> \in Places /\ <<"sent", c>> # <<"got", c>>
    BY BoxAt
<1>3. \A u \in UnixFds : /\ toServer[u] = Box[<<"toServer", u>>]
                         /\ <<"toServer", u>> \in Places /\ <<"toServer", u>> # <<"got", c>>
    BY BoxAt
<1>4. \A u \in UnixFds : /\ toRouter[u] = Box[<<"toRouter", u>>]
                         /\ <<"toRouter", u>> \in Places /\ <<"toRouter", u>> # <<"got", c>>
    BY BoxAt
<1>5. \A t \in Threads : /\ thread[t].buf = Box[<<"buf", t>>]
                         /\ <<"buf", t>> \in Places /\ <<"buf", t>> # <<"got", c>>
    BY BoxAt
<1> HIDE DEF Places, Box, AllOf
<1>6. AllOf(sent[c], c) => sent[c] = << >>
    BY <1>1, <1>2
<1>7. ASSUME NEW u \in UnixFds
      PROVE  /\ AllOf(toServer[u], c) => toServer[u] = << >>
             /\ AllOf(toRouter[u], c) => toRouter[u] = << >>
    BY <1>1, <1>3, <1>4
<1>8. ASSUME NEW t \in Threads, AllOf(thread[t].buf, c)
      PROVE  thread[t].buf = << >>
    <2>1. AllOf(Box[<<"buf", t>>], c)
        BY <1>5, <1>8
    <2>2. Box[<<"buf", t>>] = << >>
        BY <1>1, <1>5, <2>1
    <2> QED BY <1>5, <2>2
<1> QED BY <1>6, <1>7, <1>8


(* What Addressed says of thread t, and of the rest. *)
AddressedThread(t) ==
    /\ thread[t].pc = "write" /\ thread[t].src \in TcpFds =>
           AllOf(thread[t].buf, peer[thread[t].src])
    /\ early = {} =>
        /\ thread[t].pc = "read" /\ thread[t].src \in UnixFds =>
               thread[t].dst = unix_to_tcp[thread[t].src]
        /\ thread[t].pc = "write" /\ thread[t].src \in UnixFds =>
               AllOf(thread[t].buf, peer[thread[t].dst])
        /\ thread[t].pc \in {"write", "rearm"} => ~thread[t].closed

AddressedConnection(u) ==
    early = {} =>
        /\ toServer[u] # << >> =>
               unix_to_tcp[u] # None /\ AllOf(toServer[u], peer[unix_to_tcp[u]])
        /\ toRouter[u] # << >> =>
               unix_to_tcp[u] # None /\ AllOf(toRouter[u], peer[unix_to_tcp[u]])

AddressedClient(c) ==
    /\ AllOf(sent[c], c)
    /\ early = {} => AllOf(got[c], c) /\ (c \in fin => Len(got[c]) >= asked[c])

LEMMA AddressedParts ==
    ASSUME Inv
    PROVE  /\ \A t \in Threads : AddressedThread(t)
           /\ \A u \in UnixFds : AddressedConnection(u)
           /\ \A c \in Clients : AddressedClient(c)
           /\ early = {} => ~aborted
<1> USE DEF Inv, Addressed
<1>1. \A t \in Threads : AddressedThread(t)
    BY DEF AddressedThread
<1>2. \A u \in UnixFds : AddressedConnection(u)
    BY DEF AddressedConnection
<1>3. \A c \in Clients : AddressedClient(c)
    BY DEF AddressedClient
<1> QED BY <1>1, <1>2, <1>3

LEMMA AddressedJoin ==
    ASSUME TypeOK', \A t \in Threads : AddressedThread(t)',
           \A u \in UnixFds : AddressedConnection(u)',
           \A c \in Clients : AddressedClient(c)',
           early' = {} => ~aborted'
    PROVE  Addressed'
<1>1. fin' \subseteq Clients
    BY DEF TypeOK
<1> QED BY <1>1 DEF Addressed, AddressedThread, AddressedConnection, AddressedClient

(* A thread that does not move. *)
LEMMA AddressedThreadStays ==
    ASSUME Inv, early \subseteq early', NEW r \in Threads, thread'[r] = thread[r],
           Busy(r) /\ thread[r].src \in TcpFds => peer'[thread[r].src] = peer[thread[r].src],
           early' = {} /\ thread[r].pc = "read" /\ thread[r].src \in UnixFds =>
               unix_to_tcp'[thread[r].src] = unix_to_tcp[thread[r].src],
           early' = {} /\ thread[r].pc = "write" /\ thread[r].src \in UnixFds
               /\ thread[r].buf # << >> => peer'[thread[r].dst] = peer[thread[r].dst]
    PROVE  AddressedThread(r)'
<1>1. AddressedThread(r)
    BY AddressedParts
<1>2. early' = {} => early = {}
    OBVIOUS
<1>3. thread[r].buf = << >> => \A c : AllOf(thread[r].buf, c)
    BY DEF AllOf
<1>4. thread[r].pc = "write" /\ thread[r].src \in TcpFds =>
          AllOf(thread[r].buf, peer'[thread[r].src])
    BY <1>1 DEF AddressedThread, Busy
<1>5. early' = {} /\ thread[r].pc = "write" /\ thread[r].src \in UnixFds =>
          AllOf(thread[r].buf, peer'[thread[r].dst])
    BY <1>1, <1>2, <1>3 DEF AddressedThread
<1>6. early' = {} => /\ thread[r].pc = "read" /\ thread[r].src \in UnixFds =>
                            thread[r].dst = unix_to_tcp'[thread[r].src]
                     /\ thread[r].pc \in {"write", "rearm"} => ~thread[r].closed
    BY <1>1, <1>2 DEF AddressedThread
<1> HIDE DEF AllOf
<1> QED BY <1>4, <1>5, <1>6 DEF AddressedThread

(* A UNIX connection on which nothing moves. *)
LEMMA AddressedConnectionStays ==
    ASSUME Inv, early \subseteq early', NEW u \in UnixFds,
           toServer'[u] = toServer[u], toRouter'[u] = toRouter[u],
           early' = {} /\ (toServer[u] # << >> \/ toRouter[u] # << >>) =>
               /\ unix_to_tcp'[u] = unix_to_tcp[u]
               /\ unix_to_tcp[u] # None => peer'[unix_to_tcp[u]] = peer[unix_to_tcp[u]]
    PROVE  AddressedConnection(u)'
<1>1. AddressedConnection(u)
    BY AddressedParts
<1>2. early' = {} => early = {}
    OBVIOUS
<1> HIDE DEF AllOf
<1> QED BY <1>1, <1>2 DEF AddressedConnection

LEMMA AddressedClientsStay ==
    ASSUME Inv, early \subseteq early', UNCHANGED <<sent, got, asked, fin>>
    PROVE  \A c \in Clients : AddressedClient(c)'
<1>1. \A c \in Clients : AddressedClient(c)
    BY AddressedParts
<1>2. early' = {} => early = {}
    OBVIOUS
<1> HIDE DEF AllOf
<1> QED BY <1>1, <1>2 DEF AddressedClient

(* A step of thread t that moves no message and makes or ends no pairing. *)
LEMMA AddressedFrame ==
    ASSUME Inv, TypeOK', NEW t \in Threads, OthersStay(t),
           UNCHANGED <<unix_to_tcp, peer, sent, got, asked, fin, early, toServer, toRouter>>,
           AddressedThread(t)', early' = {} => ~aborted'
    PROVE  Addressed'
<1>1. \A r \in Threads : AddressedThread(r)'
    <2> SUFFICES ASSUME NEW r \in Threads PROVE AddressedThread(r)'
        OBVIOUS
    <2>1. CASE r # t
        BY <2>1, AddressedThreadStays DEF OthersStay
    <2> QED BY <2>1
<1>2. \A u \in UnixFds : AddressedConnection(u)'
    BY AddressedConnectionStays
<1>3. \A c \in Clients : AddressedClient(c)'
    BY AddressedClientsStay
<1> QED BY <1>1, <1>2, <1>3, AddressedJoin

LEMMA AddressedElsewhere ==
    ASSUME NEW t \in Threads, thread'[t].pc \notin {"read", "write", "rearm"}
    PROVE  AddressedThread(t)'
BY DEF AddressedThread


(* An accepted descriptor is in no map, and nobody is about to write to it. *)
LEMMA AddressedAccept ==
    ASSUME Inv, TypeOK', NEW t \in Threads, NEW c \in Clients, Accept(t, c)
    PROVE  Addressed'
<1> USE DEF Inv
<1>1. UNCHANGED <<unix_to_tcp, sent, got, asked, fin, early, toServer, toRouter, aborted>>
    BY DEF Accept, mapVars
<1>2. PICK f \in TcpFds :
          /\ peer[f] = None /\ peer' = [peer EXCEPT ![f] = c]
          /\ OthersStay(t) /\ thread'[t].pc = "take"
    BY AcceptEffect
<1>3. \A g \in TcpFds : g # f => peer'[g] = peer[g]
    BY <1>2 DEF TypeOK
<1>4. \A u \in UnixFds : unix_to_tcp[u] # None =>
          unix_to_tcp[u] \in TcpFds /\ unix_to_tcp[u] # f
    BY <1>2, NoneIsNothing DEF Pairing, TypeOK
<1>5. ASSUME NEW r \in Threads
      PROVE  AddressedThread(r)'
    <2>1. CASE r = t
        BY <1>2, <2>1, AddressedElsewhere
    <2>2. CASE r # t
        <3>1. thread'[r] = thread[r]
            BY <1>2, <2>2 DEF OthersStay
        <3>2. Busy(r) /\ thread[r].src \in TcpFds => thread[r].src # f
            BY <1>2 DEF Exclusive
        <3>3. ASSUME early' = {}, thread[r].pc = "write", thread[r].src \in UnixFds,
                     thread[r].buf # << >>
              PROVE  peer'[thread[r].dst] = peer[thread[r].dst]
            <4>1. ~aborted /\ AddressedThread(r)
                BY <1>1, <3>3, AddressedParts
            <4>2. thread[r].dst \in TcpFds
                BY <3>3, <4>1, NoneIsNothing DEF Pairing
            <4>3. thread[r].buf \in Seq(Clients)
                BY ThreadFields
            <4>4. thread[r].buf[1] \in Clients /\ 1 \in 1 .. Len(thread[r].buf)
                BY <3>3, <4>3
            <4>5. thread[r].buf[1] = peer[thread[r].dst]
                BY <1>1, <3>3, <4>1, <4>4 DEF AddressedThread, AllOf
            <4> QED BY <1>2, <1>3, <4>2, <4>4, <4>5, NoneIsNothing
        <3> QED BY <1>1, <1>3, <3>1, <3>2, <3>3, AddressedThreadStays
    <2> QED BY <2>1, <2>2
<1>6. \A u \in UnixFds : AddressedConnection(u)'
    BY <1>1, <1>3, <1>4, AddressedConnectionStays
<1>7. \A d \in Clients : AddressedClient(d)'
    BY <1>1, AddressedClientsStay
<1>8. early' = {} => ~aborted'
    BY <1>1, AddressedParts
<1> QED BY <1>5, <1>6, <1>7, <1>8, AddressedJoin

(* A UNIX connection that is not paired carries nothing. *)
LEMMA UnpairedIsSilent ==
    ASSUME Inv, early = {}, NEW u \in UnixFds, unix_to_tcp[u] = None
    PROVE  /\ toServer[u] = << >> /\ toRouter[u] = << >>
           /\ \A r \in Threads : thread[r].pc \in {"lookup", "read"} => thread[r].src # u
<1>1. toServer[u] = << >> /\ toRouter[u] = << >>
    BY AddressedParts DEF AddressedConnection
<1>2. \A r \in Threads : thread[r].pc \in {"lookup", "read"} => thread[r].src # u
    BY <1>1 DEF Inv, Events
<1> QED BY <1>1, <1>2

(* Nor does the UNIX connection of a client that closed. *)
LEMMA ClosedIsSilent ==
    ASSUME Inv, early = {}, NEW u \in UnixFds, unix_to_tcp[u] # None,
           peer[unix_to_tcp[u]] \in fin
    PROVE  /\ toServer[u] = << >> /\ toRouter[u] = << >>
           /\ \A r \in Threads : thread[r].pc \in {"lookup", "read"} => thread[r].src # u
<1>1. peer[unix_to_tcp[u]] \in Clients
    BY DEF Inv, TypeOK
<1>2. AddressedConnection(u)
    BY AddressedParts
<1>3. toServer[u] = << >>
    BY <1>1, <1>2, NothingOnTheWay DEF AddressedConnection
<1>4. toRouter[u] = << >>
    BY <1>1, <1>2, NothingOnTheWay DEF AddressedConnection
<1>5. \A r \in Threads : thread[r].pc \in {"lookup", "read"} => thread[r].src # u
    BY <1>4 DEF Inv, Events
<1> QED BY <1>3, <1>4, <1>5

(* The pairing of u changes while u carries nothing. *)
LEMMA AddressedRepaired ==
    ASSUME Inv, TypeOK', NEW t \in Threads, OthersStay(t), NEW u \in UnixFds,
           \A v \in UnixFds : v # u => unix_to_tcp'[v] = unix_to_tcp[v],
           UNCHANGED <<peer, sent, got, asked, fin, early, toServer, toRouter, aborted>>,
           thread'[t].pc \notin {"read", "write", "rearm"},
           early = {} =>
               /\ toServer[u] = << >> /\ toRouter[u] = << >>
               /\ \A r \in Threads : thread[r].pc \in {"lookup", "read"} => thread[r].src # u
    PROVE  Addressed'
<1>1. ASSUME NEW r \in Threads
      PROVE  AddressedThread(r)'
    <2>1. CASE r = t
        BY <2>1, AddressedElsewhere
    <2>2. CASE r # t
        BY <2>2, AddressedThreadStays DEF OthersStay
    <2> QED BY <2>1, <2>2
<1>2. \A v \in UnixFds : AddressedConnection(v)'
    BY AddressedConnectionStays
<1>3. \A d \in Clients : AddressedClient(d)'
    BY AddressedClientsStay
<1>4. early' = {} => ~aborted'
    BY AddressedParts
<1> QED BY <1>1, <1>2, <1>3, <1>4, AddressedJoin

LEMMA AddressedAssociate ==
    ASSUME Inv, TypeOK', NEW t \in Threads, Associate(t)
    PROVE  Addressed'
<1>1. /\ UNCHANGED <<peer, sent, got, asked, fin, early, toServer, toRouter, aborted>>
      /\ unix_to_tcp' = [unix_to_tcp EXCEPT ![thread[t].dst] = thread[t].src]
      /\ thread[t].pc = "associate"
    BY DEF Associate, clientVars, At
<1>2. OthersStay(t) /\ thread'[t].pc = "add"
    BY AssociateEffect DEF Inv
<1>3. PICK u \in UnixFds : u = thread[t].dst /\ unix_to_tcp[u] = None
    BY <1>1, HeldConnection DEF Holds
<1>4. \A v \in UnixFds : v # u => unix_to_tcp'[v] = unix_to_tcp[v]
    BY <1>1, <1>3 DEF Inv, TypeOK
<1> QED BY <1>1, <1>2, <1>3, <1>4, UnpairedIsSilent, AddressedRepaired

LEMMA AddressedEraseMaps ==
    ASSUME Inv, TypeOK', NEW t \in Threads, EraseMaps(t)
    PROVE  Addressed'
<1>1. /\ UNCHANGED <<peer, sent, got, asked, fin, early, toServer, toRouter, aborted>>
      /\ unix_to_tcp' = [unix_to_tcp EXCEPT ![tcp_to_unix[thread[t].src]] = None]
      /\ thread[t].pc = "erase"
    BY DEF EraseMaps, clientVars, At
<1>2. thread[t].src \in TcpFds /\ tcp_to_unix[thread[t].src] \in UnixFds
    BY <1>1, ErasePaired
<1>3. OthersStay(t) /\ thread'[t].pc = "reserve"
    BY <1>2, EraseMapsEffect DEF Inv
<1>4. PICK u \in UnixFds : u = tcp_to_unix[thread[t].src]
    BY <1>2
<1>5. unix_to_tcp[u] = thread[t].src /\ unix_to_tcp[u] # None
    BY <1>2, <1>4, NoneIsNothing DEF Inv, Pairing
<1>6. peer[unix_to_tcp[u]] \in fin
    BY <1>1, <1>5 DEF Inv, Events
<1>7. \A v \in UnixFds : v # u => unix_to_tcp'[v] = unix_to_tcp[v]
    BY <1>1, <1>4 DEF Inv, TypeOK
<1> QED BY <1>1, <1>3, <1>5, <1>6, <1>7, ClosedIsSilent, AddressedRepaired

(* A closed descriptor is in no map, and nobody is about to write to it. *)
LEMMA AddressedCloseTcp ==
    ASSUME Inv, TypeOK', NEW t \in Threads, CloseTcp(t)
    PROVE  Addressed'
<1> USE DEF Inv
<1>1. /\ UNCHANGED <<unix_to_tcp, sent, got, asked, fin, early, toServer, toRouter, aborted>>
      /\ peer' = [peer EXCEPT ![thread[t].src] = None]
      /\ thread[t].pc = "close"
    BY DEF CloseTcp, clientVars, mapVars, At
<1>2. OthersStay(t) /\ thread'[t].pc = "wait"
    BY IdleEffect DEF CloseTcp
<1>3. PICK f \in TcpFds : f = thread[t].src
    BY <1>1 DEF Exclusive, Busy, Handling
<1>4. tcp_to_unix[f] = None /\ peer[f] \in Clients /\ peer[f] \in fin
    BY <1>1, <1>3, BusyPeers DEF Pairing, Busy, Closing, Events
<1>5. \A g \in TcpFds : g # f => peer'[g] = peer[g]
    BY <1>1, <1>3 DEF TypeOK
<1>6. \A u \in UnixFds : unix_to_tcp[u] # None =>
          unix_to_tcp[u] \in TcpFds /\ unix_to_tcp[u] # f
    BY <1>4, NoneIsNothing DEF Pairing, TypeOK
<1>7. ASSUME NEW r \in Threads
      PROVE  AddressedThread(r)'
    <2>1. CASE r = t
        BY <1>2, <2>1, AddressedElsewhere
    <2>2. CASE r # t
        <3>1. thread'[r] = thread[r]
            BY <1>2, <2>2 DEF OthersStay
        <3>2. Busy(r) => thread[r].src # f
            BY <1>1, <1>3, <2>2 DEF Exclusive, Busy
        <3>3. ASSUME early' = {}, thread[r].pc = "write", thread[r].src \in UnixFds,
                     thread[r].buf # << >>
              PROVE  peer'[thread[r].dst] = peer[thread[r].dst]
            <4>1. ~aborted /\ AddressedThread(r)
                BY <1>1, <3>3, AddressedParts
            <4>2. thread[r].dst \in TcpFds
                BY <3>3, <4>1, NoneIsNothing DEF Pairing
            <4>3. AllOf(thread[r].buf, peer[thread[r].dst])
                BY <1>1, <3>3, <4>1 DEF AddressedThread
            <4>4. thread[r].dst # f
                BY <1>1, <1>4, <3>3, <4>3, NothingOnTheWay
            <4> QED BY <1>5, <4>2, <4>4
        <3> QED BY <1>1, <1>5, <3>1, <3>2, <3>3, AddressedThreadStays
    <2> QED BY <2>1, <2>2
<1>8. \A u \in UnixFds : AddressedConnection(u)'
    BY <1>1, <1>5, <1>6, AddressedConnectionStays
<1>9. \A d \in Clients : AddressedClient(d)'
    BY <1>1, AddressedClientsStay
<1>10. early' = {} => ~aborted'
    BY <1>1, AddressedParts
<1> QED BY <1>7, <1>8, <1>9, <1>10, AddressedJoin


LEMMA AddressedLookup ==
    ASSUME Inv, TypeOK', NEW t \in Threads, Lookup(t)
    PROVE  Addressed'
<1> USE DEF Inv
<1>1. UNCHANGED <<unix_to_tcp, peer, sent, got, asked, fin, early, toServer, toRouter>>
      /\ thread[t].pc = "lookup"
    BY DEF Lookup, clientVars, mapVars, At
<1>2. thread[t].src \in Fds
    BY <1>1 DEF Exclusive, Busy
<1>3. /\ OthersStay(t) /\ thread'[t].pc = "read" /\ thread'[t].src = thread[t].src
      /\ thread'[t].dst = IF thread[t].src \in TcpFds THEN tcp_to_unix[thread[t].src]
                          ELSE unix_to_tcp[thread[t].src]
      /\ aborted' = (thread'[t].dst = None)
    BY <1>2, LookupEffect
<1>4. AddressedThread(t)'
    BY <1>1, <1>3, NoneIsNothing DEF AddressedThread
<1>5. thread[t].src \in TcpFds => thread'[t].dst # None
    BY <1>1, <1>3 DEF Pairing, Busy, Accepting, Closing
<1>6. early = {} /\ thread[t].src \in UnixFds => thread'[t].dst # None
    BY <1>1, <1>3, UnpairedIsSilent, NoneIsNothing
<1>7. early' = {} => ~aborted'
    <2>1. early' = {} => thread'[t].dst # None
        BY <1>1, <1>2, <1>5, <1>6 DEF Fds
    <2> QED BY <1>3, <2>1, Zenon
<1> QED BY <1>1, <1>3, <1>4, <1>7, AddressedFrame

LEMMA AddressedRearm ==
    ASSUME Inv, TypeOK', NEW t \in Threads, Rearm(t)
    PROVE  Addressed'
<1>1. UNCHANGED <<unix_to_tcp, peer, sent, got, asked, fin, early, toServer, toRouter>>
      /\ thread[t].pc = "rearm" /\ aborted' = thread[t].closed
    BY DEF Rearm, clientVars, mapVars, At
<1>2. OthersStay(t) /\ thread'[t].pc = "wait"
    BY IdleEffect DEF Rearm, Inv
<1>3. AddressedThread(t)'
    BY <1>2, AddressedElsewhere
<1>4. early = {} => ~thread[t].closed
    BY <1>1, AddressedParts DEF AddressedThread
<1>5. early' = {} => ~aborted'
    BY <1>1, <1>4, Zenon
<1> QED BY <1>1, <1>2, <1>3, <1>5, AddressedFrame

(* What a thread reads is its client's, or that of the client it will      *)
(* write it to.                                                            *)
LEMMA AddressedRead ==
    ASSUME Inv, TypeOK', NEW t \in Threads, Read(t)
    PROVE  Addressed'
<1> USE DEF Inv
<1>1. UNCHANGED <<unix_to_tcp, peer, got, asked, fin, early, toServer, aborted>>
      /\ thread[t].pc = "read" /\ ~aborted
    BY DEF Read, mapVars, At, Running
<1>2. PICK f \in Fds : f = thread[t].src
    BY <1>1 DEF Exclusive, Busy
<1>3. /\ OthersStay(t) /\ thread'[t].pc \in {"write", "erase"}
      /\ thread'[t].pc = "write" => Pending(f) # << >>
      /\ thread'[t].src = f /\ thread'[t].dst = thread[t].dst
      /\ thread'[t].buf = Pending(f) /\ thread'[t].closed = AtEof(f)
    BY <1>2, ReadEffect
<1>4. IF f \in UnixFds
      THEN toRouter' = [toRouter EXCEPT ![f] = << >>] /\ sent' = sent
      ELSE sent' = [sent EXCEPT ![peer[f]] = << >>] /\ toRouter' = toRouter
    BY <1>2 DEF Read
<1>5. early' = {} => ~aborted'
    BY <1>1, AddressedParts
<1>6. AddressedThread(t)
    BY AddressedParts
<1>7. AllOf(<< >>, f) /\ \A c : AllOf(<< >>, c)
    BY DEF AllOf
<1>8. \A r \in Threads : r # t => AddressedThread(r)'
    BY <1>1, <1>3, AddressedThreadStays DEF OthersStay
<1>9. CASE f \in UnixFds
    <2>1. toRouter'[f] = << >> /\ sent' = sent
          /\ \A u \in UnixFds : u # f => toRouter'[u] = toRouter[u]
        BY <1>4, <1>9 DEF TypeOK
    <2>2. Pending(f) = toRouter[f] /\ ~AtEof(f)
        BY <1>9, PendingType
    <2>3. AddressedConnection(f)
        BY <1>9, AddressedParts
    <2>4. ASSUME early = {}, thread'[t].pc = "write"
          PROVE  AllOf(toRouter[f], peer[thread[t].dst])
        <3>1. thread[t].dst = unix_to_tcp[f]
            BY <1>1, <1>2, <1>6, <1>9, <2>4 DEF AddressedThread
        <3>2. toRouter[f] # << >>
            BY <1>3, <2>2, <2>4
        <3> QED BY <2>3, <2>4, <3>1, <3>2 DEF AddressedConnection
    <2>5. AddressedThread(t)'
        <3>1. ~thread'[t].closed
            BY <1>3, <2>2, Zenon
        <3>2. f \notin TcpFds
            BY <1>9, NoneIsNothing
        <3> HIDE DEF AllOf
        <3> QED BY <1>1, <1>3, <2>2, <2>4, <3>1, <3>2 DEF AddressedThread
    <2>6. \A r \in Threads : AddressedThread(r)'
        BY <1>8, <2>5
    <2>7. ASSUME NEW u \in UnixFds
          PROVE  AddressedConnection(u)'
        <3>1. CASE u = f
            <4> HIDE DEF AllOf
            <4> QED BY <1>1, <2>1, <2>3, <3>1 DEF AddressedConnection
        <3>2. CASE u # f
            BY <1>1, <2>1, <3>2, AddressedConnectionStays
        <3> QED BY <3>1, <3>2
    <2>8. \A c \in Clients : AddressedClient(c)'
        BY <1>1, <2>1, AddressedClientsStay
    <2> QED BY <1>5, <2>6, <2>7, <2>8, AddressedJoin
<1>10. CASE f \in TcpFds
    <2>1. f \notin UnixFds
        BY <1>10, NoneIsNothing
    <2>2. PICK c \in Clients : c = peer[f]
        BY <1>1, <1>2, <1>10, BusyPeers DEF Busy
    <2>3. sent'[c] = << >> /\ toRouter' = toRouter
          /\ \A d \in Clients : d # c => sent'[d] = sent[d]
        BY <1>4, <2>1, <2>2 DEF TypeOK
    <2>4. Pending(f) = sent[c] /\ (AtEof(f) <=> c \in fin)
        BY <1>10, <2>2, PendingType, NoneIsNothing
    <2>5. \A d \in Clients : AddressedClient(d)
        BY AddressedParts
    <2>6. AllOf(sent[c], c)
        BY <2>5 DEF AddressedClient
    <2>7. early = {} /\ sent[c] # << >> => ~AtEof(f)
        BY <2>4, <2>6, NothingOnTheWay
    <2>8. AddressedThread(t)'
        <3>1. early = {} /\ thread'[t].pc = "write" => ~thread'[t].closed
            BY <1>3, <2>4, <2>7, Zenon
        <3> HIDE DEF AllOf
        <3>2. AllOf(thread'[t].buf, peer'[thread'[t].src])
            BY <1>1, <1>3, <2>2, <2>4, <2>6
        <3> QED BY <1>1, <1>3, <2>1, <3>1, <3>2 DEF AddressedThread
    <2>9. \A r \in Threads : AddressedThread(r)'
        BY <1>8, <2>8
    <2>10. \A u \in UnixFds : AddressedConnection(u)'
        BY <1>1, <2>3, AddressedConnectionStays
    <2>11. \A d \in Clients : AddressedClient(d)'
        <3> HIDE DEF AllOf
        <3> QED BY <1>1, <1>7, <2>3, <2>5 DEF AddressedClient
    <2> QED BY <1>5, <2>9, <2>10, <2>11, AddressedJoin
<1> QED BY <1>9, <1>10 DEF Fds

LEMMA AllOfConcat ==
    ASSUME NEW a \in Seq(Clients), NEW b \in Seq(Clients), NEW c, AllOf(a, c), AllOf(b, c)
    PROVE  AllOf(a \o b, c) /\ Len(a \o b) >= Len(a)
<1>1. \A i \in 1 .. Len(a) + Len(b) :
          (a \o b)[i] = IF i <= Len(a) THEN a[i] ELSE b[i - Len(a)]
    OBVIOUS
<1>2. Len(a \o b) = Len(a) + Len(b) /\ Len(a) \in Nat /\ Len(b) \in Nat
    OBVIOUS
<1>3. \A i \in 1 .. Len(a) + Len(b) : i > Len(a) => i - Len(a) \in 1 .. Len(b)
    BY <1>2
<1> QED BY <1>1, <1>2, <1>3 DEF AllOf


(* What a thread writes goes to the UNIX connection its client is paired   *)
(* with, or to the client it is for.                                       *)
LEMMA AddressedWrite ==
    ASSUME Inv, TypeOK', NEW t \in Threads, Write(t)
    PROVE  Addressed'
<1> USE DEF Inv
<1>1. UNCHANGED <<unix_to_tcp, peer, sent, asked, fin, early, toRouter, aborted>>
      /\ thread[t].pc = "write"
    BY DEF Write, mapVars, clientVars, At
<1>2. /\ OthersStay(t) /\ thread'[t].pc = "rearm" /\ thread'[t].src = thread[t].src
      /\ thread'[t].buf = << >> /\ thread'[t].closed = thread[t].closed
    BY WriteEffect
<1>3. early' = {} => ~aborted'
    BY <1>1, AddressedParts
<1>4. AddressedThread(t)
    BY AddressedParts
<1>5. \A r \in Threads : AddressedThread(r)'
    <2>1. AddressedThread(t)'
        <3>1. early' = {} => ~thread'[t].closed
            BY <1>1, <1>2, <1>4 DEF AddressedThread
        <3> QED BY <1>2, <3>1 DEF AddressedThread
    <2>2. \A r \in Threads : r # t => AddressedThread(r)'
        BY <1>1, <1>2, AddressedThreadStays DEF OthersStay
    <2> QED BY <2>1, <2>2
<1> PICK d : d = thread[t].dst
    OBVIOUS
<1>6. PICK b \in Seq(Clients) : b = thread[t].buf
    BY ThreadFields
<1>7. CASE UNCHANGED <<got, toServer>>
    <2>1. \A u \in UnixFds : AddressedConnection(u)'
        BY <1>1, <1>7, AddressedConnectionStays
    <2>2. \A c \in Clients : AddressedClient(c)'
        BY <1>1, <1>7, AddressedClientsStay
    <2> QED BY <1>3, <1>5, <2>1, <2>2, AddressedJoin
<1>8. CASE /\ thread[t].src \in TcpFds /\ d \in UnixFds /\ got' = got
           /\ d = tcp_to_unix[thread[t].src]
           /\ toServer' = [toServer EXCEPT ![d] = toServer[d] \o b]
    <2>1. unix_to_tcp[d] = thread[t].src /\ unix_to_tcp[d] # None
        BY <1>8, NoneIsNothing DEF Pairing
    <2>2. PICK c : c = peer[unix_to_tcp[d]] /\ AllOf(b, c)
        BY <1>1, <1>4, <1>6, <1>8, <2>1 DEF AddressedThread
    <2>3. toServer'[d] = toServer[d] \o b
          /\ \A u \in UnixFds : u # d => toServer'[u] = toServer[u]
        BY <1>8 DEF TypeOK
    <2>4. AddressedConnection(d)
        BY <1>8, AddressedParts
    <2>5. toServer[d] \in Seq(Clients)
        BY <1>8 DEF TypeOK
    <2>6. early = {} => AllOf(toServer[d], c)
        <3>1. toServer[d] = << >> => AllOf(toServer[d], c)
            BY DEF AllOf
        <3> QED BY <2>2, <2>4, <3>1 DEF AddressedConnection
    <2>7. early = {} => AllOf(toServer[d] \o b, c)
        BY <2>2, <2>5, <2>6, AllOfConcat
    <2>8. ASSUME NEW u \in UnixFds
          PROVE  AddressedConnection(u)'
        <3>1. CASE u = d
            <4> HIDE DEF AllOf
            <4> QED BY <1>1, <2>1, <2>2, <2>3, <2>4, <2>7, <3>1 DEF AddressedConnection
        <3>2. CASE u # d
            BY <1>1, <2>3, <3>2, AddressedConnectionStays
        <3> QED BY <3>1, <3>2
    <2>9. \A e \in Clients : AddressedClient(e)'
        BY <1>1, <1>8, AddressedClientsStay
    <2> QED BY <1>3, <1>5, <2>8, <2>9, AddressedJoin
<1>9. CASE /\ thread[t].src \in UnixFds /\ peer[d] \in Clients /\ toServer' = toServer
           /\ got' = [got EXCEPT ![peer[d]] = got[peer[d]] \o b]
    <2>1. PICK c \in Clients : c = peer[d]
        BY <1>9
    <2>2. got'[c] = got[c] \o b /\ \A e \in Clients : e # c => got'[e] = got[e]
        BY <1>9, <2>1 DEF TypeOK
    <2>3. early = {} => AllOf(b, c)
        BY <1>1, <1>4, <1>6, <1>9, <2>1 DEF AddressedThread
    <2>4. \A e \in Clients : AddressedClient(e)
        BY AddressedParts
    <2>5. got[c] \in Seq(Clients) /\ asked[c] \in Nat
        BY DEF TypeOK
    <2>6. early = {} => AllOf(got[c] \o b, c) /\ Len(got[c] \o b) >= Len(got[c])
        BY <2>3, <2>4, <2>5, AllOfConcat DEF AddressedClient
    <2>7. early = {} /\ c \in fin => Len(got[c] \o b) >= asked[c]
        <3>1. got[c] \o b \in Seq(Clients)
            BY <2>5
        <3>2. Len(got[c] \o b) \in Nat /\ Len(got[c]) \in Nat
            BY <2>5, <3>1
        <3>3. early = {} /\ c \in fin => Len(got[c]) >= asked[c]
            BY <2>4 DEF AddressedClient
        <3> QED BY <2>5, <2>6, <3>2, <3>3
    <2>8. ASSUME NEW e \in Clients
          PROVE  AddressedClient(e)'
        <3> HIDE DEF AllOf
        <3>1. CASE e = c
            BY <1>1, <2>2, <2>4, <2>6, <2>7, <3>1 DEF AddressedClient
        <3>2. CASE e # c
            BY <1>1, <2>2, <2>4, <3>2 DEF AddressedClient
        <3> QED BY <3>1, <3>2
    <2>9. \A u \in UnixFds : AddressedConnection(u)'
        BY <1>1, <1>9, AddressedConnectionStays
    <2> QED BY <1>3, <1>5, <2>8, <2>9, AddressedJoin
<1> QED BY <1>6, <1>7, <1>8, <1>9, WriteDelivers

(* An API process answers the first request of a connection. *)
LEMMA AddressedServerReply ==
    ASSUME Inv, TypeOK', NEW u \in UnixFds, ServerReply(u)
    PROVE  Addressed'
<1> USE DEF Inv
<1>1. PICK x : x = Head(toServer[u])
    OBVIOUS
<1>2. /\ UNCHANGED <<unix_to_tcp, thread, peer, sent, got, asked, fin, early, aborted>>
      /\ toServer[u] # << >>
      /\ toServer' = [toServer EXCEPT ![u] = Tail(@)]
      /\ toRouter' = [toRouter EXCEPT ![u] = Append(@, x)]
    BY <1>1 DEF ServerReply, mapVars, clientVars
<1>3. toServer[u] \in Seq(Clients) /\ toRouter[u] \in Seq(Clients)
    BY DEF TypeOK
<1>4. /\ toServer'[u] = Tail(toServer[u]) /\ toRouter'[u] = Append(toRouter[u], x)
      /\ \A v \in UnixFds : v # u => toServer'[v] = toServer[v] /\ toRouter'[v] = toRouter[v]
    BY <1>2 DEF TypeOK
<1>5. x = toServer[u][1] /\ x \in Clients /\ 1 \in 1 .. Len(toServer[u])
    BY <1>1, <1>2, <1>3
<1>6. AddressedConnection(u)
    BY AddressedParts
<1>7. ASSUME early = {}
      PROVE  AddressedConnection(u)'
    <2>1. PICK c : c = peer[unix_to_tcp[u]] /\ unix_to_tcp[u] # None /\ AllOf(toServer[u], c)
        BY <1>2, <1>6, <1>7 DEF AddressedConnection
    <2>2. x = c
        BY <1>5, <2>1 DEF AllOf
    <2>3. AllOf(toRouter[u], c)
        <3>1. toRouter[u] = << >> => AllOf(toRouter[u], c)
            BY DEF AllOf
        <3> QED BY <1>6, <1>7, <2>1, <3>1 DEF AddressedConnection
    <2>4. AllOf(Append(toRouter[u], x), c)
        <3>1. /\ Len(Append(toRouter[u], x)) = Len(toRouter[u]) + 1 /\ Len(toRouter[u]) \in Nat
              /\ \A i \in 1 .. Len(toRouter[u]) : Append(toRouter[u], x)[i] = toRouter[u][i]
              /\ Append(toRouter[u], x)[Len(toRouter[u]) + 1] = x
            BY <1>3, <1>5
        <3> QED BY <2>2, <2>3, <3>1 DEF AllOf
    <2>5. AllOf(Tail(toServer[u]), c)
        <3>1. /\ Len(Tail(toServer[u])) = Len(toServer[u]) - 1 /\ Len(toServer[u]) \in Nat
              /\ \A i \in 1 .. Len(toServer[u]) - 1 : Tail(toServer[u])[i] = toServer[u][i + 1]
            BY <1>2, <1>3
        <3> QED BY <2>1, <3>1 DEF AllOf
    <2> HIDE DEF AllOf
    <2> QED BY <1>2, <1>4, <2>1, <2>4, <2>5 DEF AddressedConnection
<1>8. AddressedConnection(u)'
    <2>1. CASE early # {}
        BY <1>2, <2>1 DEF AddressedConnection
    <2> QED BY <1>7, <2>1
<1>9. \A v \in UnixFds : v # u => AddressedConnection(v)'
    BY <1>2, <1>4, AddressedConnectionStays
<1>10. \A v \in UnixFds : AddressedConnection(v)'
    BY <1>8, <1>9
<1>11. \A r \in Threads : AddressedThread(r)'
    BY <1>2, AddressedThreadStays
<1>12. \A c \in Clients : AddressedClient(c)'
    BY <1>2, AddressedClientsStay
<1>13. early' = {} => ~aborted'
    BY <1>2, AddressedParts
<1> QED BY <1>10, <1>11, <1>12, <1>13, AddressedJoin

(* A client sends a request, or closes. *)
LEMMA AddressedClientStep ==
    ASSUME Inv, TypeOK', NEW c \in Clients, Request(c) \/ Finish(c)
    PROVE  Addressed'
<1> USE DEF Inv
<1>1. /\ UNCHANGED <<unix_to_tcp, thread, peer, got, toServer, toRouter, aborted>>
      /\ early \subseteq early'
    BY DEF Request, Finish, mapVars
<1>2. \A d \in Clients : AddressedClient(d)
    BY AddressedParts
<1>3. \A r \in Threads : AddressedThread(r)'
    BY <1>1, AddressedThreadStays
<1>4. \A u \in UnixFds : AddressedConnection(u)'
    BY <1>1, AddressedConnectionStays
<1>5. early' = {} => ~aborted'
    BY <1>1, AddressedParts
<1>6. CASE Request(c)
    <2>1. /\ c \notin fin /\ UNCHANGED <<fin, early>>
          /\ asked' = [asked EXCEPT ![c] = @ + 1] /\ sent' = [sent EXCEPT ![c] = Append(@, c)]
        BY <1>6 DEF Request
    <2>2. /\ sent'[c] = Append(sent[c], c)
          /\ \A d \in Clients : d # c => sent'[d] = sent[d] /\ asked'[d] = asked[d]
        BY <2>1 DEF TypeOK
    <2>3. sent[c] \in Seq(Clients)
        BY DEF TypeOK
    <2>4. AllOf(Append(sent[c], c), c)
        <3>1. /\ Len(Append(sent[c], c)) = Len(sent[c]) + 1 /\ Len(sent[c]) \in Nat
              /\ \A i \in 1 .. Len(sent[c]) : Append(sent[c], c)[i] = sent[c][i]
              /\ Append(sent[c], c)[Len(sent[c]) + 1] = c
            BY <2>3
        <3>2. AllOf(sent[c], c)
            BY <1>2 DEF AddressedClient
        <3> QED BY <3>1, <3>2 DEF AllOf
    <2>5. ASSUME NEW d \in Clients
          PROVE  AddressedClient(d)'
        <3> HIDE DEF AllOf
        <3>1. CASE d = c
            BY <1>1, <1>2, <2>1, <2>2, <2>4, <3>1 DEF AddressedClient
        <3>2. CASE d # c
            BY <1>1, <1>2, <2>1, <2>2, <3>2 DEF AddressedClient
        <3> QED BY <3>1, <3>2
    <2> QED BY <1>3, <1>4, <1>5, <2>5, AddressedJoin
<1>7. CASE Finish(c)
    <2>1. /\ UNCHANGED <<sent, asked>> /\ fin' = fin \cup {c}
          /\ early' = {} => early = {} /\ Len(got[c]) >= asked[c]
        BY <1>7 DEF Finish
    <2>2. \A d \in Clients : AddressedClient(d)'
        <3> HIDE DEF AllOf
        <3> QED BY <1>1, <1>2, <2>1 DEF AddressedClient
    <2> QED BY <1>3, <1>4, <1>5, <2>2, AddressedJoin
<1> QED BY <1>6, <1>7

LEMMA AddressedStep ==
    ASSUME Inv, Prompt, [Next]_vars, TypeOK'
    PROVE  Addressed'
<1>1. ASSUME NEW t \in Threads, TakeUnix(t)
      PROVE  Addressed'
    <2>1. UNCHANGED <<unix_to_tcp, peer, sent, got, asked, fin, early, toServer, toRouter>>
        BY <1>1 DEF TakeUnix, mapVars, clientVars
    <2>2. OthersStay(t) /\ thread'[t].pc = "associate"
        BY <1>1, TakeUnixEffect DEF Inv
    <2>3. ~aborted'
        BY <1>1, TakeUnixRings
    <2> QED BY <2>1, <2>2, <2>3, AddressedElsewhere, AddressedFrame
<1>2. ASSUME NEW t \in Threads, AddToEpoll(t)
      PROVE  Addressed'
    <2>1. UNCHANGED <<unix_to_tcp, peer, sent, got, asked, fin, early, toServer, toRouter, aborted>>
        BY <1>2 DEF AddToEpoll, mapVars, clientVars
    <2>2. OthersStay(t) /\ thread'[t].pc = "wait"
        BY <1>2, IdleEffect DEF AddToEpoll, Inv
    <2>3. early' = {} => ~aborted'
        BY <2>1, AddressedParts
    <2> QED BY <2>1, <2>2, <2>3, AddressedElsewhere, AddressedFrame
<1>3. ASSUME NEW t \in Threads, NEW f \in Fds, TakeEvent(t, f)
      PROVE  Addressed'
    <2>1. UNCHANGED <<unix_to_tcp, peer, sent, got, asked, fin, early, toServer, toRouter, aborted>>
        BY <1>3 DEF TakeEvent, mapVars, clientVars
    <2>2. OthersStay(t) /\ thread'[t].pc = "lookup"
        BY <1>3, TakeEventEffect DEF Inv
    <2>3. early' = {} => ~aborted'
        BY <2>1, AddressedParts
    <2> QED BY <2>1, <2>2, <2>3, AddressedElsewhere, AddressedFrame
<1>4. ASSUME NEW t \in Threads, ReserveSlot(t)
      PROVE  Addressed'
    <2>1. UNCHANGED <<unix_to_tcp, peer, sent, got, asked, fin, early, toServer, toRouter, aborted>>
        BY <1>4 DEF ReserveSlot, mapVars, clientVars
    <2>2. OthersStay(t) /\ thread'[t].pc = "store"
        BY <1>4, ReserveSlotEffect DEF Inv
    <2>3. early' = {} => ~aborted'
        BY <2>1, AddressedParts
    <2> QED BY <2>1, <2>2, <2>3, AddressedElsewhere, AddressedFrame
<1>5. ASSUME NEW t \in Threads, StoreSlot(t)
      PROVE  Addressed'
    <2>1. UNCHANGED <<unix_to_tcp, peer, sent, got, asked, fin, early, toServer, toRouter, aborted>>
        BY <1>5 DEF StoreSlot, mapVars, clientVars
    <2>2. OthersStay(t) /\ thread'[t].pc = "close"
        BY <1>5, StoreSlotEffect DEF Inv
    <2>3. early' = {} => ~aborted'
        BY <2>1, AddressedParts
    <2> QED BY <2>1, <2>2, <2>3, AddressedElsewhere, AddressedFrame
<1>6. ASSUME UNCHANGED <<unix_to_tcp, thread, peer, sent, got, asked, fin, early,
                         toServer, toRouter, aborted>>
      PROVE  Addressed'
    <2>1. \A r \in Threads : AddressedThread(r)'
        BY <1>6, AddressedThreadStays
    <2>2. \A u \in UnixFds : AddressedConnection(u)'
        BY <1>6, AddressedConnectionStays
    <2>3. \A c \in Clients : AddressedClient(c)'
        BY <1>6, AddressedClientsStay
    <2>4. early' = {} => ~aborted'
        BY <1>6, AddressedParts
    <2> QED BY <2>1, <2>2, <2>3, <2>4, AddressedJoin
<1> QED
    BY <1>1, <1>2, <1>3, <1>4, <1>5, <1>6, AddressedAccept, AddressedAssociate,
       AddressedLookup, AddressedRead, AddressedWrite, AddressedRearm,
       AddressedEraseMaps, AddressedCloseTcp, AddressedClientStep, AddressedServerReply
    DEF Next, ThreadNext, Connect, Stopped, Fds, vars, mapVars, clientVars

-----------------------------------------------------------------------------
(* The initial state.                                                      *)

LEMMA Largest ==
    ASSUME NEW b \in Nat, NEW S, S \subseteq 0 .. b, S # {}
    PROVE  \E n \in S : \A m \in S : m <= n
<1> DEFINE D == {b - m : m \in S}
<1>1. D \subseteq Nat /\ D # {}
    <2>1. \A m \in S : b - m \in Nat
        OBVIOUS
    <2> QED BY <2>1
<1> HIDE DEF D
<1>2. PICK d \in D : \A e \in D : d <= e
    BY <1>1, Smallest
<1>3. PICK n \in S : d = b - n
    BY DEF D
<1>4. \A m \in S : b - m \in D
    BY DEF D
<1>5. \A m \in S : m <= n
    BY <1>2, <1>3, <1>4
<1> QED BY <1>5

(* The last of the first n places that was slot k, and what it was given. *)
LEMMA SlotIs ==
    ASSUME NEW s \in Sides, NEW n \in Nat, NEW k \in 0 .. kMaxConnections - 1,
           NEW j \in 0 .. n - 1, j % kMaxConnections = k, n - j <= kMaxConnections
    PROVE  Slot(s, k, n) = InitialRing[s][(j % Len(InitialRing[s])) + 1]
<1> DEFINE used == {i \in 0 .. n - 1 : i % kMaxConnections = k}
           last == CHOOSE i \in used : \A m \in used : m <= i
<1>1. \A i \in used : i <= j
    <2> SUFFICES ASSUME NEW i \in used, i > j PROVE FALSE
        OBVIOUS
    <2>1. i \in Nat /\ j \in Nat /\ j < i /\ i - j < kMaxConnections
        BY RingAssumption
    <2>2. j % kMaxConnections # i % kMaxConnections
        BY <2>1, Residues, RingAssumption
    <2> QED BY <2>2
<1>2. j \in used
    OBVIOUS
<1>3. last \in used /\ \A m \in used : m <= last
    BY <1>1, <1>2
<1>4. last = j
    BY <1>1, <1>2, <1>3
<1> HIDE DEF last
<1>5. Slot(s, k, n) = IF used = {} THEN None
                      ELSE InitialRing[s][(last % Len(InitialRing[s])) + 1]
    BY DEF Slot, last
<1> QED BY <1>2, <1>4, <1>5

LEMMA SlotType ==
    ASSUME NEW s \in Sides, NEW n \in Nat, NEW k, n > 0 => Len(InitialRing[s]) > 0
    PROVE  Slot(s, k, n) \in UnixFds \cup {None}
<1> DEFINE used == {i \in 0 .. n - 1 : i % kMaxConnections = k}
           last == CHOOSE i \in used : \A m \in used : m <= i
<1>1. CASE used = {}
    BY <1>1 DEF Slot
<1>2. CASE used # {}
    <2>1. n > 0 /\ n - 1 \in Nat
        BY <1>2
    <2>2. used \subseteq 0 .. n - 1
        OBVIOUS
    <2> HIDE DEF used
    <2>3. \E i \in used : \A m \in used : m <= i
        BY <1>2, <2>1, <2>2, Largest
    <2>4. last \in used
        BY <2>3
    <2>5. PICK K \in Nat : K = Len(InitialRing[s]) /\ K > 0
        BY <2>1, RingAssumption
    <2> HIDE DEF last
    <2>6. last \in Nat
        BY <2>1, <2>2, <2>4
    <2>7. last % K \in 0 .. K - 1
        <3>1. K \in Nat \ {0}
            BY <2>5
        <3> QED BY <2>6, <3>1, Division
    <2>8. (last % K) + 1 \in 1 .. K
        BY <2>5, <2>7
    <2>9. InitialRing[s] \in Seq(UnixFds)
        BY RingAssumption
    <2>10. InitialRing[s][(last % K) + 1] \in UnixFds
        BY <2>5, <2>8, <2>9
    <2> QED BY <1>2, <2>5, <2>10 DEF Slot, used, last
<1> QED BY <1>1, <1>2


(* The remainder is the only one of its kind. *)
LEMMA Remainder ==
    ASSUME NEW K \in Nat \ {0}, NEW p \in Int, NEW r \in 0 .. K - 1, NEW n \in Nat,
           n = p * K + r
    PROVE  n % K = r
<1> PICK x : x = n % K
    OBVIOUS
<1>1. PICK q \in Int : n = q * K + x
    BY Division
<1>2. x \in 0 .. K - 1
    BY Division
<1> DEFINE d == p - q
<1>3. d \in Int
    OBVIOUS
<1>4. d * K = x - r
    <2>1. d * K = p * K - q * K
        OBVIOUS
    <2> QED BY <1>1, <1>2, <2>1
<1> HIDE DEF d
<1>5. d >= 1 => d * K >= K
    BY <1>3
<1>6. d <= -1 => d * K <= -K
    BY <1>3
<1>7. d = 0
    BY <1>2, <1>3, <1>4, <1>5, <1>6
<1>8. d * K = 0
    BY <1>7
<1>9. x = r
    BY <1>2, <1>4, <1>8
<1> QED BY <1>9

(* Of L numbers in a row, one has any given remainder. *)
LEMMA EveryRemainder ==
    ASSUME NEW L \in Nat \ {0}, NEW a \in Nat, NEW i \in 0 .. L - 1
    PROVE  \E n \in a .. a + L - 1 : n % L = i
<1> PICK r : r = a % L
    OBVIOUS
<1>1. PICK p \in Int : a = p * L + r
    BY Division
<1>2. r \in 0 .. L - 1
    BY Division
<1>3. CASE i >= r
    <2> DEFINE n == a + (i - r)
    <2>1. n \in Nat /\ n \in a .. a + L - 1 /\ n = p * L + i
        BY <1>1, <1>2, <1>3
    <2> HIDE DEF n
    <2>2. n % L = i
        BY <2>1, Remainder
    <2> QED BY <2>1, <2>2
<1>4. CASE i < r
    <2> DEFINE n == a + (i - r) + L
    <2>1. n \in Nat /\ n \in a .. a + L - 1
        BY <1>2, <1>4
    <2>2. (p + 1) * L = p * L + L
        OBVIOUS
    <2>3. n = (p + 1) * L + i /\ p + 1 \in Int
        BY <1>1, <1>2, <2>2
    <2> HIDE DEF n
    <2>4. n % L = i
        BY <2>1, <2>3, Remainder
    <2> QED BY <2>1, <2>4
<1> QED BY <1>2, <1>3, <1>4

(* P tells what is in the slots of the places from a to b when b are used. *)
FirstPlaces(P, s, a, b) ==
    /\ s \in Sides /\ a \in Nat /\ b \in Nat /\ b = Len(InitialRing[s]) + a
    /\ \A n \in a .. b - 1 : P[n] = Slot(s, n % kMaxConnections, b)

(* The rings hold every UNIX connection once, whatever they served before. *)
LEMMA InitRing ==
    ASSUME NEW s, NEW a, NEW b, NEW P, FirstPlaces(P, s, a, b)
    PROVE  /\ \A n \in a .. b - 1 : P[n] \in ConnectionsTo(s)
           /\ \A m, n \in a .. b - 1 : P[m] = P[n] => m = n
           /\ \A u \in ConnectionsTo(s) : \E n \in a .. b - 1 : P[n] = u
<1> USE DEF FirstPlaces
<1>1. PICK L \in Nat : L = Len(InitialRing[s])
    BY RingAssumption
<1>2. /\ L < kMaxConnections /\ kMaxConnections \in Nat \ {0}
      /\ InitialRing[s] \in Seq(UnixFds)
      /\ \A k \in 1 .. L : SideOf[InitialRing[s][k]] = s
      /\ \A j, k \in 1 .. L : InitialRing[s][j] = InitialRing[s][k] => j = k
      /\ \A u \in UnixFds : SideOf[u] = s => \E k \in 1 .. L : InitialRing[s][k] = u
    BY <1>1, RingAssumption
<1>3. ASSUME NEW n \in a .. b - 1
      PROVE  /\ L \in Nat \ {0} /\ n \in Nat
             /\ \E j \in 1 .. L : j = (n % L) + 1 /\ P[n] = InitialRing[s][j]
    <2>1. n \in Nat /\ n \in 0 .. b - 1 /\ b - n <= kMaxConnections /\ L \in Nat \ {0}
        BY <1>1, <1>2
    <2>2. n % kMaxConnections \in 0 .. kMaxConnections - 1
        BY <1>2, <2>1, Division
    <2>3. n % L \in 0 .. L - 1
        BY <2>1, Division
    <2>4. PICK k \in 0 .. kMaxConnections - 1 : k = n % kMaxConnections
        BY <2>2
    <2>5. Slot(s, k, b) = InitialRing[s][(n % L) + 1]
        BY <1>1, <2>1, <2>4, SlotIs
    <2> QED BY <2>1, <2>3, <2>4, <2>5
<1>4. ASSUME NEW n \in a .. b - 1
      PROVE  P[n] \in ConnectionsTo(s)
    <2>1. PICK j \in 1 .. L : P[n] = InitialRing[s][j]
        BY <1>3
    <2> QED BY <1>1, <1>2, <2>1 DEF ConnectionsTo
<1>5. ASSUME NEW m \in a .. b - 1, NEW n \in a .. b - 1, P[m] = P[n]
      PROVE  m = n
    <2>1. L \in Nat \ {0} /\ m \in Nat /\ n \in Nat
        BY <1>3
    <2>2. m % L = n % L
        <3>1. PICK i \in 1 .. L : i = (m % L) + 1 /\ P[m] = InitialRing[s][i]
            BY <1>3
        <3>2. PICK j \in 1 .. L : j = (n % L) + 1 /\ P[n] = InitialRing[s][j]
            BY <1>3
        <3>3. i = j
            BY <1>2, <1>5, <3>1, <3>2
        <3>r. m % L \in 0 .. L - 1 /\ n % L \in 0 .. L - 1
            BY <2>1, Division
        <3>4. PICK x \in 0 .. L - 1 : x = m % L
            BY <3>r, Zenon
        <3>5. PICK y \in 0 .. L - 1 : y = n % L
            BY <3>r, Zenon
        <3>6. i = x + 1 /\ j = y + 1
            BY <3>1, <3>2, <3>4, <3>5, Zenon
        <3>7. x \in Int /\ y \in Int
            BY <2>1
        <3>8. x = y
            <4>1. x + 1 = y + 1
                BY <3>3, <3>6, Zenon
            <4> QED BY <3>7, <4>1
        <3> QED BY <3>4, <3>5, <3>8, Zenon
    <2>3. m < n => n - m < L
        BY <1>1
    <2>4. n < m => m - n < L
        BY <1>1
    <2>5. ~(m < n)
        BY <2>1, <2>2, <2>3, Residues
    <2>6. ~(n < m)
        BY <2>1, <2>2, <2>4, Residues
    <2> QED BY <2>1, <2>5, <2>6
<1>6. ASSUME NEW u \in ConnectionsTo(s)
      PROVE  \E n \in a .. b - 1 : P[n] = u
    <2>1. PICK k \in 1 .. L : InitialRing[s][k] = u
        BY <1>2 DEF ConnectionsTo
    <2>2. L \in Nat \ {0} /\ k - 1 \in 0 .. L - 1
        BY <2>1
    <2>3. PICK i \in 0 .. L - 1 : i = k - 1
        BY <2>2
    <2>4. PICK n \in a .. a + L - 1 : n % L = i
        BY <2>2, EveryRemainder
    <2>5. n \in a .. b - 1
        BY <1>1, <2>4
    <2>6. (n % L) + 1 = k
        BY <2>3, <2>4
    <2>7. P[n] = u
        BY <1>3, <2>1, <2>5, <2>6
    <2> QED BY <2>5, <2>7
<1> QED BY <1>4, <1>5, <1>6


LEMMA InitRings ==
    ASSUME Init
    PROVE  Slots /\ Contents /\ Room
<1>1. PICK served \in Warm :
          /\ start_idx = [s \in Sides |-> served]
          /\ end_idx = [s \in Sides |-> Len(InitialRing[s]) + served]
    BY DEF Init
<1>2. /\ available = [s \in Sides |-> [k \in 0 .. kMaxConnections - 1 |-> Slot(s, k, end_idx[s])]]
      /\ unix_to_tcp = [u \in UnixFds |-> None]
      /\ thread = [t \in Threads |-> Idle]
      /\ client = [c \in Clients |-> "new"]
    BY DEF Init
<1>3. served \in Nat
    BY BoundsAssumption
<1>4. kMaxConnections \in Nat \ {0}
    BY RingAssumption
<1>5. \A t \in Threads : thread[t].pc = "wait"
    BY <1>2, IdleFields
<1>6. \A s, k : ~Unread(s, k) /\ ~Unstored(s, k)
    BY <1>5 DEF Unread, Unstored, SlotAt
<1>7. \A t \in Threads : ~Holds(t)
    BY <1>5 DEF Holds
<1>8. \A s \in Sides : /\ start_idx[s] = served /\ end_idx[s] = Len(InitialRing[s]) + served
                       /\ Len(InitialRing[s]) \in Nat /\ Len(InitialRing[s]) < kMaxConnections
    BY <1>1, RingAssumption
<1>9. Slots
    <2>1. \A s \in Sides : start_idx[s] <= end_idx[s]
                           /\ end_idx[s] - start_idx[s] < kMaxConnections
        BY <1>3, <1>4, <1>8
    <2> QED BY <1>5, <1>6, <2>1 DEF Slots
<1>10. ASSUME NEW s \in Sides
       PROVE  /\ \A k \in 0 .. kMaxConnections - 1 : Stored(s, k) =>
                     available[s][k] \in ConnectionsTo(s)
              /\ \A j, k \in 0 .. kMaxConnections - 1 :
                     Stored(s, j) /\ Stored(s, k) /\ available[s][j] = available[s][k] => j = k
              /\ \A u \in ConnectionsTo(s) :
                     \E k \in 0 .. kMaxConnections - 1 : Stored(s, k) /\ available[s][k] = u
    <2>1. PICK a \in Nat, b \in Nat : a = start_idx[s] /\ b = end_idx[s]
                                      /\ b = Len(InitialRing[s]) + a
        BY <1>3, <1>8
    <2>2. \A k \in 0 .. kMaxConnections - 1 : available[s][k] = Slot(s, k, b)
        BY <1>2, <2>1
    <2>3. \A k : Stored(s, k) <=> \E n \in a .. b - 1 : n % kMaxConnections = k
        BY <1>6, <2>1 DEF Stored, InWindow
    <2> PICK P : P = [n \in a .. b - 1 |-> Slot(s, n % kMaxConnections, b)]
        OBVIOUS
    <2>4. /\ \A n \in a .. b - 1 : P[n] \in ConnectionsTo(s)
          /\ \A m, n \in a .. b - 1 : P[m] = P[n] => m = n
          /\ \A u \in ConnectionsTo(s) : \E n \in a .. b - 1 : P[n] = u
        <3>1. FirstPlaces(P, s, a, b)
            BY <2>1 DEF FirstPlaces
        <3> QED BY <3>1, InitRing
    <2>5. \A n \in a .. b - 1 : n % kMaxConnections \in 0 .. kMaxConnections - 1
        BY <1>4, Division
    <2>6. \A k \in 0 .. kMaxConnections - 1 : Stored(s, k) =>
              \E n \in a .. b - 1 : n % kMaxConnections = k /\ available[s][k] = P[n]
        BY <2>2, <2>3
    <2>7. \A n \in a .. b - 1 : Stored(s, n % kMaxConnections)
                                /\ available[s][n % kMaxConnections] = P[n]
        BY <2>2, <2>3, <2>5
    <2> QED BY <2>4, <2>5, <2>6, <2>7
<1>11. Contents
    <2>1. \A u \in UnixFds : unix_to_tcp[u] = None
        BY <1>2
    <2> QED BY <1>7, <1>10, <2>1 DEF Contents, ConnectionsTo
<1>12. Room
    <2>1. {c \in Clients : client[c] = "connecting"} = {}
        BY <1>2
    <2>2. Connecting = 0
        BY <2>1, FS_EmptySet DEF Connecting
    <2>3. (Connecting + 1) \div 2 = 0 /\ Connecting \div 2 = 0
        BY <2>2
    <2> QED BY <1>3, <1>8, <2>3 DEF Room
<1> QED BY <1>9, <1>11, <1>12

LEMMA InitType == Init => TypeOK
<1> SUFFICES ASSUME Init PROVE TypeOK
    OBVIOUS
<1>1. PICK served \in Warm :
          /\ start_idx = [s \in Sides |-> served]
          /\ end_idx = [s \in Sides |-> Len(InitialRing[s]) + served]
          /\ round_robin_counter = 2 * served
    BY DEF Init
<1>2. served \in Nat
    BY BoundsAssumption
<1>3. \A s \in Sides : Len(InitialRing[s]) \in Nat
    BY RingAssumption
<1>4. start_idx \in [Sides -> Nat] /\ end_idx \in [Sides -> Nat] /\ round_robin_counter \in Nat
    BY <1>1, <1>2, <1>3
<1>5. available \in [Sides -> [0 .. kMaxConnections - 1 -> UnixFds \cup {None}]]
    <2>1. available = [s \in Sides |-> [k \in 0 .. kMaxConnections - 1 |-> Slot(s, k, end_idx[s])]]
        BY DEF Init
    <2>2. ASSUME NEW s \in Sides, NEW k \in 0 .. kMaxConnections - 1
          PROVE  Slot(s, k, end_idx[s]) \in UnixFds \cup {None}
        <3>1. PICK n \in Nat : n = end_idx[s]
            BY <1>4
        <3>2. n > 0 => Len(InitialRing[s]) > 0
            <4>1. n = Len(InitialRing[s]) + served
                BY <1>1, <3>1
            <4>2. InitialRing[s] \in Seq(UnixFds) /\ (InitialRing[s] = << >> => served = 0)
                BY RingAssumption
            <4> QED BY <1>2, <1>3, <4>1, <4>2
        <3>3. Slot(s, k, n) \in UnixFds \cup {None}
            BY <3>2, SlotType
        <3> QED BY <3>1, <3>3
    <2> QED BY <2>1, <2>2
<1>6. thread \in [Threads -> ThreadType]
    BY IdleFields DEF Init
<1>7. armed \subseteq Fds
    BY DEF Init, ConnectionsTo, Fds
<1>8. << >> \in Seq(Clients)
    OBVIOUS
<1>9. /\ sent \in [Clients -> Seq(Clients)] /\ toServer \in [UnixFds -> Seq(Clients)]
      /\ toRouter \in [UnixFds -> Seq(Clients)] /\ got \in [Clients -> Seq(Clients)]
    BY <1>8 DEF Init
<1>10. /\ tcp_to_unix \in [TcpFds -> UnixFds \cup {None}]
       /\ unix_to_tcp \in [UnixFds -> TcpFds \cup {None}]
       /\ aborted \in BOOLEAN
       /\ peer \in [TcpFds -> Clients \cup {None}]
       /\ client \in [Clients -> {"new", "connecting", "open"}]
       /\ fin \subseteq Clients
       /\ asked \in [Clients -> Nat]
       /\ early \subseteq Clients
    BY DEF Init
<1> QED BY <1>4, <1>5, <1>6, <1>7, <1>9, <1>10 DEF TypeOK

LEMMA InitInv == Init => Inv
<1> SUFFICES ASSUME Init PROVE Inv
    OBVIOUS
<1>1. \A t \in Threads : thread[t].pc = "wait" /\ thread[t].buf = << >>
    BY IdleFields DEF Init
<1>2. \A f \in TcpFds : f \notin armed
    BY NoneIsNothing DEF Init, ConnectionsTo
<1>3. Exclusive
    BY <1>1, <1>2 DEF Exclusive, Busy
<1>4. Peers
    BY DEF Init, Peers
<1>5. Pairing
    BY <1>1, <1>2 DEF Init, Pairing, Busy
<1>6. Events
    BY <1>1 DEF Events, Closing
<1>7. Addressed
    <2>1. \A c : AllOf(<< >>, c)
        BY DEF AllOf
    <2> HIDE DEF AllOf
    <2> QED BY <1>1, <2>1 DEF Init, Addressed
<1>8. Counted
    <2>1. \A p \in Places : Box[p] = << >>
        <3> SUFFICES ASSUME NEW p \in Places PROVE Box[p] = << >>
            OBVIOUS
        <3> QED BY <1>1, PlacesAre, BoxAt DEF Init
    <2>2. \A c : CopiesIn(Box, c) = {}
        BY <2>1 DEF CopiesIn
    <2>3. \A c \in Clients : asked[c] = 0
        BY DEF Init
    <2> QED BY <2>2, <2>3, FS_EmptySet DEF Counted
<1> QED BY <1>3, <1>4, <1>5, <1>6, <1>7, <1>8, InitType, InitRings DEF Inv

(* Each step keeps the invariant. *)
LEMMA StepInv ==
    ASSUME Prompt, Inv, [Next]_vars
    PROVE  Inv'
<1>1. TypeOK' /\ Exclusive' /\ Peers' /\ Room'
    BY TypeStep, ExclusiveStep, PeersStep, RoomStep
<1>2. Pairing' /\ Events' /\ Counted'
    BY <1>1, PairingStep, EventsStep, CountedStep
<1>3. Slots' /\ Contents'
    BY RingsStep
<1>4. Addressed'
    BY <1>1, AddressedStep
<1> QED BY <1>1, <1>2, <1>3, <1>4 DEF Inv

-----------------------------------------------------------------------------
(* What the invariant says.                                                *)

(* A response that was delivered is in one place. *)
LEMMA DeliveriesCounted ==
    ASSUME Inv, NEW c \in Clients
    PROVE  Deliveries(c) <= asked[c]
<1> PICK B : B = Box
    OBVIOUS
<1> DEFINE D == UNION {{<<d, k>> : k \in {i \in 1 .. Len(got[d]) : got[d][i] = c}} : d \in Clients}
           T == CopiesIn(B, c)
           g == [x \in D |-> <<<<"got", x[1]>>, x[2]>>]
<1>1. B \in Boxes
    BY BoxType DEF Inv
<1>2. IsFiniteSet(T) /\ Cardinality(T) <= asked[c] /\ asked[c] \in Nat
    BY DEF Inv, Counted, TypeOK
<1>3. ASSUME NEW x \in D
      PROVE  \E d \in Clients, i \in Int :
                 x = <<d, i>> /\ i \in 1 .. Len(got[d]) /\ got[d][i] = c
    BY DEF Inv, TypeOK
<1>t. \A p \in Places, i \in Int : i \in 1 .. Len(B[p]) /\ B[p][i] = c => <<p, i>> \in T
    BY <1>1, CopiesMember
<1> HIDE DEF D, T
<1>4. ASSUME NEW x \in D
      PROVE  g[x] \in T
    <2>1. PICK d \in Clients, i \in Int :
              x = <<d, i>> /\ i \in 1 .. Len(got[d]) /\ got[d][i] = c
        BY <1>3
    <2>2. PICK p \in Places : p = <<"got", d>> /\ B[p] = got[d]
        BY BoxAt
    <2>3. <<p, i>> \in T
        BY <1>t, <2>1, <2>2
    <2>4. g[x] = <<p, i>>
        BY <2>1, <2>2
    <2> QED BY <2>3, <2>4
<1>5. ASSUME NEW x \in D, NEW y \in D, g[x] = g[y]
      PROVE  x = y
    <2>1. PICK d \in Clients, i \in Int : x = <<d, i>>
        BY <1>3
    <2>2. PICK e \in Clients, j \in Int : y = <<e, j>>
        BY <1>3
    <2>3. g[x] = <<<<"got", d>>, i>> /\ g[y] = <<<<"got", e>>, j>>
        BY <2>1, <2>2
    <2>4. <<"got", d>> = <<"got", e>> /\ i = j
        BY <1>5, <2>3
    <2>5. d = e
        BY <2>4
    <2> QED BY <2>1, <2>2, <2>4, <2>5
<1>6. g \in Injection(D, T)
    <2>1. g \in [D -> T]
        BY <1>4
    <2> HIDE DEF g
    <2> QED BY <1>5, <2>1 DEF Injection, IsInjective
<1> HIDE DEF g
<1>7. IsFiniteSet(D) /\ Cardinality(D) <= Cardinality(T)
    BY <1>2, <1>6, FS_Injection
<1>8. Cardinality(D) \in Nat /\ Cardinality(T) \in Nat
    BY <1>2, <1>7, FS_CardinalityType
<1>9. Deliveries(c) = Cardinality(D)
    BY DEF Deliveries, D
<1> QED BY <1>2, <1>7, <1>8, <1>9

LEMMA OwnerFromInv ==
    ASSUME Inv
    PROVE  ResponsesToOwner
<1>1. \A c \in Clients : Deliveries(c) <= asked[c]
    BY DeliveriesCounted
<1>2. early = {} => \A c \in Clients : \A k \in 1 .. Len(got[c]) : got[c][k] = c
    BY DEF Inv, Addressed, AllOf
<1> HIDE DEF Deliveries
<1> QED BY <1>1, <1>2 DEF ResponsesToOwner

LEMMA RaceFreeFromInv ==
    ASSUME Inv
    PROVE  MapsRaceFree
<1> USE DEF Inv
<1> SUFFICES ASSUME NEW t \in Threads, NEW r \in Threads, t # r,
                    NEW e \in Writes(t) \cap Accesses(r)
             PROVE  early # {} /\ e[1] = "unix" /\ At(r, "lookup")
    BY DEF MapsRaceFree
<1>1. /\ thread[t].pc \in {"associate", "erase"} /\ thread[t].src \in TcpFds
      /\ e = <<"tcp", thread[t].src>> \/ e = <<"unix", IF thread[t].pc = "associate"
                                                       THEN thread[t].dst
                                                       ELSE tcp_to_unix[thread[t].src]>>
    <2>1. /\ thread[t].pc \in {"associate", "erase"}
          /\ e = <<"tcp", thread[t].src>> \/ e = <<"unix", IF thread[t].pc = "associate"
                                                           THEN thread[t].dst
                                                           ELSE tcp_to_unix[thread[t].src]>>
        BY DEF Writes, At
    <2> QED BY <2>1 DEF Exclusive, Busy, Handling
<1>2. Busy(t) /\ (Busy(r) => thread[r].src # thread[t].src)
    BY <1>1 DEF Exclusive, Busy
<1>3. PICK u \in UnixFds :
          /\ e = <<"tcp", thread[t].src>> \/ e = <<"unix", u>>
          /\ IF thread[t].pc = "associate"
             THEN u = thread[t].dst /\ unix_to_tcp[u] = None
             ELSE u = tcp_to_unix[thread[t].src]
    <2>1. CASE thread[t].pc = "associate"
        BY <1>1, <2>1, HeldConnection DEF Holds
    <2>2. CASE thread[t].pc = "erase"
        BY <1>1, <2>2, ErasePaired
    <2> QED BY <1>1, <2>1, <2>2
<1>4. CASE At(r, "lookup")
    <2>1. thread[r].pc = "lookup" /\ thread[r].src \in Fds
          /\ e = <<IF thread[r].src \in TcpFds THEN "tcp" ELSE "unix", thread[r].src>>
        BY <1>4 DEF Accesses, At, Exclusive, Busy
    <2>2. e # <<"tcp", thread[t].src>>
        BY <1>2, <2>1 DEF Busy
    <2>3. e = <<"unix", u>> /\ thread[r].src = u
        BY <1>3, <2>1, <2>2
    <2>4. early # {}
        <3> SUFFICES ASSUME early = {} PROVE FALSE
            OBVIOUS
        <3>1. CASE thread[t].pc = "associate"
            BY <1>3, <2>1, <2>3, <3>1, UnpairedIsSilent
        <3>2. CASE thread[t].pc = "erase"
            <4>1. unix_to_tcp[u] = thread[t].src /\ unix_to_tcp[u] # None
                BY <1>1, <1>3, <3>2, NoneIsNothing DEF Pairing
            <4>2. peer[unix_to_tcp[u]] \in fin
                BY <3>2, <4>1 DEF Events
            <4> QED BY <2>1, <2>3, <4>1, <4>2, ClosedIsSilent
        <3> QED BY <1>1, <3>1, <3>2
    <2> QED BY <1>4, <2>3, <2>4
<1>5. CASE ~At(r, "lookup")
    <2>1. /\ thread[r].pc \in {"associate", "erase"}
          /\ e = <<"tcp", thread[r].src>> \/ e = <<"unix", IF thread[r].pc = "associate"
                                                           THEN thread[r].dst
                                                           ELSE tcp_to_unix[thread[r].src]>>
        BY <1>5 DEF Accesses, Writes, At
    <2>2. e # <<"tcp", thread[t].src>>
        BY <1>2, <2>1 DEF Busy
    <2>3. e = <<"unix", u>>
        BY <1>3, <2>2
    <2>4. IF thread[r].pc = "associate" THEN u = thread[r].dst
          ELSE u = tcp_to_unix[thread[r].src]
        BY <2>1, <2>3
    <2>5. CASE thread[r].pc = "associate" /\ thread[t].pc = "associate"
        BY <1>3, <2>4, <2>5 DEF Contents, Holds
    <2>6. thread[r].pc = "associate" => unix_to_tcp[u] = None
        BY <2>4, HeldConnection DEF Holds
    <2>7. ASSUME NEW q \in Threads, thread[q].pc = "erase", u = tcp_to_unix[thread[q].src]
          PROVE  unix_to_tcp[u] = thread[q].src /\ unix_to_tcp[u] # None
        BY <2>7, ErasePaired, NoneIsNothing DEF Pairing
    <2>8. CASE thread[r].pc = "erase" /\ thread[t].pc = "erase"
        BY <1>2, <1>3, <2>4, <2>7, <2>8 DEF Busy
    <2>9. CASE thread[r].pc = "erase" /\ thread[t].pc = "associate"
        BY <1>3, <2>4, <2>7, <2>9
    <2>10. CASE thread[r].pc = "associate" /\ thread[t].pc = "erase"
        BY <1>3, <2>6, <2>7, <2>10
    <2> QED BY <1>1, <2>1, <2>5, <2>8, <2>9, <2>10
<1> QED BY <1>4, <1>5


LEMMA ConservedFromInv ==
    ASSUME Inv
    PROVE  ConnectionsConserved
<1> USE DEF Inv
<1> SUFFICES ASSUME NEW s \in Sides
             PROVE  /\ Free(s) \cup InHand(s) \cup Paired(s) = {u \in UnixFds : SideOf[u] = s}
                    /\ Free(s) \cap InHand(s) = {}
                    /\ Free(s) \cap Paired(s) = {}
                    /\ InHand(s) \cap Paired(s) = {}
                    /\ Cardinality(Free(s)) = Cardinality(FreeSlots(s))
    BY DEF ConnectionsConserved
<1>1. PICK a \in Nat, b \in Nat :
          a = start_idx[s] /\ b = end_idx[s] /\ a <= b /\ b - a < kMaxConnections
    BY DEF TypeOK, Slots
<1>2. kMaxConnections \in Nat \ {0}
    BY RingAssumption
<1> DEFINE Slot_s == 0 .. kMaxConnections - 1
<1>3. \A n \in a .. b - 1 : n % kMaxConnections \in Slot_s
    <2> SUFFICES ASSUME NEW n \in a .. b - 1 PROVE n % kMaxConnections \in Slot_s
        OBVIOUS
    <2>1. n \in Nat
        BY <1>1
    <2> QED BY <1>2, <2>1, Division
<1>4. \A n \in FreeSlots(s) :
          /\ n \in a .. b - 1 /\ n % kMaxConnections \in Slot_s
          /\ InWindow(s, n % kMaxConnections) /\ Stored(s, n % kMaxConnections)
    BY <1>1, <1>3 DEF FreeSlots, InWindow, Stored
<1>5. \A k \in Slot_s : Stored(s, k) /\ InWindow(s, k) =>
          \E n \in FreeSlots(s) : n % kMaxConnections = k
    BY DEF FreeSlots, InWindow, Stored
(* The free connections are those of the stored slots in the window. *)
<1>6. \A u : u \in Free(s) <=>
          \E k \in Slot_s : Stored(s, k) /\ InWindow(s, k) /\ available[s][k] = u
    BY <1>4, <1>5 DEF Free
<1>7. \A u : u \in InHand(s) <=>
          \/ \E t \in Threads : Holds(t) /\ thread[t].side = s /\ thread[t].dst = u
          \/ \E k \in Slot_s : Stored(s, k) /\ Unread(s, k) /\ available[s][k] = u
    <2>1. \A t \in Threads : thread[t].idx \in Slot_s
        BY ThreadFields
    <2>2. \A k : Unread(s, k) <=>
              \E r \in Threads : thread[r].pc = "take" /\ thread[r].side = s /\ thread[r].idx = k
        BY DEF Unread, SlotAt
    <2>3. \A k : Stored(s, k) /\ Unread(s, k) <=> ~Unstored(s, k) /\ Unread(s, k)
        BY DEF Stored
    <2> HIDE DEF Unread, Unstored, Stored, Slot_s
    <2> QED BY <2>1, <2>2, <2>3 DEF InHand, Holds
<1>8. \A k \in Slot_s : /\ Stored(s, k) => InWindow(s, k) \/ Unread(s, k)
                        /\ ~(InWindow(s, k) /\ Unread(s, k))
    BY DEF Stored, Slots
<1>9. /\ \A k \in Slot_s : Stored(s, k) =>
             /\ available[s][k] \in UnixFds /\ SideOf[available[s][k]] = s
             /\ unix_to_tcp[available[s][k]] = None
      /\ \A j, k \in Slot_s :
             Stored(s, j) /\ Stored(s, k) /\ available[s][j] = available[s][k] => j = k
    BY DEF Contents, ConnectionsTo
<1>10. \A t \in Threads : Holds(t) /\ thread[t].side = s =>
           /\ thread[t].dst \in UnixFds /\ SideOf[thread[t].dst] = s
           /\ unix_to_tcp[thread[t].dst] = None
           /\ \A k \in Slot_s : Stored(s, k) => available[s][k] # thread[t].dst
    BY DEF Contents, ConnectionsTo
<1>11. \A u \in UnixFds : SideOf[u] = s =>
           \/ unix_to_tcp[u] # None
           \/ \E t \in Threads : Holds(t) /\ thread[t].dst = u
           \/ \E k \in Slot_s : Stored(s, k) /\ available[s][k] = u
    BY DEF Contents
<1>12. \A t \in Threads : Holds(t) => SideOf[thread[t].dst] = thread[t].side
    BY HeldConnection
<1> HIDE DEF Slot_s, Stored, InWindow, Unread, Holds
<1>13. Free(s) \cup InHand(s) \cup Paired(s) = {u \in UnixFds : SideOf[u] = s}
    <2>1. ASSUME NEW u \in UnixFds, SideOf[u] = s
          PROVE  u \in Free(s) \/ u \in InHand(s) \/ u \in Paired(s)
        BY <1>6, <1>7, <1>8, <1>11, <1>12, <2>1 DEF Paired
    <2>2. \A u \in Free(s) : u \in UnixFds /\ SideOf[u] = s
        BY <1>6, <1>9
    <2>3. \A u \in InHand(s) : u \in UnixFds /\ SideOf[u] = s
        BY <1>7, <1>9, <1>10
    <2>4. \A u \in Paired(s) : u \in UnixFds /\ SideOf[u] = s
        BY DEF Paired
    <2> HIDE DEF Free, InHand, Paired
    <2> QED BY <2>1, <2>2, <2>3, <2>4
<1>14. Free(s) \cap InHand(s) = {}
    <2> SUFFICES ASSUME NEW u \in Free(s), u \in InHand(s) PROVE FALSE
        OBVIOUS
    <2>1. PICK k \in Slot_s : Stored(s, k) /\ InWindow(s, k) /\ available[s][k] = u
        BY <1>6
    <2>2. CASE \E t \in Threads : Holds(t) /\ thread[t].side = s /\ thread[t].dst = u
        BY <1>10, <2>1, <2>2
    <2>3. CASE \E j \in Slot_s : Stored(s, j) /\ Unread(s, j) /\ available[s][j] = u
        BY <1>8, <1>9, <2>1, <2>3
    <2> QED BY <1>7, <2>2, <2>3
<1>15. Free(s) \cap Paired(s) = {}
    <2>1. \A u \in Free(s) : unix_to_tcp[u] = None
        BY <1>6, <1>9
    <2> QED BY <2>1 DEF Paired
<1>16. InHand(s) \cap Paired(s) = {}
    <2>1. \A u \in InHand(s) : unix_to_tcp[u] = None
        BY <1>7, <1>9, <1>10
    <2> QED BY <2>1 DEF Paired
<1>17. Cardinality(Free(s)) = Cardinality(FreeSlots(s))
    <2> DEFINE F == FreeSlots(s)
               g == [n \in F |-> available[s][n % kMaxConnections]]
    <2>1. Free(s) = {available[s][n % kMaxConnections] : n \in F}
        BY DEF Free
    <2>2. \A m, n \in F : available[s][m % kMaxConnections] = available[s][n % kMaxConnections] => m = n
        <3> SUFFICES ASSUME NEW m \in F, NEW n \in F,
                            available[s][m % kMaxConnections] = available[s][n % kMaxConnections]
                     PROVE  m = n
            OBVIOUS
        <3>1. m \in a .. b - 1 /\ n \in a .. b - 1
            BY <1>4
        <3>2. m % kMaxConnections = n % kMaxConnections
            BY <1>4, <1>9
        <3>3. m \in Nat /\ n \in Nat
            BY <1>1, <3>1
        <3>4. m < n => n - m < kMaxConnections
            BY <1>1, <1>2, <3>1
        <3>5. n < m => m - n < kMaxConnections
            BY <1>1, <1>2, <3>1
        <3>6. ~(m < n)
            BY <1>2, <3>2, <3>3, <3>4, Residues
        <3>7. ~(n < m)
            BY <1>2, <3>2, <3>3, <3>5, Residues
        <3> QED BY <3>3, <3>6, <3>7
    <2>3. IsFiniteSet(F)
        <3>1. a \in Int /\ b - 1 \in Int
            BY <1>1
        <3>2. IsFiniteSet(a .. b - 1)
            BY <3>1, FS_Interval
        <3>3. F \in SUBSET (a .. b - 1)
            BY <1>4
        <3> QED BY <3>2, <3>3, FS_Subset
    <2> HIDE DEF F
    <2>4. g \in [F -> Free(s)] /\ (\A u \in Free(s) : \E n \in F : g[n] = u)
          /\ (\A m, n \in F : g[m] = g[n] => m = n)
        BY <2>1, <2>2
    <2> HIDE DEF g
    <2>5. g \in Bijection(F, Free(s))
        BY <2>4 DEF Bijection, Injection, Surjection, IsInjective
    <2>6. ExistsBijection(F, Free(s))
        BY <2>5 DEF ExistsBijection
    <2>7. Cardinality(Free(s)) = Cardinality(F)
        BY <2>3, <2>6, FS_Bijection
    <2> QED BY <2>7 DEF F
<1> QED BY <1>13, <1>14, <1>15, <1>16, <1>17

-----------------------------------------------------------------------------
(* The theorems.                                                           *)

(* If threads are prompt, every reachable state satisfies the invariant.   *)
LEMMA Invariance ==
    ASSUME Prompt
    PROVE  Spec => []Inv
<1>1. Inv /\ [Next]_vars => Inv'
    BY StepInv
<1> QED BY <1>1, InitInv, PTL DEF Spec

(***************************************************************************)
(* Whatever the number of threads, clients and connections: as long as     *)
(* every client waits for its responses, HandleMessage and the maps bring  *)
(* each response to the client whose request it answers, although both     *)
(* kinds of descriptor are used again; and no response is ever delivered   *)
(* twice.                                                                  *)
(***************************************************************************)
THEOREM ResponsesReachTheirOwners ==
    ASSUME Prompt
    PROVE  Spec => []ResponsesToOwner
<1>1. Spec => []Inv
    BY Invariance
<1>2. Inv => ResponsesToOwner
    BY OwnerFromInv
<1> QED BY <1>1, <1>2, PTL

(***************************************************************************)
(* No CHECK of the router fails, neither that a UNIX connection was free   *)
(* nor that a descriptor was paired nor that nothing came with an end of   *)
(* file, unless a client closed its connection before its response.        *)
(***************************************************************************)
THEOREM TheRouterNeverAborts ==
    ASSUME Prompt
    PROVE  Spec => []NeverAborts
<1>1. Spec => []Inv
    BY Invariance
<1>2. Inv => NeverAborts
    BY AddressedParts DEF NeverAborts
<1> QED BY <1>1, <1>2, PTL

(***************************************************************************)
(* The two rings, whose indices and slots are separate atomics, lose and   *)
(* duplicate no UNIX connection: each is free, paired or in the hands of   *)
(* one thread, and on its own side.                                        *)
(***************************************************************************)
THEOREM NoConnectionIsLost ==
    ASSUME Prompt
    PROVE  Spec => []ConnectionsConserved
<1>1. Spec => []Inv
    BY Invariance
<1>2. Inv => ConnectionsConserved
    BY ConservedFromInv
<1> QED BY <1>1, <1>2, PTL

(***************************************************************************)
(* No thread is about to write an element of tcp_to_unix or unix_to_tcp    *)
(* that another is about to read or write, but for the look-up of a        *)
(* response whose client closed early.                                     *)
(***************************************************************************)
THEOREM TheMapsAreRaceFree ==
    ASSUME Prompt
    PROVE  Spec => []MapsRaceFree
<1>1. Spec => []Inv
    BY Invariance
<1>2. Inv => MapsRaceFree
    BY RaceFreeFromInv
<1> QED BY <1>1, <1>2, PTL
=============================================================================
