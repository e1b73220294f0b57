------------------------- MODULE IoThreadPool_proofs -------------------------
(***************************************************************************)
(* Proofs about the I/O threads of an API process, for any number of       *)
(* threads, connections, descriptors and requests and any size of a batch: *)
(* events never outlive the connection they are about, and what a client   *)
(* reads are the responses to its own requests, in their order.            *)
(***************************************************************************)
EXTENDS IoThreadPool, FiniteSetTheorems, NaturalsInduction,
        WellFoundedInduction, SequenceTheorems, TLAPS

(***************************************************************************)
(* A read buffer has room for more than a request, 1024 bytes in the code, *)
(* and a socket buffer for a whole response, of three parts at most (140   *)
(* bytes).  Without the first a request is taken for the end of the        *)
(* connection, without the second the rest of a response is dropped.       *)
(***************************************************************************)
Roomy == RequestSize < kBufferWrittableSize /\ 3 <= SocketRoom

-----------------------------------------------------------------------------
(* Types.                                                                  *)

Event == [fd : Fds \cup {server_fd}, hup : BOOLEAN, conn : Clients \cup {None}]

Unit == [client : Clients, n : Nat, kind : Kinds]

Part == [client : Clients \cup {None}, n : Nat,
         part : {"head", "head+body", "body", "nul"}]

Pcs == {"wait", "event", "accept", "add", "read", "process", "write", "finish", "aborted"}

Thread ==
    [pc : Pcs, events : Seq(Event), infd : Fds \cup {None}, buffer : Seq(Unit),
     done : BOOLEAN, response : Seq(Part)]

TypeOK ==
    /\ thread \in [Threads -> Thread]
    /\ ready \in Seq(Fds \cup {server_fd})
    /\ watched \subseteq Fds
    /\ desc \in [Fds -> Clients \cup {None}]
    /\ backlog \in Seq(Clients)
    /\ client \in [Clients -> {"new", "idle", "waiting", "closed"}]
    /\ asked \in [Clients -> Nat]
    /\ inbox \in [Clients -> Seq(Unit)]
    /\ outbox \in [Clients -> Seq(Part)]
    /\ got \in [Clients -> Seq(Part)]

-----------------------------------------------------------------------------
(* The inductive invariant.                                                *)

Serves == {"read", "process", "write"}

(* What the locals of a thread look like at each of its control points. *)
Locals(r) ==
    /\ r.pc # "aborted"
    /\ r.done = FALSE
    /\ r.pc = "wait" <=> r.events = <<>>
    /\ r.pc \in {"accept", "add"} => r.events[1].fd = server_fd
    /\ r.pc \in Serves \cup {"finish"} => r.events[1].fd # server_fd
    /\ r.pc \in Serves => ~r.events[1].hup
    /\ \A i \in 1 .. Len(r.events) : r.events[i].fd = server_fd => ~r.events[i].hup
    /\ \A i, j \in 1 .. Len(r.events) : r.events[i].fd = r.events[j].fd => i = j

(* The events on connections that a thread is not through with. *)
LiveEvents(r) ==
    {e \in {r.events[i] : i \in (IF r.pc = "finish" THEN 2 ELSE 1) .. Len(r.events)} :
        e.fd # server_fd}

(* The client waits, and nothing was written to it yet. *)
Owed(c) ==
    /\ client[c] = "waiting"
    /\ outbox[c] = <<>>
    /\ Complete(got[c]) = asked[c] - 1

(* The response to its last request is written, read or not. *)
Paid(c) == Complete(got[c] \o outbox[c]) = asked[c] /\ inbox[c] = <<>>

ClientState(c) ==
    /\ asked[c] <= Len(Requests[c])
    /\ Owed(c) \/ Paid(c)
    /\ client[c] # "waiting" => outbox[c] = <<>>

Listed(f) == \E i \in 1 .. Len(ready) : ready[i] = f

(* Something is to be done about the connection: it was closed, or a       *)
(* request came that nobody has answered.                                  *)
Pending(c) == client[c] = "closed" \/ Owed(c)

(* The ready list has each watched descriptor at most once, and only one   *)
(* with something to do.                                                   *)
ReadyList ==
    /\ \A i, j \in 1 .. Len(ready) : ready[i] = ready[j] => i = j
    /\ \A i \in 1 .. Len(ready) :
           ready[i] # server_fd => ready[i] \in watched /\ Pending(desc[ready[i]])

(* An event that a thread still has to deal with is about the connection   *)
(* its descriptor designates, which nothing else draws attention to.       *)
EventState(e) ==
    /\ e.fd \in watched
    /\ e.conn \in Clients
    /\ desc[e.fd] = e.conn
    /\ e.hup => client[e.conn] = "closed"
    /\ ~e.hup => Owed(e.conn)
    /\ ~Listed(e.fd)

Apart ==
    \A t, u \in Threads : t # u =>
        \A e \in LiveEvents(thread[t]), g \in LiveEvents(thread[u]) : e.fd # g.fd

(* Every connection has one place. *)
Places ==
    /\ \A f \in watched : desc[f] # None
    /\ \A f, g \in Fds : desc[f] = desc[g] /\ desc[f] # None => f = g
    /\ \A i, j \in 1 .. Len(backlog) : backlog[i] = backlog[j] => i = j
    /\ \A i \in 1 .. Len(backlog) : client[backlog[i]] # "new"
    /\ \A f \in Fds : desc[f] # None =>
           /\ client[desc[f]] # "new"
           /\ \A i \in 1 .. Len(backlog) : backlog[i] # desc[f]

(* A descriptor between accept() and epoll_ctl() belongs to one thread. *)
Adding ==
    /\ \A t \in Threads : thread[t].pc = "add" =>
           /\ thread[t].infd \in Fds \ watched
           /\ desc[thread[t].infd] # None
    /\ \A t, u \in Threads :
           thread[t].pc = "add" /\ thread[u].pc = "add" /\ thread[t].infd = thread[u].infd
               => t = u

Request(c) ==
    [i \in 1 .. RequestSize |->
        [client |-> c, n |-> asked[c], kind |-> Requests[c][asked[c]]]]

Ends == {"head", "body"}

(* A response to the last request of c, with one end. *)
ResponseTo(c, s) ==
    /\ Len(s) \in 1 .. 3
    /\ \A j \in 1 .. Len(s) : s[j].client = c /\ s[j].n = asked[c]
    /\ \E m \in 1 .. Len(s) : \A j \in 1 .. Len(s) : s[j].part \in Ends <=> j = m

(* How far a thread has come with the request of the client it serves. *)
Stage(r, c) ==
    CASE r.pc = "read" -> r.buffer \o inbox[c] = Request(c)
      [] r.pc = "process" -> r.buffer = Request(c) /\ inbox[c] = <<>>
      [] r.pc = "write" -> ResponseTo(c, r.response) /\ inbox[c] = <<>>

Serving(t, c) == thread[t].pc \in Serves /\ thread[t].events[1].conn = c

Stages ==
    /\ \A t \in Threads, c \in Clients : Serving(t, c) => Stage(thread[t], c)
    /\ \A c \in Clients : Owed(c) /\ (\A t \in Threads : ~Serving(t, c))
           => inbox[c] = Request(c)

Inv ==
    /\ TypeOK
    /\ \A t \in Threads : Locals(thread[t])
    /\ \A t \in Threads : \A e \in LiveEvents(thread[t]) : EventState(e)
    /\ \A c \in Clients : ClientState(c)
    /\ ReadyList
    /\ Apart
    /\ Places
    /\ Adding
    /\ Stages
    /\ OwnResponsesInOrder

-----------------------------------------------------------------------------
(* The ends of responses in a stream.                                      *)

EndsOf(s) == {i \in 1 .. Len(s) : s[i].part \in Ends}

(* Complete counts the ends. *)
LEMMA CompleteCounts ==
  ASSUME NEW s \in Seq(Part)
  PROVE  /\ Complete(s) = Cardinality(EndsOf(s))
         /\ IsFiniteSet(EndsOf(s))
         /\ Complete(s) \in Nat
  <1>1. Complete(s) = Cardinality(EndsOf(s))
    BY DEF Complete, EndsOf, Ends
  <1>2. Len(s) \in Nat
    BY LenProperties
  <1>3. IsFiniteSet(1 .. Len(s))
    BY <1>2, FS_Interval
  <1>4. EndsOf(s) \subseteq 1 .. Len(s)
    BY DEF EndsOf
  <1>5. IsFiniteSet(EndsOf(s))
    BY <1>3, <1>4, FS_Subset
  <1> QED
    BY <1>1, <1>5, FS_CardinalityType

(* An empty stream has none. *)
LEMMA CompleteNone == Complete(<<>>) = 0
  <1>1. {i \in 1 .. Len(<<>>) : <<>>[i].part \in {"head", "body"}} = {}
    OBVIOUS
  <1> QED
    BY <1>1, FS_EmptySet DEF Complete

(* Joining two streams. *)
LEMMA JoinProperties ==
  ASSUME NEW s \in Seq(Part), NEW r \in Seq(Part)
  PROVE  /\ s \o r \in Seq(Part)
         /\ Len(s) \in Nat /\ Len(r) \in Nat
         /\ Len(s \o r) = Len(s) + Len(r)
         /\ \A i \in 1 .. Len(s) : (s \o r)[i] = s[i]
         /\ \A j \in 1 .. Len(r) : (s \o r)[Len(s) + j] = r[j]
         /\ \A i \in 1 .. Len(s) + Len(r) :
                i \in 1 .. Len(s) \/ \E j \in 1 .. Len(r) : i = Len(s) + j
  <1>1. /\ s \o r \in Seq(Part)
        /\ Len(s) \in Nat /\ Len(r) \in Nat
        /\ Len(s \o r) = Len(s) + Len(r)
        /\ \A i \in 1 .. Len(s) + Len(r) :
               (s \o r)[i] = IF i <= Len(s) THEN s[i] ELSE r[i - Len(s)]
    BY ConcatProperties, LenProperties, Zenon
  <1>2. ASSUME NEW i \in 1 .. Len(s) + Len(r)
        PROVE  i \in 1 .. Len(s) \/ \E j \in 1 .. Len(r) : i = Len(s) + j
    <2>1. CASE i <= Len(s)
      BY <1>1, <2>1
    <2>2. CASE i > Len(s)
      <3>1. i - Len(s) \in 1 .. Len(r) /\ i = Len(s) + (i - Len(s))
        BY <1>1, <2>2
      <3> QED
        BY <3>1
    <2> QED
      BY <1>1, <2>1, <2>2
  <1> QED
    BY <1>1, <1>2

(* A prefix of a stream. *)
LEMMA PrefixProperties ==
  ASSUME NEW s \in Seq(Part), NEW i \in 0 .. Len(s)
  PROVE  /\ SubSeq(s, 1, i) \in Seq(Part)
         /\ Len(SubSeq(s, 1, i)) = i
         /\ \A j \in 1 .. i : SubSeq(s, 1, i)[j] = s[j]
  BY SubSeqProperties

(* The ends among the first of s \o r, when all of r but part m is silent. *)
LEMMA EndsOfJoin ==
  ASSUME NEW s \in Seq(Part), NEW r \in Seq(Part), NEW m \in 1 .. Len(r),
         \A j \in 1 .. Len(r) : r[j].part \in Ends <=> j = m,
         NEW i \in 0 .. Len(s \o r)
  PROVE  /\ i <= Len(s) => Complete(SubSeq(s \o r, 1, i)) = Complete(SubSeq(s, 1, i))
         /\ Len(s) + m <= i => Complete(SubSeq(s \o r, 1, i)) = Complete(s) + 1
  <1>1. /\ s \o r \in Seq(Part)
        /\ Len(s) \in Nat /\ Len(r) \in Nat
        /\ Len(s \o r) = Len(s) + Len(r)
        /\ \A k \in 1 .. Len(s) : (s \o r)[k] = s[k]
        /\ \A j \in 1 .. Len(r) : (s \o r)[Len(s) + j] = r[j]
        /\ \A k \in 1 .. Len(s) + Len(r) :
               k \in 1 .. Len(s) \/ \E j \in 1 .. Len(r) : k = Len(s) + j
    BY JoinProperties
  <1> DEFINE p == SubSeq(s \o r, 1, i)
  <1>2. p \in Seq(Part) /\ Len(p) = i /\ \A k \in 1 .. i : p[k] = (s \o r)[k]
    BY <1>1, PrefixProperties
  <1> HIDE DEF p
  <1>3. CASE i <= Len(s)
    <2> DEFINE q == SubSeq(s, 1, i)
    <2>1. q \in Seq(Part) /\ Len(q) = i /\ \A k \in 1 .. i : q[k] = s[k]
      BY <1>1, <1>3, PrefixProperties
    <2> HIDE DEF q
    <2>2. \A k \in 1 .. i : p[k] = q[k]
      BY <1>1, <1>2, <1>3, <2>1
    <2>3. EndsOf(p) = EndsOf(q)
      BY <1>2, <2>1, <2>2 DEF EndsOf
    <2>4. Complete(p) = Complete(q)
      BY <1>2, <2>1, <2>3, CompleteCounts
    <2>5. ~(Len(s) + m <= i)
      BY <1>1, <1>3
    <2> QED
      BY <2>4, <2>5 DEF p, q
  <1>4. CASE Len(s) + m <= i
    <2>1. Len(s) + m \in 1 .. i /\ Len(s) + m \notin EndsOf(s)
      BY <1>1, <1>4 DEF EndsOf
    <2>2. EndsOf(p) = EndsOf(s) \cup {Len(s) + m}
      <3>1. ASSUME NEW k \in EndsOf(p) PROVE k \in EndsOf(s) \cup {Len(s) + m}
        <4>1. k \in 1 .. i /\ k \in 1 .. Len(s) + Len(r) /\ (s \o r)[k].part \in Ends
          <5>1. k \in 1 .. i /\ p[k].part \in Ends
            BY <1>2, <3>1 DEF EndsOf
          <5>2. k \in 1 .. Len(s) + Len(r)
            BY <1>1, <5>1
          <5>3. p[k] = (s \o r)[k]
            BY <1>2, <5>1
          <5> QED
            BY <5>1, <5>2, <5>3
        <4>2. CASE k \in 1 .. Len(s)
          BY <1>1, <4>1, <4>2 DEF EndsOf
        <4>3. ASSUME NEW j \in 1 .. Len(r), k = Len(s) + j PROVE k = Len(s) + m
          BY <1>1, <4>1, <4>3
        <4> QED
          BY <1>1, <4>1, <4>2, <4>3
      <3>2. ASSUME NEW k \in EndsOf(s) PROVE k \in EndsOf(p)
        <4>1. k \in 1 .. Len(s) /\ s[k].part \in Ends
          BY <3>2 DEF EndsOf
        <4>2. k \in 1 .. i
          BY <1>1, <1>4, <4>1
        <4> QED
          BY <1>1, <1>2, <4>1, <4>2 DEF EndsOf
      <3>3. Len(s) + m \in EndsOf(p)
        <4>1. (s \o r)[Len(s) + m] = r[m] /\ r[m].part \in Ends
          BY <1>1
        <4> QED
          BY <1>2, <2>1, <4>1 DEF EndsOf
      <3> QED
        BY <3>1, <3>2, <3>3
    <2>3. IsFiniteSet(EndsOf(s))
      BY CompleteCounts
    <2>4. Cardinality(EndsOf(s) \cup {Len(s) + m}) = Cardinality(EndsOf(s)) + 1
      BY <2>1, <2>3, FS_AddElement
    <2>5. Complete(p) = Complete(s) + 1
      BY <1>2, <2>2, <2>4, CompleteCounts
    <2>6. ~(i <= Len(s))
      BY <1>1, <1>4
    <2> QED
      BY <2>5, <2>6 DEF p
  <1> QED
    BY <1>3, <1>4 DEF p

(* Two joined streams complete one response more than the first. *)
LEMMA CompleteJoin ==
  ASSUME NEW s \in Seq(Part), NEW r \in Seq(Part), NEW m \in 1 .. Len(r),
         \A j \in 1 .. Len(r) : r[j].part \in Ends <=> j = m
  PROVE  Complete(s \o r) = Complete(s) + 1
  <1>1. /\ s \o r \in Seq(Part) /\ Len(s \o r) = Len(s) + Len(r)
        /\ Len(s) \in Nat /\ Len(r) \in Nat
    BY JoinProperties
  <1>2. Len(s \o r) \in 0 .. Len(s \o r) /\ Len(s) + m <= Len(s \o r)
    BY <1>1
  <1>3. Complete(SubSeq(s \o r, 1, Len(s \o r))) = Complete(s) + 1
    BY <1>2, EndsOfJoin
  <1> DEFINE q == s \o r
             p == SubSeq(q, 1, Len(q))
  <1>4. p = q
    <2>1. p \in Seq(Part) /\ Len(p) = Len(q) /\ \A k \in 1 .. Len(q) : p[k] = q[k]
      BY <1>1, <1>2, PrefixProperties
    <2>2. q \in Seq(Part)
      BY <1>1
    <2> HIDE DEF p, q
    <2> QED
      BY <2>1, <2>2, SeqEqual
  <1> QED
    BY <1>3, <1>4

-----------------------------------------------------------------------------
(* Threads and their events.                                               *)

(* The fields of a thread. *)
LEMMA ThreadFields ==
  ASSUME NEW r \in Thread
  PROVE  /\ r.pc \in Pcs /\ r.events \in Seq(Event) /\ r.infd \in Fds \cup {None}
         /\ r.buffer \in Seq(Unit) /\ r.done \in BOOLEAN /\ r.response \in Seq(Part)
         /\ Len(r.events) \in Nat
         /\ \A i \in 1 .. Len(r.events) : r.events[i] \in Event
  <1>1. /\ r.pc \in Pcs /\ r.events \in Seq(Event) /\ r.infd \in Fds \cup {None}
        /\ r.buffer \in Seq(Unit) /\ r.done \in BOOLEAN /\ r.response \in Seq(Part)
    BY DEF Thread
  <1> QED
    BY <1>1, ElementOfSeq, LenProperties

(* The rest of a batch. *)
LEMMA TailOfBatch ==
  ASSUME NEW s \in Seq(Event), s # <<>>
  PROVE  /\ Tail(s) \in Seq(Event)
         /\ Len(s) \in Nat \ {0}
         /\ Len(Tail(s)) = Len(s) - 1
         /\ \A i \in 1 .. Len(s) - 1 : Tail(s)[i] = s[i + 1]
         /\ Head(s) = s[1]
         /\ s[1] \in Event
         /\ Tail(s) = <<>> <=> Len(s) = 1
  <1>1. Len(s) \in Nat \ {0}
    BY EmptySeq, LenProperties
  <1>2. /\ Tail(s) \in Seq(Event) /\ Len(Tail(s)) = Len(s) - 1
        /\ \A i \in 1 .. Len(s) - 1 : Tail(s)[i] = s[i + 1]
    BY <1>1, HeadTailProperties
  <1>3. Head(s) = s[1] /\ s[1] \in Event
    BY <1>1, ElementOfSeq
  <1>4. Tail(s) = <<>> <=> Len(s) = 1
    BY <1>1, <1>2, EmptySeq
  <1> QED
    BY <1>1, <1>2, <1>3, <1>4

(* The event that a thread is dealing with is one of its live ones. *)
LEMMA CurrentIsLive ==
  ASSUME NEW r \in Thread, Locals(r), r.pc # "wait", r.pc # "finish",
         r.events[1].fd # server_fd
  PROVE  r.events[1] \in LiveEvents(r) /\ r.events # <<>>
         /\ Head(r.events) = r.events[1] /\ r.events[1] \in Event
  <1>1. r.events \in Seq(Event) /\ r.events # <<>>
    BY ThreadFields DEF Locals
  <1>2. Len(r.events) \in Nat \ {0} /\ Head(r.events) = r.events[1] /\ r.events[1] \in Event
    BY <1>1, TailOfBatch
  <1>3. 1 \in 1 .. Len(r.events)
    BY <1>2
  <1> QED
    BY <1>1, <1>2, <1>3 DEF LiveEvents

(* A live event is an event of the batch. *)
LEMMA LiveIsEvent ==
  ASSUME NEW r \in Thread, NEW e \in LiveEvents(r)
  PROVE  /\ e \in Event /\ e.fd # server_fd /\ e.fd \in Fds
         /\ e.hup \in BOOLEAN /\ e.conn \in Clients \cup {None}
         /\ \E i \in 1 .. Len(r.events) : e = r.events[i]
  <1>1. PICK i \in (IF r.pc = "finish" THEN 2 ELSE 1) .. Len(r.events) : e = r.events[i]
    BY DEF LiveEvents
  <1>2. Len(r.events) \in Nat /\ i \in 1 .. Len(r.events)
    BY <1>1, ThreadFields
  <1>3. e \in Event /\ e.fd # server_fd
    BY <1>1, <1>2, ThreadFields DEF LiveEvents
  <1> QED
    BY <1>1, <1>2, <1>3 DEF Event

(* Moving on within an event. *)
LEMMA LiveSame ==
  ASSUME NEW r, NEW q, q.events = r.events, r.pc # "finish", q.pc # "finish"
  PROVE  LiveEvents(q) = LiveEvents(r)
  BY DEF LiveEvents

(* A thread that is through with an event keeps the others, and the        *)
(* descriptor of the one that is over is not among them.                   *)
LEMMA LiveFinish ==
  ASSUME NEW r \in Thread, NEW q, Locals(r), q.events = r.events,
         r.pc # "finish", q.pc = "finish"
  PROVE  /\ LiveEvents(q) \subseteq LiveEvents(r)
         /\ \A e \in LiveEvents(q) : e.fd # r.events[1].fd
  <1>1. Len(r.events) \in Nat
    BY ThreadFields
  <1> SUFFICES ASSUME NEW e \in LiveEvents(q)
               PROVE  e \in LiveEvents(r) /\ e.fd # r.events[1].fd
    OBVIOUS
  <1>2. PICK i \in 2 .. Len(r.events) : e = r.events[i] /\ e.fd # server_fd
    BY DEF LiveEvents
  <1>3. i \in 1 .. Len(r.events) /\ 1 \in 1 .. Len(r.events) /\ i # 1
    BY <1>1, <1>2
  <1>4. r.events[i].fd # r.events[1].fd
    BY <1>3 DEF Locals
  <1> QED
    BY <1>2, <1>3, <1>4 DEF LiveEvents

(* The next event of the batch: the same. *)
LEMMA LiveNext ==
  ASSUME NEW r \in Thread, NEW q, Locals(r), r.pc # "wait",
         q.events = Tail(r.events), q.pc # "finish"
  PROVE  /\ LiveEvents(q) \subseteq LiveEvents(r)
         /\ \A e \in LiveEvents(q) : e.fd # r.events[1].fd
  <1>1. r.events \in Seq(Event) /\ r.events # <<>>
    BY ThreadFields DEF Locals
  <1>2. /\ Len(r.events) \in Nat \ {0} /\ Len(Tail(r.events)) = Len(r.events) - 1
        /\ \A i \in 1 .. Len(r.events) - 1 : Tail(r.events)[i] = r.events[i + 1]
    BY <1>1, TailOfBatch
  <1> SUFFICES ASSUME NEW e \in LiveEvents(q)
               PROVE  e \in LiveEvents(r) /\ e.fd # r.events[1].fd
    OBVIOUS
  <1>3. PICK j \in 1 .. Len(r.events) - 1 : e = Tail(r.events)[j] /\ e.fd # server_fd
    BY <1>2 DEF LiveEvents
  <1>4. /\ j + 1 \in 2 .. Len(r.events) /\ j + 1 \in 1 .. Len(r.events)
        /\ 1 \in 1 .. Len(r.events) /\ j + 1 # 1
    BY <1>2, <1>3
  <1>5. e = r.events[j + 1]
    BY <1>2, <1>3
  <1>6. r.events[j + 1].fd # r.events[1].fd
    BY <1>4 DEF Locals
  <1>7. j + 1 \in (IF r.pc = "finish" THEN 2 ELSE 1) .. Len(r.events)
    BY <1>4
  <1> QED
    BY <1>3, <1>5, <1>6, <1>7 DEF LiveEvents

(* A thread that has just got its events. *)
WithBatch(p, s) == [Idle EXCEPT !.pc = p, !.events = s]

LEMMA IdleWith ==
  ASSUME NEW p \in Pcs, NEW s \in Seq(Event)
  PROVE  /\ WithBatch(p, s) \in Thread /\ WithBatch(p, s).pc = p
         /\ WithBatch(p, s).events = s /\ WithBatch(p, s).done = FALSE
  <1> DEFINE q == WithBatch(p, s)
  <1>1. Idle \in Thread /\ Idle.done = FALSE
    <2>1. <<>> \in Seq(Unit) /\ <<>> \in Seq(Part) /\ <<>> \in Seq(Event)
          /\ FALSE \in BOOLEAN /\ None \in Fds \cup {None} /\ "wait" \in Pcs
      BY DEF Pcs
    <2> QED
      BY <2>1, Zenon DEF Idle, Thread
  <1>2. q \in Thread /\ q.pc = p /\ q.events = s /\ q.done = Idle.done
    BY <1>1 DEF Thread, WithBatch
  <1> QED
    BY <1>1, <1>2, Zenon

(* NextEvent gives a thread with sound locals. *)
LEMMA NextEventLocals ==
  ASSUME NEW t \in Threads, thread[t] \in Thread, Locals(thread[t]), thread[t].pc # "wait"
  PROVE  /\ NextEvent(t) \in Thread
         /\ Locals(NextEvent(t))
         /\ NextEvent(t).events = Tail(thread[t].events)
         /\ NextEvent(t).pc \in {"wait", "event"}
  <1> DEFINE s == thread[t].events
             q == NextEvent(t)
  <1>1. s \in Seq(Event) /\ s # <<>>
    BY ThreadFields DEF Locals
  <1>2. /\ Len(s) \in Nat \ {0} /\ Len(Tail(s)) = Len(s) - 1
        /\ \A i \in 1 .. Len(s) - 1 : Tail(s)[i] = s[i + 1]
        /\ Tail(s) \in Seq(Event)
    BY <1>1, TailOfBatch
  <1>3. PICK p : p = IF Tail(s) = <<>> THEN "wait" ELSE "event"
    OBVIOUS
  <1>4. p \in Pcs /\ p \in {"wait", "event"} /\ (p = "wait" <=> Tail(s) = <<>>)
    BY <1>3 DEF Pcs
  <1>5. q = WithBatch(p, Tail(s))
    BY <1>3 DEF NextEvent, WithBatch
  <1>6. /\ q \in Thread
        /\ q.events = Tail(s) /\ q.done = FALSE /\ q.pc \in {"wait", "event"}
        /\ q.pc = "wait" <=> Tail(s) = <<>>
    <2> HIDE DEF q, s
    <2>1. q \in Thread /\ q.pc = p /\ q.events = Tail(s) /\ q.done = FALSE
      BY <1>2, <1>4, <1>5, IdleWith, Zenon
    <2> QED
      BY <1>4, <2>1, Zenon
  <1>7. /\ \A i \in 1 .. Len(s) : s[i].fd = server_fd => ~s[i].hup
        /\ \A i, j \in 1 .. Len(s) : s[i].fd = s[j].fd => i = j
    BY DEF Locals
  <1> HIDE DEF q, s
  <1>8. \A i \in 1 .. Len(Tail(s)) : Tail(s)[i].fd = server_fd => ~Tail(s)[i].hup
    <2> TAKE i \in 1 .. Len(Tail(s))
    <2>1. i + 1 \in 1 .. Len(s) /\ Tail(s)[i] = s[i + 1]
      BY <1>2
    <2> QED
      BY <1>7, <2>1
  <1>9. \A i, j \in 1 .. Len(Tail(s)) : Tail(s)[i].fd = Tail(s)[j].fd => i = j
    <2> TAKE i, j \in 1 .. Len(Tail(s))
    <2>1. i + 1 \in 1 .. Len(s) /\ j + 1 \in 1 .. Len(s)
          /\ Tail(s)[i] = s[i + 1] /\ Tail(s)[j] = s[j + 1]
      BY <1>2
    <2>2. s[i + 1].fd = s[j + 1].fd => i + 1 = j + 1
      BY <1>7, <2>1
    <2> QED
      BY <2>1, <2>2, <1>2
  <1>10. Locals(q)
    BY <1>6, <1>8, <1>9 DEF Locals, Serves
  <1> QED
    BY <1>6, <1>10 DEF q, s

-----------------------------------------------------------------------------
(* What a step leaves alone.                                               *)

(* The fields of one client are as before. *)
SameClient(c) ==
    /\ client'[c] = client[c] /\ asked'[c] = asked[c] /\ inbox'[c] = inbox[c]
    /\ outbox'[c] = outbox[c] /\ got'[c] = got[c]

LEMMA ClientFrame ==
  ASSUME NEW c \in Clients, SameClient(c)
  PROVE  /\ Owed(c)' <=> Owed(c)
         /\ Paid(c)' <=> Paid(c)
         /\ Pending(c)' <=> Pending(c)
         /\ ClientState(c) => ClientState(c)'
         /\ Request(c)' = Request(c)
         /\ \A s : ResponseTo(c, s)' <=> ResponseTo(c, s)
         /\ \A r : Stage(r, c) => Stage(r, c)'
  <1>1. Owed(c)' <=> Owed(c)
    BY DEF SameClient, Owed, Complete
  <1>2. Paid(c)' <=> Paid(c)
    BY DEF SameClient, Paid, Complete
  <1>3. Pending(c)' <=> Pending(c)
    BY <1>1 DEF SameClient, Pending
  <1>4. ClientState(c) => ClientState(c)'
    BY <1>1, <1>2 DEF SameClient, ClientState
  <1>5. Request(c)' = Request(c)
    BY DEF SameClient, Request
  <1>6. \A s : ResponseTo(c, s)' <=> ResponseTo(c, s)
    BY DEF SameClient, ResponseTo
  <1>7. \A r : Stage(r, c) => Stage(r, c)'
    BY <1>5, <1>6 DEF SameClient, Stage
  <1> QED
    BY <1>1, <1>2, <1>3, <1>4, <1>5, <1>6, <1>7

(* An event that is not touched stays sound. *)
LEMMA EventFrame ==
  ASSUME NEW e, EventState(e), SameClient(e.conn),
         e.fd \in watched', desc'[e.fd] = desc[e.fd], ~Listed(e.fd)'
  PROVE  EventState(e)'
  <1>1. Owed(e.conn)' <=> Owed(e.conn)
    BY ClientFrame DEF EventState
  <1> QED
    BY <1>1 DEF EventState, SameClient

(* What OwnResponsesInOrder says of the stream of one client. *)
InOrder(c, s) ==
    \A i \in 1 .. Len(s) :
       /\ s[i].client = c
       /\ s[i].part \in Ends => s[i].n = Complete(SubSeq(s, 1, i))

LEMMA InOrderIs ==
  /\ OwnResponsesInOrder <=> \A c \in Clients : InOrder(c, got[c] \o outbox[c])
  /\ OwnResponsesInOrder' <=> \A c \in Clients : InOrder(c, got'[c] \o outbox'[c])
  BY DEF OwnResponsesInOrder, InOrder, Ends, Complete

LEMMA InOrderFrame ==
  ASSUME OwnResponsesInOrder, \A c \in Clients : SameClient(c)
  PROVE  OwnResponsesInOrder'
  <1>1. \A c \in Clients : got'[c] \o outbox'[c] = got[c] \o outbox[c]
    BY DEF SameClient
  <1> QED
    BY <1>1, InOrderIs

(* One thread moves and takes up no event. *)
LEMMA LiveShrink ==
  ASSUME TypeOK, NEW t \in Threads, NEW q, thread' = [thread EXCEPT ![t] = q],
         LiveEvents(q) \subseteq LiveEvents(thread[t])
  PROVE  /\ thread'[t] = q
         /\ \A u \in Threads \ {t} : thread'[u] = thread[u]
         /\ \A u \in Threads : LiveEvents(thread'[u]) \subseteq LiveEvents(thread[u])
         /\ Apart => Apart'
  <1>1. thread'[t] = q /\ \A u \in Threads \ {t} : thread'[u] = thread[u]
    BY DEF TypeOK
  <1>2. \A u \in Threads : LiveEvents(thread'[u]) \subseteq LiveEvents(thread[u])
    BY <1>1
  <1>3. Apart => Apart'
    BY <1>2 DEF Apart
  <1> QED
    BY <1>1, <1>2, <1>3

(* The thread goes on serving whom it served, as far as the stage says. *)
KeepsServing(t, q) ==
    \A c \in Clients :
        /\ Serving(t, c) => q.pc \in Serves /\ q.events[1].conn = c
        /\ q.pc \in Serves /\ q.events[1].conn = c => Stage(q, c)

(* What a thread holds depends on the clients alone. *)
LEMMA StagesFrame ==
  ASSUME Inv, NEW t \in Threads, NEW q, thread' = [thread EXCEPT ![t] = q],
         KeepsServing(t, q), \A c \in Clients : SameClient(c)
  PROVE  Stages'
  <1>1. thread'[t] = q /\ \A u \in Threads \ {t} : thread'[u] = thread[u]
    BY DEF Inv, TypeOK
  <1>2. ASSUME NEW u \in Threads, NEW c \in Clients, Serving(u, c)'
        PROVE  Stage(thread[u], c)'
    <2>1. CASE u = t
      <3>1. Stage(q, c)
        BY <1>1, <1>2, <2>1 DEF Serving, KeepsServing
      <3> QED
        BY <1>1, <2>1, <3>1, ClientFrame DEF Stage
    <2>2. CASE u # t
      <3>1. Stage(thread[u], c)
        BY <1>1, <1>2, <2>2 DEF Serving, Inv, Stages
      <3> QED
        BY <1>1, <2>2, <3>1, ClientFrame, ZenonT(40) DEF Stage
    <2> QED
      BY <2>1, <2>2
  <1>3. ASSUME NEW c \in Clients, Owed(c)', \A u \in Threads : ~Serving(u, c)'
        PROVE  inbox'[c] = Request(c)'
    <2>1. \A u \in Threads : ~Serving(u, c)
      <3> TAKE u \in Threads
      <3>1. CASE u = t
        BY <1>1, <1>3, <3>1 DEF Serving, KeepsServing
      <3>2. CASE u # t
        BY <1>1, <1>3, <3>2 DEF Serving
      <3> QED
        BY <3>1, <3>2
    <2>2. Owed(c) /\ Request(c)' = Request(c) /\ inbox'[c] = inbox[c]
      BY <1>3, ClientFrame DEF SameClient
    <2> QED
      BY <2>1, <2>2 DEF Inv, Stages
  <1> QED
    BY <1>2, <1>3 DEF Stages

(* A step that only moves one thread. *)
LEMMA QuietStep ==
  ASSUME Inv, NEW t \in Threads, NEW q \in Thread, Locals(q), q.pc # "add",
         thread' = [thread EXCEPT ![t] = q],
         LiveEvents(q) \subseteq LiveEvents(thread[t]),
         KeepsServing(t, q), UNCHANGED <<kernelVars, clientVars>>
  PROVE  Inv'
  <1>1. UNCHANGED <<ready, watched, desc, backlog, client, asked, inbox, outbox, got>>
    BY DEF kernelVars, clientVars
  <1>2. \A c \in Clients : SameClient(c)
    BY <1>1 DEF SameClient
  <1>3. TypeOK
    BY DEF Inv
  <1>4. /\ thread'[t] = q
        /\ \A u \in Threads \ {t} : thread'[u] = thread[u]
        /\ \A u \in Threads : LiveEvents(thread'[u]) \subseteq LiveEvents(thread[u])
        /\ Apart'
    BY <1>3, LiveShrink DEF Inv
  <1>5. TypeOK'
    BY <1>1, <1>3 DEF TypeOK
  <1>6. \A u \in Threads : Locals(thread'[u])
    BY <1>4 DEF Inv
  <1>7. \A u \in Threads : \A e \in LiveEvents(thread'[u]) : EventState(e)'
    <2> TAKE u \in Threads
    <2> TAKE e \in LiveEvents(thread'[u])
    <2>1. EventState(e)
      BY <1>4 DEF Inv
    <2>2. Listed(e.fd)' <=> Listed(e.fd)
      BY <1>1 DEF Listed
    <2> QED
      BY <1>1, <1>2, <2>1, <2>2, EventFrame DEF EventState
  <1>8. \A c \in Clients : ClientState(c)'
    BY <1>2, ClientFrame DEF Inv
  <1>9. ReadyList'
    <2>1. \A i \in 1 .. Len(ready) :
              ready[i] # server_fd => ready[i] \in watched /\ Pending(desc[ready[i]])
                                      /\ desc[ready[i]] \in Clients
      <3>1. \A f \in watched : desc[f] \in Clients
        BY <1>3 DEF Inv, Places, TypeOK
      <3> QED
        BY <3>1 DEF Inv, ReadyList
    <2>2. \A i \in 1 .. Len(ready) : ready[i] # server_fd => Pending(desc[ready[i]])'
      BY <1>1, <1>2, <2>1, ClientFrame
    <2> QED
      BY <1>1, <2>1, <2>2 DEF Inv, ReadyList
  <1>10. Places'
    BY <1>1 DEF Inv, Places
  <1>11. Adding'
    BY <1>1, <1>4 DEF Inv, Adding
  <1>12. Stages'
    BY <1>2, StagesFrame
  <1>13. OwnResponsesInOrder'
    BY <1>2, InOrderFrame DEF Inv
  <1> QED
    BY <1>4, <1>5, <1>6, <1>7, <1>8, <1>9, <1>10, <1>11, <1>12, <1>13 DEF Inv

-----------------------------------------------------------------------------
(* Steps that only move a thread.                                          *)

(* The record of a thread. *)
LEMMA ThreadOf ==
  ASSUME Inv, NEW t \in Threads
  PROVE  thread[t] \in Thread /\ Locals(thread[t])
         /\ \A e \in LiveEvents(thread[t]) : EventState(e)
  BY DEF Inv, TypeOK

(* A thread that moves on serves nobody. *)
LEMMA ServesNobody ==
  ASSUME NEW t \in Threads, NEW q, thread[t].pc \notin Serves, q.pc \notin Serves
  PROVE  KeepsServing(t, q)
  BY DEF KeepsServing, Serving

(* The thread leaves its event, and the kernel and the clients alone. *)
LEMMA NextEventStep ==
  ASSUME Inv, NEW t \in Threads, thread[t].pc \notin Serves, thread[t].pc # "wait",
         Goto(t, NextEvent(t)), UNCHANGED <<kernelVars, clientVars>>
  PROVE  Inv'
  <1> DEFINE q == NextEvent(t)
  <1>1. thread[t] \in Thread /\ Locals(thread[t])
    BY ThreadOf
  <1>2. /\ q \in Thread /\ Locals(q) /\ q.events = Tail(thread[t].events)
        /\ q.pc \in {"wait", "event"}
    BY <1>1, NextEventLocals
  <1>3. thread' = [thread EXCEPT ![t] = q]
    BY DEF Goto
  <1> HIDE DEF q
  <1>4. q.pc # "finish" /\ q.pc # "add" /\ q.pc \notin Serves
    BY <1>2 DEF Serves
  <1>5. LiveEvents(q) \subseteq LiveEvents(thread[t])
    BY <1>1, <1>2, <1>4, LiveNext
  <1>6. KeepsServing(t, q)
    BY <1>4, ServesNobody
  <1> QED
    BY <1>2, <1>3, <1>4, <1>5, <1>6, QuietStep

(* Changing the control point of a thread and nothing else of its batch. *)
LEMMA MovedTo ==
  ASSUME NEW r \in Thread, NEW p \in Pcs, NEW q, q = [r EXCEPT !.pc = p]
  PROVE  /\ q \in Thread /\ q.pc = p /\ q.events = r.events /\ q.infd = r.infd
         /\ q.buffer = r.buffer /\ q.done = r.done /\ q.response = r.response
  BY DEF Thread

LEMMA HandleListeningStep ==
  ASSUME Inv, NEW t \in Threads, HandleListening(t)
  PROVE  Inv'
  <1> DEFINE r == thread[t]
             q == [r EXCEPT !.pc = "accept"]
  <1>1. /\ r.pc = "event" /\ Head(r.events).fd = server_fd
        /\ thread' = [thread EXCEPT ![t] = q]
        /\ UNCHANGED <<kernelVars, clientVars>>
    BY DEF HandleListening, At, Goto, FdOf
  <1>2. r \in Thread /\ Locals(r)
    BY ThreadOf
  <1>3. r.events # <<>> /\ Head(r.events) = r.events[1]
    BY <1>1, <1>2, ThreadFields, TailOfBatch DEF Locals
  <1> HIDE DEF r
  <1>4. /\ q \in Thread /\ q.pc = "accept" /\ q.events = r.events /\ q.done = r.done
    BY <1>2, MovedTo DEF Pcs
  <1> HIDE DEF q
  <1>5. Locals(q)
    BY <1>1, <1>2, <1>3, <1>4, Zenon DEF Locals, Serves
  <1>6. LiveEvents(q) = LiveEvents(r)
    BY <1>1, <1>4, LiveSame
  <1>7. KeepsServing(t, q)
    BY <1>1, <1>4, ServesNobody DEF Serves, r
  <1> QED
    BY <1>1, <1>4, <1>5, <1>6, <1>7, QuietStep DEF r

(* A thread that serves has its first event for a live one. *)
LEMMA ServedIsLive ==
  ASSUME Inv, NEW u \in Threads, NEW c \in Clients, Serving(u, c)
  PROVE  /\ thread[u].events[1] \in LiveEvents(thread[u])
         /\ EventState(thread[u].events[1])
         /\ thread[u].events[1].conn = c /\ thread[u].events[1].fd \in Fds
         /\ FdOf(u) = thread[u].events[1].fd
         /\ desc[FdOf(u)] = c
         /\ Owed(c)
  <1>1. thread[u] \in Thread /\ Locals(thread[u])
        /\ \A e \in LiveEvents(thread[u]) : EventState(e)
    BY ThreadOf
  <1>2. thread[u].pc \in Serves /\ thread[u].events[1].conn = c
    BY DEF Serving
  <1>3. thread[u].pc # "wait" /\ thread[u].pc # "finish"
    BY <1>2 DEF Serves
  <1>4. thread[u].events[1].fd # server_fd /\ ~thread[u].events[1].hup
    BY <1>1, <1>2, Zenon DEF Locals
  <1>5. thread[u].events[1] \in LiveEvents(thread[u])
        /\ Head(thread[u].events) = thread[u].events[1]
    BY <1>1, <1>3, <1>4, CurrentIsLive
  <1>6. EventState(thread[u].events[1])
    BY <1>1, <1>5
  <1>7. thread[u].events[1].fd \in Fds
    BY <1>1, <1>5, LiveIsEvent
  <1>8. Owed(c)
    BY <1>2, <1>4, <1>6, Zenon DEF EventState
  <1> QED
    BY <1>2, <1>5, <1>6, <1>7, <1>8 DEF EventState, FdOf

(* Nobody else serves the connection of a live event. *)
LEMMA OneServer ==
  ASSUME Inv, NEW t \in Threads, NEW e \in LiveEvents(thread[t]),
         NEW u \in Threads, u # t
  PROVE  ~Serving(u, e.conn)
  <1> SUFFICES ASSUME Serving(u, e.conn) PROVE FALSE
    OBVIOUS
  <1>1. EventState(e) /\ e.fd \in Fds
    BY ThreadOf, LiveIsEvent
  <1>2. e.conn \in Clients /\ desc[e.fd] = e.conn
    BY <1>1 DEF EventState
  <1> DEFINE g == thread[u].events[1]
  <1>3. g \in LiveEvents(thread[u]) /\ g.fd \in Fds /\ desc[g.fd] = e.conn
    BY <1>2, ServedIsLive
  <1>4. e.conn # None
    BY <1>2, NoneAssumption
  <1>5. e.fd = g.fd
    BY <1>1, <1>2, <1>3, <1>4 DEF Inv, Places
  <1>6. e.fd # g.fd
    BY <1>3 DEF Inv, Apart
  <1> QED
    BY <1>5, <1>6

(* The locals of a thread that starts to read. *)
LEMMA StartsReading ==
  ASSUME NEW r \in Thread, NEW b \in BOOLEAN, NEW q,
         q = [r EXCEPT !.pc = "read", !.done = b, !.buffer = <<>>]
  PROVE  /\ q \in Thread /\ q.pc = "read" /\ q.events = r.events
         /\ q.buffer = <<>> /\ q.done = b
  <1>1. "read" \in Pcs /\ <<>> \in Seq(Unit)
    BY DEF Pcs
  <1> QED
    BY <1>1 DEF Thread

LEMMA HandleReadableStep ==
  ASSUME Inv, NEW t \in Threads, HandleReadable(t)
  PROVE  Inv'
  <1> DEFINE r == thread[t]
             q == [r EXCEPT !.pc = "read", !.done = FALSE, !.buffer = <<>>]
  <1>1. /\ r.pc = "event" /\ Head(r.events).fd # server_fd /\ ~Head(r.events).hup
        /\ thread' = [thread EXCEPT ![t] = q]
        /\ UNCHANGED <<kernelVars, clientVars>>
    BY Zenon DEF HandleReadable, At, Goto, FdOf
  <1>2. r \in Thread /\ Locals(r)
    BY ThreadOf
  <1>3. r.events # <<>> /\ Head(r.events) = r.events[1]
    BY <1>1, <1>2, ThreadFields, TailOfBatch DEF Locals
  <1> HIDE DEF r
  <1>4. /\ q \in Thread /\ q.pc = "read" /\ q.events = r.events
        /\ q.buffer = <<>> /\ q.done = FALSE
    <2>1. FALSE \in BOOLEAN
      OBVIOUS
    <2> QED
      BY <1>2, <2>1, StartsReading, Zenon
  <1> HIDE DEF q
  <1>5. Locals(q)
    <2>1. q.pc \in Serves /\ q.pc # "wait" /\ q.pc # "aborted" /\ q.pc \notin {"accept", "add"}
      BY <1>4 DEF Serves
    <2> QED
      BY <1>1, <1>2, <1>3, <1>4, <2>1, Zenon DEF Locals
  <1>6. LiveEvents(q) = LiveEvents(r)
    BY <1>1, <1>4, LiveSame
  <1>7. KeepsServing(t, q)
    <2>1. \A c \in Clients : ~Serving(t, c)
      BY <1>1 DEF Serving, Serves, r
    <2>2. ASSUME NEW c \in Clients, q.events[1].conn = c PROVE Stage(q, c)
      <3>1. r.events[1] \in LiveEvents(r) /\ r.events[1].conn = c
        BY <1>1, <1>2, <1>3, <1>4, <2>2, CurrentIsLive
      <3>2. EventState(r.events[1])
        BY <3>1, ThreadOf DEF r
      <3>3. Owed(c)
        BY <1>1, <1>3, <3>1, <3>2, Zenon DEF EventState
      <3>4. \A u \in Threads : ~Serving(u, c)
        BY <2>1, <3>1, OneServer DEF r
      <3>5. inbox[c] = Request(c)
        BY <3>3, <3>4 DEF Inv, Stages
      <3>6. inbox[c] \in Seq(Unit)
        BY DEF Inv, TypeOK
      <3>7. q.buffer \o inbox[c] = inbox[c]
        BY <1>4, <3>6
      <3> QED
        BY <1>4, <3>5, <3>7 DEF Stage
    <2> QED
      BY <2>1, <2>2 DEF KeepsServing
  <1> QED
    BY <1>1, <1>4, <1>5, <1>6, <1>7, QuietStep DEF r

LEMMA FinishStep ==
  ASSUME Inv, NEW t \in Threads, Finish(t)
  PROVE  Inv'
  <1>1. thread[t].pc = "finish" /\ Goto(t, NextEvent(t)) /\ UNCHANGED clientVars
    BY DEF Finish, At
  <1>2. UNCHANGED kernelVars
    <2>1. thread[t].done = FALSE
      BY ThreadOf DEF Locals
    <2> QED
      BY <2>1, Zenon DEF Finish
  <1>3. thread[t].pc \notin Serves /\ thread[t].pc # "wait"
    BY <1>1 DEF Serves
  <1> QED
    BY <1>1, <1>2, <1>3, NextEventStep

(* accept() has nothing to return. *)
LEMMA AcceptNoneStep ==
  ASSUME Inv, NEW t \in Threads, accept(t), backlog = <<>> \/ Free = {}
  PROVE  Inv'
  <1>1. /\ thread[t].pc = "accept" /\ Goto(t, NextEvent(t)) /\ UNCHANGED clientVars
        /\ UNCHANGED kernelVars
    BY DEF accept, At
  <1>2. thread[t].pc \notin Serves /\ thread[t].pc # "wait"
    BY <1>1 DEF Serves
  <1> QED
    BY <1>1, <1>2, NextEventStep

-----------------------------------------------------------------------------
(* Requests and responses.                                                 *)

(* The request that a client waits for. *)
LEMMA RequestProperties ==
  ASSUME Inv, NEW c \in Clients, Owed(c)
  PROVE  /\ Request(c) \in Seq(Unit) /\ Len(Request(c)) = RequestSize
         /\ \A i \in 1 .. RequestSize : Request(c)[i] = Request(c)[1]
         /\ Request(c)[1].client = c /\ Request(c)[1].n = asked[c]
         /\ Request(c) # <<>>
  <1>1. asked[c] \in Nat /\ Complete(got[c]) = asked[c] - 1 /\ got[c] \in Seq(Part)
    BY DEF Inv, TypeOK, Owed
  <1>2. Complete(got[c]) \in Nat
    BY <1>1, CompleteCounts
  <1>3. asked[c] <= Len(Requests[c]) /\ Requests[c] \in Seq(Kinds)
    BY RequestsAssumption DEF Inv, ClientState
  <1>4. asked[c] \in 1 .. Len(Requests[c])
    BY <1>1, <1>2, <1>3, LenProperties
  <1>5. Requests[c][asked[c]] \in Kinds
    BY <1>3, <1>4, ElementOfSeq
  <1> DEFINE u == [client |-> c, n |-> asked[c], kind |-> Requests[c][asked[c]]]
  <1>6. u \in Unit /\ u.client = c /\ u.n = asked[c]
    BY <1>1, <1>5 DEF Unit
  <1>7. Request(c) = [i \in 1 .. RequestSize |-> u]
    BY DEF Request
  <1> HIDE DEF u
  <1>8. RequestSize \in Nat /\ RequestSize # 0 /\ 1 \in 1 .. RequestSize
    BY SizeAssumption
  <1>9. Request(c) \in Seq(Unit) /\ Len(Request(c)) = RequestSize
    BY <1>6, <1>7, <1>8
  <1>10. \A i \in 1 .. RequestSize : Request(c)[i] = u
    BY <1>7
  <1>11. Request(c) # <<>>
    BY <1>8, <1>9, EmptySeq
  <1> QED
    BY <1>6, <1>8, <1>9, <1>10, <1>11

Tuples == {<<"head+body", "body", "nul">>, <<"head+body", "body">>, <<"head">>}

LEMMA PartsAreTuples ==
  ASSUME NEW kind, NEW result
  PROVE  Parts(kind, result) \in Tuples
  BY DEF Parts, Tuples

(* The parts of a response, the end of which is one of them. *)
LEMMA TupleProperties ==
  ASSUME NEW p \in Tuples
  PROVE  /\ Len(p) \in 1 .. 3
         /\ \A i \in 1 .. Len(p) : p[i] \in {"head", "head+body", "body", "nul"}
         /\ \E m \in 1 .. Len(p) : \A j \in 1 .. Len(p) : p[j] \in Ends <=> j = m
  <1>1. CASE p = <<"head+body", "body", "nul">>
    <2>1. /\ Len(p) = 3 /\ p[1] = "head+body" /\ p[2] = "body" /\ p[3] = "nul"
      BY <1>1
    <2>2. \A j \in 1 .. Len(p) : j = 1 \/ j = 2 \/ j = 3
      BY <2>1
    <2>3. \A j \in 1 .. Len(p) : p[j] \in Ends <=> j = 2
      BY <2>1, <2>2 DEF Ends
    <2>4. 2 \in 1 .. Len(p)
      BY <2>1
    <2> QED
      BY <2>1, <2>2, <2>3, <2>4
  <1>2. CASE p = <<"head+body", "body">>
    <2>1. /\ Len(p) = 2 /\ p[1] = "head+body" /\ p[2] = "body"
      BY <1>2
    <2>2. \A j \in 1 .. Len(p) : j = 1 \/ j = 2
      BY <2>1
    <2>3. \A j \in 1 .. Len(p) : p[j] \in Ends <=> j = 2
      BY <2>1, <2>2 DEF Ends
    <2>4. 2 \in 1 .. Len(p)
      BY <2>1
    <2> QED
      BY <2>1, <2>2, <2>3, <2>4
  <1>3. CASE p = <<"head">>
    <2>1. Len(p) = 1 /\ p[1] = "head"
      BY <1>3
    <2>2. \A j \in 1 .. Len(p) : j = 1
      BY <2>1
    <2>3. \A j \in 1 .. Len(p) : p[j] \in Ends <=> j = 1
      BY <2>1, <2>2 DEF Ends
    <2>4. 1 \in 1 .. Len(p)
      BY <2>1
    <2> QED
      BY <2>1, <2>2, <2>3, <2>4
  <1> QED
    BY <1>1, <1>2, <1>3 DEF Tuples

(* What the thread answers to a whole request. *)
LEMMA ResponseProperties ==
  ASSUME Inv, NEW c \in Clients, Owed(c), NEW p \in Tuples
  PROVE  Response(Request(c), p) \in Seq(Part) /\ ResponseTo(c, Response(Request(c), p))
  <1>1. /\ Len(Request(c)) = RequestSize
        /\ \A i \in 1 .. RequestSize : Request(c)[i] = Request(c)[1]
        /\ Request(c)[1].client = c /\ Request(c)[1].n = asked[c]
    BY RequestProperties
  <1>2. Whole(Request(c))
    BY <1>1 DEF Whole
  <1>3. /\ Len(p) \in 1 .. 3
        /\ \A i \in 1 .. Len(p) : p[i] \in {"head", "head+body", "body", "nul"}
        /\ \E m \in 1 .. Len(p) : \A j \in 1 .. Len(p) : p[j] \in Ends <=> j = m
    BY TupleProperties
  <1> DEFINE n == Len(p)
             s == [i \in 1 .. n |-> [client |-> c, n |-> asked[c], part |-> p[i]]]
  <1>4. Response(Request(c), p) = s
    BY <1>1, <1>2 DEF Response
  <1>5. asked[c] \in Nat
    BY DEF Inv, TypeOK
  <1>6. \A i \in 1 .. n : /\ s[i] \in Part /\ s[i].client = c /\ s[i].n = asked[c]
                          /\ s[i].part = p[i]
    BY <1>3, <1>5 DEF Part
  <1>7. s \in Seq(Part) /\ Len(s) = n
    <2>1. n \in Nat
      BY <1>3
    <2>2. s \in [1 .. n -> Part]
      BY <1>6
    <2>3. Len(s) = n
      BY <2>1
    <2> QED
      BY <2>1, <2>2, <2>3
  <1> HIDE DEF s
  <1>8. ResponseTo(c, s)
    <2>1. PICK m \in 1 .. Len(p) : \A j \in 1 .. Len(p) : p[j] \in Ends <=> j = m
      BY <1>3
    <2>2. m \in 1 .. Len(s) /\ \A j \in 1 .. Len(s) : s[j].part \in Ends <=> j = m
      BY <1>6, <1>7, <2>1
    <2>3. Len(s) \in 1 .. 3
      BY <1>3, <1>7
    <2>4. \A j \in 1 .. Len(s) : s[j].client = c /\ s[j].n = asked[c]
      BY <1>6, <1>7
    <2> QED
      BY <2>2, <2>3, <2>4 DEF ResponseTo
  <1> QED
    BY <1>4, <1>7, <1>8

LEMMA BuildResponseStep ==
  ASSUME Inv, NEW t \in Threads, BuildResponse(t)
  PROVE  Inv'
  <1> DEFINE r == thread[t]
  <1>1. /\ r.pc = "process" /\ UNCHANGED <<kernelVars, clientVars>>
    BY DEF BuildResponse, At
  <1>2. PICK p \in Tuples :
            thread' = [thread EXCEPT ![t] =
                          [r EXCEPT !.pc = "write", !.response = Response(r.buffer, p)]]
    BY PartsAreTuples DEF BuildResponse, Goto
  <1>3. r \in Thread /\ Locals(r)
    BY ThreadOf
  <1>4. r.pc \in Serves
    BY <1>1 DEF Serves
  <1>5. PICK c \in Clients : c = r.events[1].conn
    <2>1. r.events[1] \in LiveEvents(r)
      <3>1. r.events[1].fd # server_fd
        BY <1>3, <1>4, Zenon DEF Locals
      <3> QED
        BY <1>1, <1>3, <3>1, CurrentIsLive
    <2>2. EventState(r.events[1])
      BY <2>1, ThreadOf
    <2> QED
      BY <2>2 DEF EventState
  <1>6. Serving(t, c)
    BY <1>4, <1>5 DEF Serving
  <1>7. Owed(c)
    BY <1>6, ServedIsLive
  <1>8. r.buffer = Request(c) /\ inbox[c] = <<>>
    BY <1>1, <1>6 DEF Inv, Stages, Stage
  <1> DEFINE s == Response(Request(c), p)
             q == [r EXCEPT !.pc = "write", !.response = s]
  <1>9. s \in Seq(Part) /\ ResponseTo(c, s)
    BY <1>7, ResponseProperties
  <1>10. thread' = [thread EXCEPT ![t] = q]
    BY <1>2, <1>8
  <1> HIDE DEF s, r
  <1>11. /\ q \in Thread /\ q.pc = "write" /\ q.response = s /\ q.events = r.events
         /\ q.done = r.done
    BY <1>3, <1>9 DEF Thread, Pcs
  <1> HIDE DEF q
  <1>12. Locals(q)
    <2>1. q.pc \in Serves /\ q.pc # "wait" /\ q.pc # "aborted" /\ q.pc \notin {"accept", "add"}
          /\ r.pc # "wait"
      BY <1>1, <1>11 DEF Serves
    <2> QED
      BY <1>3, <1>4, <1>11, <2>1, Zenon DEF Locals
  <1>13. LiveEvents(q) = LiveEvents(r)
    BY <1>1, <1>11, LiveSame
  <1>14. KeepsServing(t, q)
    <2>1. q.pc \in Serves /\ q.events[1].conn = c
      BY <1>5, <1>11 DEF Serves
    <2>2. \A d \in Clients : Serving(t, d) => d = c
      BY <1>5 DEF Serving, r
    <2>3. Stage(q, c)
      BY <1>8, <1>9, <1>11 DEF Stage
    <2> QED
      BY <2>1, <2>2, <2>3 DEF KeepsServing
  <1>15. q.pc # "add"
    BY <1>11
  <1> QED
    BY <1>1, <1>10, <1>11, <1>12, <1>13, <1>14, <1>15, QuietStep DEF r

-----------------------------------------------------------------------------
(* Steps of a thread and the kernel.                                       *)

(* A step of a thread that may change the kernel and not the clients. *)
LEMMA KernelStep ==
  ASSUME Inv, NEW t \in Threads, NEW q \in Thread, Locals(q),
         thread' = [thread EXCEPT ![t] = q], KeepsServing(t, q), UNCHANGED clientVars,
         ready' \in Seq(Fds \cup {server_fd}), watched' \subseteq Fds,
         desc' \in [Fds -> Clients \cup {None}], backlog' \in Seq(Clients),
         \A e \in LiveEvents(q) : EventState(e)',
         \A u \in Threads \ {t} : \A e \in LiveEvents(thread[u]) : EventState(e)',
         \A u \in Threads \ {t} : \A e \in LiveEvents(thread[u]), g \in LiveEvents(q) :
             e.fd # g.fd,
         ReadyList', Places', Adding'
  PROVE  Inv'
  <1>1. UNCHANGED <<client, asked, inbox, outbox, got>>
    BY DEF clientVars
  <1>2. \A c \in Clients : SameClient(c)
    BY <1>1 DEF SameClient
  <1>3. TypeOK
    BY DEF Inv
  <1>4. thread'[t] = q /\ \A u \in Threads \ {t} : thread'[u] = thread[u]
    BY <1>3 DEF TypeOK
  <1>5. TypeOK'
    BY <1>1, <1>3 DEF TypeOK
  <1>6. \A u \in Threads : Locals(thread'[u])
    BY <1>4 DEF Inv
  <1>7. \A u \in Threads : \A e \in LiveEvents(thread'[u]) : EventState(e)'
    BY <1>4
  <1>8. \A c \in Clients : ClientState(c)'
    BY <1>2, ClientFrame DEF Inv
  <1>9. Apart'
    <2> SUFFICES ASSUME NEW u \in Threads, NEW v \in Threads, u # v,
                        NEW e \in LiveEvents(thread'[u]), NEW g \in LiveEvents(thread'[v])
                 PROVE  e.fd # g.fd
      BY DEF Apart
    <2>1. CASE u = t
      BY <1>4, <2>1
    <2>2. CASE v = t
      BY <1>4, <2>2
    <2>3. CASE u # t /\ v # t
      BY <1>4, <2>3 DEF Inv, Apart
    <2> QED
      BY <2>1, <2>2, <2>3
  <1>10. Stages'
    BY <1>2, StagesFrame
  <1>11. OwnResponsesInOrder'
    BY <1>2, InOrderFrame DEF Inv
  <1> QED
    BY <1>5, <1>6, <1>7, <1>8, <1>9, <1>10, <1>11 DEF Inv

(* The listed descriptors designate connections. *)
LEMMA ListedDesignate ==
  ASSUME Inv, NEW i \in 1 .. Len(ready), ready[i] # server_fd
  PROVE  /\ ready[i] \in watched /\ ready[i] \in Fds
         /\ desc[ready[i]] \in Clients /\ Pending(desc[ready[i]])
  BY DEF Inv, TypeOK, ReadyList, Places

(* While the clients rest, so do the pending connections. *)
LEMMA PendingFrame ==
  ASSUME UNCHANGED clientVars, NEW c \in Clients
  PROVE  SameClient(c) /\ (Pending(c)' <=> Pending(c)) /\ (Owed(c)' <=> Owed(c))
  <1>1. SameClient(c)
    BY DEF SameClient, clientVars
  <1> QED
    BY <1>1, ClientFrame

(* A live event, seen from outside. *)
LEMMA LiveState ==
  ASSUME Inv, NEW u \in Threads, NEW e \in LiveEvents(thread[u])
  PROVE  /\ EventState(e) /\ e.fd \in Fds /\ e.fd \in watched /\ e.conn \in Clients
         /\ desc[e.fd] = e.conn /\ ~Listed(e.fd) /\ e.fd # server_fd
  <1>1. EventState(e) /\ e.fd \in Fds /\ e.fd # server_fd
    BY ThreadOf, LiveIsEvent
  <1> QED
    BY <1>1 DEF EventState

LEMMA HandleErrorStep ==
  ASSUME Inv, NEW t \in Threads, HandleError(t)
  PROVE  Inv'
  <1> DEFINE r == thread[t]
             q == NextEvent(t)
  <1>1. /\ r.pc = "event" /\ Head(r.events).hup /\ UNCHANGED clientVars
        /\ thread' = [thread EXCEPT ![t] = q]
        /\ close(Head(r.events).fd)
    BY Zenon DEF HandleError, At, Goto, FdOf
  <1>2. r \in Thread /\ Locals(r)
    BY ThreadOf
  <1>3. r.events # <<>> /\ Head(r.events) = r.events[1] /\ Len(r.events) \in Nat \ {0}
    BY <1>1, <1>2, ThreadFields, TailOfBatch DEF Locals
  <1>4. PICK f : f = r.events[1].fd
    OBVIOUS
  <1>5. f # server_fd
    <2>1. 1 \in 1 .. Len(r.events)
      BY <1>3
    <2> QED
      BY <1>1, <1>2, <1>3, <1>4, <2>1, Zenon DEF Locals
  <1>6. r.events[1] \in LiveEvents(r)
    BY <1>1, <1>2, <1>4, <1>5, CurrentIsLive
  <1>7. f \in Fds /\ f \in watched /\ ~Listed(f)
    BY <1>4, <1>6, LiveState
  <1>8. /\ q \in Thread /\ Locals(q) /\ q.events = Tail(r.events)
        /\ q.pc \in {"wait", "event"}
    BY <1>1, <1>2, NextEventLocals
  <1>9. /\ ready' = ready /\ watched' = watched \ {f} /\ backlog' = backlog
        /\ desc' = [desc EXCEPT ![f] = None]
    BY <1>1, <1>3, <1>4, <1>7 DEF close, Without, Listed
  <1> HIDE DEF q
  <1>10. q.pc # "finish" /\ q.pc # "add" /\ q.pc \notin Serves
    BY <1>8 DEF Serves
  <1>11. /\ LiveEvents(q) \subseteq LiveEvents(r)
         /\ \A e \in LiveEvents(q) : e.fd # f
    BY <1>1, <1>2, <1>4, <1>8, <1>10, LiveNext
  <1>12. KeepsServing(t, q)
    BY <1>1, <1>10, ServesNobody DEF Serves
  <1>13. \A g \in Fds : g # f => desc'[g] = desc[g]
    BY <1>9 DEF Inv, TypeOK
  <1>14. desc' \in [Fds -> Clients \cup {None}] /\ desc'[f] = None
    BY <1>7, <1>9 DEF Inv, TypeOK
  <1>15. ASSUME NEW u \in Threads, NEW e \in LiveEvents(thread[u]), e.fd # f
         PROVE  EventState(e)'
    <2>1. /\ EventState(e) /\ e.fd \in Fds /\ e.fd \in watched /\ e.conn \in Clients
          /\ ~Listed(e.fd)
      BY LiveState
    <2>2. e.fd \in watched' /\ desc'[e.fd] = desc[e.fd]
      BY <1>9, <1>13, <1>15, <2>1
    <2>3. ~Listed(e.fd)'
      BY <1>9, <2>1 DEF Listed
    <2>4. SameClient(e.conn)
      BY <1>1, <2>1, PendingFrame
    <2> QED
      BY <2>1, <2>2, <2>3, <2>4, EventFrame
  <1>16. \A u \in Threads \ {t} : \A e \in LiveEvents(thread[u]) : e.fd # f
    BY <1>4, <1>6 DEF Inv, Apart
  <1>17. \A u \in Threads \ {t} : \A e \in LiveEvents(thread[u]), g \in LiveEvents(q) :
             e.fd # g.fd
    BY <1>11 DEF Inv, Apart
  <1>18. ReadyList'
    <2>1. ASSUME NEW i \in 1 .. Len(ready), ready[i] # server_fd
          PROVE  ready[i] \in watched' /\ Pending(desc[ready[i]])'
      <3>1. /\ ready[i] \in watched /\ ready[i] \in Fds
            /\ desc[ready[i]] \in Clients /\ Pending(desc[ready[i]])
        BY <2>1, ListedDesignate
      <3>2. ready[i] # f
        BY <1>7 DEF Listed
      <3>3. PICK c \in Clients : c = desc[ready[i]]
        BY <3>1
      <3>4. Pending(c)'
        BY <1>1, <3>1, <3>3, PendingFrame
      <3>5. desc'[ready'[i]] = c
        BY <1>9, <1>13, <3>1, <3>2, <3>3
      <3> QED
        BY <1>9, <3>1, <3>2, <3>4, <3>5
    <2> QED
      BY <1>9, <2>1 DEF Inv, ReadyList
  <1>19. Places'
    <2>1. UNCHANGED client
      BY <1>1 DEF clientVars
    <2> QED
      BY <1>7, <1>9, <1>13, <1>14, <2>1 DEF Inv, TypeOK, Places
  <1>20. Adding'
    <2>1. thread'[t] = q /\ \A u \in Threads \ {t} : thread'[u] = thread[u]
      BY <1>1 DEF Inv, TypeOK
    <2>2. ASSUME NEW u \in Threads, thread'[u].pc = "add"
          PROVE  /\ u # t /\ thread'[u] = thread[u]
                 /\ thread'[u].infd \in Fds \ watched'
                 /\ desc'[thread'[u].infd] # None
      <3>1. u # t /\ thread'[u] = thread[u]
        BY <1>10, <2>1, <2>2
      <3>2. thread[u].infd \in Fds \ watched /\ desc[thread[u].infd] # None
        BY <2>2, <3>1 DEF Inv, Adding
      <3> QED
        BY <1>7, <1>9, <1>13, <3>1, <3>2
    <2> QED
      BY <2>2 DEF Inv, Adding
  <1>21. watched' \subseteq Fds /\ ready' \in Seq(Fds \cup {server_fd})
         /\ backlog' \in Seq(Clients)
    BY <1>9 DEF Inv, TypeOK
  <1>22. \A e \in LiveEvents(q) : EventState(e)'
    BY <1>11, <1>15
  <1>23. \A u \in Threads \ {t} : \A e \in LiveEvents(thread[u]) : EventState(e)'
    BY <1>15, <1>16
  <1> QED
    BY <1>1, <1>8, <1>12, <1>14, <1>17, <1>18, <1>19, <1>20, <1>21, <1>22, <1>23, KernelStep

(* A set of naturals has a least element. *)
LEMMA Smallest ==
  ASSUME NEW S, S \subseteq Nat, S # {}
  PROVE  \E n \in S : \A m \in S : n <= m
  <1> DEFINE R == OpToRel(<, Nat)
  <1>1. IsWellFoundedOn(R, Nat)
    BY NatLessThanWellFounded
  <1>2. \A m, n \in Nat : m < n => <<m, n>> \in R
    BY DEF OpToRel
  <1> HIDE DEF R
  <1>3. PICK n \in S : \A m \in S : ~(<<m, n>> \in R)
    BY <1>1, WFMin
  <1>4. \A m \in S : m \in Nat /\ n \in Nat /\ ~(m < n)
    BY <1>2, <1>3, Zenon
  <1> QED
    BY <1>3, <1>4

(* accept() returns a descriptor that is not in use. *)
LEMMA LowestIsFree ==
  ASSUME Free # {}
  PROVE  Lowest(Free) \in Fds /\ desc[Lowest(Free)] = None
  <1>1. Free \subseteq Nat
    BY FdAssumption DEF Free, Fds
  <1>2. \E f \in Free : \A g \in Free : f <= g
    BY <1>1, Smallest
  <1>3. Lowest(Free) \in Free
    BY <1>2 DEF Lowest
  <1> QED
    BY <1>3 DEF Free

(* accept() returns a connection. *)
LEMMA AcceptOneStep ==
  ASSUME Inv, NEW t \in Threads, accept(t), backlog # <<>>, Free # {}
  PROVE  Inv'
  <1> DEFINE r == thread[t]
  <1>1. PICK f : f = Lowest(Free)
    OBVIOUS
  <1>2. PICK c : c = Head(backlog)
    OBVIOUS
  <1> DEFINE q == [r EXCEPT !.pc = "add", !.infd = f]
  <1>3. /\ r.pc = "accept" /\ UNCHANGED clientVars
        /\ thread' = [thread EXCEPT ![t] = q]
        /\ desc' = [desc EXCEPT ![f] = c] /\ backlog' = Tail(backlog)
        /\ ready' = ready /\ watched' = watched
    BY <1>1, <1>2 DEF accept, At, Goto
  <1>4. f \in Fds /\ desc[f] = None /\ f \notin watched
    <2>1. f \in Fds /\ desc[f] = None
      BY <1>1, LowestIsFree
    <2> QED
      BY <2>1 DEF Inv, Places
  <1>5. /\ Len(backlog) \in Nat \ {0} /\ 1 \in 1 .. Len(backlog) /\ c = backlog[1]
        /\ c \in Clients /\ Tail(backlog) \in Seq(Clients)
        /\ Len(Tail(backlog)) = Len(backlog) - 1
        /\ \A i \in 1 .. Len(backlog) - 1 :
               Tail(backlog)[i] = backlog[i + 1] /\ i + 1 \in 1 .. Len(backlog)
    <2>1. backlog \in Seq(Clients)
      BY DEF Inv, TypeOK
    <2>2. Len(backlog) \in Nat \ {0} /\ 1 \in 1 .. Len(backlog)
      BY <2>1, EmptySeq, LenProperties
    <2>3. c = backlog[1]
      BY <1>2, <2>1, <2>2
    <2>4. c \in Clients
      BY <2>1, <2>2, <2>3, ElementOfSeq
    <2>5. /\ Tail(backlog) \in Seq(Clients) /\ Len(Tail(backlog)) = Len(backlog) - 1
          /\ \A i \in 1 .. Len(backlog) - 1 : Tail(backlog)[i] = backlog[i + 1]
      BY <2>1, <2>2, HeadTailProperties
    <2>6. \A i \in 1 .. Len(backlog) - 1 : i + 1 \in 1 .. Len(backlog)
      BY <2>2
    <2> QED
      BY <2>2, <2>3, <2>4, <2>5, <2>6
  <1>6. r \in Thread /\ Locals(r)
    BY ThreadOf
  <1> HIDE DEF r
  <1>7. /\ q \in Thread /\ q.pc = "add" /\ q.infd = f /\ q.events = r.events
        /\ q.done = r.done
    BY <1>4, <1>6 DEF Thread, Pcs
  <1> HIDE DEF q
  <1>8. Locals(q)
    BY <1>3, <1>6, <1>7, Zenon DEF Locals, Serves
  <1>9. LiveEvents(q) = LiveEvents(r)
    BY <1>3, <1>7, LiveSame
  <1>10. KeepsServing(t, q)
    BY <1>3, <1>7, ServesNobody DEF Serves, r
  <1>11. \A g \in Fds : g # f => desc'[g] = desc[g]
    BY <1>3 DEF Inv, TypeOK
  <1>12. desc' \in [Fds -> Clients \cup {None}] /\ desc'[f] = c /\ c # None
    BY <1>3, <1>4, <1>5, NoneAssumption DEF Inv, TypeOK
  <1>13. ASSUME NEW u \in Threads, NEW e \in LiveEvents(thread[u])
         PROVE  EventState(e)'
    <2>1. /\ EventState(e) /\ e.fd \in Fds /\ e.fd \in watched /\ e.conn \in Clients
          /\ ~Listed(e.fd)
      BY LiveState
    <2>2. e.fd \in watched' /\ desc'[e.fd] = desc[e.fd]
      BY <1>3, <1>4, <1>11, <2>1
    <2>3. ~Listed(e.fd)'
      BY <1>3, <2>1 DEF Listed
    <2>4. SameClient(e.conn)
      BY <1>3, <2>1, PendingFrame
    <2> QED
      BY <2>1, <2>2, <2>3, <2>4, EventFrame
  <1>14. \A u \in Threads \ {t} : \A e \in LiveEvents(thread[u]), g \in LiveEvents(q) :
             e.fd # g.fd
    BY <1>9 DEF Inv, Apart, r
  <1>15. ReadyList'
    <2>1. ASSUME NEW i \in 1 .. Len(ready), ready[i] # server_fd
          PROVE  ready[i] \in watched' /\ Pending(desc[ready[i]])'
      <3>1. /\ ready[i] \in watched /\ ready[i] \in Fds
            /\ desc[ready[i]] \in Clients /\ Pending(desc[ready[i]])
        BY <2>1, ListedDesignate
      <3>2. ready[i] # f
        BY <1>4, <3>1
      <3>3. PICK d \in Clients : d = desc[ready[i]]
        BY <3>1
      <3>4. Pending(d)'
        BY <1>3, <3>1, <3>3, PendingFrame
      <3>5. desc'[ready'[i]] = d
        BY <1>3, <1>11, <3>1, <3>2, <3>3
      <3> QED
        BY <1>3, <3>1, <3>4, <3>5
    <2> QED
      BY <1>3, <2>1 DEF Inv, ReadyList
  <1>16. Places'
    <2>1. UNCHANGED client
      BY <1>3 DEF clientVars
    <2>2. Places
      BY DEF Inv
    <2>3. \A g \in watched' : desc'[g] # None
      BY <1>3, <1>11, <1>12, <2>2 DEF Places, Inv, TypeOK
    <2>4. \A g \in Fds : desc[g] # c
      BY <1>5, <1>12, <2>2 DEF Places
    <2>5. \A g, h \in Fds : desc'[g] = desc'[h] /\ desc'[g] # None => g = h
      BY <1>11, <1>12, <2>2, <2>4 DEF Places
    <2>6. \A i, j \in 1 .. Len(backlog') : backlog'[i] = backlog'[j] => i = j
      <3> TAKE i, j \in 1 .. Len(backlog')
      <3>1. /\ i \in 1 .. Len(backlog) - 1 /\ j \in 1 .. Len(backlog) - 1
            /\ backlog'[i] = backlog[i + 1] /\ backlog'[j] = backlog[j + 1]
            /\ i + 1 \in 1 .. Len(backlog) /\ j + 1 \in 1 .. Len(backlog)
        BY <1>3, <1>5
      <3>2. backlog[i + 1] = backlog[j + 1] => i + 1 = j + 1
        BY <2>2, <3>1 DEF Places
      <3> QED
        BY <3>1, <3>2
    <2>7. ASSUME NEW i \in 1 .. Len(backlog')
          PROVE  client[backlog'[i]] # "new" /\ \A g \in Fds : desc'[g] # None => backlog'[i] # desc'[g]
      <3>1. /\ i \in 1 .. Len(backlog) - 1 /\ backlog'[i] = backlog[i + 1]
            /\ i + 1 \in 1 .. Len(backlog) /\ i + 1 # 1
        BY <1>3, <1>5
      <3>2. backlog[i + 1] # c
        BY <1>5, <2>2, <3>1 DEF Places
      <3> QED
        BY <1>11, <1>12, <2>2, <3>1, <3>2 DEF Places
    <2>8. \A g \in Fds : desc'[g] # None => client[desc'[g]] # "new"
      <3>1. client[c] # "new"
        BY <1>5, <2>2 DEF Places
      <3> QED
        BY <1>11, <1>12, <2>2, <3>1 DEF Places
    <2> QED
      BY <2>1, <2>3, <2>5, <2>6, <2>7, <2>8 DEF Places
  <1>17. Adding'
    <2>1. thread'[t] = q /\ \A u \in Threads \ {t} : thread'[u] = thread[u]
      BY <1>3 DEF Inv, TypeOK
    <2>2. ASSUME NEW u \in Threads \ {t}, thread'[u].pc = "add"
          PROVE  /\ thread'[u].infd \in Fds \ watched' /\ thread'[u].infd # f
                 /\ desc'[thread'[u].infd] # None
      <3>1. thread[u].infd \in Fds \ watched /\ desc[thread[u].infd] # None
        BY <2>1, <2>2 DEF Inv, Adding
      <3> QED
        BY <1>3, <1>4, <1>11, <2>1, <3>1
    <2>3. thread'[t].infd = f /\ f \in Fds \ watched' /\ desc'[f] # None
      BY <1>3, <1>4, <1>7, <1>12, <2>1
    <2>4. \A u \in Threads \ {t}, v \in Threads \ {t} :
              thread'[u].pc = "add" /\ thread'[v].pc = "add"
                /\ thread'[u].infd = thread'[v].infd => u = v
      BY <2>1 DEF Inv, Adding
    <2> QED
      BY <2>2, <2>3, <2>4 DEF Adding
  <1>18. watched' \subseteq Fds /\ ready' \in Seq(Fds \cup {server_fd})
         /\ backlog' \in Seq(Clients)
    BY <1>3, <1>5 DEF Inv, TypeOK
  <1>19. \A e \in LiveEvents(q) : EventState(e)'
    BY <1>9, <1>13 DEF r
  <1>20. \A u \in Threads \ {t} : \A e \in LiveEvents(thread[u]) : EventState(e)'
    BY <1>13
  <1> QED
    BY <1>3, <1>7, <1>8, <1>10, <1>12, <1>14, <1>15, <1>16, <1>17, <1>18, <1>19, <1>20,
       KernelStep

LEMMA EpollCtlAddStep ==
  ASSUME Inv, NEW t \in Threads, epoll_ctl_add(t)
  PROVE  Inv'
  <1> DEFINE r == thread[t]
             q == [r EXCEPT !.pc = "accept"]
  <1>1. PICK f : f = r.infd
    OBVIOUS
  <1>2. PICK c : c = desc[f]
    OBVIOUS
  <1>3. r.pc = "add"
    BY DEF epoll_ctl_add, At
  <1>4. f \in Fds \ watched /\ c # None /\ c \in Clients
    BY <1>1, <1>2, <1>3 DEF Inv, Adding, TypeOK
  <1>5. /\ watched' = watched \cup {f} /\ UNCHANGED <<desc, backlog>> /\ UNCHANGED clientVars
        /\ ready' = IF inbox[c] # <<>> \/ HungUp(c) THEN Notified(ready, f) ELSE ready
        /\ thread' = [thread EXCEPT ![t] = q]
    BY <1>1, <1>2, <1>4 DEF epoll_ctl_add, Goto
  <1>6. ~Listed(f) /\ f # server_fd
    <2>1. f # server_fd
      BY <1>4, FdAssumption
    <2> QED
      BY <1>4, <2>1, ListedDesignate DEF Listed
  <1>7. ready' = ready \/ (ready' = Append(ready, f) /\ Pending(c))
    <2>1. inbox[c] # <<>> => Owed(c)
      BY <1>4 DEF Inv, ClientState, Paid
    <2>2. HungUp(c) => client[c] = "closed"
      BY DEF HungUp
    <2>3. Notified(ready, f) = Append(ready, f)
      BY <1>6 DEF Notified, Listed
    <2> QED
      BY <1>5, <2>1, <2>2, <2>3 DEF Pending
  <1>8. /\ ready' \in Seq(Fds \cup {server_fd}) /\ Len(ready) \in Nat
        /\ \A i \in 1 .. Len(ready') :
              \/ i \in 1 .. Len(ready) /\ ready'[i] = ready[i]
              \/ i = Len(ready) + 1 /\ ready'[i] = f /\ Pending(c)
    <2>1. ready \in Seq(Fds \cup {server_fd}) /\ Len(ready) \in Nat /\ f \in Fds \cup {server_fd}
      BY <1>4, LenProperties DEF Inv, TypeOK
    <2>2. CASE ready' = ready
      BY <2>1, <2>2
    <2>3. CASE ready' = Append(ready, f) /\ Pending(c)
      <3>1. /\ ready' \in Seq(Fds \cup {server_fd}) /\ Len(ready') = Len(ready) + 1
            /\ \A i \in 1 .. Len(ready) : ready'[i] = ready[i]
            /\ ready'[Len(ready) + 1] = f
        BY <2>1, <2>3, AppendProperties
      <3>2. \A i \in 1 .. Len(ready') : i \in 1 .. Len(ready) \/ i = Len(ready) + 1
        BY <2>1, <3>1
      <3> QED
        BY <2>1, <2>3, <3>1, <3>2
    <2> QED
      BY <1>7, <2>2, <2>3
  <1>9. r \in Thread /\ Locals(r)
    BY ThreadOf
  <1> HIDE DEF r
  <1>10. q \in Thread /\ q.pc = "accept" /\ q.events = r.events /\ q.done = r.done
    BY <1>9, MovedTo DEF Pcs
  <1> HIDE DEF q
  <1>11. Locals(q)
    BY <1>3, <1>9, <1>10, Zenon DEF Locals, Serves
  <1>12. LiveEvents(q) = LiveEvents(r)
    BY <1>3, <1>10, LiveSame
  <1>13. KeepsServing(t, q)
    BY <1>3, <1>10, ServesNobody DEF Serves, r
  <1>14. ASSUME NEW u \in Threads, NEW e \in LiveEvents(thread[u])
         PROVE  EventState(e)'
    <2>1. /\ EventState(e) /\ e.fd \in Fds /\ e.fd \in watched /\ e.conn \in Clients
          /\ ~Listed(e.fd)
      BY LiveState
    <2>2. e.fd \in watched' /\ desc'[e.fd] = desc[e.fd] /\ e.fd # f
      BY <1>4, <1>5, <2>1
    <2>3. ~Listed(e.fd)'
      BY <1>8, <2>1, <2>2 DEF Listed
    <2>4. SameClient(e.conn)
      BY <1>5, <2>1, PendingFrame
    <2> QED
      BY <2>1, <2>2, <2>3, <2>4, EventFrame
  <1>15. \A u \in Threads \ {t} : \A e \in LiveEvents(thread[u]), g \in LiveEvents(q) :
             e.fd # g.fd
    BY <1>12 DEF Inv, Apart, r
  <1>16. ReadyList'
    <2>1. ASSUME NEW i \in 1 .. Len(ready'), ready'[i] # server_fd
          PROVE  ready'[i] \in watched' /\ Pending(desc[ready[i]])'
      <3>1. PICK d \in Clients : d = desc'[ready'[i]] /\ Pending(d) /\ ready'[i] \in watched'
        <4>1. CASE i \in 1 .. Len(ready) /\ ready'[i] = ready[i]
          BY <1>5, <2>1, <4>1, ListedDesignate
        <4>2. CASE ready'[i] = f /\ Pending(c)
          BY <1>2, <1>4, <1>5, <4>2
        <4> QED
          BY <1>8, <4>1, <4>2
      <3>2. Pending(d)'
        BY <1>5, <3>1, PendingFrame
      <3> QED
        BY <3>1, <3>2
    <2>2. \A i, j \in 1 .. Len(ready') : ready'[i] = ready'[j] => i = j
      <3>1. \A i, j \in 1 .. Len(ready) : ready[i] = ready[j] => i = j
        BY DEF Inv, ReadyList
      <3>2. \A i \in 1 .. Len(ready) : ready[i] # f
        BY <1>6 DEF Listed
      <3> QED
        BY <1>8, <3>1, <3>2
    <2> QED
      BY <2>1, <2>2 DEF ReadyList
  <1>17. Places'
    <2>1. UNCHANGED client
      BY <1>5 DEF clientVars
    <2> QED
      BY <1>2, <1>4, <1>5, <2>1 DEF Inv, Places
  <1>18. Adding'
    <2>1. thread'[t] = q /\ \A u \in Threads \ {t} : thread'[u] = thread[u]
      BY <1>5 DEF Inv, TypeOK
    <2>2. ASSUME NEW u \in Threads, thread'[u].pc = "add"
          PROVE  /\ u # t /\ thread'[u] = thread[u]
                 /\ thread'[u].infd \in Fds \ watched'
                 /\ desc'[thread'[u].infd] # None
      <3>1. u # t /\ thread'[u] = thread[u]
        BY <1>10, <2>1, <2>2
      <3>2. thread[u].infd \in Fds \ watched /\ desc[thread[u].infd] # None
            /\ thread[u].infd # f
        BY <1>1, <1>3, <2>2, <3>1 DEF Inv, Adding, r
      <3> QED
        BY <1>5, <3>1, <3>2
    <2> QED
      BY <2>2 DEF Inv, Adding
  <1>19. watched' \subseteq Fds /\ desc' \in [Fds -> Clients \cup {None}]
         /\ backlog' \in Seq(Clients)
    BY <1>4, <1>5 DEF Inv, TypeOK
  <1>20. \A e \in LiveEvents(q) : EventState(e)'
    BY <1>12, <1>14 DEF r
  <1>21. \A u \in Threads \ {t} : \A e \in LiveEvents(thread[u]) : EventState(e)'
    BY <1>14
  <1> QED
    BY <1>5, <1>8, <1>10, <1>11, <1>13, <1>15, <1>16, <1>17, <1>18, <1>19, <1>20, <1>21,
       KernelStep

(* The event that epoll_wait returns for a descriptor. *)
Reported(f) ==
    LET c == IF f = server_fd THEN None ELSE desc[f]
    IN  [fd |-> f, hup |-> HungUp(c), conn |-> c]

LEMMA ReportedProperties ==
  ASSUME TypeOK, NEW f \in Fds \cup {server_fd}
  PROVE  /\ Reported(f) \in Event /\ Reported(f).fd = f
         /\ f = server_fd => ~Reported(f).hup
         /\ f # server_fd => /\ Reported(f).conn = desc[f]
                             /\ Reported(f).hup <=> HungUp(desc[f])
  <1>1. PICK c : c = IF f = server_fd THEN None ELSE desc[f]
    OBVIOUS
  <1>2. c \in Clients \cup {None}
    BY <1>1 DEF TypeOK
  <1>3. PICK b \in BOOLEAN : b = HungUp(c)
    BY DEF HungUp
  <1>4. Reported(f) = [fd |-> f, hup |-> b, conn |-> c]
    BY <1>1, <1>3 DEF Reported
  <1>5. Reported(f).fd = f /\ Reported(f).conn = c /\ (Reported(f).hup <=> HungUp(c))
    <2>1. Reported(f).fd = f /\ Reported(f).conn = c /\ Reported(f).hup = b
      BY <1>4
    <2> QED
      BY <1>3, <2>1, Zenon
  <1>6. Reported(f) \in Event
    BY <1>2, <1>4 DEF Event
  <1>7. f = server_fd => ~HungUp(c)
    BY <1>1 DEF HungUp
  <1>8. f # server_fd => c = desc[f]
    BY <1>1
  <1> QED
    BY <1>5, <1>6, <1>7, <1>8, Zenon

(* A thread takes the first n events. *)
LEMMA EpollWaitIs ==
  ASSUME Inv, NEW t \in Threads, epoll_wait(t)
  PROVE  \E n \in 1 .. Len(ready) : \E s \in Seq(Event) :
            /\ thread[t].pc = "wait"
            /\ thread' = [thread EXCEPT ![t] = WithBatch("event", s)]
            /\ Len(s) = n /\ \A i \in 1 .. n : s[i] = Reported(ready[i])
            /\ ready' = SubSeq(ready, n + 1, Len(ready))
            /\ UNCHANGED <<watched, desc, backlog>> /\ UNCHANGED clientVars
  <1>1. PICK n : n = Least(Len(ready), kMaxEvents)
    OBVIOUS
  <1> DEFINE s == [i \in 1 .. n |-> Reported(ready[i])]
  <1>2. /\ thread[t].pc = "wait" /\ n > 0
        /\ ready' = SubSeq(ready, n + 1, Len(ready))
        /\ UNCHANGED <<watched, desc, backlog>> /\ UNCHANGED clientVars
        /\ thread' = [thread EXCEPT ![t] = WithBatch("event", s)]
    BY <1>1 DEF epoll_wait, At, Goto, WithBatch, Reported
  <1>3. ready \in Seq(Fds \cup {server_fd}) /\ Len(ready) \in Nat
    BY LenProperties DEF Inv, TypeOK
  <1>4. n \in 1 .. Len(ready)
    BY <1>1, <1>2, <1>3, SizeAssumption DEF Least
  <1>5. n \in Nat /\ \A i \in 1 .. n : i \in 1 .. Len(ready)
    BY <1>3, <1>4
  <1>6. \A i \in 1 .. n : Reported(ready[i]) \in Event
    <2> TAKE i \in 1 .. n
    <2>1. ready[i] \in Fds \cup {server_fd}
      BY <1>3, <1>5, ElementOfSeq
    <2> QED
      BY <2>1, ReportedProperties DEF Inv
  <1>7. s \in Seq(Event) /\ Len(s) = n /\ \A i \in 1 .. n : s[i] = Reported(ready[i])
    <2>1. s \in [1 .. n -> Event]
      BY <1>6
    <2>2. \A i \in 1 .. n : s[i] = Reported(ready[i])
      OBVIOUS
    <2>3. s \in Seq(Event)
      BY <1>5, <2>1
    <2>4. Len(s) = n
      BY <1>5
    <2> QED
      BY <2>2, <2>3, <2>4
  <1> HIDE DEF s
  <1> QED
    BY <1>2, <1>4, <1>7

LEMMA EpollWaitStep ==
  ASSUME Inv, NEW t \in Threads, epoll_wait(t)
  PROVE  Inv'
  <1>1. PICK n \in 1 .. Len(ready), s \in Seq(Event) :
            /\ thread[t].pc = "wait"
            /\ thread' = [thread EXCEPT ![t] = WithBatch("event", s)]
            /\ Len(s) = n /\ \A i \in 1 .. n : s[i] = Reported(ready[i])
            /\ ready' = SubSeq(ready, n + 1, Len(ready))
            /\ UNCHANGED <<watched, desc, backlog>> /\ UNCHANGED clientVars
    BY EpollWaitIs
  <1>2. ready \in Seq(Fds \cup {server_fd}) /\ Len(ready) \in Nat
        /\ \A i \in 1 .. Len(ready) : ready[i] \in Fds \cup {server_fd}
    BY LenProperties, ElementOfSeq DEF Inv, TypeOK
  <1>3. n \in Nat /\ n # 0 /\ \A i \in 1 .. n : i \in 1 .. Len(ready)
    BY <1>2
  <1>4. /\ ready' \in Seq(Fds \cup {server_fd})
        /\ Len(ready') = Len(ready) - n
        /\ \A i \in 1 .. Len(ready) - n : ready'[i] = ready[n + i] /\ n + i \in 1 .. Len(ready)
    BY <1>1, <1>2, <1>3, SubSeqProperties
  <1> DEFINE q == WithBatch("event", s)
  <1>5. q \in Thread /\ q.pc = "event" /\ q.events = s /\ q.done = FALSE
    <2>1. "event" \in Pcs
      BY DEF Pcs
    <2> QED
      BY <2>1, IdleWith, Zenon
  <1> HIDE DEF q
  <1>6. \A i, j \in 1 .. Len(ready) : ready[i] = ready[j] => i = j
    BY DEF Inv, ReadyList
  <1>7. \A i \in 1 .. n : /\ s[i].fd = ready[i]
                          /\ ready[i] = server_fd => ~s[i].hup
                          /\ ready[i] # server_fd => /\ s[i].conn = desc[ready[i]]
                                                     /\ s[i].hup <=> HungUp(desc[ready[i]])
    <2> TAKE i \in 1 .. n
    <2>1. ready[i] \in Fds \cup {server_fd} /\ s[i] = Reported(ready[i])
      BY <1>1, <1>2, <1>3
    <2>2. TypeOK
      BY DEF Inv
    <2> QED
      BY <2>1, <2>2, ReportedProperties, Zenon
  <1>8. Locals(q)
    <2>1. /\ q.pc \notin {"accept", "add"} /\ q.pc \notin Serves \cup {"finish"}
          /\ q.pc \notin Serves /\ q.pc # "wait" /\ q.pc # "aborted"
      BY <1>5 DEF Serves
    <2>2. q.events # <<>>
      BY <1>1, <1>3, <1>5, EmptySeq
    <2>3. \A i \in 1 .. Len(q.events) : q.events[i].fd = server_fd => ~q.events[i].hup
      BY <1>1, <1>5, <1>7
    <2>4. \A i, j \in 1 .. Len(q.events) : q.events[i].fd = q.events[j].fd => i = j
      BY <1>1, <1>3, <1>5, <1>6, <1>7
    <2> QED
      BY <1>5, <2>1, <2>2, <2>3, <2>4, Zenon DEF Locals
  <1>9. \A e \in LiveEvents(q) : \E i \in 1 .. n : e = s[i] /\ ready[i] # server_fd
    BY <1>1, <1>5, <1>7 DEF LiveEvents
  <1>10. KeepsServing(t, q)
    BY <1>1, <1>5, ServesNobody DEF Serves
  <1>11. \A f : ~Listed(f) => ~Listed(f)'
    BY <1>4 DEF Listed
  <1>12. ASSUME NEW e \in LiveEvents(q) PROVE EventState(e)' /\ Listed(e.fd)
    <2>1. PICK i \in 1 .. n : e = s[i] /\ ready[i] # server_fd
      BY <1>9
    <2>2. i \in 1 .. Len(ready)
      BY <1>3
    <2>3. /\ ready[i] \in watched /\ ready[i] \in Fds
          /\ desc[ready[i]] \in Clients /\ Pending(desc[ready[i]])
      BY <2>1, <2>2, ListedDesignate
    <2>4. e.fd = ready[i] /\ e.conn = desc[ready[i]] /\ (e.hup <=> HungUp(desc[ready[i]]))
      BY <1>7, <2>1
    <2>5. PICK c \in Clients : c = e.conn
      BY <2>3, <2>4
    <2>6. c # None /\ Pending(c) /\ (e.hup <=> HungUp(c))
      BY <2>3, <2>4, <2>5, NoneAssumption
    <2>7. e.hup => client[c] = "closed"
      BY <2>6, Zenon DEF HungUp
    <2>8. ~e.hup => Owed(c)
      BY <2>6, Zenon DEF HungUp, Pending
    <2>9. SameClient(c) /\ (Owed(c)' <=> Owed(c))
      BY <1>1, PendingFrame
    <2>10. ~Listed(e.fd)'
      <3> SUFFICES ASSUME NEW j \in 1 .. Len(ready'), ready'[j] = e.fd PROVE FALSE
        BY DEF Listed
      <3>1. j \in 1 .. Len(ready) - n
        BY <1>4
      <3>2. ready'[j] = ready[n + j] /\ n + j \in 1 .. Len(ready)
        BY <1>4, <3>1
      <3>3. n + j = i
        BY <1>6, <2>2, <2>4, <3>2
      <3> QED
        BY <1>2, <1>3, <3>1, <3>3
    <2>11. Listed(e.fd)
      BY <2>2, <2>4 DEF Listed
    <2>12. e.fd \in watched' /\ desc'[e.fd] = e.conn
      BY <1>1, <2>3, <2>4
    <2>13. client'[c] = client[c]
      BY <2>9 DEF SameClient
    <2>14. EventState(e)'
      BY <2>5, <2>7, <2>8, <2>9, <2>10, <2>12, <2>13, Zenon DEF EventState
    <2> QED
      BY <2>11, <2>14
  <1>13. ASSUME NEW u \in Threads, NEW e \in LiveEvents(thread[u])
         PROVE  EventState(e)' /\ ~Listed(e.fd)
    <2>1. /\ EventState(e) /\ e.fd \in watched /\ e.conn \in Clients /\ ~Listed(e.fd)
      BY LiveState
    <2>2. e.fd \in watched' /\ desc'[e.fd] = desc[e.fd]
      BY <1>1, <2>1
    <2>3. ~Listed(e.fd)'
      BY <1>11, <2>1
    <2>4. SameClient(e.conn)
      BY <1>1, <2>1, PendingFrame
    <2> QED
      BY <2>1, <2>2, <2>3, <2>4, EventFrame
  <1>14. \A u \in Threads \ {t} : \A e \in LiveEvents(thread[u]), g \in LiveEvents(q) :
             e.fd # g.fd
    BY <1>12, <1>13
  <1>15. ReadyList'
    <2>1. ASSUME NEW i \in 1 .. Len(ready'), ready'[i] # server_fd
          PROVE  ready'[i] \in watched' /\ Pending(desc[ready[i]])'
      <3>1. ready'[i] = ready[n + i] /\ n + i \in 1 .. Len(ready)
        BY <1>4
      <3>2. PICK d \in Clients : d = desc'[ready'[i]] /\ Pending(d) /\ ready'[i] \in watched'
        BY <1>1, <2>1, <3>1, ListedDesignate
      <3>3. Pending(d)'
        BY <1>1, <3>2, PendingFrame
      <3> QED
        BY <3>2, <3>3
    <2>2. \A i, j \in 1 .. Len(ready') : ready'[i] = ready'[j] => i = j
      <3> TAKE i, j \in 1 .. Len(ready')
      <3>1. /\ ready'[i] = ready[n + i] /\ n + i \in 1 .. Len(ready)
            /\ ready'[j] = ready[n + j] /\ n + j \in 1 .. Len(ready)
        BY <1>4
      <3>2. ready[n + i] = ready[n + j] => n + i = n + j
        BY <1>6, <3>1
      <3> QED
        BY <1>3, <3>1, <3>2
    <2> QED
      BY <2>1, <2>2 DEF ReadyList
  <1>16. Places'
    <2>1. UNCHANGED client
      BY <1>1 DEF clientVars
    <2> QED
      BY <1>1, <2>1 DEF Inv, Places
  <1>17. Adding'
    <2>1. thread'[t] = q /\ \A u \in Threads \ {t} : thread'[u] = thread[u]
      BY <1>1 DEF Inv, TypeOK, q
    <2>2. \A u \in Threads : thread'[u].pc = "add" => u # t /\ thread'[u] = thread[u]
      BY <1>5, <2>1
    <2> QED
      BY <1>1, <2>2 DEF Inv, Adding
  <1>18. watched' \subseteq Fds /\ desc' \in [Fds -> Clients \cup {None}]
         /\ backlog' \in Seq(Clients)
    BY <1>1 DEF Inv, TypeOK
  <1>19. \A u \in Threads \ {t} : \A e \in LiveEvents(thread[u]) : EventState(e)'
    BY <1>13
  <1>20. \A e \in LiveEvents(q) : EventState(e)'
    BY <1>12
  <1>21. thread' = [thread EXCEPT ![t] = q] /\ UNCHANGED clientVars
    BY <1>1 DEF q
  <1> QED
    BY <1>4, <1>5, <1>8, <1>10, <1>14, <1>15, <1>16, <1>17, <1>18, <1>19, <1>20, <1>21,
       KernelStep

-----------------------------------------------------------------------------
(* Serving a connection.                                                   *)

(* The thread that serves c reads from it or writes to it. *)
LEMMA ServeStep ==
  ASSUME Inv, NEW t \in Threads, NEW c \in Clients, Serving(t, c),
         NEW q \in Thread, Locals(q), q.events = thread[t].events,
         thread' = [thread EXCEPT ![t] = q], UNCHANGED kernelVars,
         UNCHANGED <<client, asked, got>>,
         inbox' \in [Clients -> Seq(Unit)], outbox' \in [Clients -> Seq(Part)],
         \A d \in Clients \ {c} : SameClient(d),
         InOrder(c, got'[c] \o outbox'[c]),
         \/ q.pc \in Serves /\ Owed(c)' /\ Stage(q, c)'
         \/ q.pc = "finish" /\ Paid(c)' /\ outbox'[c] # <<>>
  PROVE  Inv'
  <1>1. UNCHANGED <<ready, watched, desc, backlog>>
    BY DEF kernelVars
  <1>2. TypeOK
    BY DEF Inv
  <1>3. thread'[t] = q /\ \A u \in Threads \ {t} : thread'[u] = thread[u]
    BY <1>2 DEF TypeOK
  <1>4. /\ thread[t] \in Thread /\ Locals(thread[t])
        /\ thread[t].pc \in Serves /\ thread[t].events[1].conn = c
    BY ThreadOf DEF Serving
  <1>5. thread[t].pc # "finish"
    BY <1>4 DEF Serves
  <1>6. PICK e0 : e0 = thread[t].events[1]
    OBVIOUS
  <1>7. /\ e0 \in LiveEvents(thread[t]) /\ e0.conn = c /\ e0.fd \in Fds
        /\ desc[e0.fd] = c /\ Owed(c) /\ ~Listed(e0.fd) /\ c # None
    BY <1>6, ServedIsLive, LiveState, NoneAssumption
  <1>8. LiveEvents(q) \subseteq LiveEvents(thread[t])
    <2>1. CASE q.pc \in Serves
      <3>1. q.pc # "finish"
        BY <2>1 DEF Serves
      <3> QED
        BY <1>5, <3>1, LiveSame
    <2>2. CASE q.pc = "finish"
      BY <1>4, <1>5, <2>2, LiveFinish
    <2> QED
      BY <2>1, <2>2
  <1>9. \A u \in Threads : LiveEvents(thread'[u]) \subseteq LiveEvents(thread[u])
    BY <1>3, <1>8
  <1>10. Apart'
    BY <1>9 DEF Inv, Apart
  <1>11. TypeOK'
    BY <1>1, <1>2 DEF TypeOK
  <1>12. \A u \in Threads : Locals(thread'[u])
    BY <1>3 DEF Inv
  <1>13. ASSUME NEW f \in Fds, desc[f] = c PROVE f = e0.fd
    BY <1>7, <1>13 DEF Inv, Places
  <1>14. \A f : Listed(f)' <=> Listed(f)
    BY <1>1 DEF Listed
  <1>15. ASSUME NEW u \in Threads, NEW e \in LiveEvents(thread'[u])
         PROVE  EventState(e)'
    <2>1. e \in LiveEvents(thread[u])
      BY <1>9
    <2>2. /\ EventState(e) /\ e.fd \in Fds /\ e.fd \in watched /\ e.conn \in Clients
          /\ desc[e.fd] = e.conn /\ ~Listed(e.fd)
      BY <2>1, LiveState
    <2>3. CASE e.conn # c
      BY <1>1, <1>14, <2>2, <2>3, EventFrame
    <2>4. CASE e.conn = c
      <3>1. e.fd = e0.fd
        BY <1>13, <2>2, <2>4
      <3>2. u = t
        BY <1>7, <2>1, <3>1 DEF Inv, Apart
      <3>3. q.pc # "finish"
        <4> SUFFICES ASSUME q.pc = "finish" PROVE FALSE
          OBVIOUS
        <4>1. \A g \in LiveEvents(q) : g.fd # thread[t].events[1].fd
          BY <1>4, <1>5, LiveFinish
        <4>2. e \in LiveEvents(q)
          BY <1>3, <1>15, <3>2
        <4> QED
          BY <1>6, <3>1, <4>1, <4>2
      <3>4. Owed(c)'
        BY <3>3
      <3>5. client[c] = "waiting"
        BY <1>7 DEF Owed
      <3>6. ~e.hup
        <4>1. e.hup => client[c] = "closed"
          BY <2>2, <2>4, Zenon DEF EventState
        <4>2. client[c] # "closed"
          BY <3>5
        <4> QED
          BY <4>1, <4>2, Zenon
      <3>7. e.fd \in watched' /\ desc'[e.fd] = e.conn /\ ~Listed(e.fd)'
        BY <1>1, <1>14, <2>2
      <3> QED
        BY <2>2, <2>4, <3>4, <3>6, <3>7, Zenon DEF EventState
    <2> QED
      BY <2>3, <2>4
  <1>16. \A d \in Clients : ClientState(d)'
    <2>1. \A d \in Clients \ {c} : ClientState(d)'
      BY ClientFrame DEF Inv
    <2>2. ClientState(c)'
      <3>1. ClientState(c) /\ client[c] = "waiting"
        BY <1>7 DEF Inv, Owed
      <3> QED
        BY <3>1 DEF ClientState
    <2> QED
      BY <2>1, <2>2
  <1>17. ReadyList'
    <2>1. ASSUME NEW i \in 1 .. Len(ready), ready[i] # server_fd
          PROVE  ready[i] \in watched' /\ Pending(desc[ready[i]])'
      <3>1. PICK d \in Clients : d = desc[ready[i]] /\ Pending(d) /\ ready[i] \in watched
                                 /\ ready[i] \in Fds
        BY <2>1, ListedDesignate
      <3>2. d # c
        BY <1>7, <1>13, <3>1 DEF Listed
      <3>3. Pending(d)'
        BY <3>1, <3>2, ClientFrame
      <3>4. desc'[ready'[i]] = d
        BY <1>1, <3>1
      <3> QED
        BY <1>1, <3>1, <3>3, <3>4
    <2> QED
      BY <1>1, <2>1 DEF Inv, ReadyList
  <1>18. Places'
    BY <1>1 DEF Inv, Places
  <1>19. Adding'
    <2>1. q.pc # "add"
      BY DEF Serves
    <2>2. \A u \in Threads : thread'[u].pc = "add" => u # t /\ thread'[u] = thread[u]
      BY <1>3, <2>1
    <2> QED
      BY <1>1, <2>2 DEF Inv, Adding
  <1>20. Stages'
    <2>1. \A u \in Threads \ {t} : ~Serving(u, c)
      BY <1>7, OneServer
    <2>2. ASSUME NEW u \in Threads, NEW d \in Clients, Serving(u, d)'
          PROVE  Stage(thread[u], d)'
      <3>1. CASE u = t
        <4>1. q.pc \in Serves /\ q.events[1].conn = d
          BY <1>3, <2>2, <3>1 DEF Serving
        <4>2. d = c
          BY <1>4, <4>1
        <4>3. q.pc # "finish"
          BY <4>1 DEF Serves
        <4>4. Stage(q, c)'
          BY <4>3
        <4> QED
          BY <1>3, <3>1, <4>2, <4>4 DEF Stage
      <3>2. CASE u # t
        <4>1. Serving(u, d) /\ Stage(thread[u], d)
          BY <1>3, <2>2, <3>2 DEF Serving, Inv, Stages
        <4>2. d # c
          BY <2>1, <3>2, <4>1
        <4> QED
          BY <1>3, <3>2, <4>1, <4>2, ClientFrame, ZenonT(40) DEF Stage
      <3> QED
        BY <3>1, <3>2
    <2>3. ASSUME NEW d \in Clients, Owed(d)', \A u \in Threads : ~Serving(u, d)'
          PROVE  inbox'[d] = Request(d)'
      <3>1. d # c
        <4>1. q.pc \in Serves => Serving(t, c)'
          BY <1>3, <1>4 DEF Serving
        <4>2. outbox'[c] # <<>> => ~Owed(c)'
          BY DEF Owed
        <4> QED
          BY <2>3, <4>1, <4>2
      <3>2. \A u \in Threads : ~Serving(u, d)
        <4> TAKE u \in Threads
        <4>1. CASE u = t
          BY <1>4, <3>1, <4>1 DEF Serving
        <4>2. CASE u # t
          BY <1>3, <2>3, <4>2 DEF Serving
        <4> QED
          BY <4>1, <4>2
      <3>3. Owed(d) /\ Request(d)' = Request(d) /\ inbox'[d] = inbox[d]
        BY <2>3, <3>1, ClientFrame DEF SameClient
      <3> QED
        BY <3>2, <3>3 DEF Inv, Stages
    <2> QED
      BY <2>2, <2>3 DEF Stages
  <1>21. OwnResponsesInOrder'
    <2>1. \A d \in Clients \ {c} : got'[d] \o outbox'[d] = got[d] \o outbox[d]
      BY DEF SameClient
    <2>2. \A d \in Clients : InOrder(d, got[d] \o outbox[d])
      BY InOrderIs DEF Inv
    <2>3. \A d \in Clients : InOrder(d, got'[d] \o outbox'[d])
      BY <2>1, <2>2
    <2> QED
      BY <2>3, InOrderIs
  <1> QED
    BY <1>10, <1>11, <1>12, <1>15, <1>16, <1>17, <1>18, <1>19, <1>20, <1>21 DEF Inv

(* A thread at a control point of a request serves a client. *)
LEMMA ServesSomebody ==
  ASSUME Inv, NEW t \in Threads, thread[t].pc \in Serves
  PROVE  \E c \in Clients : Serving(t, c) /\ c = desc[FdOf(t)] /\ Owed(c) /\ c # None
  <1>1. thread[t] \in Thread /\ Locals(thread[t])
    BY ThreadOf
  <1>2. thread[t].events[1].fd # server_fd /\ thread[t].pc # "wait" /\ thread[t].pc # "finish"
    BY <1>1 DEF Locals, Serves
  <1>3. thread[t].events[1] \in LiveEvents(thread[t])
    BY <1>1, <1>2, CurrentIsLive
  <1>4. PICK c \in Clients : c = thread[t].events[1].conn
    BY <1>3, LiveState
  <1>5. Serving(t, c)
    BY <1>4 DEF Serving
  <1>6. desc[FdOf(t)] = c /\ Owed(c) /\ c # None
    BY <1>5, ServedIsLive, NoneAssumption
  <1> QED
    BY <1>5, <1>6

(* A request that was read in part. *)
LEMMA SplitRead ==
  ASSUME NEW b \in Seq(Unit), NEW i \in Seq(Unit), NEW k \in 1 .. Len(i)
  PROVE  /\ b \o SubSeq(i, 1, k) \in Seq(Unit)
         /\ SubSeq(i, k + 1, Len(i)) \in Seq(Unit)
         /\ (b \o SubSeq(i, 1, k)) \o SubSeq(i, k + 1, Len(i)) = b \o i
  <1>1. Len(b) \in Nat /\ Len(i) \in Nat /\ k \in Nat
    BY LenProperties
  <1> DEFINE x == SubSeq(i, 1, k)
             y == SubSeq(i, k + 1, Len(i))
  <1>2. x \in Seq(Unit) /\ Len(x) = k /\ \A j \in 1 .. k : x[j] = i[j]
    BY <1>1, SubSeqProperties
  <1>3. /\ y \in Seq(Unit) /\ Len(y) = Len(i) - k
        /\ \A j \in 1 .. Len(i) - k : y[j] = i[k + j]
    BY <1>1, SubSeqProperties
  <1> HIDE DEF x, y
  <1> DEFINE bx == b \o x
             z == bx \o y
             w == b \o i
  <1>4. /\ bx \in Seq(Unit) /\ Len(bx) = Len(b) + k
        /\ \A j \in 1 .. Len(b) + k : bx[j] = IF j <= Len(b) THEN b[j] ELSE x[j - Len(b)]
    BY <1>2, ConcatProperties
  <1> HIDE DEF bx
  <1>5. /\ z \in Seq(Unit) /\ Len(z) = Len(b) + k + (Len(i) - k)
        /\ \A j \in 1 .. Len(b) + k + (Len(i) - k) :
               z[j] = IF j <= Len(b) + k THEN bx[j] ELSE y[j - (Len(b) + k)]
    <2>1. /\ z \in Seq(Unit) /\ Len(z) = Len(bx) + Len(y)
          /\ \A j \in 1 .. Len(bx) + Len(y) :
                 z[j] = IF j <= Len(bx) THEN bx[j] ELSE y[j - Len(bx)]
      BY <1>3, <1>4, ConcatProperties, Zenon
    <2> HIDE DEF z
    <2> QED
      BY <1>3, <1>4, <2>1, Zenon
  <1>6. /\ w \in Seq(Unit) /\ Len(w) = Len(b) + Len(i)
        /\ \A j \in 1 .. Len(b) + Len(i) : w[j] = IF j <= Len(b) THEN b[j] ELSE i[j - Len(b)]
    BY ConcatProperties
  <1> HIDE DEF z, w
  <1>7. Len(z) = Len(w) /\ Len(w) = Len(b) + Len(i)
    BY <1>1, <1>5, <1>6
  <1>8. \A j \in 1 .. Len(w) : z[j] = w[j]
    <2> TAKE j \in 1 .. Len(w)
    <2>1. j \in Nat /\ j \in 1 .. Len(b) + Len(i) /\ j \in 1 .. Len(b) + k + (Len(i) - k)
      BY <1>1, <1>7
    <2>2. CASE j <= Len(b)
      BY <1>1, <1>4, <1>5, <1>6, <2>1, <2>2, SMTT(30)
    <2>3. CASE j > Len(b) /\ j <= Len(b) + k
      <3>1. j - Len(b) \in 1 .. k /\ j \in 1 .. Len(b) + k
        BY <1>1, <2>1, <2>3
      <3>2. z[j] = bx[j] /\ bx[j] = x[j - Len(b)] /\ w[j] = i[j - Len(b)]
        BY <1>1, <1>4, <1>5, <1>6, <2>1, <2>3, <3>1
      <3> QED
        BY <1>2, <3>1, <3>2
    <2>4. CASE j > Len(b) + k
      <3>1. /\ j - (Len(b) + k) \in 1 .. Len(i) - k
            /\ k + (j - (Len(b) + k)) = j - Len(b)
        BY <1>1, <2>1, <2>4
      <3>2. z[j] = y[j - (Len(b) + k)] /\ w[j] = i[j - Len(b)]
        BY <1>1, <1>5, <1>6, <2>1, <2>4
      <3> QED
        BY <1>3, <3>1, <3>2
    <2> QED
      BY <1>1, <2>1, <2>2, <2>3, <2>4
  <1>9. z = w
    BY <1>5, <1>6, <1>7, <1>8, SeqEqual
  <1> QED
    BY <1>3, <1>4, <1>9 DEF x, y, bx, z, w

LEMMA ReadStep ==
  ASSUME Roomy, Inv, NEW t \in Threads, read(t)
  PROVE  Inv'
  <1>1. PICK r : r = thread[t]
    OBVIOUS
  <1>2. r \in Thread /\ Locals(r) /\ r.pc = "read" /\ r.pc \in Serves
    BY <1>1, ThreadOf DEF read, At, Serves
  <1>3. PICK c \in Clients : Serving(t, c) /\ c = desc[FdOf(t)] /\ Owed(c) /\ c # None
    BY <1>1, <1>2, ServesSomebody
  <1>4. r.buffer \o inbox[c] = Request(c)
    BY <1>1, <1>2, <1>3 DEF Inv, Stages, Stage
  <1>5. PICK box : box = inbox[c]
    OBVIOUS
  <1>6. r.buffer \in Seq(Unit) /\ box \in Seq(Unit) /\ Len(r.buffer) \in Nat /\ Len(box) \in Nat
    BY <1>2, <1>5, ThreadFields, LenProperties DEF Inv, TypeOK
  <1>7. Len(r.buffer) + Len(box) = RequestSize
    <2>1. Len(r.buffer \o box) = Len(r.buffer) + Len(box)
      BY <1>6, ConcatProperties, Zenon
    <2>2. Len(Request(c)) = RequestSize
      BY <1>3, RequestProperties
    <2> QED
      BY <1>4, <1>5, <2>1, <2>2
  <1>8. PICK room : room = kBufferWrittableSize - Len(r.buffer)
    OBVIOUS
  <1>9. room \in Nat /\ room > 0
    BY <1>6, <1>7, <1>8, SizeAssumption DEF Roomy
  <1>10. PICK count : count = Least(room, Len(box))
    OBVIOUS
  <1>11. count \in 0 .. Len(box) /\ (count = 0 <=> Len(box) = 0)
    BY <1>6, <1>9, <1>10 DEF Least
  <1>12. UNCHANGED kernelVars /\ UNCHANGED <<client, asked, outbox, got>>
    BY DEF read
  <1>13. CASE Len(box) = 0
    <2>1. PICK q : q = [r EXCEPT !.pc = "process", !.done = FALSE]
      OBVIOUS
    <2>2. r.done = FALSE
      BY <1>2 DEF Locals
    <2>3. box = <<>> /\ count = 0 /\ r.buffer = Request(c) /\ r.buffer # <<>>
      <3>1. box = <<>> /\ count = 0
        BY <1>6, <1>11, <1>13, EmptySeq
      <3>2. r.buffer \o box = r.buffer
        BY <1>6, <3>1
      <3> QED
        BY <1>3, <1>4, <1>5, <3>1, <3>2, RequestProperties
    <2>4. thread' = [thread EXCEPT ![t] = q] /\ inbox' = inbox
      <3>1. ~(c = None) /\ ~(room = 0) /\ ~HungUp(c)
        BY <1>3, <1>9 DEF HungUp, Owed
      <3>2. /\ Goto(t, [r EXCEPT !.pc = IF r.buffer = <<>> THEN "finish" ELSE "process",
                                 !.done = @ \/ c = None \/ room = 0 \/ HungUp(c)])
            /\ inbox' = inbox
        BY <1>1, <1>3, <1>5, <1>8, <1>10, <2>3 DEF read
      <3>3. (r.done \/ c = None \/ room = 0 \/ HungUp(c)) = FALSE
        BY <2>2, <3>1, Zenon
      <3>4. [r EXCEPT !.pc = IF r.buffer = <<>> THEN "finish" ELSE "process",
                      !.done = @ \/ c = None \/ room = 0 \/ HungUp(c)]
              = [r EXCEPT !.pc = "process", !.done = FALSE]
        BY <1>2, <2>3, <3>3 DEF Thread
      <3> QED
        BY <2>1, <3>2, <3>4 DEF Goto
    <2>5. q \in Thread /\ q.pc = "process" /\ q.events = r.events /\ q.buffer = r.buffer
          /\ q.done = FALSE
      BY <1>2, <2>1 DEF Thread, Pcs
    <2>6. Locals(q)
      <3>1. q.pc \in Serves /\ q.pc # "wait" /\ q.pc # "aborted" /\ q.pc \notin {"accept", "add"}
            /\ r.pc # "wait"
        BY <1>2, <2>5 DEF Serves
      <3> QED
        BY <1>2, <2>5, <3>1, Zenon DEF Locals
    <2>7. LiveEvents(q) = LiveEvents(r)
      BY <1>2, <2>5, LiveSame
    <2>8. KeepsServing(t, q)
      <3>1. q.pc \in Serves /\ q.events[1].conn = c
        BY <1>1, <1>3, <2>5 DEF Serves, Serving
      <3>2. \A d \in Clients : Serving(t, d) => d = c
        BY <1>3 DEF Serving
      <3>3. Stage(q, c)
        BY <1>5, <2>3, <2>5 DEF Stage
      <3> QED
        BY <3>1, <3>2, <3>3 DEF KeepsServing
    <2>9. q.pc # "add"
      BY <2>5
    <2>10. UNCHANGED <<kernelVars, clientVars>>
      BY <1>12, <2>4 DEF clientVars
    <2> QED
      BY <1>1, <2>4, <2>5, <2>6, <2>7, <2>8, <2>9, <2>10, QuietStep
  <1>14. CASE Len(box) # 0
    <2>1. PICK b : b = r.buffer \o SubSeq(box, 1, count)
      OBVIOUS
    <2>2. PICK rest : rest = SubSeq(box, count + 1, Len(box))
      OBVIOUS
    <2>3. PICK q : q = [r EXCEPT !.buffer = b]
      OBVIOUS
    <2>4. count \in 1 .. Len(box) /\ count > 0
      BY <1>6, <1>11, <1>14
    <2>5. b \in Seq(Unit) /\ rest \in Seq(Unit) /\ b \o rest = r.buffer \o box
      BY <1>6, <2>1, <2>2, <2>4, SplitRead
    <2>6. /\ thread' = [thread EXCEPT ![t] = q]
          /\ inbox' = [inbox EXCEPT ![c] = rest]
      <3>1. /\ Goto(t, [r EXCEPT !.buffer = @ \o SubSeq(inbox[c], 1, count)])
            /\ inbox' = [inbox EXCEPT ![c] = SubSeq(@, count + 1, Len(@))]
        BY <1>1, <1>3, <1>5, <1>8, <1>10, <2>4 DEF read
      <3> QED
        BY <1>2, <1>5, <2>1, <2>2, <2>3, <3>1 DEF Goto, Thread
    <2>7. /\ inbox'[c] = rest /\ \A d \in Clients \ {c} : inbox'[d] = inbox[d]
          /\ inbox' \in [Clients -> Seq(Unit)] /\ outbox' \in [Clients -> Seq(Part)]
      BY <1>12, <2>5, <2>6 DEF Inv, TypeOK
    <2>8. q \in Thread /\ q.pc = "read" /\ q.events = r.events /\ q.buffer = b
          /\ q.done = r.done
      BY <1>2, <2>3, <2>5 DEF Thread
    <2>9. Locals(q)
      BY <1>2, <2>8, Zenon DEF Locals
    <2>10. Owed(c)'
      BY <1>3, <1>12 DEF Owed, Complete
    <2>11. Stage(q, c)'
      <3>1. Request(c)' = Request(c)
        BY <1>12 DEF Request
      <3> QED
        BY <1>4, <1>5, <2>5, <2>7, <2>8, <3>1 DEF Stage
    <2>12. \A d \in Clients \ {c} : SameClient(d)
      BY <1>12, <2>7 DEF SameClient
    <2>13. InOrder(c, got'[c] \o outbox'[c])
      BY <1>12, InOrderIs DEF Inv
    <2>14. q.pc \in Serves
      BY <2>8 DEF Serves
    <2> QED
      BY <1>1, <1>3, <1>12, <2>6, <2>7, <2>8, <2>9, <2>10, <2>11, <2>12, <2>13, <2>14,
         ServeStep
  <1> QED
    BY <1>13, <1>14

(* A response after the ones before it keeps them in their order. *)
LEMMA InOrderJoin ==
  ASSUME NEW c, NEW n, NEW s \in Seq(Part), NEW p \in Seq(Part), InOrder(c, s),
         n = Complete(s) + 1,
         \A j \in 1 .. Len(p) : p[j].client = c /\ p[j].n = n,
         NEW m \in 1 .. Len(p), \A j \in 1 .. Len(p) : p[j].part \in Ends <=> j = m
  PROVE  InOrder(c, s \o p)
  <1>1. /\ s \o p \in Seq(Part)
        /\ Len(s) \in Nat /\ Len(p) \in Nat
        /\ Len(s \o p) = Len(s) + Len(p)
        /\ \A k \in 1 .. Len(s) : (s \o p)[k] = s[k]
        /\ \A j \in 1 .. Len(p) : (s \o p)[Len(s) + j] = p[j]
        /\ \A k \in 1 .. Len(s) + Len(p) :
               k \in 1 .. Len(s) \/ \E j \in 1 .. Len(p) : k = Len(s) + j
    BY JoinProperties
  <1> SUFFICES ASSUME NEW i \in 1 .. Len(s \o p)
               PROVE  /\ (s \o p)[i].client = c
                      /\ (s \o p)[i].part \in Ends
                             => (s \o p)[i].n = Complete(SubSeq(s \o p, 1, i))
    BY DEF InOrder
  <1>2. i \in 0 .. Len(s \o p) /\ i \in 1 .. Len(s) + Len(p)
    BY <1>1
  <1>3. CASE i \in 1 .. Len(s)
    <2>1. (s \o p)[i] = s[i] /\ i <= Len(s)
      BY <1>1, <1>3
    <2>2. Complete(SubSeq(s \o p, 1, i)) = Complete(SubSeq(s, 1, i))
      BY <1>2, <2>1, EndsOfJoin
    <2>3. /\ s[i].client = c
          /\ s[i].part \in Ends => s[i].n = Complete(SubSeq(s, 1, i))
      BY <1>3 DEF InOrder
    <2> QED
      BY <2>1, <2>2, <2>3
  <1>4. ASSUME NEW j \in 1 .. Len(p), i = Len(s) + j
        PROVE  /\ (s \o p)[i].client = c
               /\ (s \o p)[i].part \in Ends
                      => (s \o p)[i].n = Complete(SubSeq(s \o p, 1, i))
    <2>1. (s \o p)[i] = p[j]
      BY <1>1, <1>4
    <2>2. CASE j = m
      <3>1. Len(s) + m <= i
        BY <1>1, <1>4, <2>2
      <3>2. Complete(SubSeq(s \o p, 1, i)) = Complete(s) + 1
        BY <1>2, <3>1, EndsOfJoin
      <3> QED
        BY <2>1, <3>2
    <2>3. CASE j # m
      BY <2>1, <2>3
    <2> QED
      BY <2>2, <2>3
  <1> QED
    BY <1>1, <1>2, <1>3, <1>4

LEMMA WriteStep ==
  ASSUME Roomy, Inv, NEW t \in Threads, write(t)
  PROVE  Inv'
  <1>1. PICK r : r = thread[t]
    OBVIOUS
  <1>2. r \in Thread /\ Locals(r) /\ r.pc = "write" /\ r.pc \in Serves
    BY <1>1, ThreadOf DEF write, At, Serves
  <1>3. PICK c \in Clients : Serving(t, c) /\ c = desc[FdOf(t)] /\ Owed(c) /\ c # None
    BY <1>1, <1>2, ServesSomebody
  <1>4. PICK p : p = r.response
    OBVIOUS
  <1>5. ResponseTo(c, p) /\ inbox[c] = <<>>
    BY <1>1, <1>2, <1>3, <1>4 DEF Inv, Stages, Stage
  <1>6. p \in Seq(Part) /\ Len(p) \in 1 .. 3
    BY <1>2, <1>4, <1>5, ThreadFields DEF ResponseTo
  <1>7. outbox[c] = <<>> /\ client[c] = "waiting" /\ Complete(got[c]) = asked[c] - 1
    BY <1>3 DEF Owed
  <1>8. Least(SocketRoom - Len(outbox[c]), Len(p)) = Len(p)
    <2>1. Len(outbox[c]) = 0
      BY <1>7
    <2>2. SocketRoom - Len(outbox[c]) = SocketRoom
      BY <2>1, SizeAssumption
    <2>3. ~(SocketRoom < Len(p))
      <3>1. PICK k : k = Len(p)
        OBVIOUS
      <3>2. k \in 1 .. 3
        BY <1>6, <3>1
      <3>3. SocketRoom \in Nat /\ 3 <= SocketRoom
        BY SizeAssumption DEF Roomy
      <3>4. ~(SocketRoom < k)
        BY <3>2, <3>3
      <3> QED
        BY <3>1, <3>4
    <2> QED
      BY <2>2, <2>3 DEF Least
  <1>9. SubSeq(p, Len(p) + 1, Len(p)) = <<>> /\ outbox[c] \o SubSeq(p, 1, Len(p)) = p
    <2>1. Len(p) \in Nat /\ SubSeq(p, 1, Len(p)) \in Seq(Part)
          /\ Len(SubSeq(p, 1, Len(p))) = Len(p)
          /\ \A j \in 1 .. Len(p) : SubSeq(p, 1, Len(p))[j] = p[j]
      BY <1>6, PrefixProperties
    <2>2. SubSeq(p, 1, Len(p)) = p
      BY <1>6, <2>1, SeqEqual
    <2>3. outbox[c] \o p = p
      BY <1>6, <1>7
    <2>4. SubSeq(p, Len(p) + 1, Len(p)) = <<>>
      BY <1>6, <2>1
    <2> QED
      BY <2>2, <2>3, <2>4
  <1>10. PICK q : q = [r EXCEPT !.response = <<>>, !.pc = "finish"]
    OBVIOUS
  <1>11. /\ thread' = [thread EXCEPT ![t] = q] /\ outbox' = [outbox EXCEPT ![c] = p]
         /\ UNCHANGED kernelVars /\ UNCHANGED <<client, asked, inbox, got>>
    <2>1. /\ outbox' = [outbox EXCEPT ![c] = outbox[c] \o SubSeq(p, 1, Len(p))]
          /\ UNCHANGED kernelVars /\ UNCHANGED <<client, asked, inbox, got>>
      BY <1>1, <1>3, <1>4, <1>8 DEF write
    <2>2. Goto(t, [r EXCEPT !.response = SubSeq(p, Len(p) + 1, Len(p)),
                            !.pc = IF Len(p) > 0 /\ SubSeq(p, Len(p) + 1, Len(p)) # <<>>
                                   THEN "write" ELSE "finish"])
      BY <1>1, <1>3, <1>4, <1>8 DEF write
    <2> QED
      BY <1>9, <1>10, <2>1, <2>2 DEF Goto
  <1>12. q \in Thread /\ q.pc = "finish" /\ q.events = r.events /\ q.done = r.done
    <2>1. <<>> \in Seq(Part)
      OBVIOUS
    <2> QED
      BY <1>2, <1>10, <2>1 DEF Thread, Pcs
  <1>13. Locals(q)
    <2>1. q.pc \notin Serves /\ q.pc # "wait" /\ q.pc # "aborted"
          /\ q.pc \notin {"accept", "add"} /\ r.pc # "wait"
      BY <1>2, <1>12 DEF Serves
    <2>2. r.pc \in Serves \cup {"finish"}
      BY <1>2
    <2> QED
      BY <1>2, <1>12, <2>1, <2>2, Zenon DEF Locals
  <1>14. /\ outbox'[c] = p /\ outbox' \in [Clients -> Seq(Part)]
         /\ \A d \in Clients \ {c} : outbox'[d] = outbox[d]
         /\ inbox' \in [Clients -> Seq(Unit)]
    BY <1>6, <1>11 DEF Inv, TypeOK
  <1>15. \A d \in Clients \ {c} : SameClient(d)
    BY <1>11, <1>14 DEF SameClient
  <1>16. PICK m \in 1 .. Len(p) : \A j \in 1 .. Len(p) : p[j].part \in Ends <=> j = m
    BY <1>5 DEF ResponseTo
  <1>17. PICK g : g = got[c]
    OBVIOUS
  <1>18. PICK n : n = asked[c]
    OBVIOUS
  <1>19. g \in Seq(Part) /\ n \in Nat /\ Complete(g) = n - 1 /\ Complete(g) \in Nat
    BY <1>7, <1>17, <1>18, CompleteCounts DEF Inv, TypeOK
  <1>20. n = Complete(g) + 1
    BY <1>19
  <1>21. Complete(g \o p) = n
    BY <1>6, <1>16, <1>19, <1>20, CompleteJoin
  <1>22. got'[c] \o outbox'[c] = g \o p
    BY <1>11, <1>14, <1>17
  <1>23. InOrder(c, got'[c] \o outbox'[c])
    <2>1. InOrder(c, got[c] \o outbox[c])
      BY InOrderIs DEF Inv
    <2>2. got[c] \o outbox[c] = g
      BY <1>7, <1>17, <1>19
    <2>3. \A j \in 1 .. Len(p) : p[j].client = c /\ p[j].n = n
      BY <1>5, <1>18 DEF ResponseTo
    <2>4. InOrder(c, g \o p)
      BY <1>6, <1>16, <1>19, <1>20, <2>1, <2>2, <2>3, InOrderJoin
    <2> QED
      BY <1>22, <2>4
  <1>24. Paid(c)'
    <2>1. asked'[c] = n /\ inbox'[c] = <<>>
      BY <1>5, <1>11, <1>18
    <2>2. Complete(got'[c] \o outbox'[c]) = n
      BY <1>21, <1>22
    <2> QED
      BY <2>1, <2>2 DEF Paid, Complete
  <1>25. outbox'[c] # <<>>
    BY <1>6, <1>14
  <1>26. UNCHANGED <<client, asked, got>> /\ UNCHANGED kernelVars
    BY <1>11
  <1> QED
    BY <1>1, <1>3, <1>11, <1>12, <1>13, <1>14, <1>15, <1>23, <1>24, <1>25, <1>26, ServeStep

-----------------------------------------------------------------------------
(* The clients.                                                            *)

(* A descriptor on the ready list is there once. *)
LEMMA NotifiedProperties ==
  ASSUME Inv, NEW g \in Fds \cup {server_fd}, NEW list, list = ready \/ list = Notified(ready, g)
  PROVE  /\ list \in Seq(Fds \cup {server_fd}) /\ Len(ready) \in Nat
         /\ \A i \in 1 .. Len(list) :
               \/ i \in 1 .. Len(ready) /\ list[i] = ready[i]
               \/ i = Len(ready) + 1 /\ list[i] = g /\ ~Listed(g)
  <1>1. ready \in Seq(Fds \cup {server_fd}) /\ Len(ready) \in Nat
    BY LenProperties DEF Inv, TypeOK
  <1>2. CASE list = ready
    BY <1>1, <1>2
  <1>3. CASE list = Append(ready, g) /\ ~Listed(g)
    <2>1. /\ list \in Seq(Fds \cup {server_fd}) /\ Len(list) = Len(ready) + 1
          /\ \A i \in 1 .. Len(ready) : list[i] = ready[i]
          /\ list[Len(ready) + 1] = g
      BY <1>1, <1>3, AppendProperties
    <2>2. \A i \in 1 .. Len(list) : i \in 1 .. Len(ready) \/ i = Len(ready) + 1
      BY <1>1, <2>1
    <2> QED
      BY <1>1, <1>3, <2>1, <2>2
  <1>4. list = ready \/ (list = Append(ready, g) /\ ~Listed(g))
    BY DEF Notified, Listed
  <1> QED
    BY <1>2, <1>3, <1>4

(* A client of which nothing is pending does something, and the kernel may *)
(* list a descriptor for it.                                               *)
LEMMA ClientStep ==
  ASSUME Inv, NEW c \in Clients, ~Pending(c), UNCHANGED <<thread, watched, desc>>,
         NEW g \in Fds \cup {server_fd}, ready' = ready \/ ready' = Notified(ready, g),
         g = server_fd \/ (g \in watched /\ desc[g] = c /\ Pending(c)'),
         \A d \in Clients \ {c} : SameClient(d),
         backlog' \in Seq(Clients),
         client' \in [Clients -> {"new", "idle", "waiting", "closed"}],
         asked' \in [Clients -> Nat], inbox' \in [Clients -> Seq(Unit)],
         outbox' \in [Clients -> Seq(Part)], got' \in [Clients -> Seq(Part)],
         ClientState(c)', Owed(c)' => inbox'[c] = Request(c)',
         InOrder(c, got'[c] \o outbox'[c]), Places'
  PROVE  Inv'
  <1>1. /\ ready' \in Seq(Fds \cup {server_fd}) /\ Len(ready) \in Nat
        /\ \A i \in 1 .. Len(ready') :
              \/ i \in 1 .. Len(ready) /\ ready'[i] = ready[i]
              \/ i = Len(ready) + 1 /\ ready'[i] = g /\ ~Listed(g)
    BY NotifiedProperties
  <1>2. TypeOK'
    BY <1>1 DEF Inv, TypeOK
  <1>3. \A t \in Threads : Locals(thread'[t])
    BY DEF Inv
  <1>4. ASSUME NEW t \in Threads, NEW e \in LiveEvents(thread[t])
        PROVE  EventState(e)' /\ e.conn # c
    <2>1. /\ EventState(e) /\ e.fd \in Fds /\ e.fd \in watched /\ e.conn \in Clients
          /\ desc[e.fd] = e.conn /\ ~Listed(e.fd) /\ e.fd # server_fd
      BY LiveState
    <2>2. Pending(e.conn)
      BY <2>1 DEF EventState, Pending
    <2>3. e.conn # c /\ e.fd # g
      BY <2>1, <2>2
    <2>4. ~Listed(e.fd)'
      BY <1>1, <2>1, <2>3 DEF Listed
    <2>5. SameClient(e.conn)
      BY <2>1, <2>3
    <2>6. e.fd \in watched' /\ desc'[e.fd] = desc[e.fd]
      BY <2>1
    <2> QED
      BY <2>1, <2>3, <2>4, <2>5, <2>6, EventFrame
  <1>5. \A d \in Clients : ClientState(d)'
    BY ClientFrame DEF Inv
  <1>6. ReadyList'
    <2>1. ASSUME NEW i \in 1 .. Len(ready'), ready'[i] # server_fd
          PROVE  ready'[i] \in watched' /\ Pending(desc[ready[i]])'
      <3>1. CASE i \in 1 .. Len(ready) /\ ready'[i] = ready[i]
        <4>1. PICK d \in Clients : d = desc[ready[i]] /\ Pending(d) /\ ready[i] \in watched
          BY <2>1, <3>1, ListedDesignate
        <4>2. Pending(d)'
          BY <4>1, ClientFrame
        <4>3. desc'[ready'[i]] = d
          BY <3>1, <4>1
        <4> QED
          BY <3>1, <4>1, <4>2, <4>3
      <3>2. CASE ready'[i] = g
        <4>1. g \in watched /\ desc'[ready'[i]] = c /\ Pending(c)'
          BY <2>1, <3>2
        <4> QED
          BY <3>2, <4>1
      <3> QED
        BY <1>1, <3>1, <3>2
    <2>2. \A i, j \in 1 .. Len(ready') : ready'[i] = ready'[j] => i = j
      <3>1. \A i, j \in 1 .. Len(ready) : ready[i] = ready[j] => i = j
        BY DEF Inv, ReadyList
      <3> QED
        BY <1>1, <3>1 DEF Listed
    <2> QED
      BY <2>1, <2>2 DEF ReadyList
  <1>7. Apart'
    BY DEF Inv, Apart
  <1>8. Adding'
    BY DEF Inv, Adding
  <1>9. Stages'
    <2>1. \A u \in Threads : ~Serving(u, c)
      BY ServedIsLive DEF Pending
    <2>2. \A u \in Threads, d \in Clients : Serving(u, d)' <=> Serving(u, d)
      BY DEF Serving
    <2>3. ASSUME NEW u \in Threads, NEW d \in Clients, Serving(u, d)'
          PROVE  Stage(thread[u], d)'
      <3>1. Serving(u, d) /\ Stage(thread[u], d) /\ d # c
        BY <2>1, <2>2, <2>3 DEF Inv, Stages
      <3> QED
        BY <3>1, ClientFrame DEF Stage
    <2>4. ASSUME NEW d \in Clients, Owed(d)', \A u \in Threads : ~Serving(u, d)'
          PROVE  inbox'[d] = Request(d)'
      <3>1. CASE d = c
        BY <2>4, <3>1
      <3>2. CASE d # c
        <4>1. Owed(d) /\ Request(d)' = Request(d) /\ inbox'[d] = inbox[d]
          BY <2>4, <3>2, ClientFrame DEF SameClient
        <4> QED
          BY <2>2, <2>4, <4>1 DEF Inv, Stages
      <3> QED
        BY <3>1, <3>2
    <2> QED
      BY <2>3, <2>4 DEF Stages
  <1>10. OwnResponsesInOrder'
    <2>1. \A d \in Clients \ {c} : got'[d] \o outbox'[d] = got[d] \o outbox[d]
      BY DEF SameClient
    <2>2. \A d \in Clients : InOrder(d, got[d] \o outbox[d])
      BY InOrderIs DEF Inv
    <2>3. \A d \in Clients : InOrder(d, got'[d] \o outbox'[d])
      BY <2>1, <2>2
    <2> QED
      BY <2>3, InOrderIs
  <1>11. \A t \in Threads : \A e \in LiveEvents(thread'[t]) : EventState(e)'
    BY <1>4
  <1> QED
    BY <1>2, <1>3, <1>5, <1>6, <1>7, <1>8, <1>9, <1>10, <1>11 DEF Inv

(* NotifyConnection lists at most the descriptor of the connection. *)
LEMMA NotifyIs ==
  ASSUME Inv, NEW c \in Clients, NotifyConnection(c)
  PROVE  \E g \in Fds \cup {server_fd} :
            /\ ready' = ready \/ ready' = Notified(ready, g)
            /\ g = server_fd \/ (g \in watched /\ desc[g] = c)
  <1>1. CASE \E f \in watched : desc[f] = c
    <2>1. PICK g : g = CHOOSE f \in watched : desc[f] = c
      OBVIOUS
    <2>2. g \in watched /\ desc[g] = c
      BY <1>1, <2>1
    <2>3. g \in Fds
      BY <2>2 DEF Inv, TypeOK
    <2>4. ready' = Notified(ready, g)
      BY <1>1, <2>1 DEF NotifyConnection
    <2> QED
      BY <2>2, <2>3, <2>4
  <1>2. CASE ~ \E f \in watched : desc[f] = c
    BY <1>2 DEF NotifyConnection
  <1> QED
    BY <1>1, <1>2

LEMMA ConnectStep ==
  ASSUME Inv, NEW c \in Clients, Connect(c)
  PROVE  Inv'
  <1>1. /\ client[c] = "new" /\ client' = [client EXCEPT ![c] = "idle"]
        /\ backlog' = Append(backlog, c) /\ ready' = Notified(ready, server_fd)
        /\ UNCHANGED <<thread, watched, desc, asked, inbox, outbox, got>>
    BY DEF Connect
  <1>2. /\ client'[c] = "idle" /\ \A d \in Clients \ {c} : client'[d] = client[d]
        /\ client' \in [Clients -> {"new", "idle", "waiting", "closed"}]
    BY <1>1 DEF Inv, TypeOK
  <1>3. ~Pending(c) /\ ~Owed(c) /\ ~Owed(c)'
    BY <1>1, <1>2 DEF Pending, Owed
  <1>4. \A d \in Clients \ {c} : SameClient(d)
    BY <1>1, <1>2 DEF SameClient
  <1>5. ClientState(c)'
    <2>1. ClientState(c) /\ (Paid(c)' <=> Paid(c))
      BY <1>1 DEF Inv, Paid, Complete
    <2> QED
      BY <1>1, <1>3, <2>1 DEF ClientState
  <1>6. /\ backlog' \in Seq(Clients) /\ Len(backlog) \in Nat
        /\ Len(backlog') = Len(backlog) + 1
        /\ \A i \in 1 .. Len(backlog) : backlog'[i] = backlog[i]
        /\ backlog'[Len(backlog) + 1] = c
    BY <1>1, AppendProperties, LenProperties DEF Inv, TypeOK
  <1>7. Places'
    <2>1. Places
      BY DEF Inv
    <2>2. \A i \in 1 .. Len(backlog') : i \in 1 .. Len(backlog) \/ i = Len(backlog) + 1
      BY <1>6
    <2>3. \A i \in 1 .. Len(backlog) : backlog[i] # c /\ backlog[i] \in Clients
      BY <1>1, <2>1, ElementOfSeq DEF Places, Inv, TypeOK
    <2>4. \A f \in Fds : desc[f] # None => desc[f] # c /\ desc[f] \in Clients
      BY <1>1, <2>1 DEF Places, Inv, TypeOK
    <2>5. \A i \in 1 .. Len(backlog') : client'[backlog'[i]] # "new"
      BY <1>2, <1>6, <2>1, <2>2, <2>3 DEF Places
    <2>6. \A i, j \in 1 .. Len(backlog') : backlog'[i] = backlog'[j] => i = j
      BY <1>6, <2>1, <2>2, <2>3 DEF Places
    <2>7. \A f \in Fds : desc[f] # None =>
              /\ client'[desc[f]] # "new"
              /\ \A i \in 1 .. Len(backlog') : backlog'[i] # desc[f]
      BY <1>2, <1>6, <2>1, <2>2, <2>4 DEF Places
    <2> QED
      BY <1>1, <2>1, <2>5, <2>6, <2>7 DEF Places
  <1>8. /\ asked' \in [Clients -> Nat] /\ inbox' \in [Clients -> Seq(Unit)]
        /\ outbox' \in [Clients -> Seq(Part)] /\ got' \in [Clients -> Seq(Part)]
    BY <1>1 DEF Inv, TypeOK
  <1>9. InOrder(c, got'[c] \o outbox'[c])
    BY <1>1, InOrderIs DEF Inv
  <1> QED
    BY <1>1, <1>2, <1>3, <1>4, <1>5, <1>6, <1>7, <1>8, <1>9, ClientStep

(* The connections keep their places while no client is new again. *)
LEMMA PlacesFrame ==
  ASSUME Inv, NEW c \in Clients, UNCHANGED <<watched, desc, backlog>>,
         \A d \in Clients \ {c} : client'[d] = client[d], client'[c] # "new"
  PROVE  Places'
  <1>1. \A d \in Clients : client[d] # "new" => client'[d] # "new"
    OBVIOUS
  <1>2. \A i \in 1 .. Len(backlog) : backlog[i] \in Clients
    BY ElementOfSeq DEF Inv, TypeOK
  <1>3. \A f \in Fds : desc[f] # None => desc[f] \in Clients
    BY DEF Inv, TypeOK
  <1> QED
    BY <1>1, <1>2, <1>3 DEF Inv, Places

LEMMA DisconnectStep ==
  ASSUME Inv, NEW c \in Clients, Disconnect(c)
  PROVE  Inv'
  <1>1. /\ client[c] = "idle" /\ client' = [client EXCEPT ![c] = "closed"]
        /\ NotifyConnection(c)
        /\ UNCHANGED <<thread, watched, desc, backlog, asked, inbox, outbox, got>>
    BY DEF Disconnect
  <1>2. /\ client'[c] = "closed" /\ \A d \in Clients \ {c} : client'[d] = client[d]
        /\ client' \in [Clients -> {"new", "idle", "waiting", "closed"}]
    BY <1>1 DEF Inv, TypeOK
  <1>3. ~Pending(c) /\ ~Owed(c) /\ ~Owed(c)' /\ Pending(c)'
    BY <1>1, <1>2 DEF Pending, Owed
  <1>4. \A d \in Clients \ {c} : SameClient(d)
    BY <1>1, <1>2 DEF SameClient
  <1>5. ClientState(c)'
    <2>1. ClientState(c) /\ (Paid(c)' <=> Paid(c))
      BY <1>1 DEF Inv, Paid, Complete
    <2> QED
      BY <1>1, <1>3, <2>1 DEF ClientState
  <1>6. Places'
    BY <1>1, <1>2, PlacesFrame
  <1>7. /\ asked' \in [Clients -> Nat] /\ inbox' \in [Clients -> Seq(Unit)]
        /\ outbox' \in [Clients -> Seq(Part)] /\ got' \in [Clients -> Seq(Part)]
        /\ backlog' \in Seq(Clients)
    BY <1>1 DEF Inv, TypeOK
  <1>8. InOrder(c, got'[c] \o outbox'[c])
    BY <1>1, InOrderIs DEF Inv
  <1>9. PICK g \in Fds \cup {server_fd} :
            /\ ready' = ready \/ ready' = Notified(ready, g)
            /\ g = server_fd \/ (g \in watched /\ desc[g] = c)
    BY <1>1, NotifyIs
  <1> QED
    BY <1>1, <1>2, <1>3, <1>4, <1>5, <1>6, <1>7, <1>8, <1>9, ClientStep

LEMMA SendStep ==
  ASSUME Inv, NEW c \in Clients, Send(c)
  PROVE  Inv'
  <1>1. PICK n : n = asked[c] + 1
    OBVIOUS
  <1>2. PICK u : u = [client |-> c, n |-> n, kind |-> Requests[c][n]]
    OBVIOUS
  <1>3. PICK s : s = [i \in 1 .. RequestSize |-> u]
    OBVIOUS
  <1>4. /\ client[c] = "idle" /\ asked[c] < Len(Requests[c])
        /\ client' = [client EXCEPT ![c] = "waiting"]
        /\ asked' = [asked EXCEPT ![c] = n]
        /\ inbox' = [inbox EXCEPT ![c] = inbox[c] \o s]
        /\ NotifyConnection(c)
        /\ UNCHANGED <<thread, watched, desc, backlog, outbox, got>>
    BY <1>1, <1>2, <1>3 DEF Send
  <1>5. n \in Nat /\ n \in 1 .. Len(Requests[c]) /\ Requests[c] \in Seq(Kinds)
        /\ asked[c] = n - 1
    <2>1. asked[c] \in Nat /\ Requests[c] \in Seq(Kinds)
      BY RequestsAssumption DEF Inv, TypeOK
    <2> QED
      BY <1>1, <1>4, <2>1, LenProperties
  <1>6. u \in Unit
    <2>1. Requests[c][n] \in Kinds
      BY <1>5, ElementOfSeq
    <2> QED
      BY <1>2, <1>5, <2>1 DEF Unit
  <1>7. s \in Seq(Unit)
    BY <1>3, <1>6, SizeAssumption
  <1>8. ~Pending(c) /\ ~Owed(c)
    BY <1>4 DEF Pending, Owed
  <1>9. Paid(c) /\ outbox[c] = <<>>
    BY <1>4, <1>8 DEF Inv, ClientState
  <1>10. inbox[c] \o s = s
    BY <1>7, <1>9 DEF Paid
  <1>11. /\ client'[c] = "waiting" /\ \A d \in Clients \ {c} : client'[d] = client[d]
         /\ client' \in [Clients -> {"new", "idle", "waiting", "closed"}]
    BY <1>4 DEF Inv, TypeOK
  <1>12. /\ asked'[c] = n /\ \A d \in Clients \ {c} : asked'[d] = asked[d]
         /\ asked' \in [Clients -> Nat]
    BY <1>4, <1>5 DEF Inv, TypeOK
  <1>13. /\ inbox'[c] = s /\ \A d \in Clients \ {c} : inbox'[d] = inbox[d]
         /\ inbox' \in [Clients -> Seq(Unit)]
    BY <1>4, <1>7, <1>10 DEF Inv, TypeOK
  <1>14. \A d \in Clients \ {c} : SameClient(d)
    BY <1>4, <1>11, <1>12, <1>13 DEF SameClient
  <1>15. inbox'[c] = Request(c)'
    BY <1>2, <1>3, <1>12, <1>13 DEF Request
  <1>16. Owed(c)'
    <2>1. got[c] \o outbox[c] = got[c]
      BY <1>9 DEF Inv, TypeOK
    <2>2. Complete(got[c]) = n - 1
      BY <1>5, <1>9, <2>1 DEF Paid
    <2> QED
      BY <1>4, <1>9, <1>11, <1>12, <2>2 DEF Owed, Complete
  <1>17. ClientState(c)' /\ Pending(c)'
    <2>1. asked'[c] <= Len(Requests[c])
      BY <1>5, <1>12
    <2> QED
      BY <1>11, <1>16, <2>1 DEF ClientState, Pending
  <1>18. Places'
    BY <1>4, <1>11, PlacesFrame
  <1>19. /\ outbox' \in [Clients -> Seq(Part)] /\ got' \in [Clients -> Seq(Part)]
         /\ backlog' \in Seq(Clients)
    BY <1>4 DEF Inv, TypeOK
  <1>20. InOrder(c, got'[c] \o outbox'[c])
    BY <1>4, InOrderIs DEF Inv
  <1>21. PICK g \in Fds \cup {server_fd} :
            /\ ready' = ready \/ ready' = Notified(ready, g)
            /\ g = server_fd \/ (g \in watched /\ desc[g] = c)
    BY <1>4, NotifyIs
  <1> QED
    BY <1>4, <1>8, <1>11, <1>12, <1>13, <1>14, <1>15, <1>17, <1>18, <1>19, <1>20, <1>21,
       ClientStep

LEMMA ReceiveStep ==
  ASSUME Inv, NEW c \in Clients, Receive(c)
  PROVE  Inv'
  <1>1. PICK s : s = got[c] \o outbox[c]
    OBVIOUS
  <1>2. /\ outbox[c] # <<>>
        /\ got' = [got EXCEPT ![c] = s] /\ outbox' = [outbox EXCEPT ![c] = <<>>]
        /\ client' = [client EXCEPT ![c] =
                        IF client[c] = "waiting" /\ Complete(got'[c]) = asked[c]
                        THEN "idle" ELSE client[c]]
        /\ UNCHANGED <<thread, kernelVars, asked, inbox>>
    BY <1>1 DEF Receive
  <1>3. UNCHANGED <<ready, watched, desc, backlog>>
    BY <1>2 DEF kernelVars
  <1>4. s \in Seq(Part)
    BY <1>1, JoinProperties DEF Inv, TypeOK
  <1>5. /\ got'[c] = s /\ \A d \in Clients \ {c} : got'[d] = got[d]
        /\ got' \in [Clients -> Seq(Part)]
    BY <1>2, <1>4 DEF Inv, TypeOK
  <1>6. /\ outbox'[c] = <<>> /\ \A d \in Clients \ {c} : outbox'[d] = outbox[d]
        /\ outbox' \in [Clients -> Seq(Part)]
    <2>1. <<>> \in Seq(Part)
      OBVIOUS
    <2> QED
      BY <1>2, <2>1 DEF Inv, TypeOK
  <1>7. client[c] = "waiting" /\ ~Owed(c) /\ Paid(c)
    BY <1>2 DEF Inv, ClientState, Owed
  <1>8. Complete(s) = asked[c] /\ inbox[c] = <<>>
    BY <1>1, <1>7 DEF Paid
  <1>9. /\ client'[c] = "idle" /\ \A d \in Clients \ {c} : client'[d] = client[d]
        /\ client' \in [Clients -> {"new", "idle", "waiting", "closed"}]
    BY <1>2, <1>5, <1>7, <1>8 DEF Inv, TypeOK
  <1>10. ~Pending(c) /\ ~Owed(c)'
    BY <1>7, <1>9 DEF Pending, Owed
  <1>11. \A d \in Clients \ {c} : SameClient(d)
    BY <1>2, <1>5, <1>6, <1>9 DEF SameClient
  <1>12. got'[c] \o outbox'[c] = s
    BY <1>4, <1>5, <1>6
  <1>13. ClientState(c)'
    <2>1. asked'[c] <= Len(Requests[c])
      BY <1>2 DEF Inv, ClientState
    <2>2. Paid(c)'
      BY <1>2, <1>8, <1>12 DEF Paid, Complete
    <2> QED
      BY <1>6, <2>1, <2>2 DEF ClientState
  <1>14. Places'
    BY <1>3, <1>9, PlacesFrame
  <1>15. /\ asked' \in [Clients -> Nat] /\ inbox' \in [Clients -> Seq(Unit)]
         /\ backlog' \in Seq(Clients)
    BY <1>2, <1>3 DEF Inv, TypeOK
  <1>16. InOrder(c, got'[c] \o outbox'[c])
    BY <1>1, <1>12, InOrderIs DEF Inv
  <1> QED
    BY <1>2, <1>3, <1>5, <1>6, <1>9, <1>10, <1>11, <1>13, <1>14, <1>15, <1>16, ClientStep

-----------------------------------------------------------------------------
(* The invariant.                                                          *)

LEMMA InvInit == Init => Inv
  <1> SUFFICES ASSUME Init PROVE Inv
    OBVIOUS
  <1>1. /\ thread = [t \in Threads |-> Idle] /\ ready = <<>> /\ watched = {}
        /\ desc = [f \in Fds |-> None] /\ backlog = <<>>
        /\ client = [c \in Clients |-> "new"] /\ asked = [c \in Clients |-> 0]
        /\ inbox = [c \in Clients |-> <<>>] /\ outbox = [c \in Clients |-> <<>>]
        /\ got = [c \in Clients |-> <<>>]
    BY DEF Init
  <1>2. Idle \in Thread /\ Idle.pc = "wait" /\ Idle.events = <<>> /\ Idle.done = FALSE
    <2>1. <<>> \in Seq(Unit) /\ <<>> \in Seq(Part) /\ <<>> \in Seq(Event)
          /\ FALSE \in BOOLEAN /\ None \in Fds \cup {None} /\ "wait" \in Pcs
      BY DEF Pcs
    <2> QED
      BY <2>1, Zenon DEF Idle, Thread
  <1>3. Locals(Idle)
    <2>1. Len(Idle.events) = 0
      BY <1>2
    <2>2. \A i : i \notin 1 .. 0
      OBVIOUS
    <2>3. /\ "wait" \notin {"accept", "add"} /\ "wait" \notin Serves \cup {"finish"}
          /\ "wait" \notin Serves /\ "wait" # "aborted"
      BY DEF Serves
    <2> QED
      BY <1>2, <2>1, <2>2, <2>3, Zenon DEF Locals
  <1>4. LiveEvents(Idle) = {}
    BY <1>2 DEF LiveEvents
  <1>5. \A t \in Threads : thread[t] = Idle
    BY <1>1
  <1>6. TypeOK
    <2>1. <<>> \in Seq(Unit) /\ <<>> \in Seq(Part) /\ <<>> \in Seq(Clients)
          /\ <<>> \in Seq(Fds \cup {server_fd})
      OBVIOUS
    <2> HIDE DEF Idle
    <2> QED
      BY <1>1, <1>2, <2>1 DEF TypeOK
  <1>7. \A c \in Clients : got[c] \o outbox[c] = <<>> /\ client[c] = "new" /\ asked[c] = 0
                           /\ inbox[c] = <<>> /\ outbox[c] = <<>>
    BY <1>1
  <1>8. \A c \in Clients : ClientState(c) /\ ~Owed(c)
    <2> TAKE c \in Clients
    <2>1. Paid(c)
      BY <1>7, CompleteNone DEF Paid
    <2>2. Len(Requests[c]) \in Nat
      BY RequestsAssumption, LenProperties
    <2>3. ~Owed(c)
      BY <1>7 DEF Owed
    <2> QED
      BY <1>7, <2>1, <2>2, <2>3 DEF ClientState
  <1>9. ReadyList
    BY <1>1 DEF ReadyList
  <1>10. Apart
    BY <1>4, <1>5 DEF Apart
  <1>11. Places
    BY <1>1 DEF Places
  <1>12. Adding
    <2>1. \A t \in Threads : thread[t].pc # "add"
      BY <1>2, <1>5
    <2> QED
      BY <2>1 DEF Adding
  <1>13. Stages
    <2>1. \A t \in Threads : thread[t].pc \notin Serves
      BY <1>2, <1>5 DEF Serves
    <2> QED
      BY <1>8, <2>1 DEF Stages, Serving
  <1>14. OwnResponsesInOrder
    <2>1. \A c \in Clients : InOrder(c, got[c] \o outbox[c])
      <3>1. \A c : InOrder(c, <<>>)
        BY DEF InOrder
      <3> QED
        BY <1>7, <3>1
    <2> QED
      BY <2>1, InOrderIs
  <1> HIDE DEF Idle
  <1> QED
    BY <1>3, <1>4, <1>5, <1>6, <1>8, <1>9, <1>10, <1>11, <1>12, <1>13, <1>14 DEF Inv

LEMMA InvStutter ==
  ASSUME Inv, UNCHANGED vars
  PROVE  Inv'
  <1>1. UNCHANGED <<thread, ready, watched, desc, backlog, client, asked, inbox, outbox, got>>
    BY DEF vars, kernelVars, clientVars
  <1>2. \A c \in Clients : SameClient(c)
    BY <1>1 DEF SameClient
  <1>3. TypeOK'
    BY <1>1 DEF Inv, TypeOK
  <1>4. \A t \in Threads : \A e \in LiveEvents(thread'[t]) : EventState(e)'
    <2> TAKE t \in Threads
    <2> TAKE e \in LiveEvents(thread'[t])
    <2>1. EventState(e) /\ e.conn \in Clients /\ e.fd \in watched /\ ~Listed(e.fd)
      BY <1>1, LiveState
    <2>2. ~Listed(e.fd)'
      BY <1>1, <2>1 DEF Listed
    <2> QED
      BY <1>1, <1>2, <2>1, <2>2, EventFrame
  <1>5. \A c \in Clients : ClientState(c)'
    BY <1>2, ClientFrame DEF Inv
  <1>6. ReadyList'
    <2>1. ASSUME NEW i \in 1 .. Len(ready), ready[i] # server_fd
          PROVE  ready[i] \in watched' /\ Pending(desc[ready[i]])'
      <3>1. PICK d \in Clients : d = desc[ready[i]] /\ Pending(d) /\ ready[i] \in watched
        BY <2>1, ListedDesignate
      <3>2. Pending(d)'
        BY <1>2, <3>1, ClientFrame
      <3>3. desc'[ready'[i]] = d
        BY <1>1, <3>1
      <3> QED
        BY <1>1, <3>1, <3>2, <3>3
    <2> QED
      BY <1>1, <2>1 DEF Inv, ReadyList
  <1>7. Apart' /\ Places' /\ Adding'
    BY <1>1 DEF Inv, Apart, Places, Adding
  <1>8. Stages'
    <2>1. \A t \in Threads, c \in Clients : Serving(t, c)' <=> Serving(t, c)
      BY <1>1 DEF Serving
    <2>2. \A t \in Threads, c \in Clients : Serving(t, c)' => Stage(thread[t], c)'
      <3> TAKE t \in Threads, c \in Clients
      <3> HAVE Serving(t, c)'
      <3>1. Stage(thread[t], c)
        BY <2>1 DEF Inv, Stages
      <3> QED
        BY <1>1, <1>2, <3>1, ClientFrame DEF Stage
    <2>3. \A c \in Clients : Owed(c)' /\ (\A t \in Threads : ~Serving(t, c)')
              => inbox'[c] = Request(c)'
      BY <1>1, <1>2, <2>1, ClientFrame DEF Inv, Stages
    <2> QED
      BY <2>2, <2>3 DEF Stages
  <1>9. OwnResponsesInOrder'
    BY <1>2, InOrderFrame DEF Inv
  <1>10. \A t \in Threads : Locals(thread'[t])
    BY <1>1 DEF Inv
  <1> QED
    BY <1>3, <1>4, <1>5, <1>6, <1>7, <1>8, <1>9, <1>10 DEF Inv

(* Every step preserves the invariant. *)
LEMMA InvNext ==
  ASSUME Roomy, Inv, [Next]_vars
  PROVE  Inv'
  <1>1. ASSUME NEW t \in Threads, ThreadStep(t)
        PROVE  Inv'
    <2>1. CASE epoll_wait(t)
      BY <2>1, EpollWaitStep
    <2>2. CASE HandleError(t)
      BY <2>2, HandleErrorStep
    <2>3. CASE HandleListening(t)
      BY <2>3, HandleListeningStep
    <2>4. CASE HandleReadable(t)
      BY <2>4, HandleReadableStep
    <2>5. CASE accept(t)
      BY <2>5, AcceptNoneStep, AcceptOneStep
    <2>6. CASE epoll_ctl_add(t)
      BY <2>6, EpollCtlAddStep
    <2>7. CASE read(t)
      BY <2>7, ReadStep
    <2>8. CASE BuildResponse(t)
      BY <2>8, BuildResponseStep
    <2>9. CASE write(t)
      BY <2>9, WriteStep
    <2>10. CASE Finish(t)
      BY <2>10, FinishStep
    <2> QED
      BY <1>1, <2>1, <2>2, <2>3, <2>4, <2>5, <2>6, <2>7, <2>8, <2>9, <2>10 DEF ThreadStep
  <1>2. ASSUME NEW c \in Clients, Connect(c) \/ Send(c) \/ Receive(c) \/ Disconnect(c)
        PROVE  Inv'
    BY <1>2, ConnectStep, SendStep, ReceiveStep, DisconnectStep
  <1>3. CASE UNCHANGED vars
    BY <1>3, InvStutter
  <1> QED
    BY <1>1, <1>2, <1>3 DEF Next

LEMMA Invariance ==
  ASSUME Roomy
  PROVE  Spec => []Inv
  <1>1. Inv /\ [Next]_vars => Inv'
    BY InvNext
  <1> QED
    BY <1>1, InvInit, PTL DEF Spec

-----------------------------------------------------------------------------
(***************************************************************************)
(* However the threads interleave, and however long an event waits in a    *)
(* batch, it is about the connection that its descriptor designates: none  *)
(* is closed and reused before the thread is through with the event, and   *)
(* epoll_ctl() never fails.                                                *)
(***************************************************************************)
THEOREM DescriptorsOutliveTheirEvents ==
  ASSUME Roomy
  PROVE  Spec => []OwnDescriptor
  <1>1. Inv => OwnDescriptor
    <2> SUFFICES ASSUME Inv PROVE OwnDescriptor
      OBVIOUS
    <2>1. Running
      BY ThreadOf DEF Running, At, Locals
    <2>2. ASSUME NEW t \in Threads, NEW i \in 1 .. Len(thread[t].events),
                 thread[t].events[i].fd # server_fd,
                 ~(i = 1 /\ At(t, "finish") /\ ~thread[t].done)
          PROVE  desc[thread[t].events[i].fd] = thread[t].events[i].conn
      <3>1. thread[t] \in Thread /\ thread[t].done = FALSE
        BY ThreadOf DEF Locals
      <3>2. ~(i = 1 /\ thread[t].pc = "finish")
        BY <2>2, <3>1, Zenon DEF At
      <3>3. Len(thread[t].events) \in Nat
        BY <3>1, ThreadFields
      <3>4. i \in (IF thread[t].pc = "finish" THEN 2 ELSE 1) .. Len(thread[t].events)
        BY <3>2, <3>3
      <3>5. thread[t].events[i] \in LiveEvents(thread[t])
        BY <2>2, <3>4 DEF LiveEvents
      <3> QED
        BY <3>5, LiveState
    <2> QED
      BY <2>1, <2>2 DEF OwnDescriptor
  <1> QED
    BY <1>1, Invariance, PTL

(***************************************************************************)
(* A client reads the responses to its own requests, one for each and in   *)
(* their order, although the events of a connection go to any thread.      *)
(***************************************************************************)
THEOREM ResponsesInOrder ==
  ASSUME Roomy
  PROVE  Spec => []OwnResponsesInOrder
  <1>1. Inv => OwnResponsesInOrder
    BY DEF Inv
  <1> QED
    BY <1>1, Invariance, PTL
=============================================================================
