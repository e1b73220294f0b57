-------------------------- MODULE EpollServer_proofs --------------------------
(***************************************************************************)
(* Proofs about the epoll prototype, for any number of threads, clients,   *)
(* descriptors and requests, any size of a batch and any spurious          *)
(* wake-ups: every task of the queue is served once, and while no client   *)
(* closes early its answer goes to the client that asked.                  *)
(***************************************************************************)
EXTENDS EpollServer, FiniteSetTheorems, FunctionTheorems, NaturalsInduction,
        WellFoundedInduction, SequenceTheorems, TLAPS

-----------------------------------------------------------------------------
(* Types.                                                                  *)

Task == [client_fd : Fds, for : Clients]

Event == [fd : Fds \cup {server_fd}, hup : BOOLEAN]

Worker == [pc : {"lock", "test", "wait", "serve"}, task : Task \cup {None}]

MainPcs == {"epoll_wait", "event", "accept", "add", "read", "enqueue", "push", "notify"}

MainThread ==
    [pc : MainPcs, events : Seq(Event), fd : Fds \cup {None}, for : Clients \cup {None}]

TypeOK ==
    /\ tasks \in Seq(Task)
    /\ worker \in [Workers -> Worker]
    /\ main \in MainThread
    /\ killed \in BOOLEAN
    /\ ready \in Seq(Fds \cup {server_fd})
    /\ watched \subseteq Fds
    /\ peer \in [Fds -> Clients \cup {None}]
    /\ backlog \in Seq(Clients)
    /\ client \in [Clients -> {"new", "open", "closed"}]
    /\ asked \in [Clients -> Nat]
    /\ unread \in [Clients -> Nat]
    /\ got \in [Clients -> Seq(Clients)]
    /\ early \subseteq Clients

-----------------------------------------------------------------------------
(* The inductive invariant.                                                *)

(* A thread has a task exactly while it serves it; the condition variable  *)
(* wakes only threads that wait.                                           *)
Pool ==
    /\ \A w \in Workers : worker[w].task # None <=> worker[w].pc = "serve"
    /\ waiting \subseteq {w \in Workers : worker[w].pc = "wait"}

(* A watched descriptor is open, and on the ready list at most once. *)
ReadyList ==
    /\ \A f \in watched : peer[f] # None
    /\ \A i \in 1 .. Len(ready) : ready[i] # server_fd => ready[i] \in watched
    /\ \A i, j \in 1 .. Len(ready) : ready[i] = ready[j] => i = j

(* An event of the batch is about a descriptor that is still open, and     *)
(* EPOLLHUP about a client that has closed.                                *)
Batch ==
    /\ \A i \in 1 .. Len(main.events) :
           IF main.events[i].fd = server_fd THEN ~main.events[i].hup
           ELSE /\ main.events[i].fd \in watched
                /\ main.events[i].hup => client[peer[main.events[i].fd]] = "closed"
    /\ \A i, j \in 1 .. Len(main.events) : main.events[i].fd = main.events[j].fd => i = j

(* Where main() is in the handling of the first event. *)
InHand == main.pc \in {"enqueue", "push"}

MainState ==
    /\ main.pc # "epoll_wait" => main.events # <<>>
    /\ main.pc \in {"read", "enqueue", "push", "notify"} => main.events[1].fd # server_fd
    /\ main.pc = "add" => main.fd \in Fds /\ peer[main.fd] # None
    /\ InHand => main.fd \in Fds /\ main.for \in Clients

(* The tasks for client c in a queue, the threads that serve one, and the  *)
(* responses to it that anyone received.                                   *)
TasksFor(ts, c) == {i \in 1 .. Len(ts) : ts[i].for = c}
ServersFor(ws, c) == {w \in Workers : ws[w].task # None /\ ws[w].task.for = c}
ResponsesTo(g, c) ==
    UNION {{<<d, k>> : k \in {i \in 1 .. Len(g[d]) : g[d][i] = c}} : d \in Clients}

Handed(c) == IF InHand /\ main.for = c THEN 1 ELSE 0

Total(c) ==
    unread[c] + Handed(c) + Cardinality(TasksFor(tasks, c))
        + Cardinality(ServersFor(worker, c)) + Cardinality(ResponsesTo(got, c))

(* Every request is in one place, or was dropped once a client closed      *)
(* early; a client has at most one that is not answered.                   *)
Counted ==
    \A c \in Clients :
        /\ IsFiniteSet(ServersFor(worker, c)) /\ IsFiniteSet(ResponsesTo(got, c))
        /\ Total(c) <= asked[c]
        /\ asked[c] <= Len(got[c]) + 1

(* The descriptors of tasks designate the clients that the tasks are for. *)
Designates ==
    /\ \A i \in 1 .. Len(tasks) : peer[tasks[i].client_fd] = tasks[i].for
    /\ \A w \in Workers : worker[w].task # None =>
           peer[worker[w].task.client_fd] = worker[w].task.for
    /\ InHand => peer[main.fd] = main.for

(* What holds until a client closes early. *)
Timely ==
    early = {} =>
        /\ ~killed
        /\ \A c \in Clients : Total(c) = asked[c]
        /\ \A c \in Clients : client[c] = "closed" => asked[c] <= Len(got[c])
        /\ \A c \in Clients : \A k \in 1 .. Len(got[c]) : got[c][k] = c
        /\ Designates

Structure == TypeOK /\ Pool /\ ReadyList /\ Batch /\ MainState

Inv == Structure /\ Counted /\ Timely

-----------------------------------------------------------------------------
(* Counting.                                                               *)

LEMMA TasksForFinite ==
    ASSUME NEW ts \in Seq(Task), NEW c
    PROVE  IsFiniteSet(TasksFor(ts, c)) /\ Cardinality(TasksFor(ts, c)) \in Nat
<1>1. IsFiniteSet(1 .. Len(ts))
    BY FS_Interval, LenProperties
<1>2. IsFiniteSet(TasksFor(ts, c))
    BY <1>1, FS_Subset DEF TasksFor
<1> QED BY <1>2, FS_CardinalityType

(* What one more member does to a count. *)
LEMMA OneMore ==
    ASSUME NEW S, IsFiniteSet(S), NEW x, x \notin S
    PROVE  /\ IsFiniteSet(S \cup {x}) /\ Cardinality(S) \in Nat
           /\ Cardinality(S \cup {x}) = Cardinality(S) + 1
BY FS_AddElement, FS_CardinalityType

LEMMA TaskPushed ==
    ASSUME NEW ts \in Seq(Task), NEW e \in Task, NEW c
    PROVE  Cardinality(TasksFor(Append(ts, e), c))
               = Cardinality(TasksFor(ts, c)) + (IF e.for = c THEN 1 ELSE 0)
<1> DEFINE n == Len(ts)
<1>1. /\ n \in Nat /\ Len(Append(ts, e)) = n + 1
      /\ \A i \in 1 .. n : Append(ts, e)[i] = ts[i]
      /\ Append(ts, e)[n + 1] = e
    BY LenProperties, AppendProperties
<1>2. CASE e.for = c
    <2>1. TasksFor(Append(ts, e), c) = TasksFor(ts, c) \cup {n + 1}
        BY <1>1, <1>2 DEF TasksFor
    <2>2. n + 1 \notin TasksFor(ts, c)
        BY <1>1 DEF TasksFor
    <2> QED BY <1>2, <2>1, <2>2, TasksForFinite, OneMore
<1>3. CASE e.for # c
    <2>1. TasksFor(Append(ts, e), c) = TasksFor(ts, c)
        BY <1>1, <1>3 DEF TasksFor
    <2> QED BY <1>3, <2>1, TasksForFinite
<1> QED BY <1>2, <1>3

LEMMA TaskPopped ==
    ASSUME NEW ts \in Seq(Task), ts # <<>>, NEW c
    PROVE  /\ Tail(ts) \in Seq(Task)
           /\ Cardinality(TasksFor(ts, c))
                  = Cardinality(TasksFor(Tail(ts), c)) + (IF Head(ts).for = c THEN 1 ELSE 0)
<1> DEFINE n == Len(ts)
           S == TasksFor(Tail(ts), c)
           T == TasksFor(ts, c) \ {1}
           g == [i \in S |-> i + 1]
<1>1. /\ n \in Nat \ {0} /\ Tail(ts) \in Seq(Task) /\ Len(Tail(ts)) = n - 1
      /\ \A i \in 1 .. n - 1 : Tail(ts)[i] = ts[i + 1]
      /\ Head(ts) = ts[1]
    <2>1. n \in Nat \ {0}
        BY EmptySeq, LenProperties
    <2> QED BY <2>1, HeadTailProperties
<1>2. S \subseteq Int /\ T \subseteq Int
    BY <1>1 DEF TasksFor
<1>3. \A i \in Int : i \in S <=> i + 1 \in T
    BY <1>1 DEF TasksFor
<1>4. IsFiniteSet(S) /\ Cardinality(S) \in Nat
    BY <1>1, TasksForFinite
<1>5. /\ Head(ts).for = c => TasksFor(ts, c) = T \cup {1} /\ 1 \notin T
      /\ Head(ts).for # c => TasksFor(ts, c) = T
    BY <1>1 DEF TasksFor
<1> HIDE DEF S, T
<1>7. g \in Bijection(S, T)
    <2>1. g \in [S -> T]
        BY <1>2, <1>3
    <2>2. \A i, j \in S : g[i] = g[j] => i = j
        BY <1>2
    <2>3. \A k \in T : \E i \in S : g[i] = k
        <3> TAKE k \in T
        <3>1. k - 1 \in Int /\ (k - 1) + 1 = k
            BY <1>2
        <3>2. k - 1 \in S
            BY <1>3, <3>1
        <3> QED BY <3>1, <3>2
    <2> HIDE DEF g
    <2> QED BY <2>1, <2>2, <2>3 DEF Bijection, Injection, Surjection, IsInjective
<1>8. IsFiniteSet(T) /\ Cardinality(T) = Cardinality(S)
    BY <1>4, <1>7, FS_Bijection DEF ExistsBijection
<1>9. CASE Head(ts).for = c
    <2>1. Cardinality(TasksFor(ts, c)) = Cardinality(T) + 1
        BY <1>5, <1>8, <1>9, OneMore
    <2> QED BY <1>1, <1>8, <1>9, <2>1 DEF S
<1>10. CASE Head(ts).for # c
    BY <1>1, <1>4, <1>5, <1>8, <1>10 DEF S
<1> QED BY <1>9, <1>10

(* A thread without a task takes one, or gives its task up. *)
LEMMA TaskTaken ==
    ASSUME NEW ws, NEW new, NEW w \in Workers, \A v \in Workers : v # w => new[v] = ws[v],
           ws[w].task = None, new[w].task # None, NEW c, IsFiniteSet(ServersFor(ws, c))
    PROVE  /\ IsFiniteSet(ServersFor(new, c))
           /\ Cardinality(ServersFor(new, c))
                  = Cardinality(ServersFor(ws, c)) + (IF new[w].task.for = c THEN 1 ELSE 0)
<1>1. Cardinality(ServersFor(ws, c)) \in Nat
    BY FS_CardinalityType
<1>2. CASE new[w].task.for = c
    <2>1. ServersFor(new, c) = ServersFor(ws, c) \cup {w} /\ w \notin ServersFor(ws, c)
        BY <1>2 DEF ServersFor
    <2> QED BY <1>2, <2>1, OneMore
<1>3. CASE new[w].task.for # c
    <2>1. ServersFor(new, c) = ServersFor(ws, c)
        BY <1>3 DEF ServersFor
    <2> QED BY <1>1, <1>3, <2>1
<1> QED BY <1>2, <1>3

LEMMA TaskDone ==
    ASSUME NEW ws, NEW new, NEW w \in Workers, \A v \in Workers : v # w => new[v] = ws[v],
           ws[w].task # None, new[w].task = None, NEW c, IsFiniteSet(ServersFor(ws, c))
    PROVE  /\ IsFiniteSet(ServersFor(new, c)) /\ Cardinality(ServersFor(new, c)) \in Nat
           /\ ws[w].task.for = c => Cardinality(ServersFor(ws, c)) = Cardinality(ServersFor(new, c)) + 1
           /\ ws[w].task.for # c => Cardinality(ServersFor(ws, c)) = Cardinality(ServersFor(new, c))
<1>1. ServersFor(new, c) = ServersFor(ws, c) \ {w}
    BY DEF ServersFor
<1>2. IsFiniteSet(ServersFor(new, c)) /\ Cardinality(ServersFor(new, c)) \in Nat
    BY <1>1, FS_Subset, FS_CardinalityType
<1>3. CASE ws[w].task.for = c
    <2>1. ServersFor(ws, c) = ServersFor(new, c) \cup {w} /\ w \notin ServersFor(new, c)
        BY <1>1, <1>3 DEF ServersFor
    <2> QED BY <1>2, <1>3, <2>1, OneMore
<1>4. CASE ws[w].task.for # c
    <2>1. ServersFor(new, c) = ServersFor(ws, c)
        BY <1>1, <1>4 DEF ServersFor
    <2> QED BY <1>2, <1>4, <2>1
<1> QED BY <1>3, <1>4

(* The threads for a client depend on the tasks only. *)
LEMMA SameServers ==
    ASSUME NEW ws, NEW new, \A w \in Workers : new[w].task = ws[w].task, NEW c
    PROVE  ServersFor(new, c) = ServersFor(ws, c)
BY DEF ServersFor

LEMMA ResponsesMember ==
    ASSUME NEW g \in [Clients -> Seq(Clients)], NEW c
    PROVE  /\ \A d \in Clients, i \in Int :
                  i \in 1 .. Len(g[d]) /\ g[d][i] = c => <<d, i>> \in ResponsesTo(g, c)
           /\ \A x \in ResponsesTo(g, c) : \E d \in Clients, i \in Int :
                  x = <<d, i>> /\ i \in 1 .. Len(g[d]) /\ g[d][i] = c
BY DEF ResponsesTo

(* Client d received response e. *)
Receives(g, new, d, e) ==
    /\ new \in [Clients -> Seq(Clients)]
    /\ Len(g[d]) \in Nat /\ Len(new[d]) = Len(g[d]) + 1
    /\ new[d][Len(g[d]) + 1] = e
    /\ \A i \in 1 .. Len(g[d]) : new[d][i] = g[d][i]
    /\ \A f \in Clients : f # d => new[f] = g[f]

LEMMA ResponseAppended ==
    ASSUME NEW g \in [Clients -> Seq(Clients)], NEW d \in Clients, NEW e \in Clients
    PROVE  Receives(g, [g EXCEPT ![d] = Append(@, e)], d, e)
<1> DEFINE new == [g EXCEPT ![d] = Append(@, e)]
<1>1. g[d] \in Seq(Clients) /\ new[d] = Append(g[d], e)
    OBVIOUS
<1>2. \A f \in Clients : f # d => new[f] = g[f]
    OBVIOUS
<1>3. /\ Append(g[d], e) \in Seq(Clients) /\ Len(g[d]) \in Nat
      /\ Len(Append(g[d], e)) = Len(g[d]) + 1 /\ Append(g[d], e)[Len(g[d]) + 1] = e
      /\ \A i \in 1 .. Len(g[d]) : Append(g[d], e)[i] = g[d][i]
    BY <1>1, LenProperties, AppendProperties
<1>4. new \in [Clients -> Seq(Clients)]
    BY <1>3
<1> HIDE DEF new
<1>5. Receives(g, new, d, e)
    BY <1>1, <1>2, <1>3, <1>4 DEF Receives
<1> QED BY <1>5 DEF new

LEMMA ResponseDelivered ==
    ASSUME NEW g \in [Clients -> Seq(Clients)], NEW new, NEW d \in Clients,
           NEW e \in Clients, Receives(g, new, d, e), NEW c, IsFiniteSet(ResponsesTo(g, c))
    PROVE  /\ IsFiniteSet(ResponsesTo(new, c))
           /\ e = c => Cardinality(ResponsesTo(new, c)) = Cardinality(ResponsesTo(g, c)) + 1
           /\ e # c => Cardinality(ResponsesTo(new, c)) = Cardinality(ResponsesTo(g, c))
<1> DEFINE n == Len(g[d])
<1>1. /\ n \in Nat /\ Len(new[d]) = n + 1 /\ new[d][n + 1] = e
      /\ \A i \in 1 .. n : new[d][i] = g[d][i]
      /\ \A f \in Clients : f # d => new[f] = g[f]
      /\ new \in [Clients -> Seq(Clients)]
    BY DEF Receives
<1>2. Cardinality(ResponsesTo(g, c)) \in Nat
    BY FS_CardinalityType
<1>3. \A f \in Clients : \A i \in 1 .. Len(new[f]) :
          \/ i \in 1 .. Len(g[f]) /\ new[f][i] = g[f][i]
          \/ f = d /\ i = n + 1 /\ new[f][i] = e
    <2> TAKE f \in Clients
    <2>1. CASE f # d
        BY <1>1, <2>1
    <2>2. CASE f = d
        <3> HIDE DEF n
        <3>1. n = Len(g[d])
            BY DEF n
        <3>2. \A i \in 1 .. n + 1 : i \in 1 .. n \/ i = n + 1
            BY <1>1
        <3> QED BY <1>1, <2>2, <3>1, <3>2
    <2> QED BY <2>1, <2>2
<1>4. \A f \in Clients : \A i \in 1 .. Len(g[f]) :
          i \in 1 .. Len(new[f]) /\ new[f][i] = g[f][i]
    <2> TAKE f \in Clients
    <2>1. CASE f # d
        BY <1>1, <2>1
    <2>2. CASE f = d
        <3> HIDE DEF n
        <3>1. n = Len(g[d])
            BY DEF n
        <3>2. \A i \in 1 .. n : i \in 1 .. n + 1
            BY <1>1
        <3> QED BY <1>1, <2>2, <3>1, <3>2
    <2> QED BY <2>1, <2>2
<1>5. \A x \in ResponsesTo(new, c) : x \in ResponsesTo(g, c) \/ (x = <<d, n + 1>> /\ e = c)
    <2> TAKE x \in ResponsesTo(new, c)
    <2>1. PICK f \in Clients, i \in Int :
              x = <<f, i>> /\ i \in 1 .. Len(new[f]) /\ new[f][i] = c
        BY <1>1, ResponsesMember, ZenonT(30)
    <2> QED BY <1>3, <2>1, ResponsesMember
<1>6. \A x \in ResponsesTo(g, c) : x \in ResponsesTo(new, c)
    <2> TAKE x \in ResponsesTo(g, c)
    <2>1. PICK f \in Clients, i \in Int :
              i \in 1 .. Len(g[f]) /\ x = <<f, i>> /\ g[f][i] = c
        BY ResponsesMember
    <2> QED BY <1>1, <1>4, <2>1, ResponsesMember
<1>7. CASE e = c
    <2>1. <<d, n + 1>> \in ResponsesTo(new, c)
        <3> HIDE DEF n
        <3>1. n + 1 \in Int /\ n + 1 \in 1 .. n + 1
            BY <1>1
        <3>2. n + 1 \in 1 .. Len(new[d]) /\ new[d][n + 1] = c
            BY <1>1, <1>7, <3>1
        <3> QED BY <1>1, <3>1, <3>2, ResponsesMember
    <2>2. <<d, n + 1>> \notin ResponsesTo(g, c)
        <3> SUFFICES ASSUME <<d, n + 1>> \in ResponsesTo(g, c) PROVE FALSE
            OBVIOUS
        <3>1. PICK f \in Clients, i \in Int :
              <<d, n + 1>> = <<f, i>> /\ i \in 1 .. Len(g[f]) /\ g[f][i] = c
            BY ResponsesMember, Zenon
        <3>2. f = d /\ i = n + 1
            BY <3>1
        <3> QED BY <1>1, <3>1, <3>2
    <2>3. ResponsesTo(new, c) = ResponsesTo(g, c) \cup {<<d, n + 1>>}
        BY <1>5, <1>6, <2>1
    <2>4. /\ IsFiniteSet(ResponsesTo(new, c))
          /\ Cardinality(ResponsesTo(new, c)) = Cardinality(ResponsesTo(g, c)) + 1
        BY <2>2, <2>3, OneMore
    <2> QED BY <1>1, <1>7, <2>4
<1>8. CASE e # c
    <2>1. ResponsesTo(new, c) = ResponsesTo(g, c)
        BY <1>5, <1>6, <1>8
    <2> QED BY <1>1, <1>2, <1>8, <2>1
<1> QED BY <1>7, <1>8

(* A client that received only its own responses has as many of them. *)
LEMMA OwnResponses ==
    ASSUME NEW g \in [Clients -> Seq(Clients)], NEW c \in Clients,
           \A k \in 1 .. Len(g[c]) : g[c][k] = c, IsFiniteSet(ResponsesTo(g, c))
    PROVE  Len(g[c]) \in Nat /\ Len(g[c]) <= Cardinality(ResponsesTo(g, c))
<1> DEFINE n == Len(g[c])
           h == [k \in 1 .. n |-> <<c, k>>]
<1>1. n \in Nat
    BY LenProperties
<1>2. \A k \in 1 .. n : <<c, k>> \in ResponsesTo(g, c)
    <2> TAKE k \in 1 .. n
    <2>1. k \in Int /\ g[c][k] = c
        BY <1>1
    <2> QED BY <2>1, ResponsesMember
<1>3. h \in Injection(1 .. n, ResponsesTo(g, c))
    BY <1>2 DEF Injection, IsInjective
<1> HIDE DEF h
<1>4. Cardinality(1 .. n) <= Cardinality(ResponsesTo(g, c))
    BY <1>3, FS_Injection
<1>5. Cardinality(1 .. n) = n
    <2> HIDE DEF n
    <2> QED BY <1>1, FS_Interval
<1> QED BY <1>1, <1>4, <1>5

-----------------------------------------------------------------------------
(* What the counts come to.                                                *)

LEMMA CountFacts ==
    ASSUME Inv, NEW c \in Clients
    PROVE  /\ unread[c] \in Nat /\ asked[c] \in Nat /\ Len(got[c]) \in Nat
           /\ Handed(c) \in {0, 1}
           /\ Cardinality(TasksFor(tasks, c)) \in Nat
           /\ Cardinality(ServersFor(worker, c)) \in Nat
           /\ Cardinality(ResponsesTo(got, c)) \in Nat
           /\ Total(c) <= asked[c] /\ asked[c] <= Len(got[c]) + 1
           /\ early = {} => Total(c) = asked[c] /\ Len(got[c]) <= Cardinality(ResponsesTo(got, c))
<1>1. unread[c] \in Nat /\ asked[c] \in Nat /\ got[c] \in Seq(Clients) /\ tasks \in Seq(Task)
    BY DEF Inv, Structure, TypeOK
<1>2. /\ IsFiniteSet(ServersFor(worker, c)) /\ IsFiniteSet(ResponsesTo(got, c))
      /\ Total(c) <= asked[c] /\ asked[c] <= Len(got[c]) + 1
    BY DEF Inv, Counted
<1>3. early = {} => Total(c) = asked[c] /\ \A k \in 1 .. Len(got[c]) : got[c][k] = c
    BY DEF Inv, Timely
<1>4. early = {} => Len(got[c]) <= Cardinality(ResponsesTo(got, c))
    BY <1>2, <1>3, OwnResponses DEF Inv, Structure, TypeOK
<1>5. Handed(c) \in {0, 1}
    BY DEF Handed
<1> QED BY <1>1, <1>2, <1>3, <1>4, <1>5, TasksForFinite, FS_CardinalityType, LenProperties

(* A client that has its responses has no task anywhere. *)
LEMMA AnsweredIsQuiet ==
    ASSUME Inv, early = {}, NEW c \in Clients, asked[c] <= Len(got[c])
    PROVE  /\ unread[c] = 0
           /\ ~(InHand /\ main.for = c)
           /\ \A i \in 1 .. Len(tasks) : tasks[i].for # c
           /\ \A w \in Workers : worker[w].task # None => worker[w].task.for # c
<1> DEFINE q == Cardinality(TasksFor(tasks, c))
           v == Cardinality(ServersFor(worker, c))
           d == Cardinality(ResponsesTo(got, c))
<1>1. /\ unread[c] \in Nat /\ asked[c] \in Nat /\ Len(got[c]) \in Nat
      /\ Handed(c) \in {0, 1} /\ q \in Nat /\ v \in Nat /\ d \in Nat
      /\ unread[c] + Handed(c) + q + v + d = asked[c] /\ Len(got[c]) <= d
    BY CountFacts DEF Total
<1> HIDE DEF q, v, d
<1>2. unread[c] = 0 /\ Handed(c) = 0 /\ q = 0 /\ v = 0
    BY <1>1
<1>3. TasksFor(tasks, c) = {} /\ ServersFor(worker, c) = {}
    <2>1. IsFiniteSet(TasksFor(tasks, c)) /\ IsFiniteSet(ServersFor(worker, c))
        BY TasksForFinite DEF Inv, Structure, TypeOK, Counted
    <2> QED BY <1>2, <2>1, FS_EmptySet DEF q, v
<1>4. ~(InHand /\ main.for = c)
    BY <1>2 DEF Handed
<1> QED BY <1>2, <1>3, <1>4 DEF TasksFor, ServersFor

(* A task with descriptor f is in the queue or in some thread's hands. *)
UnderWay(f) ==
    \/ \E i \in 1 .. Len(tasks) : tasks[i].client_fd = f
    \/ \E w \in Workers : worker[w].task # None /\ worker[w].task.client_fd = f
    \/ InHand /\ main.fd = f

LEMMA TaskTypes ==
    ASSUME Inv
    PROVE  /\ \A i \in 1 .. Len(tasks) : tasks[i] \in Task
           /\ \A w \in Workers : worker[w].task # None => worker[w].task \in Task
           /\ InHand => main.fd \in Fds /\ main.for \in Clients
<1>1. tasks \in Seq(Task) /\ worker \in [Workers -> Worker]
    BY DEF Inv, Structure, TypeOK
<1>2. \A w \in Workers : worker[w].task \in Task \cup {None}
    BY <1>1 DEF Worker
<1>3. \A i \in 1 .. Len(tasks) : tasks[i] \in Task
    BY <1>1, ElementOfSeq
<1> QED BY <1>2, <1>3 DEF Inv, Structure, MainState

LEMMA NotUnderWay ==
    ASSUME Inv, early = {}, NEW f \in Fds, peer[f] = None \/ client[peer[f]] = "closed"
    PROVE  ~UnderWay(f)
<1> SUFFICES ASSUME UnderWay(f) PROVE FALSE
    OBVIOUS
<1>1. Designates
    BY DEF Inv, Timely
<1>2. peer[f] \in Clients /\ ~(asked[peer[f]] <= Len(got[peer[f]]))
    <2>1. ASSUME NEW i \in 1 .. Len(tasks), tasks[i].client_fd = f
          PROVE  peer[f] \in Clients /\ ~(asked[peer[f]] <= Len(got[peer[f]]))
        <3>1. tasks[i].for \in Clients /\ peer[f] = tasks[i].for
            BY <1>1, <2>1, TaskTypes DEF Designates, Task
        <3> QED BY <3>1, AnsweredIsQuiet
    <2>2. ASSUME NEW w \in Workers, worker[w].task # None, worker[w].task.client_fd = f
          PROVE  peer[f] \in Clients /\ ~(asked[peer[f]] <= Len(got[peer[f]]))
        <3>1. worker[w].task.for \in Clients /\ peer[f] = worker[w].task.for
            BY <1>1, <2>2, TaskTypes DEF Designates, Task
        <3> QED BY <2>2, <3>1, AnsweredIsQuiet
    <2>3. ASSUME InHand, main.fd = f
          PROVE  peer[f] \in Clients /\ ~(asked[peer[f]] <= Len(got[peer[f]]))
        <3>1. main.for \in Clients /\ peer[f] = main.for
            BY <1>1, <2>3, TaskTypes DEF Designates
        <3> QED BY <2>3, <3>1, AnsweredIsQuiet
    <2> QED BY <2>1, <2>2, <2>3 DEF UnderWay
<1>3. peer[f] # None
    BY <1>2, NoneAssumption
<1> QED BY <1>2, <1>3 DEF Inv, Timely

(***************************************************************************)
(* A step that moves no request: the tasks and the counts stay, descriptors *)
(* under way are neither closed nor opened.                                *)
(***************************************************************************)
LEMMA QuietStep ==
    ASSUME Inv, UNCHANGED <<tasks, got, unread, asked>>,
           \A w \in Workers : worker'[w].task = worker[w].task,
           InHand' <=> InHand, InHand => main'.fd = main.fd /\ main'.for = main.for,
           early' = {} => /\ early = {} /\ killed' = killed
                          /\ \A c \in Clients : client'[c] = "closed" => asked[c] <= Len(got[c])
                          /\ \A f \in Fds : UnderWay(f) => peer'[f] = peer[f]
    PROVE  Counted' /\ Timely'
<1>1. \A c \in Clients : ServersFor(worker', c) = ServersFor(worker, c)
    BY SameServers
<1>2. \A c \in Clients : Handed(c)' = Handed(c)
    BY DEF Handed
<1>3. \A c \in Clients : Total(c)' = Total(c)
    BY <1>1, <1>2 DEF Total
<1>4. Counted'
    BY <1>1, <1>3 DEF Inv, Counted
<1>5. ASSUME early' = {} PROVE Designates'
    <2>1. Designates /\ \A f \in Fds : UnderWay(f) => peer'[f] = peer[f]
        BY <1>5 DEF Inv, Timely
    <2>2. \A i \in 1 .. Len(tasks) : peer'[tasks[i].client_fd] = tasks[i].for
        BY <2>1, TaskTypes DEF Designates, Task, UnderWay
    <2>3. \A w \in Workers : worker[w].task # None =>
              peer'[worker[w].task.client_fd] = worker[w].task.for
        BY <2>1, TaskTypes DEF Designates, Task, UnderWay
    <2>4. InHand => peer'[main.fd] = main.for
        BY <2>1, TaskTypes DEF Designates, UnderWay
    <2> QED BY <2>2, <2>3, <2>4 DEF Designates
<1>6. Timely'
    BY <1>3, <1>5 DEF Inv, Timely
<1> QED BY <1>4, <1>6

-----------------------------------------------------------------------------
(* The ready list and the batch.                                           *)

Once(list) == \A i, j \in 1 .. Len(list) : list[i] = list[j] => i = j

LEMMA WithoutOne ==
    ASSUME NEW S, NEW list \in Seq(S), Once(list), NEW f
    PROVE  /\ Without(list, f) \in Seq(S) /\ Once(Without(list, f))
           /\ \A j \in 1 .. Len(Without(list, f)) :
                  /\ Without(list, f)[j] # f
                  /\ \E i \in 1 .. Len(list) : Without(list, f)[j] = list[i]
<1> DEFINE n == Len(list)
<1>0. n \in Nat
    BY LenProperties
<1>1. CASE ~ \E i \in 1 .. n : list[i] = f
    <2>1. Without(list, f) = list
        BY <1>1 DEF Without
    <2> QED BY <1>1, <2>1
<1>2. CASE \E i \in 1 .. n : list[i] = f
    <2>1. PICK i : i = CHOOSE k \in 1 .. n : list[k] = f
        OBVIOUS
    <2>2. i \in 1 .. n /\ list[i] = f
        BY <1>2, <2>1
    <2> DEFINE a == SubSeq(list, 1, i - 1)
               b == SubSeq(list, i + 1, n)
               u == a \o b
    <2>3. Without(list, f) = u
        BY <1>2, <2>1 DEF Without
    <2>4. /\ a \in Seq(S) /\ Len(a) = i - 1
          /\ \A j \in 1 .. i - 1 : a[j] = list[j]
        <3>1. i - 1 \in 0 .. n /\ (\A j \in 1 .. i - 1 : j \in 1 .. n /\ list[j] \in S)
            BY <1>0, <2>2, ElementOfSeq
        <3> HIDE DEF n
        <3>2. a = [j \in 1 .. i - 1 |-> list[j]]
            BY <1>0, <2>2
        <3> QED BY <3>1, <3>2
    <2>5. /\ b \in Seq(S) /\ Len(b) = n - i
          /\ \A j \in 1 .. n - i : b[j] = list[i + j]
        <3>1. n - i \in Nat /\ (\A j \in 1 .. n - i : i + j \in 1 .. n /\ list[i + j] \in S)
            BY <1>0, <2>2, ElementOfSeq
        <3> HIDE DEF n
        <3>2. \A k \in i + 1 .. n : list[k] \in S
            <4> TAKE k \in i + 1 .. n
            <4>1. k - i \in 1 .. n - i /\ i + (k - i) = k
                BY <1>0, <2>2
            <4> QED BY <3>1, <4>1
        <3>3. /\ b \in Seq(S) /\ Len(b) = IF i + 1 <= n THEN n - (i + 1) + 1 ELSE 0
              /\ \A j \in 1 .. n - (i + 1) + 1 : b[j] = list[(i + 1) + j - 1]
            BY <1>0, <2>2, <3>2, SubSeqProperties
        <3>4. Len(b) = n - i /\ n - (i + 1) + 1 = n - i
            BY <1>0, <2>2, <3>3
        <3>5. \A j \in 1 .. n - i : (i + 1) + j - 1 = i + j
            BY <1>0, <2>2
        <3> HIDE DEF b
        <3> QED BY <3>3, <3>4, <3>5
    <2> HIDE DEF a, b, n
    <2>6. /\ u \in Seq(S) /\ Len(u) = n - 1
          /\ \A j \in 1 .. n - 1 : u[j] = IF j < i THEN list[j] ELSE list[j + 1]
        <3>1. u \in Seq(S) /\ Len(u) = Len(a) + Len(b)
              /\ \A j \in 1 .. Len(a) + Len(b) :
                     u[j] = IF j <= Len(a) THEN a[j] ELSE b[j - Len(a)]
            BY <2>4, <2>5, ConcatProperties
        <3>2. Len(u) = n - 1
            BY <1>0, <2>2, <2>4, <2>5, <3>1
        <3>3. ASSUME NEW j \in 1 .. n - 1
              PROVE  u[j] = IF j < i THEN list[j] ELSE list[j + 1]
            <4>1. j \in 1 .. Len(a) + Len(b)
                BY <1>0, <2>2, <2>4, <2>5
            <4>2. CASE j < i
                BY <1>0, <2>2, <2>4, <3>1, <4>1, <4>2
            <4>3. CASE ~(j < i)
                <5>1. ~(j <= Len(a)) /\ j - Len(a) = j - i + 1 /\ j - i + 1 \in 1 .. n - i
                      /\ i + (j - i + 1) = j + 1
                    BY <1>0, <2>2, <2>4, <4>3
                <5> QED BY <2>5, <3>1, <4>1, <4>3, <5>1
            <4> QED BY <4>2, <4>3
        <3> QED BY <3>1, <3>2, <3>3
    <2> HIDE DEF u
    <2>7. \A j, k \in 1 .. n : list[j] = list[k] => j = k
        BY DEF Once, n
    <2>8. \A j \in 1 .. n - 1 : \E k \in 1 .. n :
              k = (IF j < i THEN j ELSE j + 1) /\ u[j] = list[k] /\ k # i
        BY <1>0, <2>2, <2>6
    <2>9. \A j \in 1 .. n - 1 : u[j] # f /\ \E k \in 1 .. n : u[j] = list[k]
        BY <2>2, <2>7, <2>8
    <2>10. \A j, k \in 1 .. n - 1 : u[j] = u[k] => j = k
        <3> SUFFICES ASSUME NEW j \in 1 .. n - 1, NEW k \in 1 .. n - 1, u[j] = u[k]
                     PROVE  j = k
            OBVIOUS
        <3>1. (IF j < i THEN j ELSE j + 1) = (IF k < i THEN k ELSE k + 1)
            BY <2>7, <2>8
        <3> QED BY <1>0, <2>2, <3>1
    <2> QED BY <2>3, <2>6, <2>9, <2>10 DEF Once, n
<1> QED BY <1>1, <1>2

LEMMA NotifiedOnce ==
    ASSUME NEW S, NEW list \in Seq(S), Once(list), NEW f \in S
    PROVE  /\ Notified(list, f) \in Seq(S) /\ Once(Notified(list, f))
           /\ \A j \in 1 .. Len(Notified(list, f)) :
                  \/ Notified(list, f)[j] = f
                  \/ \E i \in 1 .. Len(list) : Notified(list, f)[j] = list[i]
<1>1. CASE \E i \in 1 .. Len(list) : list[i] = f
    <2>1. Notified(list, f) = list
        BY <1>1 DEF Notified
    <2> QED BY <2>1
<1>2. CASE ~ \E i \in 1 .. Len(list) : list[i] = f
    <2> DEFINE u == Append(list, f)
               n == Len(list)
    <2>1. Notified(list, f) = u
        BY <1>2 DEF Notified
    <2>2. /\ u \in Seq(S) /\ n \in Nat /\ Len(u) = n + 1 /\ u[n + 1] = f
          /\ \A i \in 1 .. n : u[i] = list[i]
        BY LenProperties, AppendProperties
    <2>3. \A i \in 1 .. Len(u) : i \in 1 .. n \/ i = n + 1
        BY <2>2
    <2> HIDE DEF u
    <2> QED BY <1>2, <2>1, <2>2, <2>3 DEF Once
<1> QED BY <1>1, <1>2

(* The rest of a batch. *)
LEMMA TailOfBatch ==
    ASSUME NEW s \in Seq(Event), s # <<>>
    PROVE  /\ Len(s) \in Nat \ {0} /\ Head(s) = s[1] /\ s[1] \in Event
           /\ Tail(s) \in Seq(Event) /\ Len(Tail(s)) = Len(s) - 1
           /\ \A i \in 1 .. Len(s) - 1 : Tail(s)[i] = s[i + 1]
           /\ Tail(s) = <<>> <=> Len(s) = 1
<1>1. Len(s) \in Nat \ {0}
    BY EmptySeq, LenProperties
<1>2. /\ Tail(s) \in Seq(Event) /\ Len(Tail(s)) = Len(s) - 1
      /\ \A i \in 1 .. Len(s) - 1 : Tail(s)[i] = s[i + 1]
    BY <1>1, HeadTailProperties
<1>3. Head(s) = s[1] /\ s[1] \in Event
    BY <1>1, ElementOfSeq
<1>4. Tail(s) = <<>> <=> Len(s) = 1
    BY <1>1, <1>2, EmptySeq
<1> QED BY <1>1, <1>2, <1>3, <1>4

-----------------------------------------------------------------------------
(* The steps of main().                                                    *)

LEMMA MainFields ==
    ASSUME Inv
    PROVE  /\ main \in MainThread /\ main.pc \in MainPcs /\ main.events \in Seq(Event)
           /\ main.fd \in Fds \cup {None} /\ main.for \in Clients \cup {None}
BY DEF Inv, Structure, TypeOK, MainThread

(* A step of main() that moves no request. *)
LEMMA MainMoves ==
    ASSUME Inv, UNCHANGED <<tasks, waiting, worker, killed, clientVars>>,
           main' \in MainThread, InHand' <=> InHand,
           InHand => main'.fd = main.fd /\ main'.for = main.for,
           ready' \in Seq(Fds \cup {server_fd}), watched' \subseteq Fds,
           peer' \in [Fds -> Clients \cup {None}], backlog' \in Seq(Clients),
           ReadyList', Batch', MainState',
           early = {} => \A f \in Fds : UnderWay(f) => peer'[f] = peer[f]
    PROVE  Inv'
<1>1. UNCHANGED <<client, asked, unread, got, early>>
    BY DEF clientVars
<1>2. TypeOK' /\ Pool'
    BY <1>1 DEF Inv, Structure, TypeOK, Pool
<1>3. Counted' /\ Timely'
    <2>1. early = {} =>
              \A c \in Clients : client[c] = "closed" => asked[c] <= Len(got[c])
        BY DEF Inv, Timely
    <2> QED BY <1>1, <2>1, QuietStep
<1> QED BY <1>2, <1>3 DEF Inv, Structure

(* The handled event, and the ones behind it. *)
LEMMA CurrentEvent ==
    ASSUME Inv, main.pc # "epoll_wait"
    PROVE  /\ main.events # <<>> /\ Len(main.events) \in Nat \ {0}
           /\ event = main.events[1] /\ event \in Event
           /\ IF event.fd = server_fd THEN ~event.hup
              ELSE /\ event.fd \in watched /\ event.fd \in Fds
                   /\ peer[event.fd] \in Clients
                   /\ event.hup => client[peer[event.fd]] = "closed"
<1>1. main.events # <<>>
    BY DEF Inv, Structure, MainState
<1>2. /\ Len(main.events) \in Nat \ {0} /\ event = main.events[1] /\ event \in Event
    BY <1>1, MainFields, TailOfBatch DEF event
<1>3. 1 \in 1 .. Len(main.events)
    BY <1>2
<1>4. IF event.fd = server_fd THEN ~event.hup
      ELSE event.fd \in watched /\ (event.hup => client[peer[event.fd]] = "closed")
    BY <1>2, <1>3 DEF Inv, Structure, Batch
<1>5. \A f \in watched : f \in Fds /\ peer[f] \in Clients
    BY DEF Inv, Structure, TypeOK, ReadyList
<1> QED BY <1>1, <1>2, <1>4, <1>5

LEMMA NextEventMoves ==
    ASSUME Inv, main.pc \in {"event", "accept", "read"}, NextEvent, client' = client,
           \A f \in watched : f # event.fd => f \in watched' /\ peer'[f] = peer[f]
    PROVE  main' \in MainThread /\ Batch' /\ MainState' /\ ~InHand' /\ ~InHand
<1> DEFINE s == main.events
           n == Len(s)
           p == IF n = 1 THEN "epoll_wait" ELSE "event"
<1>1. s # <<>> /\ s \in Seq(Event) /\ event = s[1]
    BY CurrentEvent, MainFields
<1>2. /\ n \in Nat \ {0} /\ Tail(s) \in Seq(Event) /\ Len(Tail(s)) = n - 1
      /\ \A i \in 1 .. n - 1 : Tail(s)[i] = s[i + 1]
      /\ Tail(s) = <<>> <=> n = 1
    BY <1>1, TailOfBatch
<1>3. main' = [pc |-> p, events |-> Tail(s), fd |-> None, for |-> None]
    BY DEF NextEvent
<1>4. p \in MainPcs /\ p \in {"epoll_wait", "event"} /\ (p = "epoll_wait" <=> n = 1)
    BY DEF MainPcs
<1> HIDE DEF p
<1>5. main'.pc = p /\ main'.events = Tail(s) /\ main' \in MainThread
    BY <1>2, <1>3, <1>4 DEF MainThread
<1>6. ~InHand' /\ ~InHand
    BY <1>4, <1>5 DEF InHand
<1>7. MainState'
    BY <1>2, <1>4, <1>5, <1>6 DEF MainState
<1>8. Batch'
    <2>1. /\ \A i \in 1 .. n :
                 IF s[i].fd = server_fd THEN ~s[i].hup
                 ELSE s[i].fd \in watched /\ (s[i].hup => client[peer[s[i].fd]] = "closed")
          /\ \A i, j \in 1 .. n : s[i].fd = s[j].fd => i = j
        BY DEF Inv, Structure, Batch
    <2> HIDE DEF s, n
    <2>2. \A i \in 1 .. n - 1 : i + 1 \in 1 .. n /\ i + 1 # 1 /\ 1 \in 1 .. n
        BY <1>2
    <2>3. ASSUME NEW i \in 1 .. n - 1
          PROVE  IF Tail(s)[i].fd = server_fd THEN ~Tail(s)[i].hup
                 ELSE /\ Tail(s)[i].fd \in watched'
                      /\ Tail(s)[i].hup => client[peer'[Tail(s)[i].fd]] = "closed"
        <3>1. i + 1 \in 1 .. n /\ s[i + 1].fd # s[1].fd /\ Tail(s)[i] = s[i + 1]
            BY <1>2, <2>1, <2>2
        <3>2. IF s[i + 1].fd = server_fd THEN ~s[i + 1].hup
              ELSE /\ s[i + 1].fd \in watched
                   /\ s[i + 1].hup => client[peer[s[i + 1].fd]] = "closed"
            BY <2>1, <3>1
        <3> QED BY <1>1, <3>1, <3>2
    <2>4. ASSUME NEW i \in 1 .. n - 1, NEW j \in 1 .. n - 1, Tail(s)[i].fd = Tail(s)[j].fd
          PROVE  i = j
        <3>1. i + 1 = j + 1
            BY <1>2, <2>1, <2>2, <2>4
        <3> QED BY <1>2, <3>1
    <2> QED BY <1>2, <1>5, <2>3, <2>4 DEF Batch
<1> QED BY <1>5, <1>6, <1>7, <1>8

LEMMA CloseMoves ==
    ASSUME Inv, NEW f \in Fds, close(f)
    PROVE  /\ ready' \in Seq(Fds \cup {server_fd}) /\ watched' \subseteq Fds
           /\ peer' \in [Fds -> Clients \cup {None}] /\ backlog' \in Seq(Clients)
           /\ ReadyList'
           /\ \A g \in Fds : g # f => (g \in watched => g \in watched') /\ peer'[g] = peer[g]
<1>1. /\ ready \in Seq(Fds \cup {server_fd}) /\ Once(ready) /\ watched \subseteq Fds
      /\ peer \in [Fds -> Clients \cup {None}] /\ backlog \in Seq(Clients)
      /\ \A g \in watched : peer[g] # None
      /\ \A i \in 1 .. Len(ready) : ready[i] # server_fd => ready[i] \in watched
    BY DEF Inv, Structure, TypeOK, ReadyList, Once
<1>2. /\ peer' = [peer EXCEPT ![f] = None] /\ watched' = watched \ {f}
      /\ ready' = Without(ready, f) /\ backlog' = backlog
    BY DEF close
<1>3. /\ ready' \in Seq(Fds \cup {server_fd}) /\ Once(ready)'
      /\ \A j \in 1 .. Len(ready') :
             ready'[j] # f /\ \E i \in 1 .. Len(ready) : ready'[j] = ready[i]
    <2>1. PICK u : u = Without(ready, f)
        OBVIOUS
    <2>2. /\ u \in Seq(Fds \cup {server_fd}) /\ Once(u)
          /\ \A j \in 1 .. Len(u) : u[j] # f /\ \E i \in 1 .. Len(ready) : u[j] = ready[i]
        BY <1>1, <2>1, WithoutOne
    <2>3. ready' = u
        BY <1>2, <2>1
    <2> QED BY <2>2, <2>3
<1>4. /\ peer' \in [Fds -> Clients \cup {None}] /\ watched' \subseteq Fds
      /\ \A g \in Fds : g # f => (g \in watched => g \in watched') /\ peer'[g] = peer[g]
    BY <1>1, <1>2
<1>5. \A g \in watched' : peer'[g] # None
    BY <1>1, <1>2, <1>4
<1>6. \A j \in 1 .. Len(ready') : ready'[j] # server_fd => ready'[j] \in watched'
    BY <1>1, <1>2, <1>3
<1> QED BY <1>1, <1>2, <1>3, <1>4, <1>5, <1>6 DEF ReadyList, Once

(* A descriptor whose client has closed is closed. *)
LEMMA CloseEventMoves ==
    ASSUME Inv, main.pc \in {"event", "read"}, event.fd # server_fd,
           client[peer[event.fd]] = "closed", close(event.fd), NextEvent,
           UNCHANGED <<tasks, waiting, worker, killed, clientVars>>
    PROVE  Inv'
<1>1. PICK f : f = event.fd
    OBVIOUS
<1>2. f \in Fds /\ f \in watched
    BY <1>1, CurrentEvent
<1>3. /\ ready' \in Seq(Fds \cup {server_fd}) /\ watched' \subseteq Fds
      /\ peer' \in [Fds -> Clients \cup {None}] /\ backlog' \in Seq(Clients)
      /\ ReadyList'
      /\ \A g \in Fds : g # f => (g \in watched => g \in watched') /\ peer'[g] = peer[g]
    BY <1>1, <1>2, CloseMoves
<1>4. \A g \in watched : g \in Fds
    BY DEF Inv, Structure, TypeOK
<1>5. main' \in MainThread /\ Batch' /\ MainState' /\ ~InHand' /\ ~InHand
    BY <1>1, <1>3, <1>4, NextEventMoves DEF clientVars
<1>6. ASSUME early = {} PROVE \A g \in Fds : UnderWay(g) => peer'[g] = peer[g]
    BY <1>1, <1>2, <1>3, <1>6, NotUnderWay
<1> QED BY <1>3, <1>5, <1>6, MainMoves

LEMMA HandleErrorStep == ASSUME Inv, HandleError PROVE Inv'
<1>1. /\ main.pc = "event" /\ event.hup /\ close(event.fd) /\ NextEvent
      /\ UNCHANGED <<tasks, waiting, worker, killed, clientVars>>
    BY DEF HandleError, MainAt, poolVars
<1>2. event.fd # server_fd /\ client[peer[event.fd]] = "closed"
    <2>1. main.pc # "epoll_wait"
        BY <1>1
    <2> QED BY <1>1, <2>1, CurrentEvent, Zenon
<1> QED BY <1>1, <1>2, CloseEventMoves

LEMMA HandleEventStep == ASSUME Inv, HandleEvent PROVE Inv'
<1> DEFINE p == IF event.fd = server_fd THEN "accept" ELSE "read"
<1>1. /\ main.pc = "event" /\ main' = [main EXCEPT !.pc = p]
      /\ UNCHANGED <<tasks, waiting, worker, killed, clientVars>>
      /\ UNCHANGED <<ready, watched, peer, backlog, client>>
    BY DEF HandleEvent, MainAt, poolVars, kernelVars, clientVars
<1>2. /\ main.events # <<>> /\ event = main.events[1]
    BY <1>1, CurrentEvent
<1>3. /\ p \in MainPcs /\ p \in {"accept", "read"} /\ (p = "read" => event.fd # server_fd)
    BY DEF MainPcs
<1> HIDE DEF p
<1>4. main' \in MainThread /\ main'.pc = p /\ main'.events = main.events
    BY <1>1, <1>3, MainFields DEF MainThread
<1>5. ~InHand /\ ~InHand'
    BY <1>1, <1>3, <1>4 DEF InHand
<1>6. MainState'
    BY <1>2, <1>3, <1>4, <1>5 DEF MainState
<1>7. /\ ReadyList' /\ Batch' /\ ready' \in Seq(Fds \cup {server_fd}) /\ watched' \subseteq Fds
      /\ peer' \in [Fds -> Clients \cup {None}] /\ backlog' \in Seq(Clients)
    BY <1>1, <1>4 DEF Inv, Structure, ReadyList, Batch, TypeOK
<1> QED BY <1>1, <1>4, <1>5, <1>6, <1>7, MainMoves

(* epoll_wait takes the first n descriptors of the ready list. *)
LEMMA EpollWaitIs ==
    ASSUME Inv, epoll_wait
    PROVE  \E n \in 1 .. Len(ready) : \E s \in Seq(Event) :
               /\ main.pc = "epoll_wait"
               /\ main' = [main EXCEPT !.pc = "event", !.events = s]
               /\ Len(s) = n
               /\ \A i \in 1 .. n : s[i].fd = ready[i] /\ (s[i].hup <=> HungUp(ready[i]))
               /\ ready' = SubSeq(ready, n + 1, Len(ready))
               /\ UNCHANGED <<tasks, waiting, worker, killed, clientVars>>
               /\ UNCHANGED <<watched, peer, backlog, client>>
<1>1. PICK n : n = IF Len(ready) < MAX_EVENTS THEN Len(ready) ELSE MAX_EVENTS
    OBVIOUS
<1> DEFINE s == [i \in 1 .. n |-> [fd |-> ready[i], hup |-> HungUp(ready[i])]]
<1>2. /\ main.pc = "epoll_wait" /\ n > 0
      /\ main' = [main EXCEPT !.pc = "event", !.events = s]
      /\ ready' = SubSeq(ready, n + 1, Len(ready))
      /\ UNCHANGED <<tasks, waiting, worker, killed, clientVars>>
      /\ UNCHANGED <<watched, peer, backlog, client>>
    BY <1>1 DEF epoll_wait, MainAt, poolVars, clientVars
<1>3. ready \in Seq(Fds \cup {server_fd}) /\ Len(ready) \in Nat
    BY LenProperties DEF Inv, Structure, TypeOK
<1>4. n \in 1 .. Len(ready)
    BY <1>1, <1>2, <1>3, BoundsAssumption
<1>5. n \in Nat /\ \A i \in 1 .. n : ready[i] \in Fds \cup {server_fd}
    BY <1>3, <1>4, ElementOfSeq
<1>6. \A i \in 1 .. n : /\ s[i] \in Event /\ s[i].fd = ready[i]
                        /\ s[i].hup <=> HungUp(ready[i])
    <2> TAKE i \in 1 .. n
    <2>1. PICK b \in BOOLEAN : b = HungUp(ready[i])
        BY DEF HungUp
    <2>2. s[i] = [fd |-> ready[i], hup |-> b]
        BY <2>1
    <2>3. s[i] \in Event /\ s[i].fd = ready[i] /\ s[i].hup = b
        BY <1>5, <2>2 DEF Event
    <2> QED BY <2>1, <2>3, Zenon
<1>7. s \in Seq(Event) /\ Len(s) = n
    <2>1. s \in [1 .. n -> Event]
        BY <1>6
    <2> QED BY <1>5, <2>1
<1> HIDE DEF s
<1> QED BY <1>2, <1>4, <1>6, <1>7

LEMMA EpollWaitStep == ASSUME Inv, epoll_wait PROVE Inv'
<1>1. PICK n \in 1 .. Len(ready) : \E s \in Seq(Event) :
          /\ main.pc = "epoll_wait"
          /\ main' = [main EXCEPT !.pc = "event", !.events = s]
          /\ Len(s) = n
          /\ \A i \in 1 .. n : s[i].fd = ready[i] /\ (s[i].hup <=> HungUp(ready[i]))
          /\ ready' = SubSeq(ready, n + 1, Len(ready))
          /\ UNCHANGED <<tasks, waiting, worker, killed, clientVars>>
          /\ UNCHANGED <<watched, peer, backlog, client>>
    BY EpollWaitIs
<1>2. PICK s \in Seq(Event) :
          /\ main.pc = "epoll_wait"
          /\ main' = [main EXCEPT !.pc = "event", !.events = s]
          /\ Len(s) = n
          /\ \A i \in 1 .. n : s[i].fd = ready[i] /\ (s[i].hup <=> HungUp(ready[i]))
          /\ ready' = SubSeq(ready, n + 1, Len(ready))
          /\ UNCHANGED <<tasks, waiting, worker, killed, clientVars>>
          /\ UNCHANGED <<watched, peer, backlog, client>>
    BY <1>1
<1> DEFINE N == Len(ready)
<1>3. /\ ready \in Seq(Fds \cup {server_fd}) /\ N \in Nat
      /\ \A f \in watched : peer[f] # None
      /\ \A i \in 1 .. N : ready[i] # server_fd => ready[i] \in watched
      /\ \A i, j \in 1 .. N : ready[i] = ready[j] => i = j
    BY LenProperties DEF Inv, Structure, TypeOK, ReadyList
<1>4. main' \in MainThread /\ main'.pc = "event" /\ main'.events = s
    BY <1>2, MainFields DEF MainThread, MainPcs
<1>5. ~InHand /\ ~InHand'
    BY <1>2, <1>4 DEF InHand
<1>6. MainState'
    <2>1. s # <<>>
        BY <1>2
    <2> QED BY <1>4, <1>5, <2>1 DEF MainState
<1> HIDE DEF N
<1>7. Batch'
    <2>1. \A i \in 1 .. n : i \in 1 .. N
        BY <1>3 DEF N
    <2>2. ASSUME NEW i \in 1 .. n
          PROVE  IF s[i].fd = server_fd THEN ~s[i].hup
                 ELSE s[i].fd \in watched /\ (s[i].hup => client[peer[s[i].fd]] = "closed")
        <3>1. s[i].fd = ready[i] /\ (s[i].hup <=> HungUp(ready[i])) /\ i \in 1 .. N
            BY <1>2, <2>1
        <3>2. ready[i] # server_fd => ready[i] \in watched
            BY <1>3, <3>1
        <3>3. HungUp(ready[i]) <=> ready[i] # server_fd /\ client[peer[ready[i]]] = "closed"
            BY DEF HungUp
        <3> QED BY <3>1, <3>2, <3>3, Zenon
    <2>3. \A i, j \in 1 .. n : s[i].fd = s[j].fd => i = j
        BY <1>2, <1>3, <2>1
    <2> QED BY <1>2, <1>4, <2>2, <2>3 DEF Batch
<1>8. /\ ready' \in Seq(Fds \cup {server_fd}) /\ Len(ready') = N - n
      /\ \A i \in 1 .. N - n : n + i \in 1 .. N /\ ready'[i] = ready[n + i]
    <2>1. n \in 1 .. N /\ ready' = SubSeq(ready, n + 1, N)
        BY <1>2 DEF N
    <2>2. \A k \in n + 1 .. N : ready[k] \in Fds \cup {server_fd}
        BY <1>3, <2>1, ElementOfSeq DEF N
    <2>3. /\ ready' \in Seq(Fds \cup {server_fd})
          /\ Len(ready') = IF n + 1 <= N THEN N - (n + 1) + 1 ELSE 0
          /\ \A j \in 1 .. N - (n + 1) + 1 : ready'[j] = ready[(n + 1) + j - 1]
        BY <1>3, <2>1, <2>2, SubSeqProperties
    <2>4. Len(ready') = N - n /\ N - (n + 1) + 1 = N - n
        BY <1>3, <2>1, <2>3
    <2>5. \A j \in 1 .. N - n : (n + 1) + j - 1 = n + j /\ n + j \in 1 .. N
        BY <1>3, <2>1
    <2> QED BY <2>3, <2>4, <2>5
<1>9. ReadyList'
    <2>1. ASSUME NEW i \in 1 .. N - n, NEW j \in 1 .. N - n, ready'[i] = ready'[j]
          PROVE  i = j
        <3>1. /\ n + i \in 1 .. N /\ ready'[i] = ready[n + i]
              /\ n + j \in 1 .. N /\ ready'[j] = ready[n + j]
            BY <1>8
        <3>2. ready[n + i] = ready[n + j]
            BY <2>1, <3>1
        <3>3. \A k, m \in 1 .. N : ready[k] = ready[m] => k = m
            BY <1>3
        <3>4. n + i = n + j
            BY <3>1, <3>2, <3>3, Zenon
        <3> QED BY <1>3, <3>4
    <2>2. \A i \in 1 .. N - n : ready'[i] # server_fd => ready'[i] \in watched
        BY <1>3, <1>8
    <2> QED BY <1>2, <1>3, <1>8, <2>1, <2>2 DEF ReadyList
<1>10. /\ watched' \subseteq Fds
       /\ peer' \in [Fds -> Clients \cup {None}] /\ backlog' \in Seq(Clients)
    BY <1>2 DEF Inv, Structure, TypeOK
<1> QED BY <1>2, <1>4, <1>5, <1>6, <1>7, <1>8, <1>9, <1>10, MainMoves

(* A set of numbers has a smallest one. *)
LEMMA Smallest ==
    ASSUME NEW S, S \subseteq Nat, S # {}
    PROVE  \E n \in S : \A m \in S : n <= m
<1> DEFINE R == OpToRel(<, Nat)
<1>1. IsWellFoundedOn(R, Nat)
    BY NatLessThanWellFounded
<1>2. \A m, n \in Nat : m < n => <<m, n>> \in R
    BY DEF OpToRel
<1> HIDE DEF R
<1>3. PICK n \in S : \A m \in S : ~(<<m, n>> \in R)
    BY <1>1, WFMin
<1>4. \A m \in S : m \in Nat /\ n \in Nat /\ ~(m < n)
    BY <1>2, <1>3, Zenon
<1> QED BY <1>3, <1>4

LEMMA AcceptStep == ASSUME Inv, accept PROVE Inv'
<1>1. /\ main.pc = "accept" /\ UNCHANGED <<tasks, waiting, worker, killed, clientVars>>
      /\ UNCHANGED <<ready, watched, client>>
    BY DEF accept, MainAt, poolVars, clientVars
<1>2. /\ ready \in Seq(Fds \cup {server_fd}) /\ watched \subseteq Fds
      /\ peer \in [Fds -> Clients \cup {None}] /\ backlog \in Seq(Clients)
      /\ main \in MainThread /\ main.events # <<>>
      /\ \A g \in watched : peer[g] # None
    BY <1>1 DEF Inv, Structure, TypeOK, ReadyList, MainState
<1>3. CASE backlog # <<>> /\ Unused # {}
    <2>1. PICK f : f = Lowest
        OBVIOUS
    <2>2. PICK c : c = Head(backlog)
        OBVIOUS
    <2>3. /\ peer' = [peer EXCEPT ![f] = c] /\ backlog' = Tail(backlog)
          /\ main' = [main EXCEPT !.pc = "add", !.fd = f]
        BY <1>3, <2>1, <2>2 DEF accept
    <2>4. f \in Fds /\ peer[f] = None
        <3>1. Unused \subseteq Nat
            BY FdsAssumption DEF Unused
        <3>2. \E g \in Unused : \A h \in Unused : g <= h
            BY <1>3, <3>1, Smallest
        <3>3. Lowest \in Unused
            BY <3>2 DEF Lowest
        <3> QED BY <2>1, <3>3 DEF Unused
    <2>5. c \in Clients /\ c # None /\ backlog' \in Seq(Clients)
        BY <1>2, <1>3, <2>2, <2>3, HeadTailProperties, NoneAssumption
    <2>6. /\ main' \in MainThread /\ main'.pc = "add" /\ main'.fd = f
          /\ main'.events = main.events
        BY <1>2, <2>3, <2>4 DEF MainThread, MainPcs
    <2>7. ~InHand /\ ~InHand'
        BY <1>1, <2>6 DEF InHand
    <2>8. /\ peer' \in [Fds -> Clients \cup {None}] /\ peer'[f] = c
          /\ \A g \in Fds : g # f => peer'[g] = peer[g]
        BY <1>2, <2>3, <2>4, <2>5
    <2>9. \A g \in watched : g # f /\ peer'[g] = peer[g]
        BY <1>2, <2>4, <2>8
    <2>10. MainState'
        BY <1>2, <2>4, <2>5, <2>6, <2>7, <2>8 DEF MainState
    <2>11. ReadyList'
        BY <1>1, <2>9 DEF Inv, Structure, ReadyList
    <2>12. Batch'
        BY <1>1, <2>6, <2>9 DEF Inv, Structure, Batch
    <2>13. ASSUME early = {} PROVE \A g \in Fds : UnderWay(g) => peer'[g] = peer[g]
        BY <2>4, <2>8, <2>13, NotUnderWay
    <2> QED BY <1>1, <1>2, <2>5, <2>6, <2>7, <2>8, <2>10, <2>11, <2>12, <2>13, MainMoves
<1>4. CASE ~(backlog # <<>> /\ Unused # {})
    <2>1. NextEvent /\ peer' = peer /\ backlog' = backlog
        BY <1>4 DEF accept
    <2>2. main' \in MainThread /\ Batch' /\ MainState' /\ ~InHand' /\ ~InHand
        BY <1>1, <2>1, NextEventMoves
    <2>3. ReadyList'
        BY <1>1, <2>1 DEF Inv, Structure, ReadyList
    <2> QED BY <1>1, <1>2, <2>1, <2>2, <2>3, MainMoves
<1> QED BY <1>3, <1>4

(* The kernel puts descriptor f on the ready list. *)
LEMMA ReadyMore ==
    ASSUME Inv, NEW f, f = server_fd \/ (f \in watched' /\ f \in Fds),
           ready' = ready \/ ready' = Notified(ready, f),
           watched \subseteq watched', \A g \in watched' : peer'[g] # None
    PROVE  ReadyList' /\ ready' \in Seq(Fds \cup {server_fd})
<1>1. /\ ready \in Seq(Fds \cup {server_fd}) /\ Once(ready)
      /\ \A i \in 1 .. Len(ready) : ready[i] # server_fd => ready[i] \in watched
    BY DEF Inv, Structure, TypeOK, ReadyList, Once
<1>2. PICK u : u = ready'
    OBVIOUS
<1>3. /\ u \in Seq(Fds \cup {server_fd}) /\ Once(u)
      /\ \A j \in 1 .. Len(u) : u[j] = f \/ \E i \in 1 .. Len(ready) : u[j] = ready[i]
    <2>1. CASE u = ready
        BY <1>1, <2>1
    <2>2. CASE u = Notified(ready, f)
        <3>1. PICK S : S = Fds \cup {server_fd}
            OBVIOUS
        <3>2. PICK list : list = ready
            OBVIOUS
        <3>3. list \in Seq(S) /\ Once(list) /\ f \in S
            BY <1>1, <3>1, <3>2
        <3>4. /\ Notified(list, f) \in Seq(S) /\ Once(Notified(list, f))
              /\ \A j \in 1 .. Len(Notified(list, f)) :
                     \/ Notified(list, f)[j] = f
                     \/ \E i \in 1 .. Len(list) : Notified(list, f)[j] = list[i]
            BY <3>3, NotifiedOnce
        <3> QED BY <2>2, <3>1, <3>2, <3>4
    <2> QED BY <1>2, <2>1, <2>2
<1>4. \A j \in 1 .. Len(u) : u[j] # server_fd => u[j] \in watched'
    BY <1>1, <1>3
<1> QED BY <1>2, <1>3, <1>4 DEF ReadyList, Once

LEMMA EpollCtlAddStep == ASSUME Inv, epoll_ctl_add PROVE Inv'
<1>1. PICK f : f = main.fd
    OBVIOUS
<1>2. /\ main.pc = "add" /\ UNCHANGED <<tasks, waiting, worker, killed, clientVars>>
      /\ UNCHANGED <<peer, backlog, client>>
      /\ watched' = watched \cup {f}
      /\ ready' = ready \/ ready' = Notified(ready, f)
      /\ main' = [main EXCEPT !.pc = "accept"]
    BY <1>1 DEF epoll_ctl_add, MainAt, poolVars, clientVars
<1>3. /\ watched \subseteq Fds /\ peer \in [Fds -> Clients \cup {None}]
      /\ backlog \in Seq(Clients) /\ main \in MainThread /\ main.events # <<>>
      /\ \A g \in watched : peer[g] # None
      /\ f \in Fds /\ peer[f] # None
    BY <1>1, <1>2 DEF Inv, Structure, TypeOK, ReadyList, MainState
<1>4. main' \in MainThread /\ main'.pc = "accept" /\ main'.events = main.events
    BY <1>2, <1>3 DEF MainThread, MainPcs
<1>5. ~InHand /\ ~InHand'
    BY <1>2, <1>4 DEF InHand
<1>6. MainState'
    BY <1>3, <1>4, <1>5 DEF MainState
<1>7. ReadyList' /\ ready' \in Seq(Fds \cup {server_fd}) /\ watched' \subseteq Fds
    BY <1>2, <1>3, ReadyMore
<1>8. Batch'
    BY <1>2, <1>4 DEF Inv, Structure, Batch
<1> QED BY <1>2, <1>3, <1>4, <1>5, <1>6, <1>7, <1>8, MainMoves

LEMMA EnqueueLockStep == ASSUME Inv, EnqueueLock PROVE Inv'
<1>1. /\ main.pc = "enqueue" /\ main' = [main EXCEPT !.pc = "push"]
      /\ UNCHANGED <<tasks, waiting, worker, killed, clientVars>>
      /\ UNCHANGED <<ready, watched, peer, backlog, client>>
    BY DEF EnqueueLock, MainAt, kernelVars, clientVars
<1>2. /\ main' \in MainThread /\ main'.pc = "push" /\ main'.events = main.events
      /\ main'.fd = main.fd /\ main'.for = main.for
    BY <1>1, MainFields DEF MainThread, MainPcs
<1>3. InHand /\ InHand'
    BY <1>1, <1>2 DEF InHand
<1>4. MainState'
    BY <1>1, <1>2, <1>3 DEF Inv, Structure, MainState
<1>5. /\ ReadyList' /\ Batch' /\ ready' \in Seq(Fds \cup {server_fd}) /\ watched' \subseteq Fds
      /\ peer' \in [Fds -> Clients \cup {None}] /\ backlog' \in Seq(Clients)
    BY <1>1, <1>2 DEF Inv, Structure, ReadyList, Batch, TypeOK
<1> QED BY <1>1, <1>2, <1>3, <1>4, <1>5, MainMoves

-----------------------------------------------------------------------------
(* The steps that move a request.                                          *)

(* The counts and the rest of what holds until a client closes early, from *)
(* the change of each count.                                               *)
LEMMA RequestMoves ==
    ASSUME Inv, UNCHANGED <<asked, got, killed, early, client, peer>>,
           \A c \in Clients : IsFiniteSet(ServersFor(worker', c)) /\ Total(c)' <= Total(c),
           \A c \in Clients : Total(c)' \in Nat,
           early = {} => Designates' /\ \A c \in Clients : Total(c)' = Total(c)
    PROVE  Counted' /\ Timely'
<1>1. \A c \in Clients : /\ Total(c) <= asked[c] /\ asked[c] \in Nat
                         /\ asked[c] <= Len(got[c]) + 1
                         /\ IsFiniteSet(ResponsesTo(got, c)) /\ Total(c) \in Nat
    <2> TAKE c \in Clients
    <2>1. IsFiniteSet(ResponsesTo(got, c))
        BY DEF Inv, Counted
    <2> QED BY <2>1, CountFacts DEF Total
<1>2. Counted'
    <2> SUFFICES ASSUME NEW c \in Clients
                 PROVE  /\ IsFiniteSet(ServersFor(worker', c)) /\ IsFiniteSet(ResponsesTo(got, c))
                        /\ Total(c)' <= asked[c] /\ asked[c] <= Len(got[c]) + 1
        BY DEF Counted
    <2>1. Total(c)' \in Nat /\ Total(c)' <= Total(c)
        OBVIOUS
    <2> QED BY <1>1, <2>1
<1>3. Timely'
    BY DEF Inv, Timely
<1> QED BY <1>2, <1>3

LEMMA ReadStep == ASSUME Inv, read PROVE Inv'
<1>1. PICK f : f = event.fd
    OBVIOUS
<1>2. PICK c : c = peer[f]
    OBVIOUS
<1>3. /\ main.pc = "read" /\ UNCHANGED <<tasks, waiting, worker, killed>>
      /\ UNCHANGED <<client, asked, got, early>>
    BY DEF read, MainAt, poolVars
<1>4. /\ f # server_fd /\ f \in Fds /\ f \in watched /\ c \in Clients
      /\ main.events # <<>> /\ event = main.events[1]
    <2>1. main.pc # "epoll_wait"
        BY <1>3
    <2>2. event.fd # server_fd
        BY <1>3, <2>1, CurrentEvent DEF Inv, Structure, MainState
    <2> QED BY <1>1, <1>2, <2>1, <2>2, CurrentEvent
<1>5. CASE /\ unread[c] > 0 /\ unread' = [unread EXCEPT ![c] = 0]
           /\ main' = [main EXCEPT !.pc = "enqueue", !.fd = f, !.for = c]
           /\ UNCHANGED kernelVars
    <2>1. UNCHANGED <<ready, watched, peer, backlog>>
        BY <1>5 DEF kernelVars
    <2>2. /\ main' \in MainThread /\ main'.pc = "enqueue" /\ main'.events = main.events
          /\ main'.fd = f /\ main'.for = c
        BY <1>4, <1>5, MainFields DEF MainThread, MainPcs
    <2>3. ~InHand /\ InHand'
        BY <1>3, <2>2 DEF InHand
    <2>4. /\ unread' \in [Clients -> Nat] /\ unread'[c] = 0
          /\ \A d \in Clients : d # c => unread'[d] = unread[d]
        BY <1>4, <1>5 DEF Inv, Structure, TypeOK
    <2>5. \A d \in Clients : Handed(d) = 0 /\ Handed(d)' = IF d = c THEN 1 ELSE 0
        BY <2>2, <2>3 DEF Handed
    <2>6. ASSUME NEW d \in Clients
          PROVE  /\ IsFiniteSet(ServersFor(worker', d))
                 /\ Total(d)' <= Total(d) /\ Total(d)' \in Nat
                 /\ early = {} => Total(d)' = Total(d)
        <3> DEFINE q == Cardinality(TasksFor(tasks, d))
                   v == Cardinality(ServersFor(worker, d))
                   r == Cardinality(ResponsesTo(got, d))
        <3>1. /\ unread[d] \in Nat /\ asked[d] \in Nat /\ Len(got[d]) \in Nat
              /\ q \in Nat /\ v \in Nat /\ r \in Nat
              /\ asked[d] <= Len(got[d]) + 1
              /\ early = {} => Total(d) = asked[d] /\ Len(got[d]) <= r
            BY CountFacts
        <3>2. Total(d) = unread[d] + Handed(d) + q + v + r
            BY DEF Total
        <3>3. Total(d)' = unread'[d] + Handed(d)' + q + v + r
            BY <1>3 DEF Total
        <3> HIDE DEF q, v, r
        <3>4. IsFiniteSet(ServersFor(worker', d))
            BY <1>3 DEF Inv, Counted
        <3>5. CASE d # c
            BY <2>4, <2>5, <3>1, <3>2, <3>3, <3>4, <3>5
        <3>6. CASE d = c
            <4>1. /\ Total(d)' = 1 + q + v + r /\ unread[d] >= 1
                  /\ Total(d) = unread[d] + q + v + r
                BY <1>5, <2>4, <2>5, <3>1, <3>2, <3>3, <3>6
            <4>2. early = {} => unread[d] = 1
                BY <3>1, <4>1
            <4> QED BY <3>1, <3>4, <4>1, <4>2
        <3> QED BY <3>5, <3>6
    <2>7. early = {} => Designates'
        BY <1>2, <1>3, <2>1, <2>2 DEF Inv, Timely, Designates
    <2>8. Counted' /\ Timely'
        BY <1>3, <2>1, <2>6, <2>7, RequestMoves
    <2>9. MainState'
        BY <1>1, <1>4, <2>2 DEF MainState
    <2>10. TypeOK' /\ Pool' /\ ReadyList' /\ Batch'
        BY <1>3, <2>1, <2>2, <2>4 DEF Inv, Structure, TypeOK, Pool, ReadyList, Batch
    <2> QED BY <2>8, <2>9, <2>10 DEF Inv, Structure
<1>6. CASE unread[c] = 0 /\ client[c] = "closed" /\ close(f) /\ NextEvent /\ UNCHANGED unread
    BY <1>1, <1>2, <1>3, <1>4, <1>6, CloseEventMoves DEF clientVars
<1>7. CASE NextEvent /\ UNCHANGED <<kernelVars, unread>>
    <2>1. UNCHANGED <<ready, watched, peer, backlog>>
        BY <1>7 DEF kernelVars
    <2>2. main' \in MainThread /\ Batch' /\ MainState' /\ ~InHand' /\ ~InHand
        BY <1>3, <1>7, <2>1, NextEventMoves
    <2>3. /\ ReadyList' /\ ready' \in Seq(Fds \cup {server_fd}) /\ watched' \subseteq Fds
          /\ peer' \in [Fds -> Clients \cup {None}] /\ backlog' \in Seq(Clients)
        BY <2>1 DEF Inv, Structure, ReadyList, TypeOK
    <2>4. UNCHANGED clientVars
        BY <1>3, <1>7 DEF clientVars
    <2> QED BY <1>3, <2>1, <2>2, <2>3, <2>4, MainMoves
<1> QED BY <1>1, <1>2, <1>5, <1>6, <1>7 DEF read

LEMMA EnqueuePushStep == ASSUME Inv, EnqueuePush PROVE Inv'
<1>1. PICK e : e = [client_fd |-> main.fd, for |-> main.for]
    OBVIOUS
<1>2. /\ main.pc = "push" /\ tasks' = Append(tasks, e)
      /\ main' = [main EXCEPT !.pc = "notify"]
      /\ UNCHANGED <<waiting, worker, killed>>
      /\ UNCHANGED <<ready, watched, peer, backlog>>
      /\ UNCHANGED <<client, asked, unread, got, early>>
    BY <1>1 DEF EnqueuePush, MainAt, kernelVars, clientVars
<1>3. /\ main' \in MainThread /\ main'.pc = "notify" /\ main'.events = main.events
    BY <1>2, MainFields DEF MainThread, MainPcs
<1>4. InHand /\ ~InHand'
    BY <1>2, <1>3 DEF InHand
<1>5. e \in Task /\ e.client_fd = main.fd /\ e.for = main.for
    BY <1>1, <1>4 DEF Inv, Structure, MainState, Task
<1>6. /\ tasks \in Seq(Task) /\ tasks' \in Seq(Task) /\ Len(tasks) \in Nat
      /\ Len(tasks') = Len(tasks) + 1 /\ tasks'[Len(tasks) + 1] = e
      /\ \A i \in 1 .. Len(tasks) : tasks'[i] = tasks[i]
    BY <1>2, <1>5, LenProperties, AppendProperties DEF Inv, Structure, TypeOK
<1>7. ASSUME NEW d \in Clients
      PROVE  /\ IsFiniteSet(ServersFor(worker', d))
             /\ Total(d)' <= Total(d) /\ Total(d)' \in Nat
             /\ early = {} => Total(d)' = Total(d)
    <2> DEFINE q == Cardinality(TasksFor(tasks, d))
               z == Cardinality(TasksFor(tasks', d))
               v == Cardinality(ServersFor(worker, d))
               r == Cardinality(ResponsesTo(got, d))
    <2>1. unread[d] \in Nat /\ q \in Nat /\ v \in Nat /\ r \in Nat
        BY CountFacts
    <2>2. Total(d) = unread[d] + Handed(d) + q + v + r
        BY DEF Total
    <2>3. Total(d)' = unread[d] + Handed(d)' + z + v + r
        BY <1>2 DEF Total
    <2>4. z = q + (IF e.for = d THEN 1 ELSE 0)
        BY <1>2, <1>5, <1>6, TaskPushed
    <2>5. Handed(d) = (IF e.for = d THEN 1 ELSE 0) /\ Handed(d)' = 0
        BY <1>4, <1>5 DEF Handed
    <2>6. IsFiniteSet(ServersFor(worker', d))
        BY <1>2 DEF Inv, Counted
    <2> HIDE DEF q, z, v, r
    <2> QED BY <2>1, <2>2, <2>3, <2>4, <2>5, <2>6
<1>8. ASSUME early = {} PROVE Designates'
    <2>1. Designates
        BY <1>8 DEF Inv, Timely
    <2>2. \A i \in 1 .. Len(tasks') : i \in 1 .. Len(tasks) \/ i = Len(tasks) + 1
        BY <1>6
    <2>3. \A i \in 1 .. Len(tasks') : peer[tasks'[i].client_fd] = tasks'[i].for
        BY <1>4, <1>5, <1>6, <2>1, <2>2 DEF Designates
    <2> QED BY <1>2, <1>4, <2>1, <2>3 DEF Designates
<1>9. Counted' /\ Timely'
    BY <1>2, <1>7, <1>8, RequestMoves
<1>10. MainState'
    BY <1>2, <1>3, <1>4 DEF Inv, Structure, MainState
<1>11. TypeOK' /\ Pool' /\ ReadyList' /\ Batch'
    BY <1>2, <1>3, <1>6 DEF Inv, Structure, TypeOK, Pool, ReadyList, Batch
<1> QED BY <1>9, <1>10, <1>11 DEF Inv, Structure

-----------------------------------------------------------------------------
(* The steps of the pool.                                                  *)

(* Only the control points of the threads, and who waits, change. *)
LEMMA PoolMoves ==
    ASSUME Inv, UNCHANGED <<tasks, killed, kernelVars, clientVars>>,
           worker' \in [Workers -> Worker],
           \A w \in Workers : worker'[w].task = worker[w].task, Pool',
           main' \in MainThread, main'.events = main.events, MainState',
           InHand' <=> InHand, InHand => main'.fd = main.fd /\ main'.for = main.for
    PROVE  Inv'
<1>1. /\ UNCHANGED <<ready, watched, peer, backlog>>
      /\ UNCHANGED <<client, asked, unread, got, early>>
    BY DEF kernelVars, clientVars
<1>2. TypeOK' /\ ReadyList' /\ Batch'
    BY <1>1 DEF Inv, Structure, TypeOK, ReadyList, Batch
<1>3. Counted' /\ Timely'
    <2>1. early = {} =>
              \A c \in Clients : client[c] = "closed" => asked[c] <= Len(got[c])
        BY DEF Inv, Timely
    <2> QED BY <1>1, <2>1, QuietStep
<1> QED BY <1>2, <1>3 DEF Inv, Structure

LEMMA MainStays ==
    ASSUME Inv, main' = main, peer' = peer
    PROVE  /\ main' \in MainThread /\ main'.events = main.events /\ MainState'
           /\ InHand' <=> InHand /\ main'.fd = main.fd /\ main'.for = main.for
BY DEF Inv, Structure, TypeOK, MainState, InHand

(* A thread goes from one control point to another that is not "serve". *)
LEMMA WorkerGoes ==
    ASSUME Inv, NEW w \in Workers, worker[w].pc # "serve",
           NEW p \in {"lock", "test", "wait"}, worker' = [worker EXCEPT ![w].pc = p],
           \/ p = "test" /\ waiting' = waiting /\ worker[w].pc # "wait"
           \/ p = "lock" /\ waiting' = waiting \ {w}
           \/ p = "wait" /\ waiting' = waiting \cup {w}
    PROVE  /\ worker' \in [Workers -> Worker] /\ Pool'
           /\ \A v \in Workers : worker'[v].task = worker[v].task
<1>1. worker \in [Workers -> Worker] /\ Pool
    BY DEF Inv, Structure, TypeOK
<1>2. /\ worker' \in [Workers -> Worker] /\ worker'[w].pc = p
      /\ \A v \in Workers : worker'[v].task = worker[v].task
      /\ \A v \in Workers : v # w => worker'[v].pc = worker[v].pc
    BY <1>1 DEF Worker
<1>3. \A v \in Workers : worker'[v].task # None <=> worker'[v].pc = "serve"
    BY <1>1, <1>2 DEF Pool
<1>4. waiting' \subseteq {v \in Workers : worker'[v].pc = "wait"}
    BY <1>1, <1>2 DEF Pool
<1> QED BY <1>2, <1>3, <1>4 DEF Pool

LEMMA WorkerLockStep == ASSUME Inv, NEW w \in Workers, WorkerLock(w) PROVE Inv'
<1>1. /\ worker[w].pc = "lock" /\ worker' = [worker EXCEPT ![w].pc = "test"]
      /\ UNCHANGED <<tasks, waiting, main, killed, kernelVars, clientVars>>
    BY DEF WorkerLock, WorkerAt
<1>2. /\ worker' \in [Workers -> Worker] /\ Pool'
      /\ \A v \in Workers : worker'[v].task = worker[v].task
    BY <1>1, WorkerGoes
<1> QED BY <1>1, <1>2, MainStays, PoolMoves DEF kernelVars

LEMMA WaitStep == ASSUME Inv, NEW w \in Workers, Wait(w) PROVE Inv'
<1>1. /\ worker[w].pc = "test" /\ worker' = [worker EXCEPT ![w].pc = "wait"]
      /\ waiting' = waiting \cup {w}
      /\ UNCHANGED <<tasks, main, killed, kernelVars, clientVars>>
    BY DEF Wait, WorkerAt
<1>2. /\ worker' \in [Workers -> Worker] /\ Pool'
      /\ \A v \in Workers : worker'[v].task = worker[v].task
    BY <1>1, WorkerGoes
<1> QED BY <1>1, <1>2, MainStays, PoolMoves DEF kernelVars

LEMMA SpuriousWakeStep == ASSUME Inv, NEW w \in Workers, SpuriousWake(w) PROVE Inv'
<1>1. /\ worker[w].pc = "wait" /\ worker' = [worker EXCEPT ![w].pc = "lock"]
      /\ waiting' = waiting \ {w}
      /\ UNCHANGED <<tasks, main, killed, kernelVars, clientVars>>
    BY DEF SpuriousWake, Wake, WorkerAt
<1>2. /\ worker' \in [Workers -> Worker] /\ Pool'
      /\ \A v \in Workers : worker'[v].task = worker[v].task
    BY <1>1, WorkerGoes
<1> QED BY <1>1, <1>2, MainStays, PoolMoves DEF kernelVars

LEMMA NotifyOneStep == ASSUME Inv, NotifyOne PROVE Inv'
<1>1. /\ main.pc = "notify"
      /\ main' = [main EXCEPT !.pc = "read", !.fd = None, !.for = None]
      /\ UNCHANGED <<tasks, killed, kernelVars, clientVars>>
      /\ \/ UNCHANGED <<waiting, worker>>
         \/ \E w \in waiting : Wake(w)
    BY DEF NotifyOne, MainAt
<1>2. /\ main' \in MainThread /\ main'.pc = "read" /\ main'.events = main.events
    BY <1>1, MainFields DEF MainThread, MainPcs
<1>3. ~InHand /\ ~InHand'
    BY <1>1, <1>2 DEF InHand
<1>4. MainState'
    BY <1>1, <1>2, <1>3 DEF Inv, Structure, MainState
<1>5. /\ worker' \in [Workers -> Worker] /\ Pool'
      /\ \A v \in Workers : worker'[v].task = worker[v].task
    <2>1. CASE UNCHANGED <<waiting, worker>>
        BY <2>1 DEF Inv, Structure, TypeOK, Pool
    <2>2. CASE \E w \in waiting : Wake(w)
        <3>1. PICK w \in waiting : Wake(w)
            BY <2>2
        <3>2. w \in Workers /\ worker[w].pc = "wait"
            BY <3>1 DEF Inv, Structure, Pool
        <3> QED BY <3>1, <3>2, WorkerGoes DEF Wake
    <2> QED BY <1>1, <2>1, <2>2
<1> QED BY <1>1, <1>2, <1>3, <1>4, <1>5, PoolMoves

LEMMA TakeTaskStep == ASSUME Inv, NEW w \in Workers, TakeTask(w) PROVE Inv'
<1>1. PICK e : e = Head(tasks)
    OBVIOUS
<1>2. PICK rec : rec = [pc |-> "serve", task |-> e]
    OBVIOUS
<1>3. /\ worker[w].pc = "test" /\ tasks # <<>> /\ tasks' = Tail(tasks)
      /\ worker' = [worker EXCEPT ![w] = rec]
      /\ UNCHANGED <<waiting, main, killed>>
      /\ UNCHANGED <<ready, watched, peer, backlog>>
      /\ UNCHANGED <<client, asked, unread, got, early>>
    BY <1>1, <1>2 DEF TakeTask, WorkerAt, kernelVars, clientVars
<1>4. tasks \in Seq(Task) /\ worker \in [Workers -> Worker] /\ Pool /\ worker[w].task = None
    BY <1>3 DEF Inv, Structure, TypeOK, Pool
<1>5. /\ tasks' \in Seq(Task) /\ Len(tasks) \in Nat \ {0} /\ Len(tasks') = Len(tasks) - 1
      /\ \A i \in 1 .. Len(tasks) - 1 : tasks'[i] = tasks[i + 1]
      /\ e = tasks[1] /\ e \in Task
    <2>1. Len(tasks) \in Nat \ {0}
        BY <1>3, <1>4, EmptySeq, LenProperties
    <2> QED BY <1>1, <1>3, <1>4, <2>1, HeadTailProperties, ElementOfSeq
<1>6. e # None
    BY <1>5, NoneAssumption DEF Task
<1>7. rec \in Worker /\ rec.task = e /\ rec.pc = "serve"
    BY <1>2, <1>5 DEF Worker
<1>8. /\ worker' \in [Workers -> Worker] /\ worker'[w] = rec
      /\ \A v \in Workers : v # w => worker'[v] = worker[v]
    BY <1>3, <1>4, <1>7
<1>9. ASSUME NEW d \in Clients
      PROVE  /\ IsFiniteSet(ServersFor(worker', d))
             /\ Total(d)' <= Total(d) /\ Total(d)' \in Nat
             /\ early = {} => Total(d)' = Total(d)
    <2> DEFINE q == Cardinality(TasksFor(tasks, d))
               z == Cardinality(TasksFor(tasks', d))
               v == Cardinality(ServersFor(worker, d))
               y == Cardinality(ServersFor(worker', d))
               r == Cardinality(ResponsesTo(got, d))
               k == IF e.for = d THEN 1 ELSE 0
    <2>1. /\ unread[d] \in Nat /\ q \in Nat /\ v \in Nat /\ r \in Nat /\ Handed(d) \in {0, 1}
        BY CountFacts
    <2>2. Total(d) = unread[d] + Handed(d) + q + v + r
        BY DEF Total
    <2>3. Total(d)' = unread[d] + Handed(d) + z + y + r
        BY <1>3 DEF Total, Handed, InHand
    <2>4. q = z + k
        BY <1>1, <1>3, <1>4, TaskPopped
    <2>5. z \in Nat
        BY <1>5, TasksForFinite
    <2>6. IsFiniteSet(ServersFor(worker, d))
        BY DEF Inv, Counted
    <2>7. IsFiniteSet(ServersFor(worker', d)) /\ y = v + k
        <3>1. PICK new : new = worker'
            OBVIOUS
        <3>2. /\ \A x \in Workers : x # w => new[x] = worker[x]
              /\ new[w].task = e /\ new[w].task # None /\ worker[w].task = None
            BY <1>4, <1>6, <1>7, <1>8, <3>1
        <3>3. /\ IsFiniteSet(ServersFor(new, d))
              /\ Cardinality(ServersFor(new, d))
                     = Cardinality(ServersFor(worker, d)) + (IF new[w].task.for = d THEN 1 ELSE 0)
            BY <2>6, <3>2, TaskTaken
        <3> QED BY <3>1, <3>2, <3>3
    <2>8. k \in {0, 1}
        OBVIOUS
    <2> HIDE DEF q, z, v, y, r, k
    <2> QED BY <2>1, <2>2, <2>3, <2>4, <2>5, <2>7, <2>8
<1>10. ASSUME early = {} PROVE Designates'
    <2>1. Designates
        BY <1>10 DEF Inv, Timely
    <2>2. \A i \in 1 .. Len(tasks') : i + 1 \in 1 .. Len(tasks) /\ tasks'[i] = tasks[i + 1]
        BY <1>5
    <2>3. 1 \in 1 .. Len(tasks)
        BY <1>5
    <2>4. \A i \in 1 .. Len(tasks') : peer[tasks'[i].client_fd] = tasks'[i].for
        BY <2>1, <2>2 DEF Designates
    <2>5. \A v \in Workers : worker'[v].task # None =>
              peer[worker'[v].task.client_fd] = worker'[v].task.for
        BY <1>5, <1>7, <1>8, <2>1, <2>3 DEF Designates
    <2> QED BY <1>3, <2>1, <2>4, <2>5 DEF Designates, InHand
<1>11. Counted' /\ Timely'
    BY <1>3, <1>9, <1>10, RequestMoves
<1>12. Pool'
    BY <1>3, <1>4, <1>6, <1>7, <1>8 DEF Pool
<1>13. TypeOK' /\ ReadyList' /\ Batch' /\ MainState'
    BY <1>3, <1>5, <1>8 DEF Inv, Structure, TypeOK, ReadyList, Batch, MainState, InHand
<1> QED BY <1>11, <1>12, <1>13 DEF Inv, Structure

LEMMA ServeStep == ASSUME Inv, NEW w \in Workers, Serve(w) PROVE Inv'
<1>1. PICK t : t = worker[w].task
    OBVIOUS
<1>2. PICK b : b = peer[t.client_fd]
    OBVIOUS
<1>3. PICK rec : rec = [pc |-> "lock", task |-> None]
    OBVIOUS
<1>4. /\ worker[w].pc = "serve" /\ worker' = [worker EXCEPT ![w] = rec]
      /\ killed' = (b # None /\ client[b] = "closed")
      /\ got' = IF b = None \/ killed' THEN got ELSE [got EXCEPT ![b] = Append(@, t.for)]
      /\ UNCHANGED <<tasks, waiting, main>>
      /\ UNCHANGED <<ready, watched, peer, backlog>>
      /\ UNCHANGED <<client, asked, unread, early>>
    BY <1>1, <1>2, <1>3 DEF Serve, WorkerAt, kernelVars
<1>5. /\ worker \in [Workers -> Worker] /\ Pool /\ t # None /\ t \in Task
      /\ got \in [Clients -> Seq(Clients)]
    BY <1>1, <1>4, TaskTypes DEF Inv, Structure, TypeOK, Pool
<1>6. t.client_fd \in Fds /\ t.for \in Clients /\ b \in Clients \cup {None}
    BY <1>2, <1>5 DEF Task, Inv, Structure, TypeOK
<1>7. rec \in Worker /\ rec.task = None /\ rec.pc = "lock"
    BY <1>3 DEF Worker
<1>8. /\ worker' \in [Workers -> Worker] /\ worker'[w] = rec
      /\ \A v \in Workers : v # w => worker'[v] = worker[v]
    BY <1>4, <1>5, <1>7
<1>9. ASSUME early = {}
      PROVE  b = t.for /\ b # None /\ client[b] # "closed"
    <2>1. b = t.for
        BY <1>1, <1>2, <1>5, <1>9 DEF Inv, Timely, Designates
    <2>2. b # None
        BY <1>6, <2>1, NoneAssumption
    <2>3. UnderWay(t.client_fd)
        BY <1>1, <1>5 DEF UnderWay
    <2> QED BY <1>2, <1>6, <1>9, <2>1, <2>2, <2>3, NotUnderWay
<1>10. ASSUME NEW d \in Clients
       PROVE  /\ IsFiniteSet(ServersFor(worker', d))
              /\ Cardinality(ServersFor(worker', d)) \in Nat
              /\ Cardinality(ServersFor(worker, d))
                     = Cardinality(ServersFor(worker', d)) + (IF t.for = d THEN 1 ELSE 0)
    <2>1. IsFiniteSet(ServersFor(worker, d))
        BY DEF Inv, Counted
    <2>2. PICK new : new = worker'
        OBVIOUS
    <2>3. /\ \A v \in Workers : v # w => new[v] = worker[v]
          /\ new[w].task = None /\ worker[w].task # None
        BY <1>1, <1>5, <1>7, <1>8, <2>2
    <2>4. PICK ws : ws = worker
        OBVIOUS
    <2>5. /\ \A v \in Workers : v # w => new[v] = ws[v]
          /\ new[w].task = None /\ ws[w].task # None /\ IsFiniteSet(ServersFor(ws, d))
        BY <2>1, <2>3, <2>4
    <2>6. /\ IsFiniteSet(ServersFor(new, d)) /\ Cardinality(ServersFor(new, d)) \in Nat
          /\ ws[w].task.for = d => Cardinality(ServersFor(ws, d)) = Cardinality(ServersFor(new, d)) + 1
          /\ ws[w].task.for # d => Cardinality(ServersFor(ws, d)) = Cardinality(ServersFor(new, d))
        BY <2>5, TaskDone
    <2> QED BY <1>1, <2>2, <2>4, <2>6
<1>a. got' = got \/ (b \in Clients /\ Receives(got, got', b, t.for))
    <2>1. CASE b = None \/ killed'
        BY <1>4, <2>1, Zenon
    <2>2. CASE ~(b = None \/ killed')
        <3>1. b \in Clients /\ got' = [got EXCEPT ![b] = Append(@, t.for)]
            BY <1>4, <1>6, <2>2
        <3>2. Receives(got, [got EXCEPT ![b] = Append(@, t.for)], b, t.for)
            BY <1>5, <1>6, <3>1, ResponseAppended
        <3> QED BY <3>1, <3>2
    <2> QED BY <2>1, <2>2
<1>11. ASSUME NEW d \in Clients
       PROVE  /\ IsFiniteSet(ResponsesTo(got', d))
              /\ Cardinality(ResponsesTo(got', d)) \in Nat
              /\ \/ got' = got
                 \/ Cardinality(ResponsesTo(got', d))
                        = Cardinality(ResponsesTo(got, d)) + (IF t.for = d THEN 1 ELSE 0)
    <2>1. IsFiniteSet(ResponsesTo(got, d))
        BY DEF Inv, Counted
    <2>2. CASE got' = got
        BY <2>1, <2>2, FS_CardinalityType
    <2>3. CASE b \in Clients /\ Receives(got, got', b, t.for)
        <3>1. /\ IsFiniteSet(ResponsesTo(got', d))
              /\ Cardinality(ResponsesTo(got', d))
                     = Cardinality(ResponsesTo(got, d)) + (IF t.for = d THEN 1 ELSE 0)
            <4>1. PICK new : new = got'
                OBVIOUS
            <4>2. PICK g \in [Clients -> Seq(Clients)] : g = got
                BY <1>5
            <4>3. PICK e \in Clients : e = t.for
                BY <1>6
            <4>4. PICK a \in Clients : a = b
                BY <2>3
            <4>5. Receives(g, new, a, e) /\ IsFiniteSet(ResponsesTo(g, d))
                BY <2>1, <2>3, <4>1, <4>2, <4>3, <4>4
            <4>6. /\ IsFiniteSet(ResponsesTo(new, d))
                  /\ e = d => Cardinality(ResponsesTo(new, d)) = Cardinality(ResponsesTo(g, d)) + 1
                  /\ e # d => Cardinality(ResponsesTo(new, d)) = Cardinality(ResponsesTo(g, d))
                BY <4>5, ResponseDelivered
            <4>7. Cardinality(ResponsesTo(got, d)) \in Nat
                BY <2>1, FS_CardinalityType
            <4> QED BY <4>1, <4>2, <4>3, <4>6, <4>7
        <3> QED BY <3>1, FS_CardinalityType
    <2> QED BY <1>a, <2>2, <2>3
<1>12. /\ got' \in [Clients -> Seq(Clients)]
       /\ \A d \in Clients : Len(got[d]) \in Nat /\ Len(got'[d]) \in Nat
                             /\ Len(got[d]) <= Len(got'[d])
    <2>1. \A d \in Clients : got[d] \in Seq(Clients) /\ Len(got[d]) \in Nat
        BY <1>5, LenProperties
    <2>2. CASE got' = got
        BY <1>5, <2>1, <2>2
    <2>3. CASE b \in Clients /\ Receives(got, got', b, t.for)
        <3>1. /\ got' \in [Clients -> Seq(Clients)] /\ Len(got'[b]) = Len(got[b]) + 1
              /\ \A d \in Clients : d # b => got'[d] = got[d]
            BY <2>3, Zenon DEF Receives
        <3>2. \A d \in Clients : Len(got'[d]) \in Nat
            BY <3>1, LenProperties
        <3>3. \A d \in Clients : Len(got'[d]) = Len(got[d]) \/ Len(got'[d]) = Len(got[d]) + 1
            BY <3>1
        <3> QED BY <2>1, <3>1, <3>2, <3>3
    <2> QED BY <1>a, <2>2, <2>3
<1>13. ASSUME early = {}
       PROVE  got' = [got EXCEPT ![b] = Append(@, b)] /\ b \in Clients /\ ~killed'
    BY <1>4, <1>6, <1>9, <1>13
<1>14. ASSUME NEW d \in Clients
       PROVE  /\ Total(d)' <= asked[d]
              /\ early = {} => Total(d)' = asked[d]
    <2> DEFINE q == Cardinality(TasksFor(tasks, d))
               v == Cardinality(ServersFor(worker, d))
               y == Cardinality(ServersFor(worker', d))
               r == Cardinality(ResponsesTo(got, d))
               x == Cardinality(ResponsesTo(got', d))
               k == IF t.for = d THEN 1 ELSE 0
    <2>1. /\ unread[d] \in Nat /\ q \in Nat /\ v \in Nat /\ r \in Nat /\ Handed(d) \in {0, 1}
          /\ asked[d] \in Nat /\ Total(d) <= asked[d] /\ (early = {} => Total(d) = asked[d])
        BY CountFacts
    <2>2. Total(d) = unread[d] + Handed(d) + q + v + r
        BY DEF Total
    <2>3. Total(d)' = unread[d] + Handed(d) + q + y + x
        BY <1>4 DEF Total, Handed, InHand
    <2>4. y \in Nat /\ v = y + k
        BY <1>10
    <2>5. x \in Nat /\ (x = r \/ x = r + k)
        BY <1>11
    <2>6. early = {} => got' # got
        <3> SUFFICES ASSUME early = {}, got' = got PROVE FALSE
            OBVIOUS
        <3>1. got[b] = Append(got[b], b) /\ got[b] \in Seq(Clients)
            BY <1>5, <1>13
        <3>2. Len(Append(got[b], b)) = Len(got[b]) + 1 /\ Len(got[b]) \in Nat
            BY <1>13, <3>1, AppendProperties, LenProperties
        <3> QED BY <3>1, <3>2
    <2>7. early = {} => x = r + k
        BY <1>11, <2>6
    <2>8. k \in {0, 1}
        OBVIOUS
    <2> HIDE DEF q, v, y, r, x, k
    <2> QED BY <2>1, <2>2, <2>3, <2>4, <2>5, <2>7, <2>8
<1>15. \A d \in Clients : asked[d] \in Nat /\ asked[d] <= Len(got[d]) + 1
    BY CountFacts
<1>16. Counted'
    <2> SUFFICES ASSUME NEW d \in Clients
                 PROVE  /\ IsFiniteSet(ServersFor(worker', d)) /\ IsFiniteSet(ResponsesTo(got', d))
                        /\ Total(d)' <= asked[d] /\ asked[d] <= Len(got'[d]) + 1
        BY <1>4 DEF Counted
    <2>1. asked[d] <= Len(got'[d]) + 1
        BY <1>12, <1>15
    <2> QED BY <1>10, <1>11, <1>14, <2>1
<1>17. Timely'
    <2> SUFFICES ASSUME early = {} PROVE Timely'
        BY <1>4 DEF Timely
    <2>1. \A d \in Clients : client[d] = "closed" => asked[d] <= Len(got'[d])
        <3> SUFFICES ASSUME NEW d \in Clients, client[d] = "closed"
                     PROVE  asked[d] <= Len(got'[d])
            OBVIOUS
        <3>1. asked[d] <= Len(got[d])
            BY DEF Inv, Timely
        <3> QED BY <1>12, <1>15, <3>1
    <2>2. \A d \in Clients : \A k \in 1 .. Len(got'[d]) : got'[d][k] = d
        <3> SUFFICES ASSUME NEW d \in Clients, NEW k \in 1 .. Len(got'[d])
                     PROVE  got'[d][k] = d
            OBVIOUS
        <3>1. \A j \in 1 .. Len(got[d]) : got[d][j] = d
            BY DEF Inv, Timely
        <3>2. CASE d # b
            BY <1>5, <1>13, <3>1, <3>2
        <3>3. CASE d = b
            <4>1. got'[d] = Append(got[d], d) /\ got[d] \in Seq(Clients)
                BY <1>5, <1>13, <3>3
            <4>2. PICK n \in Nat : n = Len(got[d])
                BY <4>1, LenProperties
            <4>3. /\ Len(got'[d]) = n + 1 /\ got'[d][n + 1] = d
                  /\ \A j \in 1 .. n : got'[d][j] = got[d][j]
                BY <4>1, <4>2, AppendProperties
            <4>4. k \in 1 .. n \/ k = n + 1
                BY <4>2, <4>3
            <4> QED BY <3>1, <4>2, <4>3, <4>4
        <3> QED BY <3>2, <3>3
    <2>3. Designates'
        <3>1. Designates
            BY DEF Inv, Timely
        <3>2. \A v \in Workers : worker'[v].task # None =>
                  peer[worker'[v].task.client_fd] = worker'[v].task.for
            BY <1>7, <1>8, <3>1 DEF Designates
        <3> QED BY <1>4, <3>1, <3>2 DEF Designates, InHand
    <2> QED BY <1>4, <1>13, <1>14, <2>1, <2>2, <2>3 DEF Timely
<1>18. Pool'
    BY <1>4, <1>5, <1>7, <1>8 DEF Pool
<1>19. killed' \in BOOLEAN
    BY <1>4
<1>20. TypeOK' /\ ReadyList' /\ Batch' /\ MainState'
    BY <1>4, <1>8, <1>12, <1>19 DEF Inv, Structure, TypeOK, ReadyList, Batch, MainState, InHand
<1> QED BY <1>16, <1>17, <1>18, <1>20 DEF Inv, Structure

-----------------------------------------------------------------------------
(* The clients.                                                            *)

(* The kernel tells epoll of what happened on a connection, if it watches. *)
LEMMA NotifyMoves ==
    ASSUME Inv, NEW c, Notify(c), UNCHANGED <<watched, peer>>
    PROVE  ReadyList' /\ ready' \in Seq(Fds \cup {server_fd})
<1>1. watched \subseteq Fds /\ \A f \in watched : peer[f] # None
    BY DEF Inv, Structure, TypeOK, ReadyList
<1>2. CASE \E f \in watched : peer[f] = c
    <2>1. PICK f : f = CHOOSE g \in watched : peer[g] = c
        OBVIOUS
    <2>2. f \in watched
        BY <1>2, <2>1
    <2>3. ready' = Notified(ready, f)
        BY <1>2, <2>1 DEF Notify
    <2> QED BY <1>1, <2>2, <2>3, ReadyMore
<1>3. CASE ~ \E f \in watched : peer[f] = c
    <2>1. ready' = ready
        BY <1>3 DEF Notify
    <2> QED BY <1>1, <2>1, ReadyMore
<1> QED BY <1>2, <1>3

(* What the step of a client leaves of the structure: a client that has    *)
(* closed stays closed.                                                    *)
LEMMA ClientMoves ==
    ASSUME Inv, UNCHANGED <<tasks, waiting, worker, main, killed, watched, peer>>,
           ReadyList', ready' \in Seq(Fds \cup {server_fd}), backlog' \in Seq(Clients),
           client' \in [Clients -> {"new", "open", "closed"}],
           \A d \in Clients : client[d] = "closed" => client'[d] = "closed",
           asked' \in [Clients -> Nat], unread' \in [Clients -> Nat], got' = got,
           early' \subseteq Clients
    PROVE  Structure'
<1>1. \A f \in watched : peer[f] \in Clients
    BY DEF Inv, Structure, TypeOK, ReadyList
<1>2. Batch'
    BY <1>1 DEF Inv, Structure, Batch
<1>3. MainState' /\ Pool'
    BY DEF Inv, Structure, MainState, InHand, Pool
<1>4. TypeOK'
    BY DEF Inv, Structure, TypeOK
<1> QED BY <1>2, <1>3, <1>4 DEF Structure

LEMMA ConnectStep == ASSUME Inv, NEW c \in Clients, Connect(c) PROVE Inv'
<1>1. /\ client[c] = "new" /\ client' = [client EXCEPT ![c] = "open"]
      /\ backlog' = Append(backlog, c) /\ ready' = Notified(ready, server_fd)
      /\ UNCHANGED <<tasks, waiting, worker, main, killed, watched, peer>>
      /\ UNCHANGED <<asked, unread, got, early>>
    BY DEF Connect, poolVars
<1>2. /\ client \in [Clients -> {"new", "open", "closed"}] /\ backlog \in Seq(Clients)
      /\ asked \in [Clients -> Nat] /\ unread \in [Clients -> Nat] /\ early \subseteq Clients
      /\ \A f \in watched : peer[f] # None
    BY DEF Inv, Structure, TypeOK, ReadyList
<1>3. ReadyList' /\ ready' \in Seq(Fds \cup {server_fd})
    BY <1>1, <1>2, ReadyMore
<1>4. /\ client' \in [Clients -> {"new", "open", "closed"}]
      /\ \A d \in Clients : client[d] = "closed" <=> client'[d] = "closed"
    BY <1>1, <1>2
<1>5. backlog' \in Seq(Clients)
    BY <1>1, <1>2, AppendProperties
<1>6. Structure'
    BY <1>1, <1>2, <1>3, <1>4, <1>5, ClientMoves
<1>7. early = {} => \A d \in Clients : client'[d] = "closed" => asked[d] <= Len(got[d])
    BY <1>4 DEF Inv, Timely
<1>8. Counted' /\ Timely'
    BY <1>1, <1>7, MainStays, QuietStep
<1> QED BY <1>6, <1>8 DEF Inv

LEMMA DisconnectStep == ASSUME Inv, NEW c \in Clients, Disconnect(c) PROVE Inv'
<1>1. /\ client' = [client EXCEPT ![c] = "closed"]
      /\ early' = IF asked[c] <= Len(got[c]) THEN early ELSE early \cup {c}
      /\ Notify(c)
      /\ UNCHANGED <<tasks, waiting, worker, main, killed, watched, peer>>
      /\ UNCHANGED <<asked, unread, got, backlog>>
    BY DEF Disconnect, poolVars
<1>2. /\ client \in [Clients -> {"new", "open", "closed"}] /\ backlog \in Seq(Clients)
      /\ asked \in [Clients -> Nat] /\ unread \in [Clients -> Nat] /\ early \subseteq Clients
    BY DEF Inv, Structure, TypeOK
<1>3. ReadyList' /\ ready' \in Seq(Fds \cup {server_fd})
    BY <1>1, NotifyMoves
<1>4. /\ client' \in [Clients -> {"new", "open", "closed"}]
      /\ \A d \in Clients : client[d] = "closed" => client'[d] = "closed"
      /\ \A d \in Clients : client'[d] = "closed" => d = c \/ client[d] = "closed"
    BY <1>1, <1>2
<1>5. early' \subseteq Clients /\ (early' = {} => early = {} /\ asked[c] <= Len(got[c]))
    BY <1>1, <1>2
<1>6. Structure'
    BY <1>1, <1>2, <1>3, <1>4, <1>5, ClientMoves
<1>7. early' = {} => \A d \in Clients : client'[d] = "closed" => asked[d] <= Len(got[d])
    BY <1>4, <1>5 DEF Inv, Timely
<1>8. Counted' /\ Timely'
    BY <1>1, <1>5, <1>7, MainStays, QuietStep
<1> QED BY <1>6, <1>8 DEF Inv

(* A client sends only once it has the response to its last request. *)
LEMMA SendStep == ASSUME Inv, NEW c \in Clients, Send(c) PROVE Inv'
<1>1. /\ client[c] = "open" /\ asked[c] <= Len(got[c])
      /\ asked' = [asked EXCEPT ![c] = @ + 1] /\ unread' = [unread EXCEPT ![c] = @ + 1]
      /\ Notify(c)
      /\ UNCHANGED <<tasks, waiting, worker, main, killed, watched, peer>>
      /\ UNCHANGED <<backlog, client, got, early>>
    BY DEF Send, poolVars
<1>2. /\ client \in [Clients -> {"new", "open", "closed"}] /\ backlog \in Seq(Clients)
      /\ asked \in [Clients -> Nat] /\ unread \in [Clients -> Nat] /\ early \subseteq Clients
    BY DEF Inv, Structure, TypeOK
<1>3. ReadyList' /\ ready' \in Seq(Fds \cup {server_fd})
    BY <1>1, NotifyMoves
<1>4. /\ asked' \in [Clients -> Nat] /\ asked'[c] = asked[c] + 1
      /\ \A d \in Clients : d # c => asked'[d] = asked[d]
      /\ unread' \in [Clients -> Nat] /\ unread'[c] = unread[c] + 1
      /\ \A d \in Clients : d # c => unread'[d] = unread[d]
    BY <1>1, <1>2
<1>5. Structure'
    BY <1>1, <1>2, <1>3, <1>4, ClientMoves
<1>6. ASSUME NEW d \in Clients
      PROVE  /\ Total(d)' <= asked'[d] /\ asked'[d] <= Len(got[d]) + 1
             /\ early = {} => Total(d)' = asked'[d]
    <2> DEFINE q == Cardinality(TasksFor(tasks, d))
               v == Cardinality(ServersFor(worker, d))
               r == Cardinality(ResponsesTo(got, d))
               h == Handed(d)
    <2>1. /\ unread[d] \in Nat /\ q \in Nat /\ v \in Nat /\ r \in Nat /\ h \in {0, 1}
          /\ asked[d] \in Nat /\ Total(d) <= asked[d] /\ (early = {} => Total(d) = asked[d])
          /\ Len(got[d]) \in Nat /\ asked[d] <= Len(got[d]) + 1
        BY CountFacts
    <2>2. Total(d) = unread[d] + h + q + v + r
        BY DEF Total
    <2>3. Total(d)' = unread'[d] + h + q + v + r
        BY <1>1 DEF Total, Handed, InHand
    <2> HIDE DEF q, v, r, h
    <2>4. CASE d = c
        <3>1. /\ unread'[d] = unread[d] + 1 /\ asked'[d] = asked[d] + 1
              /\ asked[d] <= Len(got[d])
            BY <1>1, <1>4, <2>4
        <3>2. Total(d)' = Total(d) + 1 /\ Total(d) \in Nat
            <4>1. unread[d] \in Nat /\ h \in Nat /\ q \in Nat /\ v \in Nat /\ r \in Nat
                BY <2>1
            <4>2. Total(d)' = (unread[d] + 1) + h + q + v + r
                BY <2>3, <3>1
            <4>3. \A u, a, b, e, f \in Nat : /\ (u + 1) + a + b + e + f = (u + a + b + e + f) + 1
                                             /\ u + a + b + e + f \in Nat
                OBVIOUS
            <4> QED BY <2>2, <4>1, <4>2, <4>3
        <3>3. Total(d)' <= asked'[d]
            BY <2>1, <3>1, <3>2
        <3>4. asked'[d] <= Len(got[d]) + 1
            BY <2>1, <3>1
        <3>5. early = {} => Total(d)' = asked'[d]
            BY <2>1, <3>1, <3>2
        <3> QED BY <3>3, <3>4, <3>5
    <2>5. CASE d # c
        BY <1>4, <2>1, <2>2, <2>3, <2>5
    <2> QED BY <2>4, <2>5
<1>7. Counted'
    BY <1>1, <1>6 DEF Inv, Counted
<1>8. ASSUME early = {} PROVE Designates'
    BY <1>1, <1>8 DEF Inv, Timely, Designates, InHand
<1>9. early = {} => \A d \in Clients : client[d] = "closed" => asked'[d] <= Len(got[d])
    BY <1>1, <1>4 DEF Inv, Timely
<1>10. Timely'
    BY <1>1, <1>6, <1>8, <1>9 DEF Inv, Timely
<1> QED BY <1>5, <1>7, <1>10 DEF Inv

-----------------------------------------------------------------------------
(* The theorem.                                                            *)

LEMMA InitInv == ASSUME Init PROVE Inv
<1>1. /\ tasks = <<>> /\ waiting = {} /\ killed = FALSE
      /\ worker = [w \in Workers |-> [pc |-> "lock", task |-> None]]
      /\ main = [pc |-> "epoll_wait", events |-> <<>>, fd |-> None, for |-> None]
      /\ ready = <<>> /\ watched = {} /\ backlog = <<>> /\ peer = [f \in Fds |-> None]
      /\ client = [c \in Clients |-> "new"] /\ early = {}
      /\ asked = [c \in Clients |-> 0] /\ unread = [c \in Clients |-> 0]
      /\ got = [c \in Clients |-> <<>>]
    BY DEF Init
<1>2. /\ \A S : <<>> \in Seq(S)
      /\ \A i : i \notin 1 .. Len(<<>>)
    BY EmptySeq
<1>3. main \in MainThread /\ ~InHand /\ main.events = <<>> /\ main.pc = "epoll_wait"
    BY <1>1, <1>2 DEF MainThread, MainPcs, InHand
<1>4. worker \in [Workers -> Worker] /\ \A w \in Workers : worker[w].task = None /\ worker[w].pc = "lock"
    BY <1>1 DEF Worker
<1>5. TypeOK
    BY <1>1, <1>2, <1>3, <1>4 DEF TypeOK
<1>6. Pool /\ MainState
    BY <1>1, <1>3, <1>4 DEF Pool, MainState
<1>7. ReadyList /\ Batch
    BY <1>1, <1>2, <1>3 DEF ReadyList, Batch
<1>8. ASSUME NEW c \in Clients
      PROVE  /\ TasksFor(tasks, c) = {} /\ ServersFor(worker, c) = {} /\ ResponsesTo(got, c) = {}
             /\ Handed(c) = 0 /\ unread[c] = 0 /\ asked[c] = 0 /\ got[c] = <<>>
             /\ client[c] = "new"
    <2>1. TasksFor(tasks, c) = {} /\ ServersFor(worker, c) = {}
        BY <1>1, <1>2, <1>4 DEF TasksFor, ServersFor
    <2>2. \A d \in Clients : got[d] = <<>>
        BY <1>1
    <2>3. \A d \in Clients : {<<d, k>> : k \in {i \in 1 .. Len(got[d]) : got[d][i] = c}} = {}
        BY <1>2, <2>2
    <2>4. ResponsesTo(got, c) = {}
        BY <2>3 DEF ResponsesTo
    <2> QED BY <1>1, <1>3, <2>1, <2>2, <2>4 DEF Handed
<1>9. IsFiniteSet({}) /\ Cardinality({}) = 0
    BY FS_EmptySet
<1>10. ASSUME NEW c \in Clients
       PROVE  /\ IsFiniteSet(ServersFor(worker, c)) /\ IsFiniteSet(ResponsesTo(got, c))
              /\ Total(c) = 0 /\ asked[c] = 0 /\ Len(got[c]) = 0
    <2>1. /\ Cardinality(TasksFor(tasks, c)) = 0 /\ Cardinality(ServersFor(worker, c)) = 0
          /\ Cardinality(ResponsesTo(got, c)) = 0
          /\ IsFiniteSet(ServersFor(worker, c)) /\ IsFiniteSet(ResponsesTo(got, c))
        BY <1>8, <1>9
    <2>2. Handed(c) = 0 /\ unread[c] = 0
        BY <1>8
    <2>3. Total(c) = 0
        BY <2>1, <2>2 DEF Total
    <2>4. asked[c] = 0 /\ got[c] = <<>>
        BY <1>8
    <2> QED BY <2>1, <2>3, <2>4
<1>11. Counted
    BY <1>10 DEF Counted
<1>12. Designates
    BY <1>1, <1>2, <1>3, <1>4 DEF Designates
<1>13. Timely
    BY <1>1, <1>2, <1>8, <1>10, <1>12 DEF Timely
<1> QED BY <1>5, <1>6, <1>7, <1>11, <1>13 DEF Inv, Structure

LEMMA Stuttering == ASSUME Inv, UNCHANGED vars PROVE Inv'
<1>1. /\ UNCHANGED <<tasks, waiting, worker, main, killed, watched, peer, ready>>
      /\ UNCHANGED <<backlog, client, asked, unread, got, early>>
    BY DEF vars, poolVars, kernelVars, clientVars
<1>2. Structure'
    BY <1>1 DEF Inv, Structure, TypeOK, Pool, ReadyList, Batch, MainState, InHand
<1>3. early = {} => \A c \in Clients : client[c] = "closed" => asked[c] <= Len(got[c])
    BY DEF Inv, Timely
<1>4. Counted' /\ Timely'
    BY <1>1, <1>3, MainStays, QuietStep
<1> QED BY <1>2, <1>4 DEF Inv

LEMMA NextInv == ASSUME Inv, [Next]_vars PROVE Inv'
<1>1. ASSUME MainNext PROVE Inv'
    BY <1>1, EpollWaitStep, HandleErrorStep, HandleEventStep, AcceptStep, EpollCtlAddStep,
       ReadStep, EnqueueLockStep, EnqueuePushStep, NotifyOneStep DEF MainNext
<1>2. ASSUME NEW w \in Workers, WorkerNext(w) \/ SpuriousWake(w) PROVE Inv'
    BY <1>2, WorkerLockStep, TakeTaskStep, WaitStep, ServeStep, SpuriousWakeStep DEF WorkerNext
<1>3. ASSUME NEW c \in Clients, Connect(c) \/ Send(c) \/ Disconnect(c) PROVE Inv'
    BY <1>3, ConnectStep, SendStep, DisconnectStep
<1>4. ASSUME Stopped \/ UNCHANGED vars PROVE Inv'
    BY <1>4, Stuttering DEF Stopped
<1> QED BY <1>1, <1>2, <1>3, <1>4 DEF Next

LEMMA InvServesOnce == ASSUME Inv PROVE TasksServedOnce
<1> SUFFICES ASSUME NEW c \in Clients
             PROVE  LET inHand == IF main.for = c /\ main.pc \in {"enqueue", "push"} THEN 1 ELSE 0
                        total == unread[c] + inHand + Underway(c) + Deliveries(c)
                    IN  /\ total <= asked[c]
                        /\ early = {} => /\ ~killed
                                         /\ total = asked[c]
                                         /\ \A k \in 1 .. Len(got[c]) : got[c][k] = c
    BY DEF TasksServedOnce
<1> DEFINE q == Cardinality(TasksFor(tasks, c))
           v == Cardinality(ServersFor(worker, c))
           r == Cardinality(ResponsesTo(got, c))
<1>1. Underway(c) = q + v /\ Deliveries(c) = r
    BY DEF Underway, Deliveries, TasksFor, ServersFor, ResponsesTo
<1>2. Handed(c) = IF main.for = c /\ main.pc \in {"enqueue", "push"} THEN 1 ELSE 0
    BY DEF Handed, InHand
<1>3. /\ unread[c] \in Nat /\ asked[c] \in Nat /\ q \in Nat /\ v \in Nat /\ r \in Nat
      /\ Handed(c) \in {0, 1} /\ Total(c) <= asked[c] /\ (early = {} => Total(c) = asked[c])
    BY CountFacts
<1>4. Total(c) = unread[c] + Handed(c) + q + v + r
    BY DEF Total
<1>5. early = {} => ~killed /\ \A k \in 1 .. Len(got[c]) : got[c][k] = c
    BY DEF Inv, Timely
<1> HIDE DEF q, v, r
<1>6. unread[c] + Handed(c) + Underway(c) + Deliveries(c) = Total(c)
    BY <1>1, <1>3, <1>4
<1> QED BY <1>2, <1>3, <1>5, <1>6

(***************************************************************************)
(* The pool of the prototype serves every task once, for any number of     *)
(* threads, clients, descriptors and requests: a request is unread, in     *)
(* main()'s hands, in the queue, in one thread's hands or answered, and in *)
(* only one of these places; until a client closes early, none is lost,    *)
(* the process is not killed by SIGPIPE and each client has only responses *)
(* to its own requests.                                                    *)
(***************************************************************************)
THEOREM TasksAreServedOnce == Spec => []TasksServedOnce
<1>1. Init => Inv
    BY InitInv
<1>2. Inv /\ [Next]_vars => Inv'
    BY NextInv
<1>3. Inv => TasksServedOnce
    BY InvServesOnce
<1> QED BY <1>1, <1>2, <1>3, PTL DEF Spec
=============================================================================
