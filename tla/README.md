# A TLA+ verification of rinha

rinha is a bank API: an HTTP server that keeps five customers, accepts credits
and debits that may not take a balance below minus the customer's limit, and
lists a customer's ten latest transactions.  It runs as a router, two identical
API processes and one MariaDB.

## 1. The system

| part | source | state | operations |
|---|---|---|---|
| Router | `rinha/thread_pool_router.cc` | descriptor maps, two rings of free UNIX connections with atomic indices, round-robin counter | accept and pair, forward, close and give back |
| I/O threads | `rinha/io_thread_pool.cc`, `rinha/request_processor.cc` | epoll set, per-thread read buffers | accept, read to EAGAIN, process, write, close |
| Parser | `rinha/from_http.cc` | none | bytes to `Request`, or failure |
| Request handler | `rinha/request_handler.cc`, `rinha/to_json.cc`, `rinha/time.cc` | a cached clock | dispatch, listing of the latest transactions |
| Answer writer | `rinha/request_processor.cc` | one answer buffer per thread | write numbers from the right, clear, send |
| Transaction engine | `rinha/maria_database.cc` | five mutexes per process; the table `Users` | start-up inserts, balance read, transaction with compare-and-swap and retry |
| HandlerSocket calls | `rinha/handler_socket.cc` | two connections per thread | `InitializeHs`, `ReadCustomerHs`, `WriteCustomerHs` |
| HandlerSocket client | `libhsclient/hstcpcli.cpp` | socket, two buffers, three counters, an error code | buffer, send, receive, next row, remove, close, reconnect |
| Wire format | `libhsclient/escape.cpp` and `.hpp` | none | escape, unescape, split a line |
| Ruby binding | `libhsclient/handlersocket.cpp` | one client | open an index, execute one or several requests, close, reconnect |
| Epoll prototype | `rinha/epoll.cc`, `rinha/thread_pool_200.cc` | a task queue with mutex and condition variable, an epoll set | accept, read, enqueue, answer |
| Load tester | `libhsclient/hslongrun.cpp` | shared records with a lock each, per-thread counters | insert, delete, update, read, delete-and-insert, verification |

The router's threads share one epoll instance and the maps.  The router talks
to the API processes over UNIX sockets that stay open.  Each I/O thread of an
API process serves a request from read to response, calling the handler, the
engine and the HandlerSocket client directly.  The two processes share nothing
but the table: the mutexes exclude threads of one process, the version column
the other process.

What is hard here: two kinds of contention on one row at once; calls that fail
or time out half-way with a retry loop above them; processes that start late or
again and re-insert the customers; descriptors that the kernel and the router
reuse; lock-free rings; edge-triggered events; clients that close before they
are answered; a condition variable notified outside of its mutex; an exception
half-way through a batch of requests.

What makes each part correct:

* **Customer blob**: the listing shows the ten latest accepted transactions,
  newest first; the balance is the sum of all of them in 32-bit arithmetic; no
  accepted transaction takes it below minus the limit.
* **Parser and answer writer**: what a client reads is what was stored, and the
  amounts and types of a statement are those of the requests.
* **HandlerSocket client**: whatever order the methods are called in, and
  whatever fails, a response is only ever taken for the request it answers.
* **Ruby binding**: the k-th result of a method is for its k-th request, and no
  method leaves the client in a state that makes the next one fail.
* **Wire format**: any sequence of bytes arrives as it was sent, and never
  contains the byte that ends a line.
* **HandlerSocket calls**: a read returns the row as it was at some moment of
  the call; `false` from a write means that nothing was written.
* **Engine**: limits hold under every race, restart and failure; no update is
  lost or applied twice; mutexes are released on every path; requests are
  answered; seen from outside, each request is one indivisible step.
* **Router**: responses reach the client that asked; UNIX connections are
  neither lost nor paired twice; no `CHECK` fails; no event is lost.
* **I/O threads**: a descriptor in use is never closed and reused under a
  thread; responses arrive whole, in order and to the right client; nothing
  leaks.
* **Epoll prototype**: a task is served once; no wake-up and no event is lost.
* **Load tester**: it never accuses a correct server, and it always ends.

## 2. Modules

Listed in the order in which they build on each other.

| module | models | extends |
|---|---|---|
| `Customer` | the `Customer` struct, limit test, update and listing, as operators | |
| `CustomerLedger` | one blob under every sequence of transactions | `Customer` |
| `RequestPath` | one request from its text to the text of its answer | `CustomerLedger` |
| `Hstcpcli` | the methods of `hstcpcli`, as operators on a record of its fields | |
| `HstcpcliCalls` | one client, its server, and every order of calls | `Hstcpcli` |
| `RubyBinding` | the methods of the Ruby class, each a sequence of calls | `HstcpcliCalls` |
| `HsWire` | escaping and the fields of a line, as operators on bytes | |
| `HsLink` | the three conditions a connection can be in, as seen by a caller | |
| `HandlerSocket` | `InitializeHs`, `ReadCustomerHs`, `WriteCustomerHs` of one thread | `Hstcpcli`, `HsLink`, `HsWire` |
| `MariaDatabase` | the engine in several processes over one table | `Customer`, `HsLink` |
| `Bank` | abstract: every request is decided in one step | |
| `MariaDatabaseBank` | the refinement mapping from the engine to the `Bank` | `MariaDatabase`, instance of `Bank` |
| `Router` | the reverse proxy | |
| `IoThreadPool` | the epoll loop of an API process and its responses | |
| `EpollServer` | the epoll prototype and its pool of threads | |
| `HsLongrun` | the load tester | |

`MC*` modules give the constants their values for TLC.  `*_proofs` modules hold
theorems.

### Customer, CustomerLedger

A blob is a record with the fields of the struct.  Ints wrap at `IntHalf`
(2^31 in the code).  `Execute` is lines 204–211 of `maria_database.cc`:
index modulo `RingSize`, count capped at `RingSize + 1`.  `Listing` is the pair
of loops in `to_json.cc`.  `CustomerLedger` keeps the list of accepted
transactions beside the blob as a reference.

### RequestPath

Adds what happens before and after the blob is updated.  A request is what the
parser finds at the places it looks at: verb, id, and of the body the characters
of `valor` up to the comma, `tipo`, the description and what follows it.
Characters are numbers, digits are those of `Base`.  `SubstringToInt` wraps like
an int; `WriteNumberToString` writes from the right end of a field and leaves
the rest of it alone, so the field must be cleared first; the most negative int
has no digits, and `AnswerReadsBack` shows that it is never a balance to write.
The actions are the outcomes of `ProcessRequest`: invalid, not found, statement,
accepted, limit exceeded.  One thread, one customer: threads share nothing here
but the row, which is `MariaDatabase`'s concern.

### Hstcpcli, HstcpcliCalls, RubyBinding, HsWire, HandlerSocket

The client is a record: buffered, sent and received request counts, the read
buffer as a sequence of response lines, the fields of the current response, the
error code.  One operator per method; each returns the new record.
`HstcpcliCalls` lets a caller use the methods in any order.

`RubyBinding` restricts the caller to what the Ruby class does: one request, or
`execute_multi`, which buffers all requests, sends them and takes the answers
one by one, rows included.  Converting an argument may raise an exception
between two requests.  The requests buffered before it then stay in the client:
the next method sends them along and takes the first one's answer for its own.
`ResultsInOrder` says that this is the only way results shift, and by how much.
An `execute_multi` of no requests fails its send and closes the connection.  A
behaviour is either of the binding or of a caller in any order, so that one
instance checks both.

`HsWire` works on bytes: a byte below 16 is sent as the prefix 1 and itself plus
64; a null as the byte 0; fields are separated by tabs.  `HandlerSocket` sends
its values through it, with blobs made of the bytes it treats in its own way.

`HandlerSocket` uses the client's methods in the order the three functions of `handler_socket.cc` do, with a
server that answers, answers with an error, or does not answer, and a competing
writer.  Its property `LinkMoves` establishes the interface that the engine
relies on: between calls a connection is `good`, `poisoned` (an error response
stayed in the buffer; the next request is refused and closes the connection) or
`dead` (closed for good, since nothing calls `reconnect`), and how calls move it
between these.

### MariaDatabase, Bank

Per process: `phase` (where `main` is), the customer being inserted, the
mutexes.  Per worker: its place in `MariaDbExecuteTransaction` or
`MariaDbGetCustomer`, its local copy and version, its two links.  Shared: the
table and the updates in transit.  An update stays in transit after its sender
gave up, timed out or crashed, and may still be executed.  `Crash` returns a
process to the start, where it inserts the customers again: data is reset, the
version is not.  The actions are the steps between two points at which another
thread or process can interfere: lock, read, test, send, receive, unlock,
answer.  History variables record what was answered, how often each
transaction was applied, and which transactions read their row before a
re-insert: those may bring the old data back, since the version still matches,
and `NoLostUpdate` exempts them.

`Bank` has one account per customer, a balance and the latest transactions,
and decides each request in one step.  In the mapping a transaction takes
effect when the server executes its update, and a refusal when the row that
proves it was read.  The refinement holds with no failing call, no crash and
no process that starts during traffic: a failed call can make the engine answer
200 without effect, and a late start resets the accounts.

### Router

Threads are control points between which another thread can run: after the
atomic increment of an index, after the access to the slot, after each map
update, after `epoll_ctl`, `read`, `write`, `close`.  Messages carry the client
that asked, which the program cannot see.  `Init` is the state after `Warm`
connections were served one at a time, which puts the indices at the end of the
ring.  One assumption is a constant, so that it is visible and can be lifted:
`Prompt` (a thread is not stopped between moving a ring index and using the slot
while the others move an index to the same slot).

Clients in `Hasty` may close before they are answered.  The code then ends the
router (a request and the end of its connection in one event fail
`CHECK(total_count == 0)`, and a response on an unpaired connection another
`CHECK`), delivers the response to the next client paired with the UNIX
connection, or reads `unix_to_tcp` while another thread writes it.  The model
does the same; `early` records that it happened, and the properties say what
holds until then and what holds even after: no response is delivered twice and
no UNIX connection is lost.

### IoThreadPool

Threads take batches of events, so an event may be old when its turn comes.
The ready list holds each descriptor at most once; closing a descriptor removes
it.  A request is a few units that arrive together; a response is its header,
its body and, for an accepted transaction, the surplus bytes of the array.
Clients do not send or close before they have the response to their last
request, as the router's pairing brings about.

### EpollServer

`main` takes batches of events; after each read it locks the queue, pushes the
descriptor, unlocks and notifies, each a step of its own.  A worker locks, tests
the queue, and either takes a task or blocks; blocking and giving up the mutex
are one step, as the condition variable guarantees.  Wake-ups may be spurious.
A task is only a descriptor, which may belong to nobody or to another client
when the worker gets to it: if its client has closed, `SIGPIPE`, which nothing
ignores, ends the process.

### HsLongrun

A record is `deleted`, `unknown_state` and the values; its mutex is a separate
variable.  One action per operation and answer.  `Mixes` are settings of the
options: which thread does what, and which kinds of threads may lose answers.
Lost answers to inserts, and to deletes while others update, are left out of
the mixes: in those cases the tester does report false alarms (the hazards at
lines 474 and 602 of `hslongrun.cpp`).

## 3. Runs

| run | instance | checks |
|---|---|---|
| `request_path` | ring of 3, 4-bit ints, base 3, 7 transactions | `ListingIsLatest`, `BalanceIsTotal`, `LimitRespected`, `AnswerReadsBack`, `StatementShowsRequests` |
| `hstcpcli_calls` | 6 requests, 2 reconnects, batches of up to 3, any order of calls | `ResponsesInOrder`, `CountersAccount`, `ResultsInOrder`, `StableBetweenMethods`, `DeadUntilReconnect` |
| `handler_socket` | 8 calls, 3 faults, 3 competing writes | `RowsSurviveTheWire`, `FalseMeansNotApplied`, `ReadAnswersItsCall`, `LinkMoves` |
| `write_error` | 3 calls, 1 fault, 1 competing write | `TrueMeansApplied` is violated |
| `engine` | 2 processes with 2 + 1 workers, 3 requests | `MutexHeld`, `ImplementsBank` |
| `engine_faults` | 2 processes with a worker each, 2 requests, 2 faults, 1 crash, late starts | `TypeOK`, `LimitRespected`, `RowsPresent`, `AtMostOnce`, `NoLostUpdate`, `BlobConsistent`, `AnswersTruthful`, `VersionsGrow` |
| `engine_live` | 2 + 1 workers, 2 requests, 1 fault | `EveryoneAnswered` |
| `router` | 2 threads, 3 UNIX connections, 4 clients over 2 descriptors, 2 at a time, one of them hasty | `ResponsesToOwner`, `NeverAborts`, `ConnectionsConserved`, `MapsRaceFree`, `RequestsAnswered` |
| `epoll_server` | 2 workers, 3 clients over 2 descriptors, one of them hasty, 1 spurious wake-up | `TasksServedOnce`, `RequestsAnswered`, `DescriptorsReleased` |
| `io_threads` | 2 threads, 3 clients, 2 descriptors, batches of 2 | `OwnDescriptor`, `OwnResponsesInOrder`, `RequestsAnswered`, `DescriptorsReleased` |
| `io_framing` | one client, two accepted transactions | `ResponsesFramed` is violated |
| `longrun` | 3 threads, 2 keys, 6 mixes | `NoFalseAlarm`, `RecordsAgree`, `ThreadsJoin` |

For every property of a passing run `PROJECT.json` names a mutant: a change to
one definition, such as a dropped guard, after which TLC finds the property
violated.

Why the bounds are enough to meet the interesting cases:

* *Request path.*  Seven transactions over a ring of three pass the cap of the
  count and wrap the index twice; with ints of -8..7 sums overflow both ways;
  amounts of 8 and 17 overflow while they are parsed.  Each malformed request
  fails another test of the parser.  Numbers of one, two and three digits and
  both signs follow each other in the answer buffer.
* *Client and binding.*  Six requests over three connections: a batch of three
  whose answers are half read when the connection fails, and as many after it;
  or a batch cut by an exception and two methods after it, the second of which
  finds the effect of the first.
* *HandlerSocket calls.*  Three faults poison a connection, kill it and fail
  another call; three competing writes between a read and its write, and more.
* *Engine.*  Two workers of one process meet on the mutex, two processes meet
  on the version; one customer suffices because customers share only the
  connections.  Three requests let one worker lose its compare-and-swap while
  another waits for the mutex.  Two faults let a retry fail again; a crash with
  an update in transit lets the update arrive after the restart.  The values
  include a debit that the limit allows once and refuses the second time.
* *Router.*  Rings of three slots, one full but for one and one with a single
  connection, start near their end and wrap.  Four clients use each UNIX
  connection and each descriptor again; the second and the fourth get the same
  UNIX connection, so the hasty second one's response may find the fourth there.
  `MaxOpen` is 2: the round robin cannot exhaust a side.  Above that
  load a ring can run empty, for which the code has only a `CHECK`.
* *Epoll prototype.*  Two workers can both be between test and wait while a task
  is pushed; three clients over two descriptors reuse one under a queued task.
* *I/O threads.*  Three clients over two descriptors force reuse; batches of
  two let an event go stale behind another; a client whose requests differ in
  kind sees the two response layouts in sequence.  `MaxOpen` is at most the
  number of descriptors, because `accept` failing with `EMFILE` uses up the edge
  of the listening socket.
* *Load tester.*  Three threads cover every pair of operations on a record with
  a third that reads; two keys let a thread leave a record while another waits.

`CHECK_DEADLOCK FALSE` is set where the system does stop: clients that have all
been served, or a load tester that has ended.  The router and the epoll
prototype state their legitimate ends as an action (`Stopped`), so deadlock is
checked for them.

### Fairness

All fairness is weak.  *Engine:* a process that was started completes its
start-up, a runnable worker is scheduled, the server executes what it received;
nothing forces requests, faults or crashes.  *Router:* threads run and the API
process replies.  *Epoll prototype:* `main` and each worker run; the notified
thread may be any, and wake-ups need not be spurious.  *I/O threads:* threads run and clients read what they are
sent.  *Load tester:* threads run, `main` ends the run after its duration, and the server answers or
the socket times out.  A mutex is not assumed to be fair.  These are what an
operating system's scheduler, MariaDB and the socket timeouts give.

### Findings

* `write_error`: `WriteCustomerHs` returns 1 from a function of type `bool` when
  the response is an error or missing (`handler_socket.cc:231`); the caller takes
  this for success and answers 200 though nothing was stored.
* `io_framing`: an accepted transaction's response is sent with `sizeof` of an
  array of 140 bytes, of which 133 are the response its `Content-Length`
  announces (`request_processor.cc:107`); seven NUL bytes precede the next
  response on the connection.

## 4. Proofs

The theorems hold for any value of the constants that satisfies the named
`ASSUME`s (a ring of positive length, limits within the range of an int, a
process for each worker, a `None` that is no value, a field wide enough for the
digits and the sign of an int, rings that start with each UNIX connection of their
side once) and for the hypotheses a theorem names, which the instances of the
passing runs meet:

* `Calm` (engine refines `Bank`): no failing call, no crash, no late start;
* `AllAccountable` (load tester): the mixes of section 2;
* `Prompt` (router): section 2.  Without it a thread can be stopped between moving
  an index and using the slot until the ring has gone round, and two threads get
  one slot;
* `Roomy` (I/O threads): the read buffer is larger than a request and the socket's
  buffer holds a whole response.  In the code these are 1024 bytes, a few times a
  request, and a default of the kernel, a thousand times the response of 140 bytes.
  Without the first, a request is taken for the end of the connection; without the
  second, the rest of a response is dropped: `EAGAIN` ends the loop of writes.

Lemmas on wrapped arithmetic, on `Execute`, on positions in the ring and on how
`Listing` reads it stand at the head of the modules that need them.  A listing is
defined by recursion on its length; `NatSetInduction` gives induction with the
property as a set of numbers, which the provers can use where they cannot
instantiate an operator.

The modules:

* `RequestPath_proofs`, part I: the blob
  * `TypeCorrect`, `BalanceExact`.
  * `LimitHolds`.  `LimitInv` adds that the stored limit is the constant one;
    without it the test compares with an arbitrary number.  The arithmetic is
    that of wrapping ints: an overflowing sum wraps to a value that the test
    then judges like any other.
  * `ListingCorrect`.  `RingInv` says what the count is, where the index is
    until the first wrap, and that the *k*-th slot back from the index holds the
    *k*-th latest transaction.  The listing says nothing of the index, so it is
    not inductive alone.
* `RequestPath_proofs`, part II: the path
  * `PathImplementsLedger`: whatever a request's text, what it does to the blob is a
    step of the ledger; `LedgerHoldsOnThePath` carries part I over.
  * `AnswersReadBack`: the limit and the balance written into the answer buffer, over
    what the previous answer left there, read back as those of the blob.
    `WriteReads` is the lemma on one field: a loop that writes the digits from the
    right, and one that reads them from the left, are each other's inverse for any
    base and width, where the field was blank.  The limit test keeps the most
    negative int away.
  * `StatementsShowRequests`: a listed transaction is what its accepted request says:
    the parser's wrapping loop is the wrapped value of the digits
    (`ParsedIsWrapped`), and exact where that fits an int.
  * The invariant is that of part I with `Recorded` (each transaction of the
    ledger is what its request parses to) and `Written` (what the buffer holds).
    The loops are recursive functions; that such a function has the values its
    definition says is itself proved, in `LoopValues`.
* `MariaDatabase_proofs`
  * `TypeCorrect`.  `TypeInv` adds `Serving`: a worker past the receipt of a
    request has a valid customer id, which the array accesses need.
  * `VersionsNeverGoBack`: every action keeps every row and never lowers a
    version.
  * `RowsAlwaysPresent`.  `RowsInv` adds that running workers belong to a
    process that is up, that the rows below the one being inserted are there,
    and that they are all there once a process is up; by the theorem above they
    stay.
  * `MutexExact`: a mutex is held by exactly the worker inside the critical
    section on that customer, also across crashes.
  * `LimitAlwaysRespected`.  `LimitInv` extends the bound from the rows to every
    place a blob can come from: local copies after the test, and updates in
    transit, whose senders may be gone.
  * `BlobsAlwaysConsistent`.  `SoundInv` extends the statement from the rows, as
    above, to local copies and updates in transit, and rests on what `Execute`
    does to a sum over the array.
  * `AppliedAtMostOnce` and `AnswersAlwaysTruthful`.  `OnceInv` says what a worker
    may rely on at each point of an attempt: before it sends, no update of its
    transaction is in transit and none was applied; each response tells which
    became of it.  A retry is harmless for this reason, and an update whose
    sender died is still the only one of its transaction.
  * `NoUpdateLost`.  `FreshInv` says that no copy and no update in transit has a
    version ahead of its row, and that one with the row's version is the row as it
    is, or with the worker's transaction added, unless the row was re-inserted
    after it was read.
  * `EngineImplementsBank`, under `Calm` (section 2 says why).  `CalmInv` adds
    to the invariants above that every update in transit belongs to a worker that
    waits for it.  `Mapped` states the refinement mapping case by case; then each
    action is shown to be a step of `Bank` or a stutter: the read that proves a
    refusal and the execution of an update that matches decide, the answer
    answers, the rest stutters.
* `HandlerSocket_proofs`, for any number of calls, faults and competing writes
  * Part I, the bytes: `UnescapeEscape` (what a byte is sent as is read as that
    byte), `FieldsRead` (a line of fields is taken apart where it was put
    together, for any number of fields with any bytes) and `NumberReadsBack`
    (`stoi` of `to_string` of a number).
  * `FalseIsNeverApplied`, `ReadsAnswerTheirCalls` and `LinksMoveAsPredicted`.  `Inv`
    says in which of the three conditions each connection is (`LinkState`), that
    the server has at most one request of it left, perhaps one whose caller gave
    up, and that a write among these was not reported as failed (`Requests`), and
    what is known of the write under way (`WriteUnderWay`).  `FalseMeansNotApplied` alone is not inductive: it says
    nothing of a write whose answer is still to come.
  * `RowsComeThrough`.  `WireInv` says what the lines in transit are: a write asks to
    turn a version into the next one, with the data of its call; an answer is a
    row that the table has held, or a count, or nothing.
* `Router_proofs`, under `Prompt`, for any number of threads, clients, descriptors
  and UNIX connections.  Clients connect only while the side whose turn it will be
  has a free UNIX connection (`HasRoom`, part of the model)
  * `NoConnectionIsLost`.  `Slots` and `Contents` say which slots of a ring hold a
    connection that nobody else has, although an index moves before its slot is
    used; `Pairing` that the two maps are each other's inverse and which TCP
    descriptors are paired at each point of a thread.
  * `ResponsesReachTheirOwners` and `TheRouterNeverAborts`.  `Addressed` says of every
    message, wherever it is, that it is between its client and the connection that
    client is paired with, until a client closes early; `Counted`, which holds even
    after, that the copies of a client's messages in all these places are at
    most its requests; `Room` that enough connections remain for the clients yet to
    be accepted, by the parity of the round-robin counter.
  * `TheMapsAreRaceFree`.  `Exclusive` says that a descriptor is in the hands of at
    most one thread, from `EPOLLONESHOT`.
* `IoThreadPool_proofs`, under `Roomy`, for any number of threads, clients and
  descriptors and any length of a batch
  * `DescriptorsOutliveTheirEvents`.  Nothing disarms a descriptor here, so what
    keeps two threads from one connection is the other side: `ReadyList`, `Apart` and
    `Places` say that there is at most one event of a connection anywhere, in the
    ready list, in a batch or being served, because a client sends and closes
    only after its response.
  * `ResponsesInOrder`.  `Stages` says how much of a request was read and of its
    response written at each point of a thread.
* `EpollServer_proofs`: `TasksAreServedOnce`, for any number of threads, clients,
  descriptors and requests, any batches and any spurious wake-ups.  `Counted` counts
  a client's requests over the places where one can be: the socket, `main`, the
  queue, the threads and everybody's responses.  The count alone is not inductive
  once it is to be exact: it takes `Designates`, that the descriptor of a task
  belongs to the client it was read from, and that a client that closed has its
  responses, so that nothing of it is under way when its descriptor is closed and
  used again (`NotUnderWay`); `Batch` and `ReadyList`, that an event of a batch is
  about an open descriptor, and each descriptor on a list at most once; `Pool`,
  that a thread has a task exactly while it serves it.
* `RubyBinding_proofs`, about the client (`HstcpcliCalls`) and the binding over it
  * `CallsInOrder`, `CallsAccount`, `CallsDeadUntilReconnect` hold for any order of
    calls.  `CallsInv` adds that the current response is a whole line at the head
    of the buffer, that a closed client has nothing outstanding, and that the
    requests buffered and outstanding are the latest ones without a gap.
  * `BindingImplementsCalls`: the binding's methods are such orders, so that
    `BindingInOrder`, `BindingAccounts` and `BindingDeadUntilReconnect` follow.
  * `BindingResultsInOrder` and `BindingStable`.  `RubyInv` says how many requests
    a method has buffered, sent and removed at each of its points, and by how many
    an exception in an earlier method has shifted the answers.
* `HsLongrun_proofs`: `NeverFalseAlarm` and `RecordsAlwaysAgree`, for any threads
  and rows and any mixes that are `Accountable`: inserts do not lose answers, and
  deletes do not where some thread updates.  Outside it the tester does report
  false alarms (section 2).  `RecordsAgree` speaks of records nobody holds;
  `LongrunInv` says who holds a mutex and what the holder has done to the row and
  not yet to the record.  Records that are unknown matter too: they never take a
  row that is there for deleted, on which making them known again rests.

Each of the inductive invariants was an invariant of a TLC run of the same
instance before it was proved.

Only model-checked is liveness, which is out of the prover's reach
(`EveryoneAnswered`, `RequestsAnswered`, `DescriptorsReleased`, `ThreadsJoin`).

## 5. Not modelled

* Text: JSON, HTTP wording, logging, flags, formatted time (`time.cc` caches it;
  nothing compares it).  That the parser's fixed offsets are inside the text.
* `thread_pool.cc`, whose queue is the one of `thread_pool_200.cc` and which gets
  no tasks in the API process; `SharedLock`, which nothing uses.
* In `hstcpcli`: filters and IN lists, which lengthen a request; the growth of
  `string_buffer`; socket options.
* The smoke test, whose call order is among those of `HstcpcliCalls`, and
  `my_global.h`, a header of MySQL.
* The router's reaction to the end of an API process, which is a `CHECK(false)`;
  its 4096-byte buffer; descriptors of 1000 and more.
* In the I/O threads: peers that close early.  The peer is the router, which
  closes its UNIX connections only when it ends.
* InnoDB's row and gap locks, and failing queries of `op_delins`.

## 6. Plan

1. Done: request path, client, Ruby binding, wire format, engine and its abstract
   specification, router with clients that give up, I/O threads, epoll
   prototype, load tester.  Proofs: every safety property of the runs.
2. Next: runs in which a request fills the buffer it is read into, in the router and
   in the I/O threads (section 5), where `read` is asked for no bytes.
