---------------------------- MODULE MariaDatabase -----------------------------
(***************************************************************************)
(* The transaction engine: rinha/maria_database.cc as it runs in several   *)
(* API processes (docker-compose starts two) with several worker threads   *)
(* each, over one MariaDB table.  A worker takes the customer's mutex,     *)
(* which only excludes threads of the same process, reads the row, tests   *)
(* the limit, and writes the row back with a compare-and-swap on its       *)
(* version, starting over when another process was faster.                 *)
(*                                                                         *)
(* Every HandlerSocket call may fail as HandlerSocket.tla describes; of    *)
(* the two connections of a worker this module keeps the three states of   *)
(* HsLink.  A process can crash and be restarted, and every start of a     *)
(* process inserts the initial customers again.                            *)
(***************************************************************************)
EXTENDS Customer, HsLink, FiniteSets

CONSTANTS
    Procs,          \* the API processes
    Workers,        \* their I/O threads, all processes together
    ProcOf,         \* the process of each worker
    NumCustomers,   \* 5 in the code
    Limit,          \* the limits of kInitialCustomers
    Values,         \* the signed amounts that requests carry
    NoWorker,       \* holder of a free mutex
    NoRow,          \* a row that was never inserted
    RouterWaits,    \* requests come only once every process is up, which
                    \* the sleeps in start_main.sh and start_router.sh aim at
    MaxRequests,    \* bound: requests per behaviour
    MaxFaults,      \* bound: failed sends, lost or late answers, error codes
    MaxCrashes      \* bound: crashes of processes

Ids == 1 .. NumCustomers
RequestIds == 0 .. NumCustomers + 1     \* the ids clients send, bad ones too

ASSUME ProcOfAssumption == ProcOf \in [Workers -> Procs]
ASSUME NumCustomersAssumption == NumCustomers \in Nat
ASSUME LimitAssumption == Limit \in [Ids -> 0 .. IntHalf - 1]
ASSUME ValuesAssumption == Values \subseteq Int32
ASSUME NoWorkerAssumption == NoWorker \notin Workers
ASSUME RouterWaitsAssumption == RouterWaits \in BOOLEAN
ASSUME BoundsAssumption ==
    MaxRequests \in Nat /\ MaxFaults \in Nat /\ MaxCrashes \in Nat

(* A request's tag is its number; 0 tags the zeroed array elements. *)
Tags == 0 .. MaxRequests
ZeroTag == 0
Blob == Customers(Tags)

(* The columns of a row of Users besides its id. *)
Row == [data : Blob, version : Nat]
ASSUME NoRowAssumption == NoRow \notin Row

VARIABLES
    db,             \* the table Users
    phase,          \* where each process is in main()
    inserting,      \* the next customer MariaInitializeDb inserts, per process
    mutex,          \* customer_write_mutexs, per process and customer
    pc,             \* where each worker is
    request,        \* the request a worker is serving
    customer,       \* its local Customer
    version,        \* its local version
    readLink,       \* its read_ptr, as HsLink describes it
    writeLink,      \* its write_ptr
    updates,        \* update requests sent and not executed yet, whether or
                    \* not the sender still waits for the response
    response,       \* the response to a worker's update, in transit
    issued,         \* requests received so far
    faults, crashes,
    answer,         \* history: the response to each request
    applied,        \* history: how often each transaction was applied
    overtaken       \* history: transactions whose read precedes a re-insert

vars == <<db, phase, inserting, mutex, pc, request, customer, version,
          readLink, writeLink, updates, response, issued, faults, crashes,
          answer, applied, overtaken>>

procVars == <<phase, inserting, crashes>>
localVars == <<request, customer, version>>
linkVars == <<readLink, writeLink, faults>>
wireVars == <<updates, response>>
histVars == <<issued, answer, applied, overtaken>>

-----------------------------------------------------------------------------
(* Values of the variables.                                                *)

Phases == {"down", "inserting", "up"}
Pcs == {"off", "idle", "lock", "read", "check", "write", "sent", "unlock",
        "get", "ok", "extract", "limit", "notfound"}

(* Between Lock() and Unlock() in MariaDbExecuteTransaction. *)
Critical == {"read", "check", "write", "sent", "unlock"}

Request == [id : RequestIds, tag : Tags, value : Int32]

(* What WriteCustomerHs sends: the new data for the row of id at version.  *)
Update == [tag : Tags, id : Ids, data : Blob, version : Nat]
Responses == {"none", "modified", "unmodified"}

(* The HTTP response: status, and the balance and listing it shows. *)
NoAnswer == [status |-> "none", balance |-> 0, listing |-> << >>]
Statuses == {"none", "ok", "limit", "notfound"}

Init ==
    /\ db = [i \in Ids |-> NoRow]
    /\ phase = [p \in Procs |-> "down"]
    /\ inserting = [p \in Procs |-> 1]
    /\ mutex = [p \in Procs |-> [i \in Ids |-> NoWorker]]
    /\ pc = [w \in Workers |-> "off"]
    /\ request = [w \in Workers |-> [id |-> 0, tag |-> 0, value |-> 0]]
    /\ customer = [w \in Workers |-> InitialCustomer(0, ZeroTag)]
    /\ version = [w \in Workers |-> 0]
    /\ readLink = [w \in Workers |-> "dead"]
    /\ writeLink = [w \in Workers |-> "dead"]
    /\ updates = {}
    /\ response = [w \in Workers |-> "none"]
    /\ issued = 0
    /\ faults = 0
    /\ crashes = 0
    /\ answer = [t \in 1 .. MaxRequests |-> NoAnswer]
    /\ applied = [t \in 1 .. MaxRequests |-> 0]
    /\ overtaken = {}

-----------------------------------------------------------------------------
(* A process: main() and MariaInitializeDb.                                *)

Peers(p) == {w \in Workers : ProcOf[w] = p}

(* The tags of the transactions on customer i that have read its row and   *)
(* not yet replaced it.                                                    *)
Readers(i) ==
    {request[w].tag : w \in {v \in Workers :
                                 /\ pc[v] \in {"check", "write", "sent"}
                                 /\ request[v].id = i}}
        \cup {u.tag : u \in {v \in updates : v.id = i}}

(* LazyInit succeeds: the retry loop around it ends. *)
Connect(p) ==
    /\ phase[p] = "down"
    /\ phase' = [phase EXCEPT ![p] = "inserting"]
    /\ inserting' = [inserting EXCEPT ![p] = 1]
    /\ UNCHANGED <<db, mutex, pc, localVars, linkVars, wireVars, histVars, crashes>>

(* Mutant: a re-insert takes over the balance of the row it replaces. *)
Reinserted_KeepsBalance(old, new) ==
    [data |-> [new EXCEPT !.balance = old.data.balance], version |-> old.version]

(* Mutant: a re-insert replaces the whole row. *)
Reinserted_ResetsVersion(old, new) == [data |-> new, version |-> 1]

(* INSERT ... ON DUPLICATE KEY UPDATE data: the version is left alone. *)
Reinserted(old, new) == [data |-> new, version |-> old.version]

(* InsertCustomer for the next customer; the last one ends the start-up. *)
InsertCustomer(p) ==
    LET i == inserting[p]
        new == InitialCustomer(Limit[i], ZeroTag)
    IN  /\ phase[p] = "inserting"
        /\ i <= NumCustomers
        /\ db' = [db EXCEPT ![i] = IF @ = NoRow
                                   THEN [data |-> new, version |-> 1]
                                   ELSE Reinserted(@, new)]
        /\ overtaken' = overtaken \cup Readers(i)
        /\ inserting' = [inserting EXCEPT ![p] = i + 1]
        /\ UNCHANGED <<phase, mutex, pc, localVars, linkVars, wireVars, issued,
                       answer, applied, crashes>>

(* Mutant: the threads start while customers are still inserted. *)
StartThreads_Early(p) ==
    /\ phase[p] = "inserting"
    /\ phase' = [phase EXCEPT ![p] = "up"]
    /\ UNCHANGED <<db, inserting, mutex, pc, localVars, linkVars, wireVars,
                   histVars, crashes>>

(* MariaInitializeDb returned true; the I/O threads are created. *)
StartThreads(p) ==
    /\ phase[p] = "inserting"
    /\ inserting[p] > NumCustomers
    /\ phase' = [phase EXCEPT ![p] = "up"]
    /\ UNCHANGED <<db, inserting, mutex, pc, localVars, linkVars, wireVars,
                   histVars, crashes>>

(* The process ends: its memory, its mutexes and its connections are gone, *)
(* updates it had sent may still be executed.                              *)
Die(p) ==
    /\ phase' = [phase EXCEPT ![p] = "down"]
    /\ mutex' = [mutex EXCEPT ![p] = [i \in Ids |-> NoWorker]]
    /\ pc' = [w \in Workers |-> IF ProcOf[w] = p THEN "off" ELSE pc[w]]
    /\ response' = [w \in Workers |-> IF ProcOf[w] = p THEN "none" ELSE response[w]]
    /\ UNCHANGED <<db, inserting, localVars, readLink, writeLink, updates, histVars>>

(* Killed, or a CHECK failed: InsertCustomer or InitializeHs returned      *)
(* false, or an unrelated one.                                             *)
Crash(p) ==
    /\ phase[p] # "down"
    /\ crashes < MaxCrashes
    /\ crashes' = crashes + 1
    /\ Die(p)
    /\ UNCHANGED faults

-----------------------------------------------------------------------------
(* A worker: the request handler.                                          *)

(* Faults are charged to a budget; b says whether the step is faulty. *)
Budget(b) ==
    /\ b => faults < MaxFaults
    /\ faults' = IF b THEN faults + 1 ELSE faults

Goto(w, label) == pc' = [pc EXCEPT ![w] = label]

(* InitializeHs returns true also when the answer to open_index is lost;   *)
(* when it returns false the process ends, see Crash.                      *)
InitializeHs(w, rlink, wlink) ==
    /\ phase[ProcOf[w]] = "up"
    /\ pc[w] = "off"
    /\ Budget(rlink # "good" \/ wlink # "good")
    /\ readLink' = [readLink EXCEPT ![w] = rlink]
    /\ writeLink' = [writeLink EXCEPT ![w] = wlink]
    /\ Goto(w, "idle")
    /\ UNCHANGED <<db, mutex, procVars, localVars, wireVars, histVars>>

(* A request with id i reaches a worker, which goes on at label, or at     *)
(* once decides NOT_FOUND.                                                 *)
Receive(w, i, v, label) ==
    /\ pc[w] = "idle"
    /\ RouterWaits => \A p \in Procs : phase[p] = "up"
    /\ issued < MaxRequests
    /\ issued' = issued + 1
    /\ request' = [request EXCEPT ![w] = [id |-> i, tag |-> issued + 1, value |-> v]]
    /\ Goto(w, IF i > NumCustomers \/ i < 1 THEN "notfound" ELSE label)
    /\ UNCHANGED <<db, mutex, procVars, customer, version, linkVars, wireVars,
                   answer, applied, overtaken>>

(* HandleRequest calls MariaDbExecuteTransaction, or MariaDbGetCustomer. *)
ExecuteTransaction(w, i, v) == Receive(w, i, v, "lock")
GetCustomer(w, i) == Receive(w, i, 0, "get")

Tx(w) == [value |-> request[w].value, tag |-> request[w].tag]

(* Mutant: the mutex also excludes the other processes. *)
Lock_AcrossProcesses(w) ==
    /\ pc[w] = "lock"
    /\ \A p \in Procs : mutex[p][request[w].id] = NoWorker
    /\ mutex' = [mutex EXCEPT ![ProcOf[w]][request[w].id] = w]
    /\ Goto(w, "read")
    /\ UNCHANGED <<db, procVars, localVars, linkVars, wireVars, histVars>>

(* customer_write_mutexs[id].Lock() *)
Lock(w) ==
    /\ pc[w] = "lock"
    /\ mutex[ProcOf[w]][request[w].id] = NoWorker
    /\ mutex' = [mutex EXCEPT ![ProcOf[w]][request[w].id] = w]
    /\ Goto(w, "read")
    /\ UNCHANGED <<db, procVars, localVars, linkVars, wireVars, histVars>>

(* customer_write_mutexs[id].Unlock() *)
Release(w) == mutex' = [mutex EXCEPT ![ProcOf[w]][request[w].id] = NoWorker]

(* Where a read for a transaction, or for a balance request, leads. *)
AfterRead(transaction, succeeded) ==
    IF transaction THEN (IF succeeded THEN "check" ELSE "read")
                   ELSE (IF succeeded THEN "extract" ELSE "notfound")

(***************************************************************************)
(* ReadCustomerHs: it fails unless the link stays good; then the retry     *)
(* loop of a transaction `continue's, with the mutex held, and a balance   *)
(* request is answered NOT_FOUND.  The server reads the row in one         *)
(* statement.  A row that is missing leaves customer and version alone.    *)
(***************************************************************************)
ReadCustomerHs(w, link) ==
    LET i == request[w].id IN
    /\ pc[w] \in {"read", "get"}
    /\ readLink[w] # "good" => link = "dead"
    /\ Budget(readLink[w] = "good" /\ link # "good")
    /\ readLink' = [readLink EXCEPT ![w] = link]
    /\ IF link = "good" /\ db[i] # NoRow
       THEN /\ customer' = [customer EXCEPT ![w] = db[i].data]
            /\ version' = [version EXCEPT ![w] = db[i].version]
            /\ overtaken' = overtaken \ {request[w].tag}
       ELSE UNCHANGED <<customer, version, overtaken>>
    /\ Goto(w, AfterRead(pc[w] = "read", link = "good"))
    /\ UNCHANGED <<db, mutex, procVars, request, writeLink, wireVars, issued,
                   answer, applied>>

(* Mutant: the early return of LIMIT_EXCEEDED forgets Unlock(). *)
Check_KeepsMutex(w) ==
    /\ pc[w] = "check"
    /\ UNCHANGED mutex
    /\ IF LimitExceeded(customer[w], Tx(w))
       THEN /\ Goto(w, "limit")
            /\ UNCHANGED customer
       ELSE /\ customer' = [customer EXCEPT ![w] = Execute(@, Tx(w))]
            /\ Goto(w, "write")
    /\ UNCHANGED <<db, procVars, request, version, linkVars, wireVars, histVars>>

(* The limit test: return LIMIT_EXCEEDED, or update the local copy. *)
Check(w) ==
    /\ pc[w] = "check"
    /\ IF LimitExceeded(customer[w], Tx(w))
       THEN /\ Release(w)
            /\ Goto(w, "limit")
            /\ UNCHANGED customer
       ELSE /\ customer' = [customer EXCEPT ![w] = Execute(@, Tx(w))]
            /\ Goto(w, "write")
            /\ UNCHANGED mutex
    /\ UNCHANGED <<db, procVars, request, version, linkVars, wireVars, histVars>>

(* WriteCustomerHs up to the wait; a failed send returns false. *)
WriteSend(w, link) ==
    /\ pc[w] = "write"
    /\ link \in SendLinks(writeLink[w])
    /\ Budget(writeLink[w] = "good" /\ link # "good")
    /\ writeLink' = [writeLink EXCEPT ![w] = link]
    /\ IF link = "good"
       THEN /\ updates' = updates \cup
                   {[tag |-> request[w].tag, id |-> request[w].id,
                     data |-> customer[w], version |-> version[w]]}
            /\ Goto(w, "sent")
       ELSE /\ UNCHANGED updates
            /\ Goto(w, "read")
    /\ UNCHANGED <<db, mutex, procVars, localVars, readLink, response, histVars>>

(* The worker that waits for the response to u, if it still does. *)
Waiting(u) == {w \in Workers : pc[w] = "sent" /\ request[w].tag = u.tag}

Respond(u, what) ==
    response' = [w \in Workers |-> IF w \in Waiting(u) THEN what ELSE response[w]]

(* Mutant: the update finds the row by id alone. *)
Matches_IgnoresVersion(u) == db[u.id] # NoRow

(* The update selects by writers_index (id, version). *)
Matches(u) == db[u.id] # NoRow /\ db[u.id].version = u.version

(* The server executes the update statement: external. *)
ServerUpdate(u) ==
    /\ u \in updates
    /\ updates' = updates \ {u}
    /\ IF Matches(u)
       THEN /\ db' = [db EXCEPT ![u.id] = [data |-> u.data,
                                           version |-> u.version + 1]]
            /\ applied' = [applied EXCEPT ![u.tag] = @ + 1]
            /\ Respond(u, "modified")
       ELSE /\ Respond(u, "unmodified")
            /\ UNCHANGED <<db, applied>>
    /\ UNCHANGED <<mutex, procVars, pc, localVars, linkVars, issued, answer,
                   overtaken>>

(* Mutant: the test of the number of modified rows is inverted. *)
WriteRecv_Inverted(w) ==
    /\ pc[w] = "sent"
    /\ response[w] # "none"
    /\ response' = [response EXCEPT ![w] = "none"]
    /\ Goto(w, IF response[w] = "modified" THEN "read" ELSE "unlock")
    /\ UNCHANGED <<db, mutex, procVars, localVars, linkVars, updates, histVars>>

(* Mutant: the number of modified rows is not looked at. *)
WriteRecv_AnyResponse(w) ==
    /\ pc[w] = "sent"
    /\ response[w] # "none"
    /\ response' = [response EXCEPT ![w] = "none"]
    /\ Goto(w, "unlock")
    /\ UNCHANGED <<db, mutex, procVars, localVars, linkVars, updates, histVars>>

(* WriteCustomerHs with a response: true if a row was modified. *)
WriteRecv(w) ==
    /\ pc[w] = "sent"
    /\ response[w] # "none"
    /\ response' = [response EXCEPT ![w] = "none"]
    /\ Goto(w, IF response[w] = "modified" THEN "unlock" ELSE "read")
    /\ UNCHANGED <<db, mutex, procVars, localVars, linkVars, updates, histVars>>

(* The server answers an error code in place of executing the update: the  *)
(* response is not removed, and WriteCustomerHs returns 1.                 *)
WriteError(w) ==
    /\ pc[w] = "sent"
    /\ \E u \in updates : u.tag = request[w].tag
    /\ Budget(TRUE)
    /\ updates' = {u \in updates : u.tag # request[w].tag}
    /\ writeLink' = [writeLink EXCEPT ![w] = "poisoned"]
    /\ Goto(w, "unlock")
    /\ UNCHANGED <<db, mutex, procVars, localVars, readLink, response, histVars>>

(* The response is late or lost: WriteCustomerHs returns 1 all the same,   *)
(* and the update may or may not have been executed, or be executed yet.   *)
WriteLost(w) ==
    /\ pc[w] = "sent"
    /\ Budget(TRUE)
    /\ writeLink' = [writeLink EXCEPT ![w] = "dead"]
    /\ response' = [response EXCEPT ![w] = "none"]
    /\ Goto(w, "unlock")
    /\ UNCHANGED <<db, mutex, procVars, localVars, readLink, updates, histVars>>

(* Unlock() and return SUCCESS. *)
Unlock(w) ==
    /\ pc[w] = "unlock"
    /\ Release(w)
    /\ Goto(w, "ok")
    /\ UNCHANGED <<db, procVars, localVars, linkVars, wireVars, histVars>>

(* The response to a request that was decided: both kinds of 200 show the  *)
(* balance of the local copy, a balance request its listing too.           *)
Answer(w) ==
    CASE pc[w] = "ok" -> [NoAnswer EXCEPT !.status = "ok",
                                          !.balance = customer[w].balance]
      [] pc[w] = "extract" -> [status |-> "ok",
                               balance |-> customer[w].balance,
                               listing |-> Listing(customer[w])]
      [] OTHER -> [NoAnswer EXCEPT !.status = pc[w]]

SendAnswer(w) ==
    /\ pc[w] \in {"ok", "extract", "limit", "notfound"}
    /\ answer' = [answer EXCEPT ![request[w].tag] = Answer(w)]
    /\ Goto(w, "idle")
    /\ UNCHANGED <<db, mutex, procVars, localVars, linkVars, wireVars, issued,
                   applied, overtaken>>

-----------------------------------------------------------------------------
(* The bound on requests is reached and every worker waits in epoll_wait.  *)
Quiescent ==
    /\ issued = MaxRequests
    /\ \A w \in Workers : pc[w] = "idle"
    /\ UNCHANGED vars

ProcNext(p) == Connect(p) \/ InsertCustomer(p) \/ StartThreads(p) \/ Crash(p)

WorkerStep(w) ==
    \/ Lock(w)
    \/ \E link \in Links : ReadCustomerHs(w, link)
    \/ Check(w)
    \/ \E link \in Links : WriteSend(w, link)
    \/ WriteRecv(w)
    \/ WriteError(w)
    \/ WriteLost(w)
    \/ Unlock(w)
    \/ SendAnswer(w)

WorkerNext(w) ==
    \/ \E rlink, wlink \in {"good", "dead"} : InitializeHs(w, rlink, wlink)
    \/ \E i \in RequestIds : \/ \E v \in Values : ExecuteTransaction(w, i, v)
                             \/ GetCustomer(w, i)
    \/ WorkerStep(w)

Next ==
    \/ \E p \in Procs : ProcNext(p)
    \/ \E w \in Workers : WorkerNext(w)
    \/ \E u \in updates : ServerUpdate(u)
    \/ Quiescent

Spec == Init /\ [][Next]_vars

(***************************************************************************)
(* Fairness.  A started process finishes its start-up, a worker thread     *)
(* that can run is scheduled, and the server executes what it received.    *)
(* Nothing forces a crash, a fault or a request.                           *)
(***************************************************************************)
Fairness ==
    /\ \A p \in Procs : WF_vars(Connect(p) \/ InsertCustomer(p) \/ StartThreads(p))
    /\ \A w \in Workers : WF_vars(InitializeHs(w, "good", "good"))
    /\ \A w \in Workers : WF_vars(WorkerStep(w))
    /\ WF_vars(\E u \in updates : ServerUpdate(u))

FairSpec == Spec /\ Fairness

-----------------------------------------------------------------------------
TypeOK ==
    /\ db \in [Ids -> Row \cup {NoRow}]
    /\ phase \in [Procs -> Phases]
    /\ inserting \in [Procs -> 1 .. NumCustomers + 1]
    /\ mutex \in [Procs -> [Ids -> Workers \cup {NoWorker}]]
    /\ pc \in [Workers -> Pcs]
    /\ request \in [Workers -> Request]
    /\ customer \in [Workers -> Blob]
    /\ version \in [Workers -> Nat]
    /\ readLink \in [Workers -> Links]
    /\ writeLink \in [Workers -> Links]
    /\ updates \subseteq Update
    /\ response \in [Workers -> Responses]
    /\ issued \in 0 .. MaxRequests
    /\ faults \in 0 .. MaxFaults
    /\ crashes \in 0 .. MaxCrashes
    /\ applied \in [1 .. MaxRequests -> Nat]
    /\ overtaken \subseteq Tags

(***************************************************************************)
(* No row ever shows a balance below minus its customer's limit, whichever *)
(* threads and processes race, whatever fails, whenever a process starts.  *)
(***************************************************************************)
LimitRespected ==
    \A i \in Ids : db[i] # NoRow =>
        /\ db[i].data.limit = Limit[i]
        /\ db[i].data.balance >= -Limit[i]

(***************************************************************************)
(* A worker inside the retry loop holds its customer's mutex and nobody    *)
(* else does; every early return and every retry keeps it so.              *)
(***************************************************************************)
MutexHeld ==
    \A p \in Procs, i \in Ids, w \in Workers :
        mutex[p][i] = w <=> ProcOf[w] = p /\ pc[w] \in Critical /\ request[w].id = i

(***************************************************************************)
(* A worker that serves a customer finds its row: the start-up of its own  *)
(* process inserted it, so ReadCustomerHs never returns true and leaves    *)
(* customer and version uninitialised.                                     *)
(***************************************************************************)
RowsPresent ==
    \A w \in Workers : pc[w] # "off" => \A i \in Ids : db[i] # NoRow

(***************************************************************************)
(* No transaction is applied twice, although lost compare-and-swaps and    *)
(* failed sends are retried, and late updates may be executed after the    *)
(* client gave up on them or died.                                         *)
(***************************************************************************)
AtMostOnce == \A t \in 1 .. MaxRequests : applied[t] <= 1

(***************************************************************************)
(* An update in transit that would still match its row carries the row's   *)
(* present contents plus its own transaction: executing it loses nobody    *)
(* else's update.  Exempt are updates whose read was followed by another   *)
(* process's start-up, which resets the data and not the version.          *)
(***************************************************************************)
NoLostUpdate ==
    \A w \in Workers :
        pc[w] = "sent" =>
            \A u \in updates :
                u.tag = request[w].tag /\ Matches(u) /\ u.tag \notin overtaken
                    => u.data = Execute(db[u.id].data, Tx(w))

(***************************************************************************)
(* Every row is internally consistent, never a mixture of two: until the   *)
(* array wraps around, the balance is the sum of its transactions and the  *)
(* index is their number.                                                  *)
(***************************************************************************)
SumOfFirst(c, n) ==
    LET sum[k \in 0 .. n] ==
            IF k = 0 THEN 0 ELSE sum[k - 1] + c.transactions[k - 1].value
    IN  sum[n]
BlobConsistent ==
    \A i \in Ids : db[i] # NoRow =>
        LET c == db[i].data IN
        /\ c.transaction_count <= RingSize =>
               c.balance = Wrap(SumOfFirst(c, c.transaction_count))
        /\ c.transaction_count < RingSize =>
               c.next_transaction_index = c.transaction_count

(* What a step may do to the rows that are there. *)
RowsKept ==
    \A i \in Ids : db[i] # NoRow => db'[i] # NoRow /\ db'[i].version >= db[i].version

(***************************************************************************)
(* No row disappears and no version goes back, whichever processes start,  *)
(* re-insert or update: a compare-and-swap that was overtaken stays so.    *)
(***************************************************************************)
VersionsGrow == [][RowsKept]_vars

(***************************************************************************)
(* A worker about to answer 422 has not applied its transaction; one about *)
(* to answer 200 has, exactly once, as long as no HandlerSocket call has   *)
(* failed (WriteCustomerHs returns true when it gets an error).            *)
(***************************************************************************)
AnswersTruthful ==
    \A w \in Workers :
        /\ pc[w] = "ok" /\ faults = 0 => applied[request[w].tag] = 1
        /\ pc[w] = "limit" => applied[request[w].tag] = 0

(* The connections of every running thread of a process work. *)
Healthy(p) ==
    \A w \in Peers(p) :
        pc[w] # "off" => readLink[w] = "good" /\ writeLink[w] = "good"

(***************************************************************************)
(* If no call of a process fails, every request that reaches one of its    *)
(* workers is answered: nobody waits for a mutex for ever, and the         *)
(* compare-and-swap loops of the processes do not starve each other once   *)
(* requests stop coming.  A failure stays inside its process, although a   *)
(* worker spins on a dead connection for ever with a mutex held.           *)
(***************************************************************************)
EveryoneAnswered ==
    \A p \in Procs :
        []Healthy(p) => \A w \in Peers(p) :
                            pc[w] \in {"lock", "get", "notfound"} ~> pc[w] = "idle"
=============================================================================
