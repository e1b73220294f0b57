------------------------------ MODULE HsLongrun -------------------------------
(***************************************************************************)
(* The long-running test of the client library, libhsclient/hslongrun.cpp. *)
(* Its threads insert, delete, update, replace and read rows of one table, *)
(* through HandlerSocket or through SQL, and compare every answer with     *)
(* what shared records say the row must be.  A record belongs to the       *)
(* thread that holds its mutex.  A thread that cannot tell what the server *)
(* did marks the record unknown and nothing is compared until some         *)
(* operation settles what the row is.                                      *)
(*                                                                         *)
(* The server is external and correct, so that each reported VERIFY_ERROR  *)
(* is a false alarm.  A row's three values are one value, which tells the  *)
(* kind of statement and the thread that wrote it.  Counters that are only *)
(* printed are left out.                                                   *)
(***************************************************************************)
EXTENDS Integers, Sequences, FiniteSets

CONSTANTS
    Threads,
    Keys,
    None,
    Mixes       \* the ways to set the options: which thread does what, and
                \* which kinds of threads may lose answers

Types == {"hsinsert", "hsdelete", "hsupdate", "hsread", "hsreadnolock",
          "myread", "mydelins"}

ASSUME MixesAssumption ==
    \A mix \in Mixes : /\ mix.type \in [Threads -> Types]
                       /\ mix.lossy \subseteq Types

(***************************************************************************)
(* A row or record value is the prefix its writer formats it with and the  *)
(* thread that wrote it: <<"pv", None>> from hs_longrun_init_table, then   *)
(* <<"iv", w>>, <<"uv", w>> and <<"div", w>>.                              *)
(***************************************************************************)
RowValues == {"pv", "iv", "uv", "div"} \X (Threads \cup {None})
Values == RowValues \cup {None}

ASSUME NoneAssumption ==
    None \notin Threads \cup Keys \cup RowValues

VARIABLES
    type,       \* worker_type of each thread
    lossy,      \* kinds of threads whose answers may be lost
    running,
    records,    \* what the test believes of each row
    lock,       \* the thread that holds the mutex of each record
    table,      \* the row of each key, or None (external)
    thread,     \* control point and locals of each thread
    alarms      \* VERIFY_ERRORs reported so far

vars == <<type, lossy, running, records, lock, table, thread, alarms>>
options == <<type, lossy>>

InitialValue == <<"pv", None>>

(* record_value; whether a record is locked is in the variable lock. *)
record_value(filled) ==
    [deleted |-> ~filled, unknown_state |-> FALSE,
     values |-> IF filled THEN InitialValue ELSE None]

IsHs(w) == type[w] \notin {"myread", "mydelins"}
LockFlag(w) == type[w] # "hsreadnolock"

(* No thread inserts or deletes: the table starts out and stays full. *)
AlwaysFilled(mix) ==
    \A w \in Threads : mix.type[w] \notin {"hsinsert", "hsdelete"}

(* Threads that read without the mutex exist only on a full table. *)
NumThreads(mix, w) == mix.type[w] # "hsreadnolock" \/ AlwaysFilled(mix)

Init ==
    \E mix \in Mixes :
        /\ type = mix.type
        /\ lossy = mix.lossy
        /\ running = TRUE
        /\ table = [k \in Keys |-> IF AlwaysFilled(mix) THEN InitialValue ELSE None]
        /\ records = [k \in Keys |-> record_value(AlwaysFilled(mix))]
        /\ lock = [k \in Keys |-> None]
        /\ thread = [w \in Threads |->
              [pc |-> IF NumThreads(mix, w) THEN "created" ELSE "done",
               key |-> None, connected |-> FALSE, answer |-> <<>>]]
        /\ alarms = {}

At(w, label) == thread[w].pc = label
Goto(w, r) == thread' = [thread EXCEPT ![w] = r]

-----------------------------------------------------------------------------
(* What an answer does to a record, and what it makes the test report.     *)

(* A report, unless the record is unknown. *)
Report(rec, failed, mess) == IF ~rec.unknown_state /\ failed THEN {mess} ELSE {}

verify_update(rec, value, num_rows, cur_unknown_state) ==
    LET op_success == num_rows = 1
    IN  [rec |-> [deleted |-> rec.deleted,
                  unknown_state |-> cur_unknown_state,
                  values |-> IF op_success THEN value ELSE rec.values],
         alarms |-> Report(rec, rec.deleted = op_success, "update")]

verify_read(rec, rrec) ==
    [rec |-> rec,
     alarms |-> Report(rec, IF rec.deleted THEN rrec # None ELSE rrec # rec.values, "read")]

verify_readnolock(rrec) == IF rrec = None THEN {"readnolock"} ELSE {}

(* Mutant: a duplicate key is taken for a success by the record. *)
verify_insert_DuplicateIsSuccess(rec, value, op_success) ==
    [rec |-> [deleted |-> FALSE, unknown_state |-> FALSE, values |-> value],
     alarms |-> Report(rec, rec.deleted # op_success, "insert")]

(* The second half of op_insert. *)
verify_insert(rec, value, op_success) ==
    [rec |-> IF op_success
             THEN [deleted |-> FALSE, unknown_state |-> FALSE, values |-> value]
             ELSE rec,
     alarms |-> Report(rec, rec.deleted # op_success, "insert")]

(* The second half of op_delete. *)
verify_delete(rec, op_success) ==
    [rec |-> IF op_success
             THEN [rec EXCEPT !.deleted = TRUE, !.unknown_state = FALSE]
             ELSE rec,
     alarms |-> Report(rec, rec.deleted = op_success, "delete")]

-----------------------------------------------------------------------------
(* main.                                                                   *)

Start(w) ==
    /\ At(w, "created")
    /\ Goto(w, [thread[w] EXCEPT !.pc = "loop"])
    /\ UNCHANGED <<options, running, records, lock, table, alarms>>

(* After the sleep; join() then waits for each thread to return. *)
Stop ==
    /\ running
    /\ \A w \in Threads : ~At(w, "created")
    /\ running' = FALSE
    /\ UNCHANGED <<options, records, lock, table, thread, alarms>>

-----------------------------------------------------------------------------
(* run(): both kinds of threads.                                           *)

(* The loop ends, or a thread without a usable connection opens one.  One  *)
(* that fails goes round the loop.                                         *)
Leave(w) ==
    /\ At(w, "loop")
    /\ ~running
    /\ Goto(w, [thread[w] EXCEPT !.pc = "done"])
    /\ UNCHANGED <<options, running, records, lock, table, alarms>>

Connect(w) ==
    /\ At(w, "loop")
    /\ running
    /\ ~thread[w].connected
    /\ \/ Goto(w, [thread[w] EXCEPT !.pc = "pick", !.connected = TRUE])
       \/ UNCHANGED thread
    /\ UNCHANGED <<options, running, records, lock, table, alarms>>

(* rand_record() *)
Pick(w, k) ==
    /\ \/ At(w, "pick")
       \/ At(w, "loop") /\ running /\ thread[w].connected
    /\ Goto(w, [thread[w] EXCEPT !.pc = IF LockFlag(w) THEN "lock" ELSE "call",
                                 !.key = k])
    /\ UNCHANGED <<options, running, records, lock, table, alarms>>

LockRecord(w) ==
    /\ At(w, "lock")
    /\ lock[thread[w].key] = None
    /\ lock' = [lock EXCEPT ![thread[w].key] = w]
    /\ Goto(w, [thread[w] EXCEPT !.pc = "call"])
    /\ UNCHANGED <<options, running, records, table, alarms>>

(* The operation returns and the lock_guard, if any, unlocks. *)
Return(w, connected) ==
    /\ lock' = IF LockFlag(w) THEN [lock EXCEPT ![thread[w].key] = None] ELSE lock
    /\ Goto(w, [pc |-> "loop", key |-> None, connected |-> connected,
                answer |-> <<>>])

(* Mutant: a return in the middle of an operation keeps the mutex. *)
check_hs_error_KeepsLock(w, known) ==
    /\ records' = IF known
                  THEN [records EXCEPT ![thread[w].key].unknown_state = TRUE]
                  ELSE records
    /\ Goto(w, [pc |-> "loop", key |-> None, connected |-> FALSE, answer |-> <<>>])
    /\ UNCHANGED lock

(***************************************************************************)
(* check_hs_error found an error and the operation returns at once.  The   *)
(* client is not at a stable_point() any more, so that the loop replaces   *)
(* it.  known: the operation passed its record.                            *)
(***************************************************************************)
check_hs_error(w, known) ==
    /\ records' = IF known
                  THEN [records EXCEPT ![thread[w].key].unknown_state = TRUE]
                  ELSE records
    /\ Return(w, FALSE)

Writes(w) == type[w] \in {"hsinsert", "hsdelete", "hsupdate"}

-----------------------------------------------------------------------------
(* Operations through HandlerSocket.                                       *)

(* request_buf_exec_generic and request_send.  A request that could not be *)
(* sent whole is not executed.                                             *)
Send(w) ==
    /\ At(w, "call")
    /\ IsHs(w)
    /\ \/ /\ Goto(w, [thread[w] EXCEPT !.pc = "recv"])
          /\ UNCHANGED <<records, lock>>
       \/ check_hs_error(w, Writes(w))
    /\ UNCHANGED <<options, running, table, alarms>>

(* External: the server executes the request and answers it. *)
ServerExecute(w) ==
    LET k == thread[w].key
        row == table[k]
    IN  /\ At(w, "recv")
        /\ thread[w].answer = <<>>
        /\ table' = [table EXCEPT ![k] =
                       CASE type[w] = "hsinsert" /\ row = None -> <<"iv", w>>
                         [] type[w] = "hsupdate" /\ row # None -> <<"uv", w>>
                         [] type[w] = "hsdelete" -> None
                         [] OTHER -> row]
        /\ Goto(w, [thread[w] EXCEPT !.answer = <<row>>])
        /\ UNCHANGED <<options, running, records, lock, alarms>>

(* The answer's row is the row before the operation, from which the error  *)
(* code and the number of rows of the answer follow.                       *)
Verified(w, rec, row) ==
    CASE type[w] = "hsinsert" -> verify_insert(rec, <<"iv", w>>, row = None)
      [] type[w] = "hsdelete" -> verify_delete(rec, row # None)
      [] type[w] = "hsupdate" ->
            LET num_rows == IF row # None THEN 1 ELSE 0
            IN  verify_update(rec, <<"uv", w>>, num_rows, num_rows = 1)
      [] type[w] = "hsread" -> verify_read(rec, row)
      [] type[w] = "hsreadnolock" -> [rec |-> rec, alarms |-> verify_readnolock(row)]

(* response_recv, get_next_row, response_buf_remove and the verification. *)
Recv(w) ==
    LET k == thread[w].key
        v == Verified(w, records[k], thread[w].answer[1])
    IN  /\ At(w, "recv")
        /\ thread[w].answer # <<>>
        /\ records' = [records EXCEPT ![k] = v.rec]
        /\ alarms' = alarms \cup v.alarms
        /\ Return(w, TRUE)
        /\ UNCHANGED <<options, running, table>>

(***************************************************************************)
(* The answer is an error, or does not come, whether or not the request    *)
(* was executed.  One that was not is never executed later.  op_insert is  *)
(* the only operation that does not call check_hs_error here: it takes the *)
(* lost answer for a refusal, and the options of this module do not let    *)
(* its answers be lost.                                                    *)
(***************************************************************************)
LoseAnswer(w) ==
    /\ At(w, "recv")
    /\ type[w] \in lossy
    /\ IF type[w] = "hsinsert"
       THEN LET k == thread[w].key
                v == verify_insert(records[k], <<"iv", w>>, FALSE)
            IN  /\ records' = [records EXCEPT ![k] = v.rec]
                /\ alarms' = alarms \cup v.alarms
                /\ Return(w, FALSE)
       ELSE check_hs_error(w, Writes(w)) /\ UNCHANGED alarms
    /\ UNCHANGED <<options, running, table>>

-----------------------------------------------------------------------------
(* Operations through SQL.                                                 *)

(* op_read.  When the query fails, show_mysql_error drops the connection.  *)
op_read_my(w) ==
    LET k == thread[w].key
        v == verify_read(records[k], table[k])
    IN  /\ At(w, "call")
        /\ type[w] = "myread"
        /\ \/ Return(w, TRUE) /\ alarms' = alarms \cup v.alarms
           \/ Return(w, FALSE) /\ type[w] \in lossy /\ UNCHANGED alarms
        /\ UNCHANGED <<options, running, records, table>>

(* Mutant: the deletion is committed by itself. *)
op_delins_delete_AutoCommit(w) ==
    LET k == thread[w].key IN
    /\ At(w, "call")
    /\ type[w] = "mydelins"
    /\ table' = [table EXCEPT ![k] = None]
    /\ Goto(w, [thread[w] EXCEPT !.pc = "commit"])
    /\ UNCHANGED <<options, running, records, lock, alarms>>

(***************************************************************************)
(* op_delins: begin and delete.  Nobody else sees the deletion before the  *)
(* commit.  If there was no row the thread gives up, with the transaction  *)
(* open, and the record is unknown.  (The transaction then keeps InnoDB's  *)
(* lock on the gap until the thread's next begin; that lock is not         *)
(* modelled, so options with both mydelins and hsinsert are left out.)     *)
(***************************************************************************)
op_delins_delete(w) ==
    LET k == thread[w].key
        v == verify_update(records[k], <<"div", w>>, 0, TRUE)
    IN  /\ At(w, "call")
        /\ type[w] = "mydelins"
        /\ IF table[k] # None
           THEN /\ Goto(w, [thread[w] EXCEPT !.pc = "commit"])
                /\ UNCHANGED <<records, lock, alarms>>
           ELSE /\ records' = [records EXCEPT ![k] = v.rec]
                /\ alarms' = alarms \cup v.alarms
                /\ Return(w, TRUE)
        /\ UNCHANGED <<options, running, table>>

(* op_delins: insert, commit and the verification. *)
op_delins_commit(w) ==
    LET k == thread[w].key
        v == verify_update(records[k], <<"div", w>>, 1, FALSE)
    IN  /\ At(w, "commit")
        /\ table' = [table EXCEPT ![k] = <<"div", w>>]
        /\ records' = [records EXCEPT ![k] = v.rec]
        /\ alarms' = alarms \cup v.alarms
        /\ Return(w, TRUE)
        /\ UNCHANGED <<options, running>>

-----------------------------------------------------------------------------
ThreadStep(w) ==
    \/ Leave(w)
    \/ Connect(w)
    \/ \E k \in Keys : Pick(w, k)
    \/ LockRecord(w)
    \/ Send(w)
    \/ Recv(w)
    \/ op_read_my(w)
    \/ op_delins_delete(w)
    \/ op_delins_commit(w)

Next ==
    \/ \E w \in Threads : Start(w) \/ ThreadStep(w) \/ ServerExecute(w) \/ LoseAnswer(w)
    \/ Stop

Spec == Init /\ [][Next]_vars

(***************************************************************************)
(* Threads run, main stops them, the server answers or the socket times    *)
(* out.  A mutex need not be fair: a thread that waits for one is sure to  *)
(* get it once the others have left the loop.                              *)
(***************************************************************************)
Fairness ==
    /\ \A w \in Threads : /\ WF_vars(Start(w))
                          /\ WF_vars(ThreadStep(w))
                          /\ WF_vars(ServerExecute(w))
    /\ WF_vars(Stop)

FairSpec == Spec /\ Fairness

-----------------------------------------------------------------------------
(***************************************************************************)
(* A server that does as it is told is never accused: no interleaving of   *)
(* the threads, and no failure that the options allow, makes an operation  *)
(* report a VERIFY_ERROR.                                                  *)
(***************************************************************************)
NoFalseAlarm == alarms = {}

(***************************************************************************)
(* A record that nobody holds and that is not unknown says what the row    *)
(* is: deleted exactly if there is no row, and otherwise its values.       *)
(***************************************************************************)
RecordsAgree ==
    \A k \in Keys :
        lock[k] = None /\ ~records[k].unknown_state =>
            IF records[k].deleted
            THEN table[k] = None
            ELSE table[k] # None /\ table[k] = records[k].values

(* Every thread returns, so that main can join it: no path keeps a mutex. *)
ThreadsJoin == <>(\A w \in Threads : At(w, "done"))
=============================================================================
