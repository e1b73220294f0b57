--------------------------- MODULE HsLongrun_proofs ----------------------------
(***************************************************************************)
(* The load tester accuses no correct server, for any number of threads    *)
(* and rows and any mix of operations whose lost answers the records can   *)
(* account for.                                                            *)
(***************************************************************************)
EXTENDS HsLongrun, TLAPS

(***************************************************************************)
(* A lost answer to an insert is taken for a refusal, and an update of no  *)
(* row makes the record known again, so that inserts must not lose their   *)
(* answers, nor deletes where some thread updates.                         *)
(***************************************************************************)
Accountable(mix) ==
    /\ "hsinsert" \notin mix.lossy
    /\ "hsdelete" \in mix.lossy => \A w \in Threads : mix.type[w] # "hsupdate"

AllAccountable == \A mix \in Mixes : Accountable(mix)

Chosen == [type |-> type, lossy |-> lossy]

Records == [deleted : BOOLEAN, unknown_state : BOOLEAN, values : Values]
Answers == {<<>>} \cup {<<row>> : row \in Values}

Options ==
    /\ type \in [Threads -> Types]
    /\ Accountable(Chosen)

Shape ==
    /\ records \in [Keys -> Records]
    /\ lock \in [Keys -> Threads \cup {None}]
    /\ table \in [Keys -> Values]
    /\ thread \in [Threads -> [pc : {"created", "done", "loop", "pick", "lock", "call",
                                     "recv", "commit"},
                               key : Keys \cup {None},
                               connected : BOOLEAN,
                               answer : Answers]]

Executed(w) == thread[w].answer # <<>>

(* What a thread is doing at each control point. *)
Control(w) ==
    /\ thread[w].pc \in {"lock", "call", "recv", "commit"} => thread[w].key \in Keys
    /\ At(w, "lock") => LockFlag(w)
    /\ At(w, "recv") => IsHs(w)
    /\ At(w, "commit") => type[w] = "mydelins" /\ table[thread[w].key] # None
    /\ Executed(w) => At(w, "recv")

Holds(w) == thread[w].pc \in {"call", "recv", "commit"} /\ LockFlag(w)

(* A mutex is held by exactly the thread inside an operation on its record. *)
Exclusive ==
    \A k \in Keys, w \in Threads :
        lock[k] = w <=> Holds(w) /\ thread[w].key = k

(***************************************************************************)
(* What a record says of its row.  One that is unknown may take a row for  *)
(* present that is gone, but not where some thread updates; no record      *)
(* takes a row that is there for deleted.                                  *)
(***************************************************************************)
Agrees(rec, row) ==
    /\ rec.deleted => row = None
    /\ ~rec.deleted /\ ~rec.unknown_state => row # None /\ row = rec.values
    /\ ~rec.deleted /\ (\E w \in Threads : type[w] = "hsupdate") => row # None

(* What the server does to a row at the request of a thread. *)
Effect(w, row) ==
    CASE type[w] = "hsinsert" /\ row = None -> <<"iv", w>>
      [] type[w] = "hsupdate" /\ row # None -> <<"uv", w>>
      [] type[w] = "hsdelete" -> None
      [] OTHER -> row

(***************************************************************************)
(* The record agrees with the row, or with the row as it was before the    *)
(* request of the thread that holds the mutex was executed.                *)
(***************************************************************************)
Agreement(k) ==
    /\ (\A w \in Threads : lock[k] = w => ~Executed(w)) => Agrees(records[k], table[k])
    /\ \A w \in Threads :
           lock[k] = w /\ Executed(w) =>
               /\ Agrees(records[k], thread[w].answer[1])
               /\ table[k] = Effect(w, thread[w].answer[1])

(* Threads that read without the mutex read a full table. *)
Full ==
    /\ AlwaysFilled(Chosen) => \A k \in Keys : table[k] # None
    /\ \A w \in Threads :
           type[w] = "hsreadnolock" =>
               \/ At(w, "done")
               \/ AlwaysFilled(Chosen) /\ (Executed(w) => thread[w].answer[1] # None)

(***************************************************************************)
(* The inductive invariant.  RecordsAgree speaks of records nobody holds;  *)
(* what makes it so when the mutex is released is what the holder has done *)
(* to the row and not yet to the record.                                   *)
(***************************************************************************)
LongrunInv ==
    /\ Options
    /\ Shape
    /\ \A w \in Threads : Control(w)
    /\ Exclusive
    /\ \A k \in Keys : Agreement(k)
    /\ Full
    /\ NoFalseAlarm

-----------------------------------------------------------------------------
(* The operators.                                                          *)

LEMMA WrittenValues ==
    \A w \in Threads : /\ <<"iv", w>> \in Values /\ <<"iv", w>> # None
                       /\ <<"uv", w>> \in Values /\ <<"uv", w>> # None
                       /\ <<"div", w>> \in Values /\ <<"div", w>> # None
BY NoneAssumption DEF Values, RowValues

LEMMA InitialValues == InitialValue \in Values /\ InitialValue # None /\ None \in Values
BY NoneAssumption DEF Values, RowValues, InitialValue

(* What each verification makes of a record that agreed with the row the   *)
(* answer tells of: it reports nothing and the new record agrees with the  *)
(* row after the operation.                                                *)
LEMMA InsertAgrees ==
    ASSUME NEW rec \in Records, NEW row \in Values, NEW w \in Threads, Agrees(rec, row)
    PROVE  LET v == verify_insert(rec, <<"iv", w>>, row = None)
           IN  /\ v.rec \in Records /\ v.alarms = {}
               /\ Agrees(v.rec, IF row = None THEN <<"iv", w>> ELSE row)
<1>1. CASE row = None
    BY <1>1, WrittenValues DEF verify_insert, Report, Agrees, Records
<1>2. CASE row # None
    BY <1>2 DEF verify_insert, Report, Agrees, Records
<1> QED BY <1>1, <1>2

LEMMA DeleteAgrees ==
    ASSUME NEW rec \in Records, NEW row \in Values, Agrees(rec, row)
    PROVE  LET v == verify_delete(rec, row # None)
           IN  /\ v.rec \in Records /\ v.alarms = {}
               /\ Agrees(v.rec, None)
<1>1. CASE row = None
    BY <1>1 DEF verify_delete, Report, Agrees, Records
<1>2. CASE row # None
    BY <1>2 DEF verify_delete, Report, Agrees, Records
<1> QED BY <1>1, <1>2

LEMMA UpdateAgrees ==
    ASSUME NEW rec \in Records, NEW row \in Values, NEW w \in Threads, Agrees(rec, row),
           type[w] = "hsupdate"
    PROVE  LET n == IF row # None THEN 1 ELSE 0
               v == verify_update(rec, <<"uv", w>>, n, n = 1)
           IN  /\ v.rec \in Records /\ v.alarms = {}
               /\ Agrees(v.rec, IF row # None THEN <<"uv", w>> ELSE row)
<1>1. CASE row = None
    BY <1>1 DEF verify_update, Report, Agrees, Records
<1>2. CASE row # None
    BY <1>2, WrittenValues DEF verify_update, Report, Agrees, Records
<1> QED BY <1>1, <1>2

LEMMA ReadAgrees ==
    ASSUME NEW rec \in Records, NEW row \in Values, Agrees(rec, row)
    PROVE  LET v == verify_read(rec, row) IN v.rec = rec /\ v.alarms = {}
BY DEF verify_read, Report, Agrees, Records

(* op_delins: without a row, and with one. *)
LEMMA GiveUpAgrees ==
    ASSUME NEW rec \in Records, NEW w \in Threads, Agrees(rec, None)
    PROVE  LET v == verify_update(rec, <<"div", w>>, 0, TRUE)
           IN  /\ v.rec \in Records /\ v.alarms = {}
               /\ Agrees(v.rec, None)
BY DEF verify_update, Report, Agrees, Records

LEMMA ReplaceAgrees ==
    ASSUME NEW rec \in Records, NEW row \in Values, NEW w \in Threads, Agrees(rec, row),
           row # None
    PROVE  LET v == verify_update(rec, <<"div", w>>, 1, FALSE)
           IN  /\ v.rec \in Records /\ v.alarms = {}
               /\ Agrees(v.rec, <<"div", w>>)
BY WrittenValues DEF verify_update, Report, Agrees, Records

(* A record marked unknown after its row may have been changed. *)
LEMMA UnknownAgrees ==
    ASSUME NEW rec \in Records, NEW row \in Values, NEW w \in Threads, Agrees(rec, row),
           type[w] # "hsinsert",
           type[w] = "hsdelete" => \A x \in Threads : type[x] # "hsupdate"
    PROVE  LET new == [rec EXCEPT !.unknown_state = TRUE]
           IN  new \in Records /\ Agrees(new, row) /\ Agrees(new, Effect(w, row))
<1>1. CASE type[w] = "hsupdate"
    BY <1>1, WrittenValues DEF Effect, Agrees, Records
<1>2. CASE type[w] = "hsdelete"
    BY <1>2 DEF Effect, Agrees, Records
<1>3. CASE type[w] \notin {"hsinsert", "hsupdate", "hsdelete"}
    BY <1>3 DEF Effect, Agrees, Records
<1> QED BY <1>1, <1>2, <1>3

LEMMA EffectCases ==
    ASSUME NEW w, NEW row
    PROVE  /\ type[w] = "hsinsert" =>
                  Effect(w, row) = IF row = None THEN <<"iv", w>> ELSE row
           /\ type[w] = "hsupdate" =>
                  Effect(w, row) = IF row # None THEN <<"uv", w>> ELSE row
           /\ type[w] = "hsdelete" => Effect(w, row) = None
           /\ ~Writes(w) => Effect(w, row) = row
BY DEF Effect, Writes

LEMMA EffectValue ==
    ASSUME NEW w \in Threads, NEW row \in Values
    PROVE  Effect(w, row) \in Values
BY WrittenValues, InitialValues DEF Effect

-----------------------------------------------------------------------------
(* Steps.                                                                  *)

LEMMA LongrunInit == ASSUME AllAccountable, Init PROVE LongrunInv
<1>1. PICK mix \in Mixes :
          /\ type = mix.type /\ lossy = mix.lossy
          /\ table = [k \in Keys |-> IF AlwaysFilled(mix) THEN InitialValue ELSE None]
          /\ records = [k \in Keys |-> record_value(AlwaysFilled(mix))]
          /\ thread = [w \in Threads |->
                [pc |-> IF NumThreads(mix, w) THEN "created" ELSE "done",
                 key |-> None, connected |-> FALSE, answer |-> <<>>]]
    BY DEF Init
<1>2. lock = [k \in Keys |-> None] /\ alarms = {}
    BY DEF Init
<1>3. AlwaysFilled(Chosen) <=> AlwaysFilled(mix)
    BY <1>1 DEF AlwaysFilled, Chosen
<1>4. Options
    BY <1>1, MixesAssumption DEF AllAccountable, Accountable, Options, Chosen
<1>5. Shape
    <2>1. records \in [Keys -> Records]
        BY <1>1, InitialValues DEF record_value, Records
    <2>2. table \in [Keys -> Values]
        BY <1>1, InitialValues
    <2>3. lock \in [Keys -> Threads \cup {None}]
        BY <1>2
    <2> QED BY <1>1, <2>1, <2>2, <2>3 DEF Shape, Answers
<1>6. \A w \in Threads : ~Executed(w) /\ thread[w].pc \in {"created", "done"}
    BY <1>1 DEF Executed
<1>7. \A w \in Threads : Control(w)
    BY <1>6 DEF Control, At
<1>8. Exclusive
    BY <1>2, <1>6, NoneAssumption DEF Exclusive, Holds
<1>9. \A k \in Keys : Agreement(k)
    <2> SUFFICES ASSUME NEW k \in Keys PROVE Agrees(records[k], table[k])
        BY <1>6 DEF Agreement
    <2>1. CASE AlwaysFilled(mix)
        BY <1>1, <2>1, InitialValues DEF record_value, Agrees
    <2>2. CASE ~AlwaysFilled(mix)
        BY <1>1, <2>2 DEF record_value, Agrees
    <2> QED BY <2>1, <2>2
<1>10. Full
    <2>1. AlwaysFilled(Chosen) => \A k \in Keys : table[k] # None
        BY <1>1, <1>3, InitialValues
    <2>2. \A w \in Threads : type[w] = "hsreadnolock" => At(w, "done") \/ AlwaysFilled(Chosen)
        BY <1>1, <1>3 DEF NumThreads, At
    <2> QED BY <1>6, <2>1, <2>2 DEF Full
<1> QED BY <1>2, <1>4, <1>5, <1>7, <1>8, <1>9, <1>10 DEF LongrunInv, NoFalseAlarm

(* What the invariant says of a thread inside an operation. *)
LEMMA Holding ==
    ASSUME LongrunInv, NEW w \in Threads, thread[w].pc \in {"call", "recv", "commit"}
    PROVE  LET k == thread[w].key
           IN  /\ k \in Keys /\ records[k] \in Records /\ table[k] \in Values
               /\ LockFlag(w) =>
                      /\ lock[k] = w
                      /\ ~Executed(w) => Agrees(records[k], table[k])
                      /\ Executed(w) =>
                             /\ Agrees(records[k], thread[w].answer[1])
                             /\ table[k] = Effect(w, thread[w].answer[1])
               /\ Executed(w) => thread[w].answer[1] \in Values
<1> DEFINE k == thread[w].key
<1>1. k \in Keys
    BY DEF LongrunInv, Control
<1>2. records[k] \in Records /\ table[k] \in Values
    BY <1>1 DEF LongrunInv, Shape
<1>3. LockFlag(w) => lock[k] = w
    BY <1>1 DEF LongrunInv, Exclusive, Holds
<1>4. Executed(w) => thread[w].answer[1] \in Values
    BY DEF LongrunInv, Shape, Executed, Answers
<1>5. Agreement(k)
    BY <1>1 DEF LongrunInv
<1> QED BY <1>1, <1>2, <1>3, <1>4, <1>5 DEF Agreement

(* A step that only moves a thread, which neither gets nor gives up a mutex. *)
LEMMA Moves ==
    ASSUME LongrunInv, NEW w \in Threads, NEW r,
           Goto(w, r),
           r \in [pc : {"done", "loop", "pick", "lock", "call", "recv", "commit"},
                  key : Keys \cup {None}, connected : BOOLEAN, answer : Answers],
           UNCHANGED <<options, records, lock, table, alarms>>,
           ~Executed(w), r.answer = thread[w].answer,
           Control(w)',
           ~At(w, "done"),
           (Holds(w) \/ Holds(w)') => Holds(w) /\ Holds(w)' /\ r.key = thread[w].key
    PROVE  LongrunInv'
<1>1. /\ thread'[w] = r /\ \A x \in Threads \ {w} : thread'[x] = thread[x]
      /\ UNCHANGED <<type, lossy, records, lock, table, alarms>>
    BY DEF LongrunInv, Shape, Goto, options
<1>2. Shape'
    BY <1>1 DEF LongrunInv, Shape, Goto
<1>3. \A x \in Threads : /\ Executed(x)' <=> Executed(x)
                         /\ thread'[x].answer = thread[x].answer
    BY <1>1 DEF Executed
<1>4. \A x \in Threads : Control(x)'
    BY <1>1 DEF LongrunInv, Control, At, LockFlag, IsHs, Executed
<1>5. Exclusive'
    <2>1. \A x \in Threads \ {w} : Holds(x)' <=> Holds(x)
        BY <1>1 DEF Holds, LockFlag
    <2>2. \A k \in Keys : lock[k] = w <=> Holds(w)' /\ thread'[w].key = k
        BY <1>1 DEF LongrunInv, Exclusive
    <2> QED BY <1>1, <2>1, <2>2 DEF LongrunInv, Exclusive
<1>6. \A k \in Keys : Agreement(k)'
    BY <1>1, <1>3 DEF LongrunInv, Agreement, Agrees, Effect
<1>7. Full'
    BY <1>1, <1>3 DEF LongrunInv, Full, At, AlwaysFilled, Chosen
<1> QED BY <1>1, <1>2, <1>4, <1>5, <1>6, <1>7
        DEF LongrunInv, Options, Accountable, Chosen, NoFalseAlarm

(* The end of an operation, which may have changed its record and row. *)
LEMMA Returns ==
    ASSUME LongrunInv, NEW w \in Threads, thread[w].pc \in {"call", "recv", "commit"},
           NEW c \in BOOLEAN, Return(w, c),
           NEW rec \in Records, NEW row \in Values,
           records' = [records EXCEPT ![thread[w].key] = rec],
           table' = [table EXCEPT ![thread[w].key] = row],
           UNCHANGED <<options, alarms>>,
           LockFlag(w) => Agrees(rec, row),
           ~LockFlag(w) => rec = records[thread[w].key] /\ row = table[thread[w].key],
           AlwaysFilled(Chosen) => row # None
    PROVE  LongrunInv'
<1>1. PICK k \in Keys : k = thread[w].key
    BY Holding
<1>2. /\ thread'[w] = [pc |-> "loop", key |-> None, connected |-> c, answer |-> <<>>]
      /\ \A x \in Threads \ {w} : thread'[x] = thread[x]
      /\ UNCHANGED <<type, lossy, alarms>>
    BY DEF LongrunInv, Shape, Return, Goto, options
<1>3. /\ records'[k] = rec /\ table'[k] = row
      /\ \A j \in Keys \ {k} : records'[j] = records[j] /\ table'[j] = table[j]
    BY <1>1 DEF LongrunInv, Shape
<1>4. /\ LockFlag(w) => lock[k] = w /\ lock'[k] = None
      /\ ~LockFlag(w) => lock' = lock
      /\ \A j \in Keys \ {k} : lock'[j] = lock[j]
    BY <1>1, Holding DEF LongrunInv, Shape, Return
<1>5. Shape'
    <2>1. thread' \in [Threads -> [pc : {"created", "done", "loop", "pick", "lock", "call",
                                     "recv", "commit"},
                               key : Keys \cup {None},
                               connected : BOOLEAN,
                               answer : Answers]]
        BY DEF LongrunInv, Shape, Return, Goto, Answers
    <2>2. lock' \in [Keys -> Threads \cup {None}]
        BY <1>1 DEF LongrunInv, Shape, Return
    <2> QED BY <1>1, <2>1, <2>2 DEF LongrunInv, Shape
<1>6. \A x \in Threads \ {w} : /\ Executed(x)' <=> Executed(x)
                               /\ Holds(x)' <=> Holds(x)
    BY <1>2 DEF Executed, Holds, LockFlag
<1>7. ~Executed(w)' /\ ~Holds(w)'
    BY <1>2 DEF Executed, Holds
<1>8. LockFlag(w) => \A x \in Threads \ {w} : ~(Holds(x) /\ thread[x].key = k)
    BY <1>1, <1>4 DEF LongrunInv, Exclusive
<1>9. Exclusive'
    <2>1. ASSUME NEW j \in Keys, NEW x \in Threads \ {w}
          PROVE  lock'[j] = x <=> Holds(x)' /\ thread'[x].key = j
        <3>1. lock[j] = x <=> Holds(x)' /\ thread'[x].key = j
            BY <1>2, <1>6 DEF LongrunInv, Exclusive
        <3>2. CASE j = k /\ LockFlag(w)
            BY <1>2, <1>4, <1>6, <1>8, <3>2, NoneAssumption
        <3>3. CASE j # k \/ ~LockFlag(w)
            BY <1>4, <3>1, <3>3
        <3> QED BY <3>2, <3>3
    <2>2. ASSUME NEW j \in Keys
          PROVE  lock'[j] # w
        <3>1. lock[j] = w <=> Holds(w) /\ k = j
            BY <1>1 DEF LongrunInv, Exclusive
        <3>2. CASE j = k /\ LockFlag(w)
            BY <1>4, <3>2, NoneAssumption
        <3>3. CASE j # k \/ ~LockFlag(w)
            BY <1>4, <3>1, <3>3 DEF Holds
        <3> QED BY <3>2, <3>3
    <2> QED BY <1>7, <2>1, <2>2 DEF Exclusive
<1>10. \A x \in Threads : Control(x)'
    <2>1. Control(w)'
        BY <1>2 DEF Control, At, Executed
    <2>2. ASSUME NEW x \in Threads \ {w}
          PROVE  Control(x)'
        <3>1. Control(x)
            BY DEF LongrunInv
        <3>2. At(x, "commit") => table'[thread[x].key] # None
            <4> SUFFICES ASSUME At(x, "commit")
                         PROVE  table'[thread[x].key] # None
                OBVIOUS
            <4>1. Holds(x) /\ thread[x].key \in Keys /\ table[thread[x].key] # None
                BY <3>1 DEF Control, Holds, LockFlag, At
            <4>2. CASE thread[x].key = k
                BY <1>3, <1>8, <4>1, <4>2
            <4>3. CASE thread[x].key # k
                BY <1>3, <4>1, <4>3
            <4> QED BY <4>2, <4>3
        <3> QED BY <1>2, <3>1, <3>2 DEF Control, At, LockFlag, IsHs, Executed
    <2> QED BY <2>1, <2>2
<1>11. \A j \in Keys : Agreement(j)'
    <2>1. ASSUME NEW j \in Keys \ {k}
          PROVE  Agreement(j)'
        <3>1. Agreement(j) /\ lock'[j] = lock[j] /\ lock[j] # w
            BY <1>1, <1>4 DEF LongrunInv, Exclusive
        <3>2. records'[j] = records[j] /\ table'[j] = table[j]
            BY <1>3
        <3> QED BY <1>2, <1>6, <3>1, <3>2 DEF Agreement, Agrees, Effect
    <2>2. CASE LockFlag(w)
        <3>1. Agrees(rec, row)'
            BY <1>2, <1>3, <2>2 DEF Agrees
        <3>2. \A x \in Threads : lock'[k] # x
            BY <1>4, <2>2, NoneAssumption
        <3> QED BY <1>1, <1>3, <2>1, <3>1, <3>2 DEF Agreement
    <2>3. CASE ~LockFlag(w)
        <3>1. Agreement(k) /\ lock'[k] = lock[k] /\ lock[k] # w
            BY <1>1, <1>4, <2>3 DEF LongrunInv, Exclusive, Holds
        <3>2. records'[k] = records[k] /\ table'[k] = table[k]
            BY <1>3, <2>3
        <3>3. Agreement(k)'
            BY <1>2, <1>6, <3>1, <3>2 DEF Agreement, Agrees, Effect
        <3> QED BY <2>1, <3>3
    <2> QED BY <2>2, <2>3
<1>12. Full'
    <2>1. AlwaysFilled(Chosen)' <=> AlwaysFilled(Chosen)
        BY <1>2 DEF AlwaysFilled, Chosen
    <2>2. AlwaysFilled(Chosen) => \A j \in Keys : table'[j] # None
        BY <1>1, <1>3 DEF LongrunInv, Full
    <2>3. type[w] = "hsreadnolock" => AlwaysFilled(Chosen)
        BY DEF LongrunInv, Full, At
    <2>4. \A x \in Threads \ {w} : At(x, "done")' <=> At(x, "done")
        BY <1>2 DEF At
    <2> QED BY <1>2, <1>6, <1>7, <2>1, <2>2, <2>3, <2>4 DEF LongrunInv, Full
<1> QED BY <1>2, <1>5, <1>9, <1>10, <1>11, <1>12
        DEF LongrunInv, Options, Accountable, Chosen, NoFalseAlarm

-----------------------------------------------------------------------------
(* One lemma per action.                                                   *)

LEMMA LongrunMove ==
    ASSUME LongrunInv, NEW w \in Threads,
           \/ Start(w) \/ Leave(w) \/ Connect(w) \/ \E k \in Keys : Pick(w, k)
    PROVE  LongrunInv'
<1>1. /\ thread[w].pc \in {"created", "loop", "pick"}
      /\ UNCHANGED <<options, records, lock, table, alarms>>
    BY DEF Start, Leave, Connect, Pick, At
<1>2. ~Executed(w) /\ ~Holds(w) /\ ~At(w, "done")
    BY <1>1 DEF LongrunInv, Control, At, Holds
<1>3. thread[w].key \in Keys \cup {None} /\ thread[w].connected \in BOOLEAN
    BY DEF LongrunInv, Shape
<1>4. LockFlag(w)' <=> LockFlag(w)
    BY <1>1 DEF LockFlag, options
<1>5. ASSUME NEW pc \in {"done", "loop", "pick"}, NEW c \in BOOLEAN,
             Goto(w, [thread[w] EXCEPT !.pc = pc, !.connected = c])
      PROVE  LongrunInv'
    <2> DEFINE r == [thread[w] EXCEPT !.pc = pc, !.connected = c]
    <2>1. /\ r \in [pc : {"done", "loop", "pick", "lock", "call", "recv", "commit"},
                    key : Keys \cup {None}, connected : BOOLEAN, answer : Answers]
          /\ r.pc = pc /\ r.answer = thread[w].answer
        BY DEF LongrunInv, Shape
    <2>2. thread'[w] = r
        BY <1>5 DEF Goto, LongrunInv, Shape
    <2>3. Control(w)' /\ ~Holds(w)'
        BY <1>2, <2>1, <2>2 DEF Control, At, Executed, Holds
    <2> HIDE DEF r
    <2>4. Goto(w, r)
        BY <1>5 DEF r
    <2> QED BY <1>1, <1>2, <2>1, <2>3, <2>4, Moves
<1>6. CASE Start(w) \/ Leave(w)
    <2>1. PICK pc \in {"done", "loop"} : Goto(w, [thread[w] EXCEPT !.pc = pc])
        BY <1>6 DEF Start, Leave
    <2>2. [thread[w] EXCEPT !.pc = pc]
            = [thread[w] EXCEPT !.pc = pc, !.connected = thread[w].connected]
        BY DEF LongrunInv, Shape
    <2> QED BY <1>3, <1>5, <2>1, <2>2
<1>7. CASE Connect(w)
    <2>1. CASE Goto(w, [thread[w] EXCEPT !.pc = "pick", !.connected = TRUE])
        BY <1>5, <2>1
    <2>2. CASE UNCHANGED thread
        <3>1. UNCHANGED <<type, lossy, records, lock, table, alarms, thread>>
            BY <1>1, <2>2 DEF options
        <3> QED BY <3>1 DEF LongrunInv, Options, Accountable, Chosen, Shape, Control, At,
                   LockFlag, IsHs, Executed, Exclusive, Holds, Agreement, Agrees, Effect,
                   Full, AlwaysFilled, NoFalseAlarm
    <2> QED BY <1>7, <2>1, <2>2 DEF Connect
<1>8. CASE \E k \in Keys : Pick(w, k)
    <2>1. PICK k \in Keys : Pick(w, k)
        BY <1>8
    <2> DEFINE r == [thread[w] EXCEPT !.pc = IF LockFlag(w) THEN "lock" ELSE "call",
                                      !.key = k]
    <2>2. /\ r \in [pc : {"done", "loop", "pick", "lock", "call", "recv", "commit"},
                    key : Keys \cup {None}, connected : BOOLEAN, answer : Answers]
          /\ r.pc = (IF LockFlag(w) THEN "lock" ELSE "call")
          /\ r.key = k /\ r.answer = thread[w].answer
        BY DEF LongrunInv, Shape
    <2>3. Goto(w, r)
        BY <2>1 DEF Pick
    <2>4. thread'[w] = r
        BY <2>3 DEF Goto, LongrunInv, Shape
    <2>5. Control(w)' /\ ~Holds(w)'
        BY <1>2, <1>4, <2>2, <2>4 DEF Control, At, Executed, Holds
    <2> HIDE DEF r
    <2> QED BY <1>1, <1>2, <2>2, <2>3, <2>5, Moves
<1> QED BY <1>6, <1>7, <1>8

LEMMA LongrunLock ==
    ASSUME LongrunInv, NEW w \in Threads, LockRecord(w)
    PROVE  LongrunInv'
<1>1. PICK k \in Keys : k = thread[w].key
    BY DEF LongrunInv, Control, LockRecord, At
<1>2. /\ At(w, "lock") /\ lock[k] = None /\ lock' = [lock EXCEPT ![k] = w]
      /\ UNCHANGED <<type, lossy, records, table, alarms>>
    BY <1>1 DEF LockRecord, options
<1>3. LockFlag(w) /\ ~Executed(w) /\ ~Holds(w)
    BY <1>2 DEF LongrunInv, Control, At, Holds
<1>4. /\ thread'[w] = [thread[w] EXCEPT !.pc = "call"]
      /\ \A x \in Threads \ {w} : thread'[x] = thread[x]
      /\ thread'[w].pc = "call" /\ thread'[w].key = k
      /\ thread'[w].answer = thread[w].answer
    BY <1>1 DEF LockRecord, Goto, LongrunInv, Shape
<1>5. lock'[k] = w /\ \A j \in Keys \ {k} : lock'[j] = lock[j]
    BY <1>2 DEF LongrunInv, Shape
<1>6. Shape'
    <2>1. [thread[w] EXCEPT !.pc = "call"]
             \in [pc : {"created", "done", "loop", "pick", "lock", "call", "recv", "commit"},
                  key : Keys \cup {None}, connected : BOOLEAN, answer : Answers]
        BY DEF LongrunInv, Shape
    <2>2. lock' \in [Keys -> Threads \cup {None}]
        BY <1>2 DEF LongrunInv, Shape
    <2> QED BY <1>2, <2>1, <2>2 DEF LockRecord, Goto, LongrunInv, Shape
<1>7. \A x \in Threads : /\ Executed(x)' <=> Executed(x)
                         /\ thread'[x].answer = thread[x].answer
    BY <1>4 DEF Executed
<1>8. \A x \in Threads : Control(x)'
    BY <1>1, <1>2, <1>3, <1>4 DEF LongrunInv, Control, At, LockFlag, IsHs, Executed
<1>9. Exclusive'
    <2>1. Holds(w)' /\ \A x \in Threads \ {w} : Holds(x)' <=> Holds(x)
        BY <1>2, <1>3, <1>4 DEF Holds, LockFlag
    <2>2. \A x \in Threads : ~(Holds(x) /\ thread[x].key = k)
        BY <1>2, NoneAssumption DEF LongrunInv, Exclusive
    <2>3. \A j \in Keys : lock[j] # w
        BY <1>3 DEF LongrunInv, Exclusive
    <2>4. \A j \in Keys : lock'[j] = w <=> Holds(w)' /\ thread'[w].key = j
        BY <1>4, <1>5, <2>1, <2>3
    <2>5. ASSUME NEW j \in Keys, NEW x \in Threads \ {w}
          PROVE  lock'[j] = x <=> Holds(x)' /\ thread'[x].key = j
        <3>1. lock[j] = x <=> Holds(x)' /\ thread'[x].key = j
            BY <1>4, <2>1 DEF LongrunInv, Exclusive
        <3>2. CASE j = k
            BY <1>4, <1>5, <2>1, <2>2, <3>2
        <3>3. CASE j # k
            BY <1>5, <3>1, <3>3
        <3> QED BY <3>2, <3>3
    <2> QED BY <2>4, <2>5 DEF Exclusive
<1>10. \A j \in Keys : Agreement(j)'
    <2>1. \A x \in Threads : lock[k] # x
        BY <1>2, NoneAssumption
    <2>2. Agrees(records[k], table[k])
        BY <2>1 DEF LongrunInv, Agreement
    <2>3. Agreement(k)'
        BY <1>2, <1>3, <1>5, <1>7, <2>2 DEF Agreement, Agrees
    <2>4. \A j \in Keys \ {k} : Agreement(j)'
        BY <1>2, <1>5, <1>7 DEF LongrunInv, Agreement, Agrees, Effect
    <2> QED BY <2>3, <2>4
<1>11. Full'
    BY <1>2, <1>3, <1>4, <1>7 DEF LongrunInv, Full, At, AlwaysFilled, Chosen, LockFlag
<1> QED BY <1>2, <1>6, <1>8, <1>9, <1>10, <1>11
        DEF LongrunInv, Options, Accountable, Chosen, NoFalseAlarm

(* An error: the record of an operation that writes becomes unknown. *)
LEMMA LongrunError ==
    ASSUME LongrunInv, NEW w \in Threads, thread[w].pc \in {"call", "recv"},
           check_hs_error(w, Writes(w)),
           UNCHANGED <<options, table, alarms>>,
           Executed(w) => type[w] \in lossy
    PROVE  LongrunInv'
<1>1. PICK k \in Keys : k = thread[w].key
    BY Holding
<1>2. records[k] \in Records /\ table[k] \in Values
    BY <1>1, Holding
<1>3. table' = [table EXCEPT ![k] = table[k]]
    BY <1>1 DEF LongrunInv, Shape
<1>4. AlwaysFilled(Chosen) => table[k] # None
    BY DEF LongrunInv, Full
<1>5. Return(w, FALSE)
    BY DEF check_hs_error
<1>6. Executed(w) => /\ type[w] # "hsinsert"
                     /\ type[w] = "hsdelete" => \A x \in Threads : type[x] # "hsupdate"
    BY DEF LongrunInv, Options, Accountable, Chosen
<1>7. CASE Writes(w)
    <2> DEFINE rec == [records[k] EXCEPT !.unknown_state = TRUE]
    <2>1. records' = [records EXCEPT ![k] = rec]
        BY <1>1, <1>7 DEF check_hs_error
    <2>2. LockFlag(w)
        BY <1>7 DEF LockFlag, Writes
    <2>3. rec \in Records
        BY <1>2 DEF Records
    <2>4. Agrees(rec, table[k])
        <3>1. CASE Executed(w)
            <4>1. PICK row \in Values : row = thread[w].answer[1]
                BY <3>1, Holding
            <4>2. Agrees(records[k], row) /\ table[k] = Effect(w, row)
                BY <1>1, <2>2, <3>1, <4>1, Holding
            <4> QED BY <1>2, <1>6, <3>1, <4>2, UnknownAgrees
        <3>2. CASE ~Executed(w)
            <4>1. Agrees(records[k], table[k])
                BY <1>1, <2>2, <3>2, Holding
            <4> QED BY <1>2, <4>1 DEF Agrees, Records
        <3> QED BY <3>1, <3>2
    <2> HIDE DEF rec
    <2> QED BY <1>1, <1>2, <1>3, <1>4, <1>5, <2>1, <2>2, <2>3, <2>4, Returns
<1>8. CASE ~Writes(w)
    <2>1. records' = [records EXCEPT ![k] = records[k]]
        BY <1>8 DEF check_hs_error, LongrunInv, Shape
    <2>2. LockFlag(w) => Agrees(records[k], table[k])
        <3> SUFFICES ASSUME LockFlag(w) PROVE Agrees(records[k], table[k])
            OBVIOUS
        <3>1. CASE Executed(w)
            <4>1. table[k] = thread[w].answer[1]
                BY <1>1, <1>8, <3>1, Holding, EffectCases
            <4> QED BY <1>1, <3>1, <4>1, Holding
        <3> QED BY <1>1, <3>1, Holding
    <2> QED BY <1>1, <1>2, <1>3, <1>4, <1>5, <2>1, <2>2, Returns
<1> QED BY <1>7, <1>8

LEMMA LongrunSend ==
    ASSUME LongrunInv, NEW w \in Threads, Send(w)
    PROVE  LongrunInv'
<1>1. At(w, "call") /\ IsHs(w) /\ UNCHANGED <<options, table, alarms>>
    BY DEF Send
<1>2. ~Executed(w)
    BY <1>1 DEF LongrunInv, Control, At
<1>3. CASE check_hs_error(w, Writes(w))
    BY <1>1, <1>2, <1>3, LongrunError DEF At
<1>4. CASE Goto(w, [thread[w] EXCEPT !.pc = "recv"]) /\ UNCHANGED <<records, lock>>
    <2> DEFINE r == [thread[w] EXCEPT !.pc = "recv"]
    <2>1. /\ r \in [pc : {"done", "loop", "pick", "lock", "call", "recv", "commit"},
                    key : Keys \cup {None}, connected : BOOLEAN, answer : Answers]
          /\ r.pc = "recv" /\ r.key = thread[w].key /\ r.answer = thread[w].answer
        BY DEF LongrunInv, Shape
    <2>2. thread'[w] = r
        BY <1>4 DEF Goto, LongrunInv, Shape
    <2>3. r.key \in Keys
        BY <1>1, <2>1, Holding DEF At
    <2>4. Control(w)'
        BY <1>1, <1>2, <2>1, <2>2, <2>3 DEF Control, At, Executed, IsHs, options
    <2>5. (Holds(w) <=> Holds(w)') /\ ~At(w, "done")
        BY <1>1, <2>1, <2>2 DEF Holds, At, LockFlag, options
    <2>6. Goto(w, r)
        BY <1>4
    <2> HIDE DEF r
    <2>7. UNCHANGED <<options, records, lock, table, alarms>>
        BY <1>1, <1>4
    <2> QED BY <1>2, <2>1, <2>4, <2>5, <2>6, <2>7, Moves
<1> QED BY <1>3, <1>4 DEF Send

(* The server changes the row of a record that its sender holds, or reads. *)
LEMMA LongrunExecute ==
    ASSUME LongrunInv, NEW w \in Threads, ServerExecute(w)
    PROVE  LongrunInv'
<1>1. PICK k \in Keys : k = thread[w].key
    BY Holding DEF ServerExecute, At
<1>2. PICK row \in Values : row = table[k]
    BY DEF LongrunInv, Shape
<1>3. /\ At(w, "recv") /\ ~Executed(w)
      /\ table' = [table EXCEPT ![k] = Effect(w, row)]
      /\ Goto(w, [thread[w] EXCEPT !.answer = <<row>>])
      /\ UNCHANGED <<type, lossy, records, lock, alarms>>
    BY <1>1, <1>2 DEF ServerExecute, Executed, Effect, options
<1>4. /\ thread'[w].pc = "recv" /\ thread'[w].key = k /\ thread'[w].answer = <<row>>
      /\ \A x \in Threads \ {w} : thread'[x] = thread[x]
    BY <1>1, <1>3 DEF LongrunInv, Shape, Goto, At
<1>5. table'[k] = Effect(w, row) /\ \A j \in Keys \ {k} : table'[j] = table[j]
    BY <1>3 DEF LongrunInv, Shape
<1>6. Shape'
    <2>1. [thread[w] EXCEPT !.answer = <<row>>]
             \in [pc : {"created", "done", "loop", "pick", "lock", "call", "recv", "commit"},
                  key : Keys \cup {None}, connected : BOOLEAN, answer : Answers]
        BY DEF LongrunInv, Shape, Answers
    <2>2. table' \in [Keys -> Values]
        BY <1>3, EffectValue DEF LongrunInv, Shape
    <2>3. thread' \in [Threads ->
              [pc : {"created", "done", "loop", "pick", "lock", "call", "recv", "commit"},
               key : Keys \cup {None}, connected : BOOLEAN, answer : Answers]]
        BY <1>3, <2>1 DEF Goto, LongrunInv, Shape
    <2> QED BY <1>3, <2>2, <2>3 DEF LongrunInv, Shape
<1>7. \A x \in Threads \ {w} : Executed(x)' <=> Executed(x)
    BY <1>4 DEF Executed
<1>8. Executed(w)' /\ thread'[w].answer[1] = row
    BY <1>4 DEF Executed
<1>9. \A x \in Threads : Holds(x)' <=> Holds(x)
    BY <1>3, <1>4 DEF Holds, LockFlag, At
<1>10. Exclusive'
    BY <1>1, <1>3, <1>4, <1>9 DEF LongrunInv, Exclusive
<1>11. LockFlag(w) <=> lock[k] = w
    BY <1>1, <1>3 DEF LongrunInv, Exclusive, Holds, At
<1>12. ~LockFlag(w) => Effect(w, row) = row
    BY EffectCases DEF LockFlag, Writes
<1>13. \A x \in Threads : Control(x)'
    <2>1. Control(w)'
        BY <1>3, <1>4 DEF LongrunInv, Control, At, IsHs
    <2>2. ASSUME NEW x \in Threads \ {w}
          PROVE  Control(x)'
        <3>1. Control(x)
            BY DEF LongrunInv
        <3>2. At(x, "commit") => table'[thread[x].key] # None
            <4> SUFFICES ASSUME At(x, "commit")
                         PROVE  table'[thread[x].key] # None
                OBVIOUS
            <4>1. Holds(x) /\ thread[x].key \in Keys /\ table[thread[x].key] # None
                BY <3>1 DEF Control, Holds, LockFlag, At
            <4>2. CASE thread[x].key = k
                <5>1. lock[k] = x
                    BY <4>1, <4>2 DEF LongrunInv, Exclusive
                <5> QED BY <1>2, <1>5, <1>11, <1>12, <4>1, <4>2, <5>1
            <4>3. CASE thread[x].key # k
                BY <1>5, <4>1, <4>3
            <4> QED BY <4>2, <4>3
        <3> QED BY <1>3, <1>4, <3>1, <3>2 DEF Control, At, LockFlag, IsHs, Executed
    <2> QED BY <2>1, <2>2
<1>14. \A j \in Keys : Agreement(j)'
    <2>1. ASSUME NEW j \in Keys \ {k}
          PROVE  Agreement(j)'
        <3>1. Agreement(j) /\ lock[j] # w
            BY <1>1 DEF LongrunInv, Exclusive
        <3> QED BY <1>3, <1>4, <1>5, <1>7, <3>1 DEF Agreement, Agrees, Effect
    <2>2. CASE LockFlag(w)
        <3>1. Agrees(records[k], row)
            BY <1>1, <1>2, <1>3, <2>2, Holding DEF At
        <3>2. lock'[k] = w
            BY <1>3, <1>11, <2>2
        <3>3. Agrees(records[k], row)' /\ Effect(w, row)' = Effect(w, row)
            BY <1>3, <3>1 DEF Agrees, Effect
        <3>4. Agreement(k)'
            BY <1>3, <1>5, <1>8, <3>2, <3>3 DEF Agreement
        <3> QED BY <2>1, <3>4
    <2>3. CASE ~LockFlag(w)
        <3>1. Agreement(k) /\ lock[k] # w
            BY <1>11, <2>3 DEF LongrunInv
        <3>2. table'[k] = table[k]
            BY <1>2, <1>5, <1>12, <2>3
        <3>3. Agreement(k)'
            BY <1>3, <1>4, <1>7, <3>1, <3>2 DEF Agreement, Agrees, Effect
        <3> QED BY <2>1, <3>3
    <2> QED BY <2>2, <2>3
<1>15. Full'
    <2>1. AlwaysFilled(Chosen)' <=> AlwaysFilled(Chosen)
        BY <1>3 DEF AlwaysFilled, Chosen
    <2>2. AlwaysFilled(Chosen) => \A j \in Keys : table'[j] # None
        <3>1. AlwaysFilled(Chosen) => type[w] \notin {"hsinsert", "hsdelete"} /\ row # None
            BY <1>2 DEF LongrunInv, Full, AlwaysFilled, Chosen
        <3>2. AlwaysFilled(Chosen) => Effect(w, row) # None
            BY <3>1, WrittenValues DEF Effect
        <3> QED BY <1>5, <3>2 DEF LongrunInv, Full
    <2>3. type[w] = "hsreadnolock" => AlwaysFilled(Chosen) /\ row # None
        BY <1>2, <1>3 DEF LongrunInv, Full, At
    <2>4. \A x \in Threads \ {w} : At(x, "done")' <=> At(x, "done")
        BY <1>4 DEF At
    <2> QED BY <1>3, <1>4, <1>7, <1>8, <2>1, <2>2, <2>3, <2>4 DEF LongrunInv, Full
<1> QED BY <1>3, <1>6, <1>10, <1>13, <1>14, <1>15
        DEF LongrunInv, Options, Accountable, Chosen, NoFalseAlarm

LEMMA LongrunRecv ==
    ASSUME LongrunInv, NEW w \in Threads, Recv(w)
    PROVE  LongrunInv'
<1>1. PICK k \in Keys : k = thread[w].key
    BY Holding DEF Recv, At
<1>2. At(w, "recv") /\ Executed(w) /\ IsHs(w) /\ type[w] \in Types
    BY DEF Recv, Executed, LongrunInv, Control, Options
<1>3. PICK row \in Values : row = thread[w].answer[1]
    BY <1>2, Holding DEF At
<1> DEFINE v == Verified(w, records[k], row)
<1>4. /\ records' = [records EXCEPT ![k] = v.rec] /\ alarms' = alarms \cup v.alarms
      /\ Return(w, TRUE) /\ UNCHANGED <<options, table>>
    BY <1>1, <1>3 DEF Recv
<1>5. records[k] \in Records /\ table[k] \in Values
    BY DEF LongrunInv, Shape
<1>6. table' = [table EXCEPT ![k] = table[k]]
    BY <1>4 DEF LongrunInv, Shape
<1>7. LockFlag(w) => Agrees(records[k], row) /\ table[k] = Effect(w, row)
    BY <1>1, <1>2, <1>3, Holding DEF At
<1>8. /\ v.rec \in Records /\ v.alarms = {}
      /\ LockFlag(w) => Agrees(v.rec, table[k])
      /\ ~LockFlag(w) => v.rec = records[k]
    <2>1. CASE type[w] = "hsinsert"
        <3> DEFINE u == verify_insert(records[k], <<"iv", w>>, row = None)
        <3>1. LockFlag(w) /\ v = u
            BY <2>1 DEF LockFlag, Verified
        <3>2. table[k] = IF row = None THEN <<"iv", w>> ELSE row
            BY <1>7, <2>1, <3>1, EffectCases
        <3>3. Agrees(records[k], row)
            BY <1>7, <3>1
        <3>4. /\ u.rec \in Records /\ u.alarms = {}
              /\ Agrees(u.rec, IF row = None THEN <<"iv", w>> ELSE row)
            BY <1>5, <3>3, InsertAgrees
        <3> HIDE DEF u, v
        <3> QED BY <3>1, <3>2, <3>4
    <2>2. CASE type[w] = "hsdelete"
        <3>1. LockFlag(w) /\ v = verify_delete(records[k], row # None)
            BY <2>2 DEF LockFlag, Verified
        <3> QED BY <1>5, <1>7, <2>2, <3>1, DeleteAgrees, EffectCases
    <2>3. CASE type[w] = "hsupdate"
        <3> DEFINE n == IF row # None THEN 1 ELSE 0
                   u == verify_update(records[k], <<"uv", w>>, n, n = 1)
        <3>1. LockFlag(w) /\ v = u
            BY <2>3 DEF LockFlag, Verified
        <3>2. table[k] = IF row # None THEN <<"uv", w>> ELSE row
            BY <1>7, <2>3, <3>1, EffectCases
        <3>3. Agrees(records[k], row)
            BY <1>7, <3>1
        <3>4. /\ u.rec \in Records /\ u.alarms = {}
              /\ Agrees(u.rec, IF row # None THEN <<"uv", w>> ELSE row)
            BY <1>5, <2>3, <3>3, UpdateAgrees
        <3> HIDE DEF u, v
        <3> QED BY <3>1, <3>2, <3>4
    <2>4. CASE type[w] = "hsread"
        <3>1. LockFlag(w) /\ v = verify_read(records[k], row) /\ Effect(w, row) = row
            BY <2>4, EffectCases DEF LockFlag, Verified, Writes
        <3> QED BY <1>5, <1>7, <3>1, ReadAgrees
    <2>5. CASE type[w] = "hsreadnolock"
        <3>1. ~LockFlag(w) /\ v = [rec |-> records[k], alarms |-> verify_readnolock(row)]
            BY <2>5 DEF LockFlag, Verified
        <3>2. row # None
            BY <1>2, <1>3, <2>5 DEF LongrunInv, Full, At
        <3> QED BY <1>5, <3>1, <3>2 DEF verify_readnolock
    <2> QED BY <1>2, <2>1, <2>2, <2>3, <2>4, <2>5 DEF Types, IsHs
<1>9. AlwaysFilled(Chosen) => table[k] # None
    BY DEF LongrunInv, Full
<1> HIDE DEF v
<1>10. UNCHANGED <<options, alarms>>
    BY <1>4, <1>8
<1> QED BY <1>1, <1>2, <1>4, <1>5, <1>6, <1>8, <1>9, <1>10, Returns DEF At

LEMMA LongrunLose ==
    ASSUME LongrunInv, NEW w \in Threads, LoseAnswer(w)
    PROVE  LongrunInv'
<1>1. type[w] \in lossy /\ type[w] # "hsinsert"
    BY DEF LoseAnswer, LongrunInv, Options, Accountable, Chosen
<1>2. /\ thread[w].pc = "recv" /\ check_hs_error(w, Writes(w))
      /\ UNCHANGED <<options, table, alarms>>
    BY <1>1 DEF LoseAnswer, At
<1> QED BY <1>1, <1>2, LongrunError

LEMMA LongrunReadMy ==
    ASSUME LongrunInv, NEW w \in Threads, op_read_my(w)
    PROVE  LongrunInv'
<1>1. PICK k \in Keys : k = thread[w].key
    BY Holding DEF op_read_my, At
<1>2. /\ thread[w].pc = "call" /\ ~Executed(w) /\ LockFlag(w)
      /\ UNCHANGED <<options, records, table>>
    BY DEF op_read_my, At, LongrunInv, Control, LockFlag
<1>3. /\ records[k] \in Records /\ table[k] \in Values
      /\ Agrees(records[k], table[k])
    BY <1>1, <1>2, Holding
<1>4. verify_read(records[k], table[k]).alarms = {}
    BY <1>3, ReadAgrees
<1>5. UNCHANGED alarms
    BY <1>1, <1>4 DEF op_read_my
<1>6. PICK c \in BOOLEAN : Return(w, c)
    BY DEF op_read_my
<1>7. /\ records' = [records EXCEPT ![k] = records[k]]
      /\ table' = [table EXCEPT ![k] = table[k]]
    BY <1>2 DEF LongrunInv, Shape
<1>8. AlwaysFilled(Chosen) => table[k] # None
    BY DEF LongrunInv, Full
<1> QED BY <1>1, <1>2, <1>3, <1>5, <1>6, <1>7, <1>8, Returns

LEMMA LongrunDelete ==
    ASSUME LongrunInv, NEW w \in Threads, op_delins_delete(w)
    PROVE  LongrunInv'
<1>1. PICK k \in Keys : k = thread[w].key
    BY Holding DEF op_delins_delete, At
<1>2. /\ thread[w].pc = "call" /\ type[w] = "mydelins" /\ ~Executed(w) /\ LockFlag(w)
      /\ UNCHANGED <<options, table>>
    BY DEF op_delins_delete, At, LongrunInv, Control, LockFlag
<1>3. /\ records[k] \in Records /\ table[k] \in Values
      /\ Agrees(records[k], table[k])
    BY <1>1, <1>2, Holding
<1>4. CASE table[k] # None
    <2> DEFINE r == [thread[w] EXCEPT !.pc = "commit"]
    <2>1. /\ r \in [pc : {"done", "loop", "pick", "lock", "call", "recv", "commit"},
                    key : Keys \cup {None}, connected : BOOLEAN, answer : Answers]
          /\ r.pc = "commit" /\ r.key = k /\ r.answer = thread[w].answer
        BY <1>1 DEF LongrunInv, Shape
    <2>2. Goto(w, r) /\ UNCHANGED <<records, lock, alarms>>
        BY <1>1, <1>4 DEF op_delins_delete
    <2>3. thread'[w] = r
        BY <2>2 DEF Goto, LongrunInv, Shape
    <2>4. Control(w)'
        BY <1>2, <1>4, <2>1, <2>3 DEF Control, At, Executed, options
    <2>5. (Holds(w) <=> Holds(w)') /\ ~At(w, "done")
        BY <1>2, <2>1, <2>3 DEF Holds, At, LockFlag, options
    <2> HIDE DEF r
    <2> QED BY <1>1, <1>2, <2>1, <2>2, <2>4, <2>5, Moves
<1>5. CASE table[k] = None
    <2> DEFINE v == verify_update(records[k], <<"div", w>>, 0, TRUE)
    <2>1. /\ records' = [records EXCEPT ![k] = v.rec] /\ alarms' = alarms \cup v.alarms
          /\ Return(w, TRUE)
        BY <1>1, <1>5 DEF op_delins_delete
    <2>2. v.rec \in Records /\ v.alarms = {} /\ Agrees(v.rec, table[k])
        BY <1>3, <1>5, GiveUpAgrees
    <2>3. table' = [table EXCEPT ![k] = table[k]]
        BY <1>2 DEF LongrunInv, Shape
    <2>4. AlwaysFilled(Chosen) => table[k] # None
        BY DEF LongrunInv, Full
    <2> HIDE DEF v
    <2>5. UNCHANGED alarms
        BY <2>1, <2>2
    <2> QED BY <1>1, <1>2, <1>3, <2>1, <2>2, <2>3, <2>4, <2>5, Returns
<1> QED BY <1>4, <1>5

LEMMA LongrunCommit ==
    ASSUME LongrunInv, NEW w \in Threads, op_delins_commit(w)
    PROVE  LongrunInv'
<1>1. PICK k \in Keys : k = thread[w].key
    BY Holding DEF op_delins_commit, At
<1>2. /\ thread[w].pc = "commit" /\ type[w] = "mydelins" /\ table[k] # None
      /\ ~Executed(w) /\ LockFlag(w) /\ UNCHANGED options
    BY <1>1 DEF op_delins_commit, At, LongrunInv, Control, LockFlag
<1>3. /\ records[k] \in Records /\ table[k] \in Values
      /\ Agrees(records[k], table[k])
    BY <1>1, <1>2, Holding
<1> DEFINE v == verify_update(records[k], <<"div", w>>, 1, FALSE)
           row == <<"div", w>>
<1>4. /\ records' = [records EXCEPT ![k] = v.rec] /\ alarms' = alarms \cup v.alarms
      /\ table' = [table EXCEPT ![k] = row]
      /\ Return(w, TRUE)
    BY <1>1 DEF op_delins_commit
<1>5. v.rec \in Records /\ v.alarms = {} /\ Agrees(v.rec, row)
    BY <1>2, <1>3, ReplaceAgrees
<1>6. row \in Values /\ row # None
    BY WrittenValues
<1> HIDE DEF v, row
<1>7. UNCHANGED alarms
    BY <1>4, <1>5
<1> QED BY <1>1, <1>2, <1>4, <1>5, <1>6, <1>7, Returns

-----------------------------------------------------------------------------
LEMMA LongrunIdle ==
    ASSUME LongrunInv, UNCHANGED <<options, records, lock, table, thread, alarms>>
    PROVE  LongrunInv'
BY DEF LongrunInv, Options, Accountable, Chosen, Shape, Control, At, LockFlag, IsHs,
       Executed, Exclusive, Holds, Agreement, Agrees, Effect, Full, AlwaysFilled,
       NoFalseAlarm, options

LEMMA LongrunNext == LongrunInv /\ [Next]_vars => LongrunInv'
<1> SUFFICES ASSUME LongrunInv, [Next]_vars PROVE LongrunInv'
    OBVIOUS
<1>1. CASE Stop
    BY <1>1, LongrunIdle DEF Stop
<1>2. CASE UNCHANGED vars
    BY <1>2, LongrunIdle DEF vars, options
<1>3. ASSUME NEW w \in Threads, Start(w) \/ ThreadStep(w) \/ ServerExecute(w) \/ LoseAnswer(w)
      PROVE  LongrunInv'
    BY <1>3, LongrunMove, LongrunLock, LongrunSend, LongrunExecute, LongrunRecv, LongrunLose,
       LongrunReadMy, LongrunDelete, LongrunCommit
       DEF ThreadStep
<1> QED BY <1>1, <1>2, <1>3 DEF Next

LEMMA LongrunInvariant == AllAccountable => (Spec => []LongrunInv)
<1> SUFFICES ASSUME AllAccountable PROVE Spec => []LongrunInv
    OBVIOUS
<1>1. Init => LongrunInv
    BY LongrunInit
<1> QED BY <1>1, LongrunNext, PTL DEF Spec

(***************************************************************************)
(* A correct server is never accused, whatever the number of threads and   *)
(* rows and whatever connections fail: as long as no insert loses its      *)
(* answer, and no delete where there are updates.                          *)
(***************************************************************************)
THEOREM NeverFalseAlarm == AllAccountable => (Spec => []NoFalseAlarm)
<1>1. LongrunInv => NoFalseAlarm
    BY DEF LongrunInv
<1> QED BY <1>1, LongrunInvariant, PTL

(***************************************************************************)
(* Under the same hypothesis every record that nobody holds and that is    *)
(* not unknown says what its row is.                                       *)
(***************************************************************************)
THEOREM RecordsAlwaysAgree == AllAccountable => (Spec => []RecordsAgree)
<1>1. LongrunInv => RecordsAgree
    <2> SUFFICES ASSUME LongrunInv, NEW k \in Keys,
                        lock[k] = None, ~records[k].unknown_state
                 PROVE  IF records[k].deleted
                        THEN table[k] = None
                        ELSE table[k] # None /\ table[k] = records[k].values
        BY DEF RecordsAgree
    <2>1. \A w \in Threads : lock[k] # w
        BY NoneAssumption
    <2>2. Agrees(records[k], table[k])
        BY <2>1 DEF LongrunInv, Agreement
    <2> QED BY <2>2 DEF Agrees
<1> QED BY <1>1, LongrunInvariant, PTL
=============================================================================
