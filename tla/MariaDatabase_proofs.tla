------------------------- MODULE MariaDatabase_proofs -------------------------
(***************************************************************************)
(* Proofs about the transaction engine, for any number of processes,       *)
(* workers, customers and requests, any limits and amounts, and any number *)
(* of crashes and failed calls.  First the types.  Then the properties of  *)
(* the rows: they are there before they are needed, versions grow, the     *)
(* mutex is held exactly inside the retry loop, no row ever exceeds its    *)
(* limit, and no row is a mixture of two.  Then what becomes of an update, *)
(* which is sent, retried, lost, overtaken, or executed after its sender   *)
(* gave up or died: it is applied at most once, the answer tells the truth *)
(* about it, and it replaces no contents that its sender has not seen.     *)
(* Last, the engine implements the Bank when nothing fails.                *)
(***************************************************************************)
EXTENDS MariaDatabaseBank, NaturalsInduction, WellFoundedInduction,
        SequenceTheorems, TLAPS

-----------------------------------------------------------------------------
(* Induction on the naturals, the property given as a set: a smallest      *)
(* number outside it has a predecessor inside it.                          *)
LEMMA NatSetInduction ==
    ASSUME NEW S, S \subseteq Nat, 0 \in S, \A n \in S : n + 1 \in S
    PROVE  S = Nat
<1> SUFFICES ASSUME Nat \ S # {} PROVE FALSE
    OBVIOUS
<1> DEFINE R == OpToRel(<, Nat)
<1>1. IsWellFoundedOn(R, Nat)
    BY NatLessThanWellFounded
<1>2. \A m, n \in Nat : m < n => <<m, n>> \in R
    BY DEF OpToRel
<1> HIDE DEF R
<1>3. PICK n \in Nat \ S : \A m \in Nat \ S : ~(<<m, n>> \in R)
    BY <1>1, WFMin, Nat \ S \subseteq Nat
<1>4. n # 0 /\ n - 1 \in Nat /\ n - 1 < n
    BY <1>3
<1>5. n - 1 \in S
    BY <1>2, <1>3, <1>4
<1>6. (n - 1) + 1 \in S
    BY <1>5
<1> QED BY <1>4, <1>6

-----------------------------------------------------------------------------
(* Arithmetic: the two uses of `%' in Customer.                            *)

(* Division with a remainder, and its uniqueness. *)
LEMMA Division ==
    \A M \in Nat, x \in Int :
        M > 0 => x % M \in 0 .. M - 1 /\ \E q \in Int : x = q * M + (x % M)
<1> SUFFICES ASSUME NEW M \in Nat, NEW x \in Int, M > 0
             PROVE  x % M \in 0 .. M - 1 /\ \E q \in Int : x = q * M + (x % M)
    OBVIOUS
<1>1. x = (x \div M) * M + (x % M)
    OBVIOUS
<1> QED BY <1>1

LEMMA RemainderUnique ==
    \A M \in Nat, x, q, r \in Int :
        x = q * M + r /\ 0 <= r /\ r < M => x % M = r
OBVIOUS

(* Reducing a summand first does not change the remainder of the sum. *)
LEMMA ReduceFirst ==
    \A M \in Nat, x, v \in Int : M > 0 => ((x % M) + v) % M = (x + v) % M
<1> SUFFICES ASSUME NEW M \in Nat, NEW x \in Int, NEW v \in Int, M > 0
             PROVE  ((x % M) + v) % M = (x + v) % M
    OBVIOUS
<1> DEFINE r == x % M
           y == r + v
           s == y % M
<1>1. r \in Int /\ \E q \in Int : x = q * M + r
    BY Division
<1> HIDE DEF r
<1>2. y \in Int
    BY <1>1
<1> HIDE DEF y
<1>3. s \in 0 .. M - 1 /\ \E p \in Int : y = p * M + s
    BY <1>2, Division
<1> HIDE DEF s
<1>4. PICK q \in Int : x = q * M + r
    BY <1>1
<1>5. PICK p \in Int : y = p * M + s
    BY <1>3
<1>6. x + v = (q + p) * M + s
    <2>1. x + v = q * M + y
        BY <1>1, <1>4 DEF y
    <2>2. (q + p) * M = q * M + p * M
        OBVIOUS
    <2> QED BY <1>3, <1>5, <2>1, <2>2
<1>7. (x + v) % M = s
    <2> DEFINE z == x + v
               k == q + p
    <2>1. z \in Int /\ k \in Int /\ z = k * M + s
        BY <1>6
    <2>2. s \in Int /\ 0 <= s /\ s < M
        BY <1>3
    <2> HIDE DEF z, k
    <2>3. z % M = s
        BY <2>1, <2>2, RemainderUnique, Zenon
    <2> QED BY <2>3 DEF z
<1> QED BY <1>7 DEF r, y, s

(* What a register holds after an addition is an int. *)
LEMMA WrapInt32 == \A x \in Int : Wrap(x) \in Int32
<1> SUFFICES ASSUME NEW x \in Int PROVE Wrap(x) \in Int32
    OBVIOUS
<1> DEFINE M == 2 * IntHalf
           y == x + IntHalf
<1>1. IntHalf \in Nat /\ IntHalf > 0
    BY IntHalfAssumption
<1>2. M \in Nat /\ M > 0 /\ y \in Int
    BY <1>1
<1>3. y % M \in 0 .. M - 1
    <2> HIDE DEF M, y
    <2> QED BY <1>2
<1> QED BY <1>1, <1>3 DEF Wrap, Int32

(* Negating a limit does not overflow. *)
LEMMA WrapNegatedLimit == \A n \in 0 .. IntHalf - 1 : Wrap(-n) = -n
<1> SUFFICES ASSUME NEW n \in 0 .. IntHalf - 1 PROVE Wrap(-n) = -n
    OBVIOUS
<1> DEFINE M == 2 * IntHalf
           y == -n + IntHalf
<1>1. IntHalf \in Nat /\ IntHalf > 0
    BY IntHalfAssumption
<1>2. M \in Nat /\ M > 0 /\ y \in 0 .. M - 1
    BY <1>1
<1>3. y % M = y
    <2> HIDE DEF M, y
    <2> QED BY <1>2
<1> QED BY <1>1, <1>3 DEF Wrap

(* Wrapping at every addition or once at the end comes to the same. *)
LEMMA WrapSum == \A x, v \in Int : Wrap(Wrap(x) + v) = Wrap(x + v)
<1> SUFFICES ASSUME NEW x \in Int, NEW v \in Int
             PROVE  Wrap(Wrap(x) + v) = Wrap(x + v)
    OBVIOUS
<1> DEFINE M == 2 * IntHalf
           y == x + IntHalf
<1>1. IntHalf \in Nat /\ M \in Nat /\ M > 0 /\ y \in Int
    BY IntHalfAssumption
<1>2. ((y % M) + v) % M = (y + v) % M /\ y % M \in Int
    <2> HIDE DEF M, y
    <2>1. ((y % M) + v) % M = (y + v) % M
        BY <1>1, ReduceFirst, Zenon
    <2>2. y % M \in Int
        BY <1>1
    <2> QED BY <2>1, <2>2
<1>3. Wrap(x) + v + IntHalf = (y % M) + v
    <2>1. Wrap(x) = (y % M) - IntHalf
        BY DEF Wrap
    <2> HIDE DEF M, y
    <2> QED BY <1>1, <1>2, <2>1
<1>4. x + v + IntHalf = y + v
    BY <1>1
<1> HIDE DEF y
<1> QED BY <1>2, <1>3, <1>4 DEF Wrap

(* The initial balance. *)
LEMMA WrapZero == Wrap(0) = 0
<1>1. IntHalf \in Nat /\ IntHalf > 0 /\ 2 * IntHalf \in Nat
    BY IntHalfAssumption
<1>2. (0 + IntHalf) % (2 * IntHalf) = IntHalf
    BY <1>1
<1> QED BY <1>1, <1>2 DEF Wrap

(* The index after p in the array. *)
Following(p) == IF p + 1 = RingSize THEN 0 ELSE p + 1

LEMMA IndexAdvances ==
    \A p \in Slots : (p + 1) % RingSize = Following(p) /\ Following(p) \in Slots
BY RingSizeAssumption DEF Slots, Following

(* The index k places before p in the array. *)
Before(p, k) == IF k <= p THEN p - k ELSE p - k + RingSize

LEMMA IndexGoesBack ==
    \A p \in Slots, k \in 1 .. RingSize :
        (p - k + RingSize) % RingSize = Before(p, k) /\ Before(p, k) \in Slots
BY RingSizeAssumption DEF Slots, Before

-----------------------------------------------------------------------------
(* One step of the blob.                                                   *)

(* The fields Execute leaves behind that the limit is about. *)
LEMMA ExecuteFields ==
    ASSUME NEW c, NEW t
    PROVE  /\ Execute(c, t).limit = c.limit
           /\ Execute(c, t).balance = Wrap(c.balance + t.value)
BY DEF Execute

(* Execute keeps the blob a blob: no index leaves the array and the count  *)
(* does not overrun its cap.                                               *)
LEMMA ExecuteType ==
    ASSUME NEW Ts, NEW c \in Customers(Ts), NEW t \in Transaction(Ts)
    PROVE  Execute(c, t) \in Customers(Ts)
<1>1. RingSize \in Nat /\ IntHalf \in Nat
    BY RingSizeAssumption, IntHalfAssumption
<1>2. c.balance + t.value \in Int
    BY <1>1 DEF Customers, Transaction, Int32
<1>3. Wrap(c.balance + t.value) \in Int32
    BY <1>2, WrapInt32
<1>4. (c.next_transaction_index + 1) % RingSize \in Slots
    BY IndexAdvances DEF Customers
<1>5. [c.transactions EXCEPT ![c.next_transaction_index] = t]
          \in [Slots -> Transaction(Ts)]
    BY DEF Customers
<1>6. (IF c.transaction_count <= RingSize
       THEN c.transaction_count + 1 ELSE c.transaction_count) \in 0 .. RingSize + 1
    BY <1>1 DEF Customers
<1> QED BY <1>3, <1>4, <1>5, <1>6 DEF Execute, Customers

LEMMA InitialCustomerType ==
    ASSUME NEW Ts, NEW z \in Ts, NEW n \in Int32
    PROVE  InitialCustomer(n, z) \in Customers(Ts)
BY RingSizeAssumption, IntHalfAssumption
   DEF InitialCustomer, ZeroTransaction, Customers, Transaction, Slots, Int32

-----------------------------------------------------------------------------
(* The array as a list.                                                    *)

(* Until the array is full the index is the count; then it is at 0. *)
Ring(c) ==
    /\ c.transaction_count < RingSize => c.next_transaction_index = c.transaction_count
    /\ c.transaction_count = RingSize => c.next_transaction_index = 0

LEMMA InitialRing == \A n, z : Ring(InitialCustomer(n, z))
BY RingSizeAssumption DEF Ring, InitialCustomer

(* The fields Execute leaves behind that the listing is about. *)
LEMMA ExecuteArray ==
    ASSUME NEW Ts, NEW c \in Customers(Ts), NEW t
    PROVE  LET p == c.next_transaction_index
               n == c.transaction_count
               d == Execute(c, t)
           IN  /\ d.next_transaction_index = Following(p)
               /\ d.transaction_count = IF n <= RingSize THEN n + 1 ELSE n
               /\ d.transactions[p] = t
               /\ \A k \in Slots : k # p => d.transactions[k] = c.transactions[k]
<1>1. c.next_transaction_index \in Slots /\ DOMAIN c.transactions = Slots
    BY DEF Customers
<1> QED BY <1>1, IndexAdvances DEF Execute

LEMMA ExecuteRing ==
    ASSUME NEW Ts, NEW c \in Customers(Ts), NEW t, Ring(c)
    PROVE  Ring(Execute(c, t))
<1> DEFINE p == c.next_transaction_index
           n == c.transaction_count
           d == Execute(c, t)
<1>1. p \in Slots /\ n \in 0 .. RingSize + 1 /\ RingSize \in Nat \ {0}
    BY RingSizeAssumption DEF Customers
<1>2. /\ d.next_transaction_index = Following(p)
      /\ d.transaction_count = IF n <= RingSize THEN n + 1 ELSE n
    BY ExecuteArray
<1> HIDE DEF d
<1> QED BY <1>1, <1>2 DEF Ring, Following, Slots, d

(* The k-th element of a listing is the k-th before the index. *)
LEMMA ListingElements ==
    ASSUME NEW Ts, NEW c \in Customers(Ts), Ring(c)
    PROVE  LET n == IF c.transaction_count < RingSize
                    THEN c.transaction_count ELSE RingSize
           IN  /\ Listing(c) = [k \in 1 .. n |->
                                   c.transactions[Before(c.next_transaction_index, k)]]
               /\ n \in Nat
<1> DEFINE p == c.next_transaction_index
           m == c.transaction_count
<1>1. p \in Slots /\ m \in 0 .. RingSize + 1 /\ RingSize \in Nat \ {0}
    BY RingSizeAssumption DEF Customers
<1>2. CASE m < RingSize
    <2>1. p = m /\ \A k \in 1 .. p : Before(p, k) = p - k
        BY <1>1, <1>2 DEF Ring, Before
    <2> QED BY <1>1, <1>2, <2>1 DEF Listing
<1>3. CASE ~(m < RingSize)
    <2>1. \A k \in 1 .. RingSize : (p - k + RingSize) % RingSize = Before(p, k)
        BY <1>1, IndexGoesBack
    <2> QED BY <1>1, <1>3, <2>1 DEF Listing
<1> QED BY <1>2, <1>3

LEMMA InFront ==
    ASSUME NEW T, NEW s \in Seq(T), NEW t \in T
    PROVE  LET all == <<t>> \o s
           IN  /\ all \in Seq(T) /\ Len(all) = Len(s) + 1
               /\ \A k \in 1 .. Len(s) + 1 : all[k] = IF k = 1 THEN t ELSE s[k - 1]
<1> DEFINE x == <<t>>
<1>1. x \in Seq(T) /\ Len(x) = 1 /\ x[1] = t
    OBVIOUS
<1> HIDE DEF x
<1>2. /\ x \o s \in Seq(T) /\ Len(x \o s) = Len(x) + Len(s)
      /\ \A k \in 1 .. Len(x) + Len(s) :
             (x \o s)[k] = IF k <= Len(x) THEN x[k] ELSE s[k - Len(x)]
    BY <1>1, ConcatProperties, Zenon
<1>3. \A k \in 1 .. Len(s) + 1 : (x \o s)[k] = IF k = 1 THEN t ELSE s[k - 1]
    BY <1>1, <1>2
<1> QED BY <1>2, <1>3 DEF x

(***************************************************************************)
(* A transaction puts itself in front of the listing, which keeps at most  *)
(* RingSize elements: what the array, its wrapping index and its           *)
(* saturating count amount to.                                             *)
(***************************************************************************)
LEMMA ListingExecute ==
    ASSUME NEW Ts, NEW c \in Customers(Ts), NEW t \in Transaction(Ts), Ring(c)
    PROVE  LET all == <<t>> \o Listing(c)
           IN  Listing(Execute(c, t)) =
                   IF Len(all) > RingSize THEN SubSeq(all, 1, RingSize) ELSE all
<1> DEFINE p == c.next_transaction_index
           m == c.transaction_count
           d == Execute(c, t)
           q == d.next_transaction_index
           n == IF m < RingSize THEN m ELSE RingSize
           l == IF d.transaction_count < RingSize THEN d.transaction_count ELSE RingSize
           old == Listing(c)
           new == Listing(d)
           all == <<t>> \o old
<1>1. p \in Slots /\ m \in 0 .. RingSize + 1 /\ RingSize \in Nat \ {0}
    BY RingSizeAssumption DEF Customers
<1>2. /\ q = Following(p)
      /\ d.transaction_count = IF m <= RingSize THEN m + 1 ELSE m
      /\ d.transactions[p] = t
      /\ \A k \in Slots : k # p => d.transactions[k] = c.transactions[k]
    BY ExecuteArray
<1>3. d \in Customers(Ts) /\ Ring(d)
    BY ExecuteType, ExecuteRing
<1>4. old = [k \in 1 .. n |-> c.transactions[Before(p, k)]] /\ n \in Nat
    BY ListingElements
<1>5. new = [k \in 1 .. l |-> d.transactions[Before(q, k)]] /\ l \in Nat
    <2> HIDE DEF d
    <2> QED BY <1>3, ListingElements
<1>6. q \in Slots
    BY <1>1, <1>2, IndexAdvances
<1> HIDE DEF d, old, new, q
<1>7. l = IF n + 1 > RingSize THEN RingSize ELSE n + 1
    BY <1>1, <1>2
<1> HIDE DEF l
<1>8. ASSUME NEW k \in 1 .. l
      PROVE  new[k] = IF k = 1 THEN t ELSE old[k - 1]
    <2>1. k \in 1 .. RingSize /\ k - 1 \in 0 .. n
        BY <1>1, <1>4, <1>7
    <2>2. new[k] = d.transactions[Before(q, k)]
        BY <1>5
    <2>3. CASE k = 1
        <3>1. Before(q, k) = p
            BY <1>1, <1>2, <2>3 DEF Before, Following, Slots
        <3> QED BY <1>2, <2>2, <2>3, <3>1
    <2>4. CASE k # 1
        <3>1. k - 1 \in 1 .. n /\ k - 1 \in 1 .. RingSize
            BY <1>1, <2>1, <2>4
        <3>2. Before(q, k) = Before(p, k - 1) /\ Before(p, k - 1) # p
            BY <1>1, <1>2, <2>1, <2>4 DEF Before, Following, Slots
        <3>3. Before(p, k - 1) \in Slots
            BY <1>1, <3>1, IndexGoesBack
        <3>4. old[k - 1] = c.transactions[Before(p, k - 1)]
            BY <1>4, <3>1
        <3> QED BY <1>2, <2>2, <2>4, <3>2, <3>3, <3>4
    <2> QED BY <2>3, <2>4
<1>9. old \in Seq(Transaction(Ts)) /\ Len(old) = n
    <2>1. \A k \in 1 .. n : Before(p, k) \in Slots
        BY <1>1, <1>4, IndexGoesBack
    <2>2. \A k \in 1 .. n : c.transactions[Before(p, k)] \in Transaction(Ts)
        BY <2>1 DEF Customers
    <2> HIDE DEF n
    <2> QED BY <1>4, <2>2
<1>10. /\ all \in Seq(Transaction(Ts)) /\ Len(all) = n + 1
       /\ \A k \in 1 .. n + 1 : all[k] = IF k = 1 THEN t ELSE old[k - 1]
    <2> HIDE DEF n
    <2> QED BY <1>9, InFront
<1> HIDE DEF all, n
<1>11. CASE n + 1 > RingSize
    <2>1. Len(SubSeq(all, 1, RingSize)) = RingSize
        BY <1>1, <1>4, <1>10, <1>11
    <2>2. \A k \in 1 .. RingSize : SubSeq(all, 1, RingSize)[k] = all[k]
        BY <1>1, <1>4, <1>10, <1>11
    <2>3. SubSeq(all, 1, RingSize) = [k \in 1 .. RingSize |-> all[k]]
        BY <1>1, <1>4, <1>10, <1>11
    <2>4. \A k \in 1 .. RingSize : new[k] = all[k]
        BY <1>1, <1>4, <1>7, <1>8, <1>10, <1>11, SMTT(30)
    <2>5. new = SubSeq(all, 1, RingSize)
        BY <1>5, <1>7, <1>11, <2>3, <2>4
    <2> QED BY <1>10, <1>11, <2>5 DEF all, old, new, d
<1>12. CASE ~(n + 1 > RingSize)
    <2>1. all = [k \in 1 .. n + 1 |-> all[k]]
        BY <1>10
    <2>2. \A k \in 1 .. n + 1 : new[k] = all[k]
        BY <1>7, <1>8, <1>10, <1>12
    <2>3. new = [k \in 1 .. n + 1 |-> new[k]]
        BY <1>5, <1>7, <1>12
    <2>4. new = all
        BY <2>1, <2>2, <2>3
    <2> QED BY <1>10, <1>12, <2>4 DEF all, old, new, d
<1> QED BY <1>11, <1>12

-----------------------------------------------------------------------------
(* The values that enter the system have their types.                      *)

LEMMA InitialBlob == \A i \in Ids : InitialCustomer(Limit[i], ZeroTag) \in Blob
<1> SUFFICES ASSUME NEW i \in Ids
             PROVE  InitialCustomer(Limit[i], ZeroTag) \in Blob
    OBVIOUS
<1>1. Limit[i] \in Int32
    BY LimitAssumption, IntHalfAssumption DEF Int32
<1>2. ZeroTag \in Tags
    BY BoundsAssumption DEF ZeroTag, Tags
<1> QED BY <1>1, <1>2, InitialCustomerType DEF Blob

LEMMA ZeroBlob == InitialCustomer(0, ZeroTag) \in Blob
<1>1. 0 \in Int32
    BY IntHalfAssumption DEF Int32
<1>2. ZeroTag \in Tags
    BY BoundsAssumption DEF ZeroTag, Tags
<1> QED BY <1>1, <1>2, InitialCustomerType DEF Blob

LEMMA TxType ==
    ASSUME TypeOK, NEW w \in Workers
    PROVE  Tx(w) \in Transaction(Tags)
BY DEF TypeOK, Request, Tx, Transaction

LEMMA ExecutedBlob ==
    ASSUME TypeOK, NEW w \in Workers
    PROVE  Execute(customer[w], Tx(w)) \in Blob
BY TxType, ExecuteType DEF TypeOK, Blob

-----------------------------------------------------------------------------
(* Type correctness.                                                       *)

(* A worker that works on a customer has a valid id: the test at the start *)
(* of MariaDbExecuteTransaction and MariaDbGetCustomer.                    *)
Serving ==
    \A w \in Workers :
        pc[w] \in Critical \cup {"lock", "get"} => request[w].id \in Ids

TypeInv == TypeOK /\ Serving

LEMMA TypeInit == Init => TypeInv
<1> SUFFICES ASSUME Init PROVE TypeInv
    OBVIOUS
<1>1. 0 \in RequestIds /\ 0 \in Tags /\ 0 \in Int32
    BY NumCustomersAssumption, BoundsAssumption, IntHalfAssumption
       DEF RequestIds, Tags, Int32
<1>2. request \in [Workers -> Request]
    BY <1>1 DEF Init, Request
<1>3. customer \in [Workers -> Blob]
    BY ZeroBlob DEF Init
<1>4. inserting \in [Procs -> 1 .. NumCustomers + 1]
    BY NumCustomersAssumption DEF Init
<1>5. /\ issued \in 0 .. MaxRequests
      /\ faults \in 0 .. MaxFaults
      /\ crashes \in 0 .. MaxCrashes
    BY BoundsAssumption DEF Init
<1>6. TypeOK
    BY <1>2, <1>3, <1>4, <1>5 DEF Init, TypeOK, Phases, Pcs, Links, Responses
<1> QED BY <1>6 DEF Init, TypeInv, Serving, Critical

LEMMA TypeConnect ==
    ASSUME TypeInv, NEW p \in Procs, Connect(p) PROVE TypeInv'
BY NumCustomersAssumption
   DEF TypeInv, TypeOK, Serving, Connect, Phases, localVars, linkVars, wireVars, histVars

LEMMA TypeInsertCustomer ==
    ASSUME TypeInv, NEW p \in Procs, InsertCustomer(p) PROVE TypeInv'
<1> DEFINE i == inserting[p]
           new == InitialCustomer(Limit[i], ZeroTag)
<1>1. i \in Ids /\ i + 1 \in 1 .. NumCustomers + 1
    BY NumCustomersAssumption DEF TypeInv, TypeOK, InsertCustomer, Ids
<1>2. new \in Blob
    BY <1>1, InitialBlob
<1>3. db' \in [Ids -> Row \cup {NoRow}]
    <2> HIDE DEF new
    <2>1. [data |-> new, version |-> 1] \in Row
        BY <1>2 DEF Row
    <2>2. ASSUME db[i] # NoRow PROVE Reinserted(db[i], new) \in Row
        BY <1>1, <1>2, <2>2 DEF TypeInv, TypeOK, Reinserted, Row
    <2>3. db' = [db EXCEPT ![i] = IF db[i] = NoRow
                                  THEN [data |-> new, version |-> 1]
                                  ELSE Reinserted(db[i], new)]
        BY DEF InsertCustomer, new
    <2> QED BY <2>1, <2>2, <2>3 DEF TypeInv, TypeOK
<1>4. Readers(i) \subseteq Tags
    BY DEF TypeInv, TypeOK, Readers, Request, Update
<1>5. overtaken' \subseteq Tags
    BY <1>4 DEF TypeInv, TypeOK, InsertCustomer
<1>6. inserting' \in [Procs -> 1 .. NumCustomers + 1]
    BY <1>1 DEF TypeInv, TypeOK, InsertCustomer
<1> QED BY <1>3, <1>5, <1>6
        DEF TypeInv, TypeOK, Serving, InsertCustomer, localVars, linkVars, wireVars

LEMMA TypeStartThreads ==
    ASSUME TypeInv, NEW p \in Procs, StartThreads(p) PROVE TypeInv'
BY DEF TypeInv, TypeOK, Serving, StartThreads, Phases, localVars, linkVars, wireVars,
       histVars

LEMMA TypeCrash ==
    ASSUME TypeInv, NEW p \in Procs, Crash(p) PROVE TypeInv'
<1>1. crashes' \in 0 .. MaxCrashes
    BY BoundsAssumption DEF TypeInv, TypeOK, Crash
<1>2. mutex' \in [Procs -> [Ids -> Workers \cup {NoWorker}]]
    BY DEF TypeInv, TypeOK, Crash, Die
<1>3. pc' \in [Workers -> Pcs] /\ response' \in [Workers -> Responses]
    BY DEF TypeInv, TypeOK, Crash, Die, Pcs, Responses
<1>4. phase' \in [Procs -> Phases]
    BY DEF TypeInv, TypeOK, Crash, Die, Phases
<1>5. Serving'
    BY DEF TypeInv, TypeOK, Serving, Crash, Die, localVars, Critical
<1> QED BY <1>1, <1>2, <1>3, <1>4, <1>5
        DEF TypeInv, TypeOK, Crash, Die, localVars, histVars

LEMMA BudgetType ==
    ASSUME TypeInv, NEW b \in BOOLEAN, Budget(b) PROVE faults' \in 0 .. MaxFaults
BY BoundsAssumption DEF TypeInv, TypeOK, Budget

LEMMA TypeInitializeHs ==
    ASSUME TypeInv, NEW w \in Workers, NEW r \in {"good", "dead"},
           NEW s \in {"good", "dead"}, InitializeHs(w, r, s)
    PROVE  TypeInv'
<1>1. faults' \in 0 .. MaxFaults
    BY BudgetType DEF InitializeHs
<1>2. pc' \in [Workers -> Pcs]
    BY DEF TypeInv, TypeOK, InitializeHs, Goto, Pcs
<1>3. readLink' \in [Workers -> Links] /\ writeLink' \in [Workers -> Links]
    BY DEF TypeInv, TypeOK, InitializeHs, Links
<1>4. Serving'
    BY DEF TypeInv, TypeOK, Serving, InitializeHs, Goto, localVars, Critical
<1> QED BY <1>1, <1>2, <1>3, <1>4
        DEF TypeInv, TypeOK, InitializeHs, procVars, localVars, wireVars, histVars

LEMMA TypeReceive ==
    ASSUME TypeInv, NEW w \in Workers, NEW i \in RequestIds, NEW v \in Int32,
           NEW label \in {"lock", "get"}, Receive(w, i, v, label)
    PROVE  TypeInv'
<1>1. issued' \in 0 .. MaxRequests /\ issued + 1 \in Tags
    BY BoundsAssumption DEF TypeInv, TypeOK, Receive, Tags
<1>2. request' \in [Workers -> Request]
    BY <1>1 DEF TypeInv, TypeOK, Receive, Request
<1>3. pc' \in [Workers -> Pcs]
    BY DEF TypeInv, TypeOK, Receive, Goto, Pcs
<1>4. Serving'
    <2>1. pc'[w] \in Critical \cup {"lock", "get"} => i \in Ids
        BY NumCustomersAssumption
           DEF TypeInv, TypeOK, Receive, Goto, Critical, RequestIds, Ids
    <2>2. request'[w].id = i
        BY DEF TypeInv, TypeOK, Receive
    <2>3. \A x \in Workers \ {w} : pc'[x] = pc[x] /\ request'[x] = request[x]
        BY DEF TypeInv, TypeOK, Receive, Goto
    <2> QED BY <2>1, <2>2, <2>3 DEF TypeInv, Serving
<1> QED BY <1>1, <1>2, <1>3, <1>4
        DEF TypeInv, TypeOK, Receive, procVars, linkVars, wireVars

LEMMA TypeLock ==
    ASSUME TypeInv, NEW w \in Workers, Lock(w) PROVE TypeInv'
<1>1. mutex' \in [Procs -> [Ids -> Workers \cup {NoWorker}]]
    BY ProcOfAssumption DEF TypeInv, TypeOK, Lock
<1>2. pc' \in [Workers -> Pcs]
    BY DEF TypeInv, TypeOK, Lock, Goto, Pcs
<1>3. Serving'
    BY DEF TypeInv, TypeOK, Serving, Lock, Goto, localVars, Critical
<1> QED BY <1>1, <1>2, <1>3
        DEF TypeInv, TypeOK, Lock, procVars, localVars, linkVars, wireVars, histVars

LEMMA TypeReadCustomerHs ==
    ASSUME TypeInv, NEW w \in Workers, NEW link \in Links, ReadCustomerHs(w, link)
    PROVE  TypeInv'
<1>1. faults' \in 0 .. MaxFaults
    BY BudgetType DEF ReadCustomerHs
<1>2. readLink' \in [Workers -> Links]
    BY DEF TypeInv, TypeOK, ReadCustomerHs
<1>3. pc' \in [Workers -> Pcs]
    BY DEF TypeInv, TypeOK, ReadCustomerHs, Goto, AfterRead, Pcs
<1>4. request[w].id \in Ids
    BY DEF TypeInv, Serving, ReadCustomerHs, Critical
<1>5. customer' \in [Workers -> Blob] /\ version' \in [Workers -> Nat]
    <2>1. db[request[w].id] # NoRow =>
              db[request[w].id].data \in Blob /\ db[request[w].id].version \in Nat
        BY <1>4 DEF TypeInv, TypeOK, Row
    <2> QED BY <2>1 DEF TypeInv, TypeOK, ReadCustomerHs
<1>6. overtaken' \subseteq Tags
    BY DEF TypeInv, TypeOK, ReadCustomerHs
<1>7. Serving'
    BY <1>4 DEF TypeInv, TypeOK, Serving, ReadCustomerHs, Goto, AfterRead, Critical
<1> QED BY <1>1, <1>2, <1>3, <1>5, <1>6, <1>7
        DEF TypeInv, TypeOK, ReadCustomerHs, procVars, wireVars

LEMMA ReleaseType ==
    ASSUME TypeInv, NEW w \in Workers, Release(w)
    PROVE  mutex' \in [Procs -> [Ids -> Workers \cup {NoWorker}]]
BY ProcOfAssumption DEF TypeInv, TypeOK, Release

LEMMA TypeCheck ==
    ASSUME TypeInv, NEW w \in Workers, Check(w) PROVE TypeInv'
<1>1. mutex' \in [Procs -> [Ids -> Workers \cup {NoWorker}]]
    <2>1. mutex' = mutex \/ Release(w)
        BY DEF Check
    <2> QED BY <2>1, ReleaseType DEF TypeInv, TypeOK
<1>2. customer' \in [Workers -> Blob]
    BY ExecutedBlob DEF TypeInv, TypeOK, Check
<1>3. pc' \in [Workers -> Pcs]
    BY DEF TypeInv, TypeOK, Check, Goto, Pcs
<1>4. Serving'
    BY DEF TypeInv, TypeOK, Serving, Check, Goto, Critical
<1> QED BY <1>1, <1>2, <1>3, <1>4
        DEF TypeInv, TypeOK, Check, procVars, linkVars, wireVars, histVars

LEMMA TypeWriteSend ==
    ASSUME TypeInv, NEW w \in Workers, NEW link \in Links, WriteSend(w, link)
    PROVE  TypeInv'
<1>1. faults' \in 0 .. MaxFaults
    BY BudgetType DEF WriteSend
<1>2. writeLink' \in [Workers -> Links]
    BY DEF TypeInv, TypeOK, WriteSend
<1>3. pc' \in [Workers -> Pcs]
    BY DEF TypeInv, TypeOK, WriteSend, Goto, Pcs
<1>4. request[w].id \in Ids
    BY DEF TypeInv, Serving, WriteSend, Critical
<1>5. [tag |-> request[w].tag, id |-> request[w].id,
       data |-> customer[w], version |-> version[w]] \in Update
    BY <1>4 DEF TypeInv, TypeOK, Update, Request
<1>6. updates' \subseteq Update
    BY <1>5 DEF TypeInv, TypeOK, WriteSend
<1>7. Serving'
    BY <1>4 DEF TypeInv, TypeOK, Serving, WriteSend, Goto, Critical, localVars
<1> QED BY <1>1, <1>2, <1>3, <1>6, <1>7
        DEF TypeInv, TypeOK, WriteSend, procVars, localVars, histVars

LEMMA TypeServerUpdate ==
    ASSUME TypeInv, NEW u \in updates, ServerUpdate(u) PROVE TypeInv'
<1>1. u \in Update
    BY DEF TypeInv, TypeOK
<1>2. db' \in [Ids -> Row \cup {NoRow}]
    <2>1. [data |-> u.data, version |-> u.version + 1] \in Row /\ u.id \in Ids
        BY <1>1 DEF Update, Row
    <2> QED BY <2>1 DEF TypeInv, TypeOK, ServerUpdate
<1>3. applied' \in [1 .. MaxRequests -> Nat]
    <2>1. applied \in [1 .. MaxRequests -> Nat]
        BY DEF TypeInv, TypeOK
    <2>2. applied' = applied \/ applied' = [applied EXCEPT ![u.tag] = applied[u.tag] + 1]
        BY DEF ServerUpdate
    <2>3. u.tag \in 1 .. MaxRequests => applied[u.tag] + 1 \in Nat
        BY <2>1
    <2> QED BY <2>1, <2>2, <2>3
<1>4. response' \in [Workers -> Responses]
    BY DEF TypeInv, TypeOK, ServerUpdate, Respond, Responses
<1>5. updates' \subseteq Update
    BY DEF TypeInv, TypeOK, ServerUpdate
<1> QED BY <1>2, <1>3, <1>4, <1>5
        DEF TypeInv, TypeOK, Serving, ServerUpdate, procVars, localVars, linkVars

LEMMA TypeWriteRecv ==
    ASSUME TypeInv, NEW w \in Workers, WriteRecv(w) PROVE TypeInv'
<1>1. pc' \in [Workers -> Pcs] /\ response' \in [Workers -> Responses]
    BY DEF TypeInv, TypeOK, WriteRecv, Goto, Pcs, Responses
<1>2. Serving'
    BY DEF TypeInv, TypeOK, Serving, WriteRecv, Goto, Critical, localVars
<1> QED BY <1>1, <1>2
        DEF TypeInv, TypeOK, WriteRecv, procVars, localVars, linkVars, histVars

LEMMA TypeWriteError ==
    ASSUME TypeInv, NEW w \in Workers, WriteError(w) PROVE TypeInv'
<1>1. faults' \in 0 .. MaxFaults
    BY BudgetType DEF WriteError
<1>2. /\ pc' \in [Workers -> Pcs]
      /\ writeLink' \in [Workers -> Links]
      /\ updates' \subseteq Update
    BY DEF TypeInv, TypeOK, WriteError, Goto, Pcs, Links
<1>3. Serving'
    BY DEF TypeInv, TypeOK, Serving, WriteError, Goto, Critical, localVars
<1> QED BY <1>1, <1>2, <1>3
        DEF TypeInv, TypeOK, WriteError, procVars, localVars, histVars

LEMMA TypeWriteLost ==
    ASSUME TypeInv, NEW w \in Workers, WriteLost(w) PROVE TypeInv'
<1>1. faults' \in 0 .. MaxFaults
    BY BudgetType DEF WriteLost
<1>2. /\ pc' \in [Workers -> Pcs]
      /\ writeLink' \in [Workers -> Links]
      /\ response' \in [Workers -> Responses]
    BY DEF TypeInv, TypeOK, WriteLost, Goto, Pcs, Links, Responses
<1>3. Serving'
    BY DEF TypeInv, TypeOK, Serving, WriteLost, Goto, Critical, localVars
<1> QED BY <1>1, <1>2, <1>3
        DEF TypeInv, TypeOK, WriteLost, procVars, localVars, histVars

LEMMA TypeUnlock ==
    ASSUME TypeInv, NEW w \in Workers, Unlock(w) PROVE TypeInv'
<1>1. mutex' \in [Procs -> [Ids -> Workers \cup {NoWorker}]]
    BY ReleaseType DEF Unlock
<1>2. pc' \in [Workers -> Pcs]
    BY DEF TypeInv, TypeOK, Unlock, Goto, Pcs
<1>3. Serving'
    BY DEF TypeInv, TypeOK, Serving, Unlock, Goto, Critical, localVars
<1> QED BY <1>1, <1>2, <1>3
        DEF TypeInv, TypeOK, Unlock, procVars, localVars, linkVars, wireVars, histVars

LEMMA TypeSendAnswer ==
    ASSUME TypeInv, NEW w \in Workers, SendAnswer(w) PROVE TypeInv'
<1>1. pc' \in [Workers -> Pcs]
    BY DEF TypeInv, TypeOK, SendAnswer, Goto, Pcs
<1>2. Serving'
    BY DEF TypeInv, TypeOK, Serving, SendAnswer, Goto, Critical, localVars
<1> QED BY <1>1, <1>2
        DEF TypeInv, TypeOK, SendAnswer, procVars, localVars, linkVars, wireVars

LEMMA TypeNext == TypeInv /\ [Next]_vars => TypeInv'
<1> SUFFICES ASSUME TypeInv, [Next]_vars PROVE TypeInv'
    OBVIOUS
<1>1. ASSUME NEW p \in Procs, ProcNext(p) PROVE TypeInv'
    BY <1>1, TypeConnect, TypeInsertCustomer, TypeStartThreads, TypeCrash DEF ProcNext
<1>2. ASSUME NEW w \in Workers, WorkerNext(w) PROVE TypeInv'
    <2>1. ASSUME NEW r \in {"good", "dead"}, NEW s \in {"good", "dead"},
                 InitializeHs(w, r, s)
          PROVE  TypeInv'
        BY <2>1, TypeInitializeHs
    <2>2. ASSUME NEW i \in RequestIds, NEW v \in Values, ExecuteTransaction(w, i, v)
          PROVE  TypeInv'
        BY <2>2, TypeReceive, ValuesAssumption DEF ExecuteTransaction
    <2>3. ASSUME NEW i \in RequestIds, GetCustomer(w, i) PROVE TypeInv'
        <3>1. 0 \in Int32
            BY IntHalfAssumption DEF Int32
        <3> QED BY <2>3, <3>1, TypeReceive DEF GetCustomer
    <2>4. ASSUME WorkerStep(w) PROVE TypeInv'
        BY <2>4, TypeLock, TypeReadCustomerHs, TypeCheck, TypeWriteSend, TypeWriteRecv,
           TypeWriteError, TypeWriteLost, TypeUnlock, TypeSendAnswer DEF WorkerStep
    <2> QED BY <1>2, <2>1, <2>2, <2>3, <2>4 DEF WorkerNext
<1>3. ASSUME NEW u \in updates, ServerUpdate(u) PROVE TypeInv'
    BY <1>3, TypeServerUpdate
<1>4. CASE UNCHANGED vars
    BY <1>4 DEF vars, TypeInv, TypeOK, Serving
<1> QED BY <1>1, <1>2, <1>3, <1>4 DEF Next, Quiescent

(***************************************************************************)
(* Every variable keeps its type; in particular no index derived from a    *)
(* request leaves the mutex array or the table, and no blob written to the *)
(* database holds an index outside of its array.                           *)
(***************************************************************************)
THEOREM TypeCorrect == Spec => []TypeOK
<1>1. TypeInv => TypeOK
    BY DEF TypeInv
<1> QED BY <1>1, TypeInit, TypeNext, PTL DEF Spec

(* The same, with the validity of ids, for the invariants below. *)
LEMMA TypeInvariant == Spec => []TypeInv
BY TypeInit, TypeNext, PTL DEF Spec


-----------------------------------------------------------------------------
(* The table.                                                              *)

(* A step of a worker touches neither the table nor its process, and does  *)
(* not start a worker that is off.                                         *)
LEMMA WorkerFrame ==
    ASSUME TypeInv, NEW w \in Workers,
           \/ \E i \in RequestIds, v \in Int32, label \in {"lock", "get"} :
                  Receive(w, i, v, label)
           \/ WorkerStep(w)
    PROVE  /\ UNCHANGED <<db, phase, inserting>>
           /\ \A x \in Workers : pc'[x] # "off" => pc[x] # "off"
<1>1. pc \in [Workers -> Pcs]
    BY DEF TypeInv, TypeOK
<1> DEFINE Frame == /\ UNCHANGED <<db, phase, inserting>>
                    /\ \A x \in Workers : pc'[x] # "off" => pc[x] # "off"
<1>2. ASSUME NEW i \in RequestIds, NEW v \in Int32, NEW label \in {"lock", "get"},
             Receive(w, i, v, label)
      PROVE  Frame
    BY <1>1, <1>2 DEF Receive, Goto, procVars
<1>3. CASE Lock(w)
    BY <1>1, <1>3 DEF Lock, Goto, procVars
<1>4. ASSUME NEW link \in Links, ReadCustomerHs(w, link) PROVE Frame
    BY <1>1, <1>4 DEF ReadCustomerHs, Goto, procVars
<1>5. CASE Check(w)
    BY <1>1, <1>5 DEF Check, Goto, procVars
<1>6. ASSUME NEW link \in Links, WriteSend(w, link) PROVE Frame
    BY <1>1, <1>6 DEF WriteSend, Goto, procVars
<1>7. CASE WriteRecv(w)
    BY <1>1, <1>7 DEF WriteRecv, Goto, procVars
<1>8. CASE WriteError(w)
    BY <1>1, <1>8 DEF WriteError, Goto, procVars
<1>9. CASE WriteLost(w)
    BY <1>1, <1>9 DEF WriteLost, Goto, procVars
<1>10. CASE Unlock(w)
    BY <1>1, <1>10 DEF Unlock, Goto, procVars
<1>11. CASE SendAnswer(w)
    BY <1>1, <1>11 DEF SendAnswer, Goto, procVars
<1> QED BY <1>2, <1>3, <1>4, <1>5, <1>6, <1>7, <1>8, <1>9, <1>10, <1>11 DEF WorkerStep

(* The requests a worker can receive are those of WorkerFrame. *)
LEMMA ReceiveCases ==
    ASSUME NEW w \in Workers, NEW i \in RequestIds,
           (\E v \in Values : ExecuteTransaction(w, i, v)) \/ GetCustomer(w, i)
    PROVE  \E v \in Int32, label \in {"lock", "get"} : Receive(w, i, v, label)
<1>1. 0 \in Int32
    BY IntHalfAssumption DEF Int32
<1> QED BY <1>1, ValuesAssumption DEF ExecuteTransaction, GetCustomer

LEMMA UnchangedRowsKept == ASSUME TypeInv, UNCHANGED db PROVE RowsKept
<1>1. \A i \in Ids : db[i] # NoRow => db[i].version \in Nat
    BY DEF TypeInv, TypeOK, Row
<1> QED BY <1>1 DEF RowsKept

LEMMA InsertRows ==
    ASSUME TypeInv, NEW p \in Procs, InsertCustomer(p)
    PROVE  RowsKept /\ inserting[p] \in Ids /\ db'[inserting[p]] # NoRow
<1> DEFINE i == inserting[p]
           new == InitialCustomer(Limit[i], ZeroTag)
<1>1. i \in Ids
    BY NumCustomersAssumption DEF TypeInv, TypeOK, InsertCustomer, Ids
<1>2. new \in Blob
    BY <1>1, InitialBlob
<1>3. /\ db \in [Ids -> Row \cup {NoRow}]
      /\ db' = [db EXCEPT ![i] = IF db[i] = NoRow
                                 THEN [data |-> new, version |-> 1]
                                 ELSE Reinserted(db[i], new)]
    BY DEF TypeInv, TypeOK, InsertCustomer
<1> HIDE DEF new, i
<1>4. [data |-> new, version |-> 1] \in Row
    BY <1>2 DEF Row
<1>5. \A j \in Ids : db[j] # NoRow => db[j].version \in Nat
    BY <1>3 DEF Row
<1>6. db[i] # NoRow => /\ Reinserted(db[i], new) \in Row
                       /\ Reinserted(db[i], new).version = db[i].version
    BY <1>1, <1>2, <1>5 DEF Reinserted, Row
<1>7. db'[i] # NoRow
    BY <1>1, <1>3, <1>4, <1>6, NoRowAssumption
<1>8. ASSUME NEW j \in Ids, db[j] # NoRow
      PROVE  db'[j] # NoRow /\ db'[j].version >= db[j].version
    <2>1. CASE j = i
        BY <1>1, <1>3, <1>5, <1>6, <1>7, <1>8, <2>1
    <2>2. CASE j # i
        BY <1>3, <1>5, <1>8, <2>2
    <2> QED BY <2>1, <2>2
<1> QED BY <1>1, <1>7, <1>8 DEF RowsKept, i

LEMMA UpdateRows ==
    ASSUME TypeInv, NEW u \in updates, ServerUpdate(u)
    PROVE  RowsKept
<1> DEFINE r == [data |-> u.data, version |-> u.version + 1]
<1>1. u.id \in Ids /\ u.version \in Nat /\ r \in Row
    BY DEF TypeInv, TypeOK, Update, Row
<1>2. r.version = u.version + 1
    OBVIOUS
<1> HIDE DEF r
<1>3. CASE Matches(u)
    <2>1. db' = [db EXCEPT ![u.id] = r] /\ db \in [Ids -> Row \cup {NoRow}]
        BY <1>3 DEF ServerUpdate, r, TypeInv, TypeOK
    <2>2. ASSUME NEW i \in Ids, db[i] # NoRow
          PROVE  db'[i] # NoRow /\ db'[i].version >= db[i].version
        <3>1. CASE i = u.id
            BY <1>1, <1>2, <1>3, <2>1, <3>1, NoRowAssumption DEF Matches
        <3>2. CASE i # u.id
            <4>1. db[i].version \in Nat
                BY <2>1, <2>2 DEF Row
            <4> QED BY <2>1, <2>2, <3>2, <4>1
        <3> QED BY <3>1, <3>2
    <2> QED BY <2>2 DEF RowsKept
<1>4. CASE ~Matches(u)
    BY <1>4, UnchangedRowsKept DEF ServerUpdate
<1> QED BY <1>3, <1>4

LEMMA RowsKeptNext == TypeInv /\ [Next]_vars => RowsKept
<1> SUFFICES ASSUME TypeInv, [Next]_vars PROVE RowsKept
    OBVIOUS
<1>1. ASSUME NEW p \in Procs, ProcNext(p) PROVE RowsKept
    BY <1>1, InsertRows, UnchangedRowsKept DEF ProcNext, Connect, StartThreads, Crash, Die
<1>2. ASSUME NEW w \in Workers, WorkerNext(w) PROVE RowsKept
    <2>1. ASSUME NEW r, NEW s, InitializeHs(w, r, s) PROVE UNCHANGED db
        BY <2>1 DEF InitializeHs
    <2>2. ASSUME NEW i \in RequestIds,
                 (\E v \in Values : ExecuteTransaction(w, i, v)) \/ GetCustomer(w, i)
          PROVE  UNCHANGED db
        BY <2>2, ReceiveCases, WorkerFrame
    <2>3. CASE WorkerStep(w)
        BY <2>3, WorkerFrame, UnchangedRowsKept
    <2> QED BY <1>2, <2>1, <2>2, <2>3, UnchangedRowsKept DEF WorkerNext
<1>3. ASSUME NEW u \in updates, ServerUpdate(u) PROVE RowsKept
    BY <1>3, UpdateRows
<1>4. CASE UNCHANGED vars
    BY <1>4, UnchangedRowsKept DEF vars
<1> QED BY <1>1, <1>2, <1>3, <1>4 DEF Next, Quiescent

(***************************************************************************)
(* No row disappears and no version goes back, for any number of processes *)
(* that start, crash, re-insert and update: a compare-and-swap that was    *)
(* overtaken cannot win later with the same version.                       *)
(***************************************************************************)
THEOREM VersionsNeverGoBack == Spec => VersionsGrow
<1>1. TypeInv /\ [Next]_vars => [RowsKept]_vars
    BY RowsKeptNext
<1> QED BY <1>1, TypeInvariant, PTL DEF Spec, VersionsGrow

-----------------------------------------------------------------------------
(* Rows are inserted before they are read.                                 *)

(***************************************************************************)
(* The inductive invariant: workers run only in processes that are up, a   *)
(* process is up only when it has inserted every row, and while it inserts *)
(* the rows before the next one are there.                                 *)
(***************************************************************************)
RowsInv ==
    /\ \A w \in Workers : pc[w] # "off" => phase[ProcOf[w]] = "up"
    /\ \A p \in Procs : phase[p] = "up" => \A i \in Ids : db[i] # NoRow
    /\ \A p \in Procs : phase[p] = "inserting" =>
           \A i \in Ids : i < inserting[p] => db[i] # NoRow

LEMMA RowsInit == Init => RowsInv
BY ProcOfAssumption DEF Init, RowsInv

(* A step that leaves the processes alone. *)
LEMMA RowsFrame ==
    ASSUME RowsInv, RowsKept, UNCHANGED <<phase, inserting>>,
           \A x \in Workers : pc'[x] # "off" => pc[x] # "off" \/ phase[ProcOf[x]] = "up"
    PROVE  RowsInv'
BY DEF RowsInv, RowsKept

LEMMA RowsProc ==
    ASSUME TypeInv, RowsInv, RowsKept, NEW p \in Procs, ProcNext(p)
    PROVE  RowsInv'
<1>1. /\ phase \in [Procs -> Phases]
      /\ inserting \in [Procs -> 1 .. NumCustomers + 1]
      /\ pc \in [Workers -> Pcs]
    BY DEF TypeInv, TypeOK
<1>2. CASE Connect(p)
    <2>1. \A w \in Workers : ProcOf[w] = p => pc[w] = "off"
        BY <1>1, <1>2 DEF Connect, RowsInv
    <2>2. /\ \A q \in Procs : q # p => phase'[q] = phase[q] /\ inserting'[q] = inserting[q]
          /\ phase'[p] = "inserting" /\ inserting'[p] = 1
          /\ pc' = pc
        BY <1>1, <1>2 DEF Connect
    <2>3. \A i \in Ids : ~(i < 1)
        BY DEF Ids
    <2> QED BY <2>1, <2>2, <2>3, ProcOfAssumption DEF RowsInv, RowsKept
<1>3. CASE InsertCustomer(p)
    <2>1. inserting[p] \in Ids /\ db'[inserting[p]] # NoRow
        BY <1>3, InsertRows
    <2>2. /\ phase' = phase /\ pc' = pc
          /\ \A q \in Procs : q # p => inserting'[q] = inserting[q]
          /\ inserting'[p] = inserting[p] + 1
        BY <1>1, <1>3 DEF InsertCustomer
    <2>3. \A i \in Ids : i < inserting[p] + 1 => i < inserting[p] \/ i = inserting[p]
        BY <2>1 DEF Ids
    <2> QED BY <2>1, <2>2, <2>3 DEF RowsInv, RowsKept
<1>4. CASE StartThreads(p)
    <2>1. /\ \A q \in Procs : q # p => phase'[q] = phase[q]
          /\ phase'[p] = "up" /\ inserting' = inserting /\ pc' = pc
        BY <1>1, <1>4 DEF StartThreads
    <2>2. \A i \in Ids : i < inserting[p]
        BY <1>1, <1>4, NumCustomersAssumption DEF StartThreads, Ids
    <2> QED BY <1>4, <2>1, <2>2, ProcOfAssumption DEF StartThreads, RowsInv, RowsKept
<1>5. CASE Crash(p)
    <2>1. /\ \A q \in Procs : q # p => phase'[q] = phase[q]
          /\ phase'[p] = "down" /\ inserting' = inserting
          /\ \A w \in Workers : pc'[w] = IF ProcOf[w] = p THEN "off" ELSE pc[w]
        BY <1>1, <1>5 DEF Crash, Die
    <2> QED BY <2>1, ProcOfAssumption DEF RowsInv, RowsKept
<1> QED BY <1>2, <1>3, <1>4, <1>5 DEF ProcNext

LEMMA RowsNext == TypeInv /\ RowsInv /\ [Next]_vars => RowsInv'
<1> SUFFICES ASSUME TypeInv, RowsInv, [Next]_vars PROVE RowsInv'
    OBVIOUS
<1>1. RowsKept
    BY RowsKeptNext
<1>2. ASSUME NEW p \in Procs, ProcNext(p) PROVE RowsInv'
    BY <1>1, <1>2, RowsProc
<1>3. ASSUME NEW w \in Workers, WorkerNext(w) PROVE RowsInv'
    <2>1. ASSUME NEW r, NEW s, InitializeHs(w, r, s) PROVE RowsInv'
        <3>1. \A x \in Workers :
                  pc'[x] # "off" => pc[x] # "off" \/ phase[ProcOf[x]] = "up"
            BY <2>1 DEF InitializeHs, Goto, TypeInv, TypeOK
        <3> QED BY <1>1, <2>1, <3>1, RowsFrame DEF InitializeHs, procVars
    <2>2. ASSUME NEW i \in RequestIds,
                 (\E v \in Values : ExecuteTransaction(w, i, v)) \/ GetCustomer(w, i)
          PROVE  RowsInv'
        BY <1>1, <2>2, ReceiveCases, WorkerFrame, RowsFrame
    <2>3. CASE WorkerStep(w)
        BY <1>1, <2>3, WorkerFrame, RowsFrame
    <2> QED BY <1>3, <2>1, <2>2, <2>3 DEF WorkerNext
<1>4. ASSUME NEW u \in updates, ServerUpdate(u) PROVE RowsInv'
    BY <1>1, <1>4, RowsFrame DEF ServerUpdate, procVars
<1>5. CASE UNCHANGED vars
    BY <1>1, <1>5, RowsFrame DEF vars
<1> QED BY <1>2, <1>3, <1>4, <1>5 DEF Next, Quiescent

LEMMA RowsInvariant == Spec => []RowsInv
BY RowsInit, RowsNext, TypeInvariant, PTL DEF Spec

(* What a worker that runs knows of the table. *)
LEMMA RowsThere == ASSUME RowsInv PROVE RowsPresent
BY ProcOfAssumption DEF RowsInv, RowsPresent

(***************************************************************************)
(* Every row is there whenever a worker runs, for any number of processes  *)
(* starting, crashing and starting again in any order: ReadCustomerHs      *)
(* never returns true with its arguments uninitialised.                    *)
(***************************************************************************)
THEOREM RowsAlwaysPresent == Spec => []RowsPresent
BY RowsInvariant, RowsThere, PTL

-----------------------------------------------------------------------------
(* The mutex.                                                              *)

(* A step that leaves the mutexes alone, takes no worker into the retry    *)
(* loop or out of it, and changes no request inside of it.                 *)
LEMMA MutexFrame ==
    ASSUME MutexHeld, UNCHANGED mutex,
           \A x \in Workers : /\ pc'[x] \in Critical <=> pc[x] \in Critical
                              /\ pc[x] \in Critical => request'[x] = request[x]
    PROVE  MutexHeld'
BY DEF MutexHeld

(* A worker gives its mutex back and leaves the retry loop. *)
LEMMA MutexReleased ==
    ASSUME TypeInv, MutexHeld, NEW w \in Workers, pc[w] \in Critical, Release(w),
           UNCHANGED request, NEW label \in Pcs \ Critical, Goto(w, label)
    PROVE  MutexHeld'
<1>1. mutex[ProcOf[w]][request[w].id] = w
    BY ProcOfAssumption DEF MutexHeld, TypeInv, Serving
<1>2. ProcOf[w] \in Procs /\ request[w].id \in Ids
    BY ProcOfAssumption DEF TypeInv, Serving
<1>3. mutex \in [Procs -> [Ids -> Workers \cup {NoWorker}]] /\ pc \in [Workers -> Pcs]
    BY DEF TypeInv, TypeOK
<1> SUFFICES ASSUME NEW p \in Procs, NEW i \in Ids, NEW x \in Workers
             PROVE  mutex'[p][i] = x
                       <=> ProcOf[x] = p /\ pc'[x] \in Critical /\ request[x].id = i
    BY DEF MutexHeld
<1>4. mutex[p][i] = x <=> ProcOf[x] = p /\ pc[x] \in Critical /\ request[x].id = i
    BY DEF MutexHeld
<1>5. pc'[x] = IF x = w THEN label ELSE pc[x]
    BY <1>3 DEF Goto
<1>6. CASE p = ProcOf[w] /\ i = request[w].id
    <2>1. mutex'[p][i] = NoWorker
        BY <1>2, <1>3, <1>6 DEF Release
    <2> QED BY <1>1, <1>4, <1>5, <1>6, <2>1, NoWorkerAssumption
<1>7. CASE ~(p = ProcOf[w] /\ i = request[w].id)
    <2>1. mutex'[p][i] = mutex[p][i]
        BY <1>2, <1>3, <1>7 DEF Release
    <2> QED BY <1>4, <1>5, <1>7, <2>1
<1> QED BY <1>6, <1>7

LEMMA MutexLock ==
    ASSUME TypeInv, MutexHeld, NEW w \in Workers, Lock(w) PROVE MutexHeld'
<1>1. pc[w] = "lock" /\ mutex[ProcOf[w]][request[w].id] = NoWorker
    BY DEF Lock
<1>2. ProcOf[w] \in Procs /\ request[w].id \in Ids
    BY <1>1, ProcOfAssumption DEF TypeInv, Serving
<1>3. mutex \in [Procs -> [Ids -> Workers \cup {NoWorker}]] /\ pc \in [Workers -> Pcs]
    BY DEF TypeInv, TypeOK
<1> SUFFICES ASSUME NEW p \in Procs, NEW i \in Ids, NEW x \in Workers
             PROVE  mutex'[p][i] = x
                       <=> ProcOf[x] = p /\ pc'[x] \in Critical /\ request[x].id = i
    BY DEF MutexHeld, Lock, localVars
<1>4. mutex[p][i] = x <=> ProcOf[x] = p /\ pc[x] \in Critical /\ request[x].id = i
    BY DEF MutexHeld
<1>5. pc'[x] = IF x = w THEN "read" ELSE pc[x]
    BY <1>3 DEF Lock, Goto
<1>6. "read" \in Critical /\ "lock" \notin Critical
    BY DEF Critical
<1>7. CASE p = ProcOf[w] /\ i = request[w].id
    <2>1. mutex'[p][i] = w
        BY <1>2, <1>3, <1>7 DEF Lock
    <2> QED BY <1>1, <1>4, <1>5, <1>6, <1>7, <2>1, NoWorkerAssumption
<1>8. CASE ~(p = ProcOf[w] /\ i = request[w].id)
    <2>1. mutex'[p][i] = mutex[p][i]
        BY <1>2, <1>3, <1>8 DEF Lock
    <2> QED BY <1>1, <1>4, <1>5, <1>6, <1>8, <2>1
<1> QED BY <1>7, <1>8

LEMMA MutexCrash ==
    ASSUME TypeInv, MutexHeld, NEW p \in Procs, Crash(p) PROVE MutexHeld'
<1>1. \A q \in Procs, i \in Ids :
          mutex'[q][i] = IF q = p THEN NoWorker ELSE mutex[q][i]
    BY DEF TypeInv, TypeOK, Crash, Die
<1>2. \A w \in Workers : pc'[w] = IF ProcOf[w] = p THEN "off" ELSE pc[w]
    BY DEF Crash, Die
<1>3. request' = request
    BY DEF Crash, Die, localVars
<1> QED BY <1>1, <1>2, <1>3, NoWorkerAssumption DEF MutexHeld, Critical

LEMMA MutexStep ==
    ASSUME TypeInv, MutexHeld, NEW w \in Workers, WorkerStep(w) PROVE MutexHeld'
<1>1. pc \in [Workers -> Pcs]
    BY DEF TypeInv, TypeOK
<1>2. CASE Lock(w)
    BY <1>2, MutexLock
<1>3. ASSUME NEW link \in Links, ReadCustomerHs(w, link) PROVE MutexHeld'
    BY <1>1, <1>3, MutexFrame DEF ReadCustomerHs, Goto, AfterRead, Critical
<1>4. CASE Check(w)
    <2>1. CASE LimitExceeded(customer[w], Tx(w))
        BY <1>4, <2>1, MutexReleased DEF Check, Critical, Pcs
    <2>2. CASE ~LimitExceeded(customer[w], Tx(w))
        <3>1. UNCHANGED <<mutex, request>> /\ Goto(w, "write") /\ pc[w] = "check"
            BY <1>4, <2>2 DEF Check
        <3> QED BY <1>1, <3>1, MutexFrame DEF Goto, Critical
    <2> QED BY <2>1, <2>2
<1>5. ASSUME NEW link \in Links, WriteSend(w, link) PROVE MutexHeld'
    BY <1>1, <1>5, MutexFrame DEF WriteSend, Goto, localVars, Critical
<1>6. CASE WriteRecv(w)
    BY <1>1, <1>6, MutexFrame DEF WriteRecv, Goto, localVars, Critical
<1>7. CASE WriteError(w)
    BY <1>1, <1>7, MutexFrame DEF WriteError, Goto, localVars, Critical
<1>8. CASE WriteLost(w)
    BY <1>1, <1>8, MutexFrame DEF WriteLost, Goto, localVars, Critical
<1>9. CASE Unlock(w)
    BY <1>9, MutexReleased DEF Unlock, localVars, Critical, Pcs
<1>10. CASE SendAnswer(w)
    BY <1>1, <1>10, MutexFrame DEF SendAnswer, Goto, localVars, Critical
<1> QED BY <1>2, <1>3, <1>4, <1>5, <1>6, <1>7, <1>8, <1>9, <1>10 DEF WorkerStep

LEMMA MutexNext == TypeInv /\ MutexHeld /\ [Next]_vars => MutexHeld'
<1> SUFFICES ASSUME TypeInv, MutexHeld, [Next]_vars PROVE MutexHeld'
    OBVIOUS
<1>1. /\ pc \in [Workers -> Pcs]
      /\ request \in [Workers -> Request]
    BY DEF TypeInv, TypeOK
<1>2. ASSUME NEW p \in Procs, ProcNext(p) PROVE MutexHeld'
    <2>1. CASE Connect(p)
        BY <2>1, MutexFrame DEF Connect, localVars
    <2>2. CASE InsertCustomer(p)
        BY <2>2, MutexFrame DEF InsertCustomer, localVars
    <2>3. CASE StartThreads(p)
        BY <2>3, MutexFrame DEF StartThreads, localVars
    <2> QED BY <1>2, <2>1, <2>2, <2>3, MutexCrash DEF ProcNext
<1>3. ASSUME NEW w \in Workers, WorkerNext(w) PROVE MutexHeld'
    <2>1. ASSUME NEW r, NEW s, InitializeHs(w, r, s) PROVE MutexHeld'
        BY <1>1, <2>1, MutexFrame DEF InitializeHs, Goto, localVars, Critical
    <2>2. ASSUME NEW i \in RequestIds, NEW v \in Int32, NEW label \in {"lock", "get"},
                 Receive(w, i, v, label)
          PROVE  MutexHeld'
        BY <1>1, <2>2, MutexFrame DEF Receive, Goto, Critical
    <2>3. ASSUME NEW i \in RequestIds,
                 (\E v \in Values : ExecuteTransaction(w, i, v)) \/ GetCustomer(w, i)
          PROVE  MutexHeld'
        BY <2>2, <2>3, ReceiveCases
    <2>4. CASE WorkerStep(w)
        BY <2>4, MutexStep
    <2> QED BY <1>3, <2>1, <2>3, <2>4 DEF WorkerNext
<1>4. ASSUME NEW u \in updates, ServerUpdate(u) PROVE MutexHeld'
    BY <1>4, MutexFrame DEF ServerUpdate, localVars
<1>5. CASE UNCHANGED vars
    BY <1>5, MutexFrame DEF vars
<1> QED BY <1>2, <1>3, <1>4, <1>5 DEF Next, Quiescent

(***************************************************************************)
(* The mutex of a customer is held by exactly the worker of its process    *)
(* that is inside the retry loop for that customer, along every early      *)
(* return, retry, failure and crash: no mutex is leaked and no two threads *)
(* of a process are ever in the loop for one customer.                     *)
(***************************************************************************)
THEOREM MutexExact == Spec => []MutexHeld
<1>1. Init => MutexHeld
    BY NoWorkerAssumption DEF Init, MutexHeld, Critical
<1> QED BY <1>1, MutexNext, TypeInvariant, PTL DEF Spec

-----------------------------------------------------------------------------
(* The limit.                                                              *)

Within(i, c) == c.limit = Limit[i] /\ c.balance >= -Limit[i]

(***************************************************************************)
(* The inductive invariant follows a blob on its way through the system:   *)
(* the row, the copy of a worker about to test it (of which only the limit *)
(* must be known: the test establishes the rest), the copy that passed the *)
(* test, and the update in transit, which may outlive its worker.          *)
(***************************************************************************)
LimitInv ==
    /\ \A i \in Ids : db[i] # NoRow => Within(i, db[i].data)
    /\ \A w \in Workers : pc[w] = "check" => customer[w].limit = Limit[request[w].id]
    /\ \A w \in Workers :
           pc[w] \in {"write", "sent"} => Within(request[w].id, customer[w])
    /\ \A u \in updates : Within(u.id, u.data)

(* A step that writes no row, no copy and no update, and takes no worker   *)
(* to a place where LimitInv says something of its copy.                   *)
LEMMA LimitFrame ==
    ASSUME LimitInv, UNCHANGED <<db, customer>>, updates' \subseteq updates,
           \A x \in Workers :
               /\ pc'[x] \in {"check", "write", "sent"} => pc'[x] = pc[x]
               /\ pc'[x] \in {"check", "write", "sent"} => request'[x] = request[x]
    PROVE  LimitInv'
BY DEF LimitInv, Within

(* The limit test in ints that wrap is the test it is meant to be. *)
LEMMA TestPassed ==
    ASSUME TypeInv, NEW w \in Workers, pc[w] = "check",
           customer[w].limit = Limit[request[w].id],
           ~LimitExceeded(customer[w], Tx(w))
    PROVE  Within(request[w].id, Execute(customer[w], Tx(w)))
<1> DEFINE i == request[w].id
           sum == Wrap(customer[w].balance + Tx(w).value)
<1>1. i \in Ids
    BY DEF TypeInv, Serving, Critical
<1>2. Limit[i] \in 0 .. IntHalf - 1 /\ Limit[i] \in Int
    BY <1>1, LimitAssumption, IntHalfAssumption
<1>3. Wrap(-Limit[i]) = -Limit[i]
    BY <1>2, WrapNegatedLimit
<1>4. sum \in Int
    <2>1. customer[w].balance + Tx(w).value \in Int
        BY TxType, IntHalfAssumption
           DEF TypeInv, TypeOK, Blob, Customers, Transaction, Int32
    <2>2. Int32 \subseteq Int
        BY IntHalfAssumption DEF Int32
    <2> QED BY <2>1, <2>2, WrapInt32
<1>5. ~(sum < -Limit[i])
    BY <1>3 DEF LimitExceeded
<1> HIDE DEF sum
<1>6. sum >= -Limit[i]
    BY <1>2, <1>4, <1>5
<1> QED BY <1>6, ExecuteFields DEF Within, sum

LEMMA LimitInsert ==
    ASSUME TypeInv, LimitInv, NEW p \in Procs, InsertCustomer(p) PROVE LimitInv'
<1> DEFINE i == inserting[p]
           new == InitialCustomer(Limit[i], ZeroTag)
<1>1. i \in Ids
    BY InsertRows
<1>2. Within(i, new)
    BY <1>1, LimitAssumption, IntHalfAssumption DEF Within, InitialCustomer
<1>3. /\ db \in [Ids -> Row \cup {NoRow}]
      /\ db' = [db EXCEPT ![i] = IF db[i] = NoRow
                                 THEN [data |-> new, version |-> 1]
                                 ELSE Reinserted(db[i], new)]
    BY DEF TypeInv, TypeOK, InsertCustomer
<1> HIDE DEF new, i
<1>4. db'[i].data = new /\ \A j \in Ids \ {i} : db'[j] = db[j]
    BY <1>1, <1>3 DEF Reinserted
<1>5. \A j \in Ids : db'[j] # NoRow => Within(j, db'[j].data)
    BY <1>1, <1>2, <1>4 DEF LimitInv
<1> QED BY <1>5 DEF LimitInv, Within, InsertCustomer, localVars, wireVars

LEMMA LimitRead ==
    ASSUME TypeInv, RowsInv, LimitInv, NEW w \in Workers, NEW link \in Links,
           ReadCustomerHs(w, link)
    PROVE  LimitInv'
<1>1. request[w].id \in Ids /\ db[request[w].id] # NoRow
    BY RowsThere DEF TypeInv, Serving, ReadCustomerHs, Critical, RowsPresent
<1>2. UNCHANGED <<db, request, updates>>
    BY DEF ReadCustomerHs, wireVars
<1>3. \A x \in Workers \ {w} : pc'[x] = pc[x] /\ customer'[x] = customer[x]
    BY DEF TypeInv, TypeOK, ReadCustomerHs, Goto
<1>4. pc'[w] = "check" => link = "good"
    BY DEF TypeInv, TypeOK, ReadCustomerHs, Goto, AfterRead
<1>5. pc'[w] \notin {"write", "sent"}
    BY DEF TypeInv, TypeOK, ReadCustomerHs, Goto, AfterRead
<1>6. link = "good" => customer'[w] = db[request[w].id].data
    BY <1>1 DEF TypeInv, TypeOK, ReadCustomerHs
<1> QED BY <1>1, <1>2, <1>3, <1>4, <1>5, <1>6 DEF LimitInv, Within

LEMMA LimitCheck ==
    ASSUME TypeInv, LimitInv, NEW w \in Workers, Check(w) PROVE LimitInv'
<1>1. pc[w] = "check" /\ UNCHANGED <<db, request, updates>>
    BY DEF Check, wireVars
<1>2. pc \in [Workers -> Pcs] /\ customer \in [Workers -> Blob]
    BY DEF TypeInv, TypeOK
<1>3. CASE LimitExceeded(customer[w], Tx(w))
    <2>1. Goto(w, "limit") /\ UNCHANGED customer
        BY <1>3 DEF Check
    <2> QED BY <1>1, <1>2, <2>1, LimitFrame DEF Goto
<1>4. CASE ~LimitExceeded(customer[w], Tx(w))
    <2>1. /\ Goto(w, "write")
          /\ customer' = [customer EXCEPT ![w] = Execute(customer[w], Tx(w))]
        BY <1>4 DEF Check
    <2>2. Within(request[w].id, customer'[w])
        BY <1>1, <1>2, <1>4, <2>1, TestPassed DEF LimitInv
    <2>3. \A x \in Workers \ {w} : pc'[x] = pc[x] /\ customer'[x] = customer[x]
        BY <1>2, <2>1 DEF Goto
    <2>4. pc'[w] = "write"
        BY <1>2, <2>1 DEF Goto
    <2> QED BY <1>1, <2>2, <2>3, <2>4 DEF LimitInv, Within
<1> QED BY <1>3, <1>4

LEMMA LimitWriteSend ==
    ASSUME TypeInv, LimitInv, NEW w \in Workers, NEW link \in Links, WriteSend(w, link)
    PROVE  LimitInv'
<1> DEFINE u == [tag |-> request[w].tag, id |-> request[w].id,
                 data |-> customer[w], version |-> version[w]]
<1>1. UNCHANGED <<db, request, customer>> /\ pc[w] = "write"
    BY DEF WriteSend, localVars
<1>2. Within(request[w].id, customer[w])
    BY <1>1 DEF LimitInv
<1>3. Within(u.id, u.data)
    BY <1>2
<1>4. updates' = updates \/ updates' = updates \cup {u}
    BY DEF WriteSend
<1>5. \A x \in Workers :
          pc'[x] = pc[x] \/ (x = w /\ pc'[x] \in {"read", "sent"})
    BY DEF TypeInv, TypeOK, WriteSend, Goto
<1> HIDE DEF u
<1>6. \A v \in updates' : Within(v.id, v.data)
    BY <1>3, <1>4 DEF LimitInv
<1> QED BY <1>1, <1>2, <1>5, <1>6 DEF LimitInv, Within

LEMMA LimitServerUpdate ==
    ASSUME TypeInv, LimitInv, NEW u \in updates, ServerUpdate(u) PROVE LimitInv'
<1>1. UNCHANGED <<pc, request, customer>> /\ updates' \subseteq updates
    BY DEF ServerUpdate, localVars
<1>2. u.id \in Ids /\ Within(u.id, u.data)
    BY DEF TypeInv, TypeOK, Update, LimitInv
<1>3. \A i \in Ids : db'[i] = db[i] \/ (i = u.id /\ db'[i].data = u.data)
    BY DEF TypeInv, TypeOK, ServerUpdate
<1>4. \A i \in Ids : db'[i] # NoRow => Within(i, db'[i].data)
    BY <1>2, <1>3 DEF LimitInv
<1> QED BY <1>1, <1>4 DEF LimitInv, Within

LEMMA LimitStep ==
    ASSUME TypeInv, RowsInv, LimitInv, NEW w \in Workers, WorkerStep(w)
    PROVE  LimitInv'
<1>1. pc \in [Workers -> Pcs]
    BY DEF TypeInv, TypeOK
<1>2. CASE Lock(w)
    BY <1>1, <1>2, LimitFrame DEF Lock, Goto, localVars, wireVars
<1>3. CASE WriteRecv(w)
    BY <1>1, <1>3, LimitFrame DEF WriteRecv, Goto, localVars
<1>4. CASE WriteError(w)
    <2>1. updates' \subseteq updates /\ UNCHANGED <<db, customer, request>>
        BY <1>4 DEF WriteError, localVars
    <2> QED BY <1>1, <1>4, <2>1, LimitFrame DEF WriteError, Goto
<1>5. CASE WriteLost(w)
    BY <1>1, <1>5, LimitFrame DEF WriteLost, Goto, localVars
<1>6. CASE Unlock(w)
    BY <1>1, <1>6, LimitFrame DEF Unlock, Goto, localVars, wireVars
<1>7. CASE SendAnswer(w)
    BY <1>1, <1>7, LimitFrame DEF SendAnswer, Goto, localVars, wireVars
<1> QED BY <1>2, <1>3, <1>4, <1>5, <1>6, <1>7, LimitRead, LimitCheck, LimitWriteSend
        DEF WorkerStep

LEMMA LimitNext == TypeInv /\ RowsInv /\ LimitInv /\ [Next]_vars => LimitInv'
<1> SUFFICES ASSUME TypeInv, RowsInv, LimitInv, [Next]_vars PROVE LimitInv'
    OBVIOUS
<1>1. /\ pc \in [Workers -> Pcs]
      /\ request \in [Workers -> Request]
    BY DEF TypeInv, TypeOK
<1>2. ASSUME NEW p \in Procs, ProcNext(p) PROVE LimitInv'
    <2>1. CASE Connect(p)
        BY <2>1, LimitFrame DEF Connect, localVars, wireVars
    <2>2. CASE StartThreads(p)
        BY <2>2, LimitFrame DEF StartThreads, localVars, wireVars
    <2>3. CASE Crash(p)
        BY <1>1, <2>3, LimitFrame DEF Crash, Die, localVars
    <2> QED BY <1>2, <2>1, <2>2, <2>3, LimitInsert DEF ProcNext
<1>3. ASSUME NEW w \in Workers, WorkerNext(w) PROVE LimitInv'
    <2>1. ASSUME NEW r, NEW s, InitializeHs(w, r, s) PROVE LimitInv'
        BY <1>1, <2>1, LimitFrame DEF InitializeHs, Goto, localVars, wireVars
    <2>2. ASSUME NEW i \in RequestIds, NEW v \in Int32, NEW label \in {"lock", "get"},
                 Receive(w, i, v, label)
          PROVE  LimitInv'
        BY <1>1, <2>2, LimitFrame DEF Receive, Goto, wireVars
    <2>3. ASSUME NEW i \in RequestIds,
                 (\E v \in Values : ExecuteTransaction(w, i, v)) \/ GetCustomer(w, i)
          PROVE  LimitInv'
        BY <2>2, <2>3, ReceiveCases
    <2>4. CASE WorkerStep(w)
        BY <2>4, LimitStep
    <2> QED BY <1>3, <2>1, <2>3, <2>4 DEF WorkerNext
<1>4. ASSUME NEW u \in updates, ServerUpdate(u) PROVE LimitInv'
    BY <1>4, LimitServerUpdate
<1>5. CASE UNCHANGED vars
    BY <1>5, LimitFrame DEF vars
<1> QED BY <1>2, <1>3, <1>4, <1>5 DEF Next, Quiescent

LEMMA LimitInvariant == Spec => []LimitInv
<1>1. Init => LimitInv
    BY DEF Init, LimitInv
<1> QED BY <1>1, LimitNext, RowsInvariant, TypeInvariant, PTL DEF Spec

(***************************************************************************)
(* No row ever shows a balance below minus its customer's limit, for any   *)
(* number of processes, threads and customers, any amounts (overflowing    *)
(* ones included), and any crashes, restarts, lost answers and updates     *)
(* executed after their sender gave up or died.                            *)
(***************************************************************************)
THEOREM LimitAlwaysRespected == Spec => []LimitRespected
<1>1. LimitInv => LimitRespected
    BY DEF LimitInv, Within, LimitRespected
<1> QED BY <1>1, LimitInvariant, PTL

-----------------------------------------------------------------------------
(* The contents of a row.  SumOfFirst is a recursive function, of which    *)
(* three facts are needed: it exists, it is determined by the elements it  *)
(* adds, and its sums are integers.                                        *)

Sums(c, n, f) ==
    f = [k \in 0 .. n |-> IF k = 0 THEN 0 ELSE f[k - 1] + c.transactions[k - 1].value]

LEMMA SumsExist == ASSUME NEW c PROVE \A n \in Nat : \E f : Sums(c, n, f)
<1> DEFINE S == {n \in Nat : \E f : Sums(c, n, f)}
<1>1. 0 \in S
    <2>1. Sums(c, 0, [k \in 0 .. 0 |-> 0])
        BY DEF Sums
    <2> QED BY <2>1
<1>2. ASSUME NEW n \in S PROVE n + 1 \in S
    <2>1. PICK f : Sums(c, n, f)
        OBVIOUS
    <2> DEFINE g == [k \in 0 .. n + 1 |->
                        IF k = n + 1 THEN f[n] + c.transactions[n].value ELSE f[k]]
    <2>2. ASSUME NEW k \in 0 .. n + 1
          PROVE  g[k] = IF k = 0 THEN 0 ELSE g[k - 1] + c.transactions[k - 1].value
        <3>1. CASE k = n + 1
            <4>1. k # 0 /\ k - 1 = n /\ n \in 0 .. n + 1 /\ n # n + 1
                BY <3>1
            <4> QED BY <3>1, <4>1
        <3>2. CASE k # n + 1
            <4>1. k \in 0 .. n
                BY <3>2
            <4>2. f[k] = IF k = 0 THEN 0 ELSE f[k - 1] + c.transactions[k - 1].value
                BY <2>1, <4>1 DEF Sums
            <4>3. k # 0 => k - 1 \in 0 .. n + 1 /\ k - 1 # n + 1
                BY <4>1
            <4> QED BY <3>2, <4>2, <4>3
        <3> QED BY <3>1, <3>2
    <2>3. g = [k \in 0 .. n + 1 |-> g[k]]
        OBVIOUS
    <2> HIDE DEF g
    <2>4. Sums(c, n + 1, g)
        BY <2>2, <2>3 DEF Sums
    <2> QED BY <2>4
<1>3. S \subseteq Nat
    OBVIOUS
<1>4. S = Nat
    <2> HIDE DEF S
    <2> QED BY <1>1, <1>2, <1>3, NatSetInduction
<1> QED BY <1>4

LEMMA SumOfFirstIs ==
    ASSUME NEW c, NEW n \in Nat
    PROVE  \E f : Sums(c, n, f) /\ SumOfFirst(c, n) = f[n]
<1> DEFINE f == CHOOSE sum : sum = [k \in 0 .. n |->
                    IF k = 0 THEN 0 ELSE sum[k - 1] + c.transactions[k - 1].value]
<1>1. Sums(c, n, f)
    BY SumsExist DEF Sums
<1>2. SumOfFirst(c, n) = f[n]
    BY DEF SumOfFirst
<1> HIDE DEF f
<1> QED BY <1>1, <1>2

(* The first n amounts are the same. *)
Alike(c, d, n) == \A k \in 0 .. n - 1 : c.transactions[k].value = d.transactions[k].value

LEMMA SumsAgree ==
    ASSUME NEW c, NEW d, NEW m \in Nat, NEW n \in Nat, n <= m,
           Alike(c, d, n)
    PROVE  \A f, g : Sums(c, n, f) /\ Sums(d, m, g) => f[n] = g[n]
<1> SUFFICES ASSUME NEW f, NEW g, Sums(c, n, f), Sums(d, m, g) PROVE f[n] = g[n]
    OBVIOUS
<1> DEFINE S == {k \in Nat : k <= n => f[k] = g[k]}
<1>1. 0 \in S
    BY DEF Sums
<1>2. ASSUME NEW k \in S PROVE k + 1 \in S
    <2>1. CASE k + 1 <= n
        <3>1. /\ k \in 0 .. n - 1 /\ k + 1 \in 0 .. n /\ k + 1 \in 0 .. m
              /\ k + 1 # 0 /\ (k + 1) - 1 = k
            BY <2>1
        <3>2. f[k] = g[k]
            BY <2>1
        <3>3. f[k + 1] = f[k] + c.transactions[k].value
            BY <3>1 DEF Sums
        <3>4. g[k + 1] = g[k] + d.transactions[k].value
            BY <3>1 DEF Sums
        <3>5. f[k + 1] = g[k + 1]
            BY <3>1, <3>2, <3>3, <3>4 DEF Alike
        <3> QED BY <3>5
    <2> QED BY <2>1
<1>3. S \subseteq Nat
    OBVIOUS
<1>4. S = Nat
    <2> HIDE DEF S
    <2> QED BY <1>1, <1>2, <1>3, NatSetInduction
<1> QED BY <1>4

LEMMA SumIsInt ==
    ASSUME NEW c, NEW n \in Nat, \A k \in 0 .. n - 1 : c.transactions[k].value \in Int
    PROVE  SumOfFirst(c, n) \in Int
<1>1. PICK f : Sums(c, n, f) /\ SumOfFirst(c, n) = f[n]
    BY SumOfFirstIs
<1> DEFINE S == {k \in Nat : k <= n => f[k] \in Int}
<1>2. 0 \in S
    BY <1>1 DEF Sums
<1>3. ASSUME NEW k \in S PROVE k + 1 \in S
    <2>1. CASE k + 1 <= n
        <3>1. k \in 0 .. n - 1 /\ k + 1 \in 0 .. n /\ k + 1 # 0 /\ (k + 1) - 1 = k
            BY <2>1
        <3>2. f[k + 1] = f[k] + c.transactions[k].value /\ f[k] \in Int
            BY <1>1, <2>1, <3>1 DEF Sums
        <3> QED BY <3>1, <3>2
    <2> QED BY <2>1
<1>4. S \subseteq Nat
    OBVIOUS
<1>5. S = Nat
    <2> HIDE DEF S
    <2> QED BY <1>2, <1>3, <1>4, NatSetInduction
<1> QED BY <1>1, <1>5

(* One more element. *)
LEMMA SumStep ==
    ASSUME NEW c, NEW d, NEW n \in Nat,
           Alike(c, d, n)
    PROVE  SumOfFirst(d, n + 1) = SumOfFirst(c, n) + d.transactions[n].value
<1>1. PICK f : Sums(c, n, f) /\ SumOfFirst(c, n) = f[n]
    BY SumOfFirstIs
<1> DEFINE m == n + 1
<1>2. m \in Nat /\ n <= m /\ m \in 0 .. m /\ m # 0 /\ m - 1 = n
    OBVIOUS
<1> HIDE DEF m
<1>3. PICK g : Sums(d, m, g) /\ SumOfFirst(d, m) = g[m]
    BY <1>2, SumOfFirstIs
<1>4. g[m] = g[n] + d.transactions[n].value
    BY <1>2, <1>3 DEF Sums
<1>5. f[n] = g[n]
    <2>1. \A h, j : Sums(c, n, h) /\ Sums(d, m, j) => h[n] = j[n]
        BY <1>2, SumsAgree
    <2> QED BY <1>1, <1>3, <2>1
<1> QED BY <1>1, <1>3, <1>4, <1>5 DEF m

-----------------------------------------------------------------------------
(* Every blob in the system is sound.                                      *)

Sound(c) ==
    /\ Ring(c)
    /\ c.transaction_count <= RingSize =>
           c.balance = Wrap(SumOfFirst(c, c.transaction_count))

LEMMA InitialSound == \A n, z : Sound(InitialCustomer(n, z))
<1> SUFFICES ASSUME NEW n, NEW z PROVE Sound(InitialCustomer(n, z))
    OBVIOUS
<1> DEFINE c == InitialCustomer(n, z)
<1>1. c.balance = 0 /\ c.transaction_count = 0
    BY DEF InitialCustomer
<1>2. Ring(c)
    BY InitialRing
<1> HIDE DEF c
<1>3. PICK f : Sums(c, 0, f) /\ SumOfFirst(c, 0) = f[0]
    BY SumOfFirstIs
<1>4. f[0] = 0
    BY <1>3 DEF Sums
<1> QED BY <1>1, <1>2, <1>3, <1>4, WrapZero DEF Sound, c

LEMMA ExecuteSound ==
    ASSUME NEW c \in Blob, NEW t \in Transaction(Tags), Sound(c)
    PROVE  Sound(Execute(c, t))
<1> DEFINE d == Execute(c, t)
           n == c.transaction_count
<1>1. /\ c \in Customers(Tags) /\ n \in 0 .. RingSize + 1 /\ RingSize \in Nat \ {0}
      /\ \A k \in Slots : c.transactions[k].value \in Int32
    BY RingSizeAssumption DEF Blob, Customers, Transaction
<1>2. Int32 \subseteq Int /\ t.value \in Int32
    BY IntHalfAssumption DEF Int32, Transaction
<1>3. Ring(d)
    BY <1>1, ExecuteRing DEF Sound
<1>4. /\ d.transaction_count = IF n <= RingSize THEN n + 1 ELSE n
      /\ d.transactions[c.next_transaction_index] = t
      /\ \A k \in Slots :
             k # c.next_transaction_index => d.transactions[k] = c.transactions[k]
    BY <1>1, ExecuteArray
<1>5. d.balance = Wrap(c.balance + t.value)
    BY ExecuteFields
<1> HIDE DEF d, n
<1>6. CASE n < RingSize
    <2>1. c.next_transaction_index = n /\ c.balance = Wrap(SumOfFirst(c, n))
        BY <1>1, <1>6 DEF Sound, Ring, n
    <2>2. \A k \in 0 .. n - 1 : k \in Slots /\ k # n
        BY <1>1, <1>6 DEF Slots
    <2>3. SumOfFirst(c, n) \in Int
        <3>1. n \in Nat /\ \A k \in 0 .. n - 1 : c.transactions[k].value \in Int
            <4>1. \A k \in Slots : c.transactions[k].value \in Int
                BY <1>1, <1>2, Zenon
            <4>2. n \in Nat
                BY <1>1
            <4> QED BY <2>2, <4>1, <4>2
        <3> QED BY <3>1, SumIsInt
    <2>4. SumOfFirst(d, n + 1) = SumOfFirst(c, n) + t.value
        <3>1. Alike(c, d, n)
            BY <1>4, <2>1, <2>2 DEF Alike
        <3>2. n \in Nat
            BY <1>1
        <3> QED BY <1>4, <2>1, <3>1, <3>2, SumStep
    <2>5. d.balance = Wrap(SumOfFirst(d, n + 1))
        BY <1>2, <1>5, <2>1, <2>3, <2>4, WrapSum
    <2> QED BY <1>1, <1>3, <1>4, <1>6, <2>5 DEF Sound, d
<1>7. CASE ~(n < RingSize)
    <2>1. ~(d.transaction_count <= RingSize)
        BY <1>1, <1>4, <1>7
    <2> QED BY <1>3, <2>1 DEF Sound, d
<1> QED BY <1>6, <1>7

(***************************************************************************)
(* The inductive invariant follows the blobs as LimitInv does: a row was   *)
(* an update, an update was a local copy, and a local copy was a row.      *)
(***************************************************************************)
SoundInv ==
    /\ \A i \in Ids : db[i] # NoRow => Sound(db[i].data)
    /\ \A w \in Workers : Sound(customer[w])
    /\ \A u \in updates : Sound(u.data)

LEMMA SoundFrame ==
    ASSUME SoundInv, UNCHANGED <<db, customer>>, updates' \subseteq updates
    PROVE  SoundInv'
BY DEF SoundInv

LEMMA SoundStep ==
    ASSUME TypeInv, SoundInv, NEW w \in Workers, WorkerStep(w) PROVE SoundInv'
<1>1. customer \in [Workers -> Blob]
    BY DEF TypeInv, TypeOK
<1>2. CASE Lock(w)
    BY <1>2, SoundFrame DEF Lock, localVars, wireVars
<1>3. ASSUME NEW link \in Links, ReadCustomerHs(w, link) PROVE SoundInv'
    <2> DEFINE i == request[w].id
    <2>1. UNCHANGED <<db, updates>> /\ i \in Ids
        BY <1>3 DEF ReadCustomerHs, wireVars, TypeInv, Serving, Critical
    <2>2. \/ UNCHANGED customer
          \/ db[i] # NoRow /\ customer' = [customer EXCEPT ![w] = db[i].data]
        BY <1>3 DEF ReadCustomerHs
    <2>3. \A x \in Workers :
              customer'[x] = customer[x] \/ (db[i] # NoRow /\ customer'[x] = db[i].data)
        BY <1>1, <2>2
    <2> QED BY <2>1, <2>3 DEF SoundInv
<1>4. CASE Check(w)
    <2>1. UNCHANGED <<db, updates>>
        BY <1>4 DEF Check, wireVars
    <2>2. Sound(Execute(customer[w], Tx(w)))
        BY <1>1, TxType, ExecuteSound DEF SoundInv, TypeInv
    <2>3. \A x \in Workers :
              \/ customer'[x] = customer[x]
              \/ x = w /\ customer'[x] = Execute(customer[w], Tx(w))
        BY <1>1, <1>4 DEF Check
    <2> QED BY <2>1, <2>2, <2>3 DEF SoundInv
<1>5. ASSUME NEW link \in Links, WriteSend(w, link) PROVE SoundInv'
    <2> DEFINE u == [tag |-> request[w].tag, id |-> request[w].id,
                     data |-> customer[w], version |-> version[w]]
    <2>1. UNCHANGED <<db, customer>> /\ (updates' = updates \/ updates' = updates \cup {u})
        BY <1>5 DEF WriteSend, localVars
    <2>2. u.data = customer[w]
        OBVIOUS
    <2> HIDE DEF u
    <2> QED BY <2>1, <2>2 DEF SoundInv
<1>6. CASE WriteRecv(w)
    BY <1>6, SoundFrame DEF WriteRecv, localVars
<1>7. CASE WriteError(w)
    <2>1. updates' \subseteq updates /\ UNCHANGED <<db, customer>>
        BY <1>7 DEF WriteError, localVars
    <2> QED BY <2>1, SoundFrame
<1>8. CASE WriteLost(w)
    BY <1>8, SoundFrame DEF WriteLost, localVars
<1>9. CASE Unlock(w)
    BY <1>9, SoundFrame DEF Unlock, localVars, wireVars
<1>10. CASE SendAnswer(w)
    BY <1>10, SoundFrame DEF SendAnswer, localVars, wireVars
<1> QED BY <1>2, <1>3, <1>4, <1>5, <1>6, <1>7, <1>8, <1>9, <1>10 DEF WorkerStep

LEMMA SoundNext == TypeInv /\ SoundInv /\ [Next]_vars => SoundInv'
<1> SUFFICES ASSUME TypeInv, SoundInv, [Next]_vars PROVE SoundInv'
    OBVIOUS
<1>1. ASSUME NEW p \in Procs, InsertCustomer(p) PROVE SoundInv'
    <2> DEFINE i == inserting[p]
               new == InitialCustomer(Limit[i], ZeroTag)
    <2>1. i \in Ids /\ Sound(new)
        BY <1>1, InsertRows, InitialSound
    <2>2. /\ db \in [Ids -> Row \cup {NoRow}]
          /\ db' = [db EXCEPT ![i] = IF db[i] = NoRow
                                     THEN [data |-> new, version |-> 1]
                                     ELSE Reinserted(db[i], new)]
        BY <1>1 DEF TypeInv, TypeOK, InsertCustomer
    <2> HIDE DEF new, i
    <2>3. db'[i].data = new /\ \A j \in Ids \ {i} : db'[j] = db[j]
        BY <2>1, <2>2 DEF Reinserted
    <2> QED BY <1>1, <2>1, <2>3 DEF SoundInv, InsertCustomer, localVars, wireVars
<1>2. ASSUME NEW p \in Procs, ProcNext(p) PROVE SoundInv'
    BY <1>1, <1>2, SoundFrame
       DEF ProcNext, Connect, StartThreads, Crash, Die, localVars, wireVars
<1>3. ASSUME NEW w \in Workers, WorkerNext(w) PROVE SoundInv'
    <2>1. ASSUME NEW r, NEW s, InitializeHs(w, r, s) PROVE SoundInv'
        BY <2>1, SoundFrame DEF InitializeHs, localVars, wireVars
    <2>2. ASSUME NEW i \in RequestIds, NEW v \in Int32, NEW label \in {"lock", "get"},
                 Receive(w, i, v, label)
          PROVE  SoundInv'
        BY <2>2, SoundFrame DEF Receive, wireVars
    <2>3. ASSUME NEW i \in RequestIds,
                 (\E v \in Values : ExecuteTransaction(w, i, v)) \/ GetCustomer(w, i)
          PROVE  SoundInv'
        BY <2>2, <2>3, ReceiveCases
    <2> QED BY <1>3, <2>1, <2>3, SoundStep DEF WorkerNext
<1>4. ASSUME NEW u \in updates, ServerUpdate(u) PROVE SoundInv'
    <2>1. UNCHANGED customer /\ updates' \subseteq updates
        BY <1>4 DEF ServerUpdate, localVars
    <2>2. \A i \in Ids : db'[i] = db[i] \/ db'[i].data = u.data
        BY <1>4 DEF TypeInv, TypeOK, ServerUpdate
    <2> QED BY <2>1, <2>2 DEF SoundInv
<1>5. CASE UNCHANGED vars
    BY <1>5, SoundFrame DEF vars
<1> QED BY <1>2, <1>3, <1>4, <1>5 DEF Next, Quiescent

LEMMA SoundInvariant == Spec => []SoundInv
<1>1. Init => SoundInv
    BY InitialSound DEF Init, SoundInv
<1> QED BY <1>1, SoundNext, TypeInvariant, PTL DEF Spec

(***************************************************************************)
(* No row is ever a mixture of two: until the array wraps around, the      *)
(* balance of every row is the wrapped sum of its own transactions and its *)
(* index is their number, for any array length, any interleaving of        *)
(* processes and threads and any failures and restarts.                    *)
(***************************************************************************)
THEOREM BlobsAlwaysConsistent == Spec => []BlobConsistent
<1>1. SoundInv => BlobConsistent
    BY DEF SoundInv, Sound, Ring, BlobConsistent
<1> QED BY <1>1, SoundInvariant, PTL

-----------------------------------------------------------------------------
(* At most once.                                                           *)

Serves(w) == pc[w] \notin {"off", "idle"}

(* No update of the request has been sent, or the last one failed. *)
Undecided == {"lock", "read", "check", "write", "get", "extract", "limit", "notfound"}

InTransit(t) == \E u \in updates : u.tag = t

(* Requests are told apart by their tags, which are handed out once. *)
OwnTags ==
    /\ \A w \in Workers : Serves(w) => request[w].tag \in 1 .. issued
    /\ \A w, x \in Workers :
           Serves(w) /\ Serves(x) /\ request[w].tag = request[x].tag => w = x
    /\ \A u \in updates : u.tag \in 1 .. issued
    /\ \A t \in 1 .. MaxRequests : t > issued => applied[t] = 0

(* An update in transit is the only one of its transaction, and the        *)
(* transaction has not been applied.                                       *)
OneUpdate ==
    /\ \A u, v \in updates : u.tag = v.tag => u = v
    /\ \A u \in updates : applied[u.tag] = 0

(* What a worker may rely on at each point of its attempt. *)
Attempt(w) ==
    /\ pc[w] \in Undecided => ~InTransit(request[w].tag) /\ applied[request[w].tag] = 0
    /\ response[w] # "none" => pc[w] = "sent" /\ ~InTransit(request[w].tag)
    /\ response[w] = "modified" => applied[request[w].tag] = 1
    /\ response[w] = "unmodified" => applied[request[w].tag] = 0
    /\ pc[w] = "sent" /\ response[w] = "none" => InTransit(request[w].tag)
    /\ pc[w] \in {"unlock", "ok"} /\ faults = 0 => applied[request[w].tag] = 1

(***************************************************************************)
(* The inductive invariant.  AtMostOnce alone is not inductive: a retry is *)
(* harmless only because the previous attempt's update is gone and was not *)
(* applied, and that rests on what each response tells its worker.         *)
(***************************************************************************)
OnceInv ==
    /\ AtMostOnce
    /\ OwnTags
    /\ OneUpdate
    /\ \A w \in Workers : Attempt(w)

LEMMA OnceInit == Init => OnceInv
BY BoundsAssumption
   DEF Init, OnceInv, AtMostOnce, OwnTags, OneUpdate, Attempt, Serves, Undecided

(* A step of a worker that sends nothing: what it relies on is to be shown *)
(* for the worker itself.                                                  *)
LEMMA OnceWorker ==
    ASSUME TypeInv, OnceInv, NEW w \in Workers,
           UNCHANGED <<request, updates, issued, applied>>,
           \A x \in Workers \ {w} : pc'[x] = pc[x] /\ response'[x] = response[x],
           pc'[w] \notin {"off", "idle"} => Serves(w),
           faults' = 0 => faults = 0,
           Attempt(w)'
    PROVE  OnceInv'
<1>1. \A x \in Workers : Serves(x)' => Serves(x)
    BY DEF Serves
<1>2. OwnTags'
    BY <1>1 DEF OnceInv, OwnTags
<1>3. \A x \in Workers : Attempt(x)'
    BY DEF OnceInv, Attempt, InTransit
<1> QED BY <1>2, <1>3 DEF OnceInv, AtMostOnce, OneUpdate

LEMMA OnceReceive ==
    ASSUME TypeInv, OnceInv, NEW w \in Workers, NEW i \in RequestIds, NEW v \in Int32,
           NEW label \in {"lock", "get"}, Receive(w, i, v, label)
    PROVE  OnceInv'
<1>1. /\ pc[w] = "idle" /\ issued \in Nat /\ issued < MaxRequests
      /\ issued' = issued + 1
      /\ UNCHANGED <<updates, response, applied, faults>>
    BY BoundsAssumption DEF Receive, wireVars, linkVars, TypeInv, TypeOK
<1>2. pc'[w] \in Undecided \ {"sent", "unlock", "ok"} /\ request'[w].tag = issued + 1
    BY DEF Receive, Goto, TypeInv, TypeOK, Undecided
<1>3. \A x \in Workers \ {w} : pc'[x] = pc[x] /\ request'[x] = request[x]
    BY DEF Receive, Goto, TypeInv, TypeOK
<1>4. \A t \in 1 .. issued : t \in 1 .. issued' /\ t # issued + 1
    BY <1>1
<1>5. issued + 1 \in 1 .. issued'
    BY <1>1
<1>6. issued + 1 \in 1 .. MaxRequests /\ issued + 1 > issued
    BY <1>1, BoundsAssumption
<1>7. ~InTransit(issued + 1) /\ applied[issued + 1] = 0
    BY <1>4, <1>6 DEF OnceInv, OwnTags, InTransit
<1>8. OwnTags'
    <2>1. \A x \in Workers \ {w} : Serves(x)' => Serves(x)
        BY <1>3 DEF Serves
    <2>2. \A x \in Workers : Serves(x)' => request'[x].tag \in 1 .. issued'
        BY <1>2, <1>3, <1>4, <1>5, <2>1 DEF OnceInv, OwnTags
    <2>3. \A x, y \in Workers :
              Serves(x)' /\ Serves(y)' /\ request'[x].tag = request'[y].tag => x = y
        BY <1>2, <1>3, <1>4, <2>1 DEF OnceInv, OwnTags
    <2>4. \A t \in 1 .. MaxRequests : t > issued' => applied'[t] = 0
        BY <1>1 DEF OnceInv, OwnTags
    <2> QED BY <1>1, <1>4, <2>2, <2>3, <2>4 DEF OnceInv, OwnTags
<1>9. Attempt(w)'
    <2>1. response[w] = "none"
        BY <1>1 DEF OnceInv, Attempt
    <2> QED BY <1>1, <1>2, <1>7, <2>1 DEF Attempt, InTransit, Undecided
<1>10. \A x \in Workers : Attempt(x)'
    BY <1>1, <1>3, <1>9 DEF OnceInv, Attempt, InTransit
<1> QED BY <1>1, <1>8, <1>10 DEF OnceInv, AtMostOnce, OneUpdate

LEMMA OnceWriteSend ==
    ASSUME TypeInv, OnceInv, NEW w \in Workers, NEW link \in Links, WriteSend(w, link)
    PROVE  OnceInv'
<1>1. /\ pc[w] = "write" /\ UNCHANGED <<request, response, issued, applied>>
      /\ pc \in [Workers -> Pcs]
    BY DEF WriteSend, localVars, histVars, TypeInv, TypeOK
<1>2. faults' = 0 => faults = 0
    BY BoundsAssumption DEF WriteSend, Budget, TypeInv, TypeOK
<1>3. response[w] = "none" /\ ~InTransit(request[w].tag) /\ applied[request[w].tag] = 0
    BY <1>1 DEF OnceInv, Attempt, Undecided
<1>4. \A x \in Workers \ {w} : pc'[x] = pc[x]
    BY <1>1 DEF WriteSend, Goto
<1>5. CASE link = "good"
    <2> DEFINE u == [tag |-> request[w].tag, id |-> request[w].id,
                     data |-> customer[w], version |-> version[w]]
    <2>1. u.tag = request[w].tag
        OBVIOUS
    <2>2. updates' = updates \cup {u} /\ pc'[w] = "sent"
        BY <1>1, <1>5 DEF WriteSend, Goto
    <2> HIDE DEF u
    <2>3. Serves(w)
        BY <1>1 DEF Serves
    <2>4. \A x \in Workers : Serves(x)' => Serves(x)
        BY <1>4, <2>3 DEF Serves
    <2>5. OwnTags'
        BY <1>1, <2>1, <2>2, <2>3, <2>4 DEF OnceInv, OwnTags
    <2>6. OneUpdate'
        BY <1>1, <1>3, <2>1, <2>2 DEF OnceInv, OneUpdate, InTransit
    <2>7. \A t : t # request[w].tag => (InTransit(t)' <=> InTransit(t))
        BY <2>1, <2>2 DEF InTransit
    <2>8. Attempt(w)'
        BY <1>1, <1>3, <2>1, <2>2 DEF Attempt, InTransit, Undecided
    <2>9. ASSUME NEW x \in Workers \ {w} PROVE Attempt(x)'
        <3>1. ~Serves(x) => response[x] = "none"
            BY DEF OnceInv, Attempt, Serves
        <3>2. Serves(x) => request[x].tag # request[w].tag
            BY <2>3 DEF OnceInv, OwnTags
        <3>3. Attempt(x)
            BY DEF OnceInv
        <3> QED BY <1>1, <1>2, <1>4, <2>7, <3>1, <3>2, <3>3 DEF Attempt, Serves, Undecided
    <2> QED BY <1>1, <2>5, <2>6, <2>8, <2>9 DEF OnceInv, AtMostOnce
<1>6. CASE link # "good"
    <2>1. UNCHANGED updates /\ pc'[w] = "read"
        BY <1>1, <1>6 DEF WriteSend, Goto
    <2>2. Attempt(w)'
        BY <1>1, <1>3, <2>1 DEF Attempt, InTransit, Undecided
    <2>3. Serves(w)
        BY <1>1 DEF Serves
    <2> QED BY <1>1, <1>2, <1>4, <2>1, <2>2, <2>3, OnceWorker
<1> QED BY <1>5, <1>6

LEMMA OnceServerUpdate ==
    ASSUME TypeInv, OnceInv, NEW u \in updates, ServerUpdate(u)
    PROVE  OnceInv'
<1> DEFINE t == u.tag
           n == IF Matches(u) THEN 1 ELSE 0
           what == IF Matches(u) THEN "modified" ELSE "unmodified"
<1>1. updates' = updates \ {u} /\ UNCHANGED <<pc, request, issued, faults>>
    BY DEF ServerUpdate, localVars, linkVars
<1>2. t \in 1 .. issued /\ t \in 1 .. MaxRequests /\ applied[t] = 0
    BY BoundsAssumption DEF TypeInv, TypeOK, OnceInv, OwnTags, OneUpdate
<1>3. applied' = [applied EXCEPT ![t] = n]
    <2>1. CASE Matches(u)
        BY <1>2, <2>1 DEF ServerUpdate
    <2>2. CASE ~Matches(u)
        BY <1>2, <2>2 DEF ServerUpdate, TypeInv, TypeOK
    <2> QED BY <2>1, <2>2
<1>4. applied'[t] = n /\ \A s \in 1 .. MaxRequests : s # t => applied'[s] = applied[s]
    BY <1>2, <1>3 DEF TypeInv, TypeOK
<1>5. \A x \in Workers :
          response'[x] = IF pc[x] = "sent" /\ request[x].tag = t THEN what ELSE response[x]
    BY DEF ServerUpdate, Respond, Waiting
<1>6. ~InTransit(t)' /\ \A s : s # t => (InTransit(s)' <=> InTransit(s))
    BY <1>1 DEF InTransit, OnceInv, OneUpdate
<1>7. (what = "modified" /\ n = 1) \/ (what = "unmodified" /\ n = 0)
    OBVIOUS
<1> HIDE DEF n, what
<1>8. n = 0 \/ n = 1
    BY <1>7
<1>9. AtMostOnce'
    BY <1>2, <1>4, <1>8 DEF OnceInv, AtMostOnce
<1>10. OwnTags'
    <2>1. \A s \in 1 .. MaxRequests : s > issued => s # t
        BY <1>2, BoundsAssumption DEF TypeInv, TypeOK
    <2> QED BY <1>1, <1>4, <2>1 DEF OnceInv, OwnTags, Serves
<1>11. OneUpdate'
    <2>1. \A v \in updates : v.tag \in 1 .. MaxRequests
        BY BoundsAssumption DEF TypeInv, TypeOK, OnceInv, OwnTags
    <2> QED BY <1>1, <1>4, <2>1 DEF OnceInv, OneUpdate
<1>12. ASSUME NEW x \in Workers PROVE Attempt(x)'
    <2>1. Attempt(x)
        BY DEF OnceInv
    <2>2. InTransit(t)
        BY DEF InTransit
    <2>3. CASE Serves(x) /\ request[x].tag = t /\ pc[x] = "sent"
        BY <1>1, <1>4, <1>5, <1>6, <1>7, <2>3 DEF Attempt, Undecided
    <2>4. CASE Serves(x) /\ request[x].tag = t /\ pc[x] # "sent"
        <3>1. /\ pc[x] \notin Undecided /\ response[x] = "none"
              /\ ~(pc[x] \in {"unlock", "ok"} /\ faults = 0)
            BY <1>2, <2>1, <2>2, <2>4 DEF Attempt
        <3> QED BY <1>1, <1>5, <2>4, <3>1 DEF Attempt
    <2>5. CASE Serves(x) /\ request[x].tag # t
        <3>1. request[x].tag \in 1 .. MaxRequests
            BY <2>5, BoundsAssumption DEF TypeInv, TypeOK, OnceInv, OwnTags
        <3>2. applied'[request[x].tag] = applied[request[x].tag]
            BY <1>4, <2>5, <3>1
        <3>3. InTransit(request[x].tag)' <=> InTransit(request[x].tag)
            BY <1>1, <1>6, <2>5
        <3> QED BY <1>1, <1>5, <2>1, <2>5, <3>2, <3>3 DEF Attempt
    <2>6. CASE ~Serves(x)
        <3>1. response[x] = "none"
            BY <2>1, <2>6 DEF Attempt, Serves
        <3> QED BY <1>1, <1>5, <2>6, <3>1 DEF Attempt, Serves, Undecided
    <2> QED BY <2>3, <2>4, <2>5, <2>6
<1> QED BY <1>9, <1>10, <1>11, <1>12 DEF OnceInv

(* An error code is answered in place of executing the update, which is    *)
(* gone; it is charged to the faults, so that the 200 is not counted on.   *)
LEMMA OnceWriteError ==
    ASSUME TypeInv, OnceInv, NEW w \in Workers, WriteError(w)
    PROVE  OnceInv'
<1> DEFINE t == request[w].tag
<1>1. /\ pc[w] = "sent" /\ InTransit(t)
      /\ updates' = {u \in updates : u.tag # t}
      /\ UNCHANGED <<request, response, issued, applied>>
    BY DEF WriteError, InTransit, localVars, histVars
<1>2. faults' # 0
    BY BoundsAssumption DEF WriteError, Budget, TypeInv, TypeOK
<1>3. pc'[w] = "unlock" /\ \A x \in Workers \ {w} : pc'[x] = pc[x]
    BY DEF WriteError, Goto, TypeInv, TypeOK
<1>4. \A s : s # t => (InTransit(s)' <=> InTransit(s))
    BY <1>1 DEF InTransit
<1>5. Serves(w) /\ \A x \in Workers : Serves(x)' => Serves(x)
    BY <1>1, <1>3 DEF Serves
<1>6. OwnTags'
    BY <1>1, <1>5 DEF OnceInv, OwnTags
<1>7. OneUpdate'
    BY <1>1 DEF OnceInv, OneUpdate
<1>8. Attempt(w)'
    BY <1>1, <1>2, <1>3 DEF OnceInv, Attempt, Undecided
<1>9. ASSUME NEW x \in Workers \ {w} PROVE Attempt(x)'
    <2>1. Serves(x) => request[x].tag # t
        BY <1>5 DEF OnceInv, OwnTags
    <2>2. Attempt(x)
        BY DEF OnceInv
    <2>3. Serves(x) => (InTransit(request[x].tag)' <=> InTransit(request[x].tag))
        BY <1>1, <1>4, <2>1
    <2> QED BY <1>1, <1>2, <1>3, <2>2, <2>3 DEF Attempt, Serves, Undecided
<1> QED BY <1>1, <1>6, <1>7, <1>8, <1>9 DEF OnceInv, AtMostOnce

LEMMA OnceCrash ==
    ASSUME TypeInv, OnceInv, NEW p \in Procs, Crash(p) PROVE OnceInv'
<1>1. UNCHANGED <<request, updates, issued, applied, faults>>
    BY DEF Crash, Die, localVars, histVars
<1>2. \A x \in Workers :
          \/ pc'[x] = "off" /\ response'[x] = "none"
          \/ pc'[x] = pc[x] /\ response'[x] = response[x]
    BY DEF Crash, Die
<1>3. \A x \in Workers : Serves(x)' => Serves(x)
    BY <1>2 DEF Serves
<1>4. \A x \in Workers : Attempt(x)'
    BY <1>1, <1>2 DEF OnceInv, Attempt, InTransit, Undecided
<1> QED BY <1>1, <1>3, <1>4 DEF OnceInv, AtMostOnce, OwnTags, OneUpdate

LEMMA OnceStep ==
    ASSUME TypeInv, OnceInv, NEW w \in Workers, WorkerStep(w) PROVE OnceInv'
<1>1. /\ pc \in [Workers -> Pcs] /\ response \in [Workers -> Responses]
      /\ faults \in Nat /\ Attempt(w)
    BY BoundsAssumption DEF TypeInv, TypeOK, OnceInv
<1>2. CASE Lock(w)
    <2>1. Attempt(w)'
        BY <1>1, <1>2 DEF Lock, Goto, localVars, wireVars, linkVars, histVars, Attempt,
           InTransit, Undecided
    <2> QED BY <1>1, <1>2, <2>1, OnceWorker
            DEF Lock, Goto, localVars, wireVars, linkVars, histVars, Serves
<1>3. ASSUME NEW link \in Links, ReadCustomerHs(w, link) PROVE OnceInv'
    <2>1. /\ pc[w] \in {"read", "get"} /\ pc'[w] \in Undecided
          /\ UNCHANGED <<request, updates, response, issued, applied>>
          /\ \A x \in Workers \ {w} : pc'[x] = pc[x]
        BY <1>1, <1>3 DEF ReadCustomerHs, Goto, AfterRead, wireVars, Undecided
    <2>2. faults' = 0 => faults = 0
        BY <1>1, <1>3 DEF ReadCustomerHs, Budget
    <2>3. Attempt(w)'
        BY <1>1, <2>1 DEF Attempt, InTransit, Undecided
    <2> QED BY <2>1, <2>2, <2>3, OnceWorker DEF Serves
<1>4. CASE Check(w)
    <2>1. /\ pc[w] = "check" /\ pc'[w] \in Undecided
          /\ UNCHANGED <<request, updates, response, issued, applied, faults>>
          /\ \A x \in Workers \ {w} : pc'[x] = pc[x]
        BY <1>1, <1>4 DEF Check, Goto, wireVars, histVars, linkVars, Undecided
    <2>2. Attempt(w)'
        BY <1>1, <2>1 DEF Attempt, InTransit, Undecided
    <2> QED BY <2>1, <2>2, OnceWorker DEF Serves
<1>5. CASE WriteRecv(w)
    <2>1. /\ pc[w] = "sent" /\ response[w] \in {"modified", "unmodified"}
          /\ response' = [response EXCEPT ![w] = "none"]
          /\ pc' = [pc EXCEPT ![w] = IF response[w] = "modified" THEN "unlock" ELSE "read"]
          /\ UNCHANGED <<request, updates, issued, applied, faults>>
        BY <1>1, <1>5 DEF WriteRecv, Goto, Responses, localVars, linkVars, histVars
    <2>2. Attempt(w)'
        BY <1>1, <2>1 DEF Attempt, InTransit, Undecided
    <2> QED BY <1>1, <2>1, <2>2, OnceWorker DEF Serves
<1>6. CASE WriteLost(w)
    <2>1. /\ pc[w] = "sent" /\ response' = [response EXCEPT ![w] = "none"]
          /\ pc' = [pc EXCEPT ![w] = "unlock"] /\ faults' # 0
          /\ UNCHANGED <<request, updates, issued, applied>>
        BY <1>1, <1>6 DEF WriteLost, Goto, Budget, localVars, histVars
    <2>2. Attempt(w)'
        BY <1>1, <2>1 DEF Attempt, Undecided
    <2> QED BY <1>1, <2>1, <2>2, OnceWorker DEF Serves
<1>7. CASE Unlock(w)
    <2>1. /\ pc[w] = "unlock" /\ pc' = [pc EXCEPT ![w] = "ok"]
          /\ UNCHANGED <<request, updates, response, issued, applied, faults>>
        BY <1>7 DEF Unlock, Goto, localVars, wireVars, linkVars, histVars
    <2>2. Attempt(w)'
        BY <1>1, <2>1 DEF Attempt, Undecided
    <2> QED BY <1>1, <2>1, <2>2, OnceWorker DEF Serves
<1>8. CASE SendAnswer(w)
    <2>1. /\ pc[w] \in {"ok", "extract", "limit", "notfound"}
          /\ pc' = [pc EXCEPT ![w] = "idle"]
          /\ UNCHANGED <<request, updates, response, issued, applied, faults>>
        BY <1>8 DEF SendAnswer, Goto, localVars, wireVars, linkVars, histVars
    <2>2. Attempt(w)'
        BY <1>1, <2>1 DEF Attempt, Undecided
    <2> QED BY <1>1, <2>1, <2>2, OnceWorker DEF Serves
<1> QED BY <1>2, <1>3, <1>4, <1>5, <1>6, <1>7, <1>8, OnceWriteSend, OnceWriteError
        DEF WorkerStep

(* A step that concerns no request. *)
LEMMA OnceIdle ==
    ASSUME OnceInv, UNCHANGED <<pc, request, response, updates, issued, faults, applied>>
    PROVE  OnceInv'
BY DEF OnceInv, AtMostOnce, OwnTags, OneUpdate, Attempt, Serves, InTransit

LEMMA OnceNext == TypeInv /\ OnceInv /\ [Next]_vars => OnceInv'
<1> SUFFICES ASSUME TypeInv, OnceInv, [Next]_vars PROVE OnceInv'
    OBVIOUS
<1>1. ASSUME NEW p \in Procs, ProcNext(p) PROVE OnceInv'
    <2>1. CASE Connect(p)
        BY <2>1, OnceIdle DEF Connect, localVars, wireVars, linkVars, histVars
    <2>2. CASE InsertCustomer(p)
        BY <2>2, OnceIdle DEF InsertCustomer, localVars, wireVars, linkVars
    <2>3. CASE StartThreads(p)
        BY <2>3, OnceIdle DEF StartThreads, localVars, wireVars, linkVars, histVars
    <2> QED BY <1>1, <2>1, <2>2, <2>3, OnceCrash DEF ProcNext
<1>2. ASSUME NEW w \in Workers, WorkerNext(w) PROVE OnceInv'
    <2>1. ASSUME NEW r, NEW s, InitializeHs(w, r, s) PROVE OnceInv'
        <3>1. /\ pc[w] = "off" /\ pc'[w] = "idle"
              /\ \A x \in Workers \ {w} : pc'[x] = pc[x]
              /\ UNCHANGED <<request, response, updates, issued, applied>>
            BY <2>1 DEF InitializeHs, Goto, localVars, wireVars, histVars, TypeInv, TypeOK
        <3>2. faults' = 0 => faults = 0
            BY <2>1, BoundsAssumption DEF InitializeHs, Budget, TypeInv, TypeOK
        <3>3. Attempt(w)'
            BY <3>1 DEF OnceInv, Attempt, Undecided
        <3> QED BY <3>1, <3>2, <3>3, OnceWorker
    <2>2. ASSUME NEW i \in RequestIds,
                 (\E v \in Values : ExecuteTransaction(w, i, v)) \/ GetCustomer(w, i)
          PROVE  OnceInv'
        BY <2>2, ReceiveCases, OnceReceive
    <2> QED BY <1>2, <2>1, <2>2, OnceStep DEF WorkerNext
<1>3. ASSUME NEW u \in updates, ServerUpdate(u) PROVE OnceInv'
    BY <1>3, OnceServerUpdate
<1>4. CASE UNCHANGED vars
    BY <1>4, OnceIdle DEF vars
<1> QED BY <1>1, <1>2, <1>3, <1>4 DEF Next, Quiescent

(* Every transaction's update is accounted for in every reachable state. *)
LEMMA OnceInvariant == Spec => []OnceInv
BY OnceInit, OnceNext, TypeInvariant, PTL DEF Spec

(***************************************************************************)
(* No transaction is applied twice: a retry after a failed send or a lost  *)
(* compare-and-swap, an update executed after its sender gave up on the    *)
(* answer, or after its process died, never adds to one that was applied.  *)
(***************************************************************************)
THEOREM AppliedAtMostOnce == Spec => []AtMostOnce
<1>1. OnceInv => AtMostOnce
    BY DEF OnceInv
<1> QED BY <1>1, OnceInvariant, PTL

(***************************************************************************)
(* A worker about to answer 422 has applied nothing; one about to answer   *)
(* 200 has applied its transaction exactly once, unless a HandlerSocket    *)
(* call has failed, whose error WriteCustomerHs takes for success.         *)
(***************************************************************************)
THEOREM AnswersAlwaysTruthful == Spec => []AnswersTruthful
<1>1. OnceInv => AnswersTruthful
    BY DEF OnceInv, Attempt, Undecided, AnswersTruthful
<1> QED BY <1>1, OnceInvariant, PTL

-----------------------------------------------------------------------------
(* No update is lost.                                                      *)

(* The worker has read its customer's row for this attempt. *)
Reading(w) == pc[w] \in {"check", "write", "sent"}

(* The row is still the one the worker has read. *)
Current(w) ==
    version[w] = db[request[w].id].version /\ request[w].tag \notin overtaken

(* What the worker holds of a row that has not changed since it read it. *)
Fresh(w) ==
    /\ Reading(w) => version[w] <= db[request[w].id].version
    /\ pc[w] = "check" /\ Current(w) => customer[w] = db[request[w].id].data
    /\ pc[w] = "write" /\ Current(w) =>
           customer[w] = Execute(db[request[w].id].data, Tx(w))
    /\ pc[w] = "sent" =>
           \A u \in updates :
               u.tag = request[w].tag /\ Matches(u) /\ u.tag \notin overtaken
                   => u.data = Execute(db[u.id].data, Tx(w))

(* No update is ahead of its row: what changes the row outdates it. *)
NoneAhead == \A u \in updates : db[u.id] # NoRow /\ u.version <= db[u.id].version

(***************************************************************************)
(* The inductive invariant.  NoLostUpdate speaks of the update on the      *)
(* wire; its contents were right when the row was read, and the version    *)
(* tells whether they still are only because no copy is ever ahead of its  *)
(* row.                                                                    *)
(***************************************************************************)
FreshInv == NoneAhead /\ \A w \in Workers : Fresh(w)

(* A worker that has read a row finds it there. *)
LEMMA ReadingRow ==
    ASSUME TypeInv, RowsInv, NEW w \in Workers, Reading(w) \/ pc[w] \in {"read", "get"}
    PROVE  /\ request[w].id \in Ids /\ db[request[w].id] \in Row
           /\ db[request[w].id].version \in Nat /\ version[w] \in Nat /\ Serves(w)
<1>1. request[w].id \in Ids /\ db[request[w].id] # NoRow
    BY RowsThere DEF TypeInv, Serving, Reading, Critical, RowsPresent
<1> QED BY <1>1 DEF TypeInv, TypeOK, Row, Reading, Serves

(* A step of a worker leaves the table alone: what the others hold is as   *)
(* fresh as before, and what the worker itself holds is to be shown.       *)
LEMMA FreshWorker ==
    ASSUME OnceInv, FreshInv, NEW w \in Workers,
           UNCHANGED db, updates' \subseteq updates,
           \A x \in Workers \ {w} :
               /\ pc'[x] = pc[x] /\ request'[x] = request[x]
               /\ customer'[x] = customer[x] /\ version'[x] = version[x],
           \/ overtaken' = overtaken
           \/ Serves(w) /\ overtaken' = overtaken \ {request[w].tag},
           Fresh(w)'
    PROVE  FreshInv'
<1>1. NoneAhead'
    BY DEF FreshInv, NoneAhead
<1>2. ASSUME NEW x \in Workers \ {w} PROVE Fresh(x)'
    <2>1. CASE Reading(x)
        <3>1. Fresh(x) /\ Serves(x)
            BY <2>1 DEF FreshInv, Reading, Serves
        <3>2. Serves(w) => request[x].tag # request[w].tag
            BY <3>1 DEF OnceInv, OwnTags
        <3>3. request[x].tag \notin overtaken' => request[x].tag \notin overtaken
            BY <3>2
        <3>4. Tx(x)' = Tx(x) /\ Reading(x)' /\ (Current(x)' => Current(x))
            BY <2>1, <3>3 DEF Tx, Reading, Current
        <3>5. \A u : Matches(u)' = Matches(u)
            BY DEF Matches
        <3>6. pc'[x] = pc[x] /\ request'[x] = request[x] /\ customer'[x] = customer[x]
            OBVIOUS
        <3>7. ASSUME NEW u \in updates', u.tag = request[x].tag, Matches(u)',
                     u.tag \notin overtaken', pc[x] = "sent"
              PROVE  u.data = Execute(db'[u.id].data, Tx(x)')
            BY <3>1, <3>3, <3>4, <3>5, <3>7 DEF Fresh
        <3>8. Reading(x)' => version'[x] <= db'[request'[x].id].version
            BY <3>1, <3>4, <2>1 DEF Fresh
        <3> QED BY <3>1, <3>4, <3>6, <3>7, <3>8 DEF Fresh
    <2>2. CASE ~Reading(x)
        BY <2>2 DEF Fresh, Reading
    <2> QED BY <2>1, <2>2
<1> QED BY <1>1, <1>2 DEF FreshInv

LEMMA FreshRead ==
    ASSUME TypeInv, RowsInv, OnceInv, FreshInv, NEW w \in Workers, NEW link \in Links,
           ReadCustomerHs(w, link)
    PROVE  FreshInv'
<1> DEFINE i == request[w].id
<1>1. i \in Ids /\ db[i] \in Row /\ db[i].version \in Nat /\ Serves(w)
    BY ReadingRow DEF ReadCustomerHs
<1>2. db[i] # NoRow
    BY <1>1, NoRowAssumption
<1>3. UNCHANGED <<db, request, updates>>
    BY DEF ReadCustomerHs, wireVars
<1>4. \A x \in Workers \ {w} :
          pc'[x] = pc[x] /\ customer'[x] = customer[x] /\ version'[x] = version[x]
    BY DEF TypeInv, TypeOK, ReadCustomerHs, Goto
<1>5. overtaken' = overtaken \/ overtaken' = overtaken \ {request[w].tag}
    BY DEF ReadCustomerHs
<1>6. pc'[w] \in {"check", "read", "extract", "notfound"} /\ (pc'[w] = "check" => link = "good")
    BY DEF TypeInv, TypeOK, ReadCustomerHs, Goto, AfterRead
<1>7. link = "good" => customer'[w] = db[i].data /\ version'[w] = db[i].version
    BY <1>2 DEF TypeInv, TypeOK, ReadCustomerHs
<1>8. Fresh(w)'
    BY <1>1, <1>3, <1>6, <1>7 DEF Fresh, Reading
<1> QED BY <1>1, <1>3, <1>4, <1>5, <1>8, FreshWorker

LEMMA FreshCheck ==
    ASSUME TypeInv, OnceInv, FreshInv, NEW w \in Workers, Check(w)
    PROVE  FreshInv'
<1>1. pc[w] = "check" /\ UNCHANGED <<db, request, version, updates, overtaken>>
    BY DEF Check, wireVars, histVars
<1>2. \A x \in Workers \ {w} : pc'[x] = pc[x] /\ customer'[x] = customer[x]
    BY DEF TypeInv, TypeOK, Check, Goto
<1>3. \/ pc'[w] = "limit"
      \/ pc'[w] = "write" /\ customer'[w] = Execute(customer[w], Tx(w))
    BY DEF TypeInv, TypeOK, Check, Goto
<1>4. Tx(w)' = Tx(w) /\ Current(w)' = Current(w)
    BY <1>1 DEF Tx, Current
<1>5. Fresh(w)
    BY DEF FreshInv
<1>6. Fresh(w)'
    BY <1>1, <1>3, <1>4, <1>5 DEF Fresh, Reading
<1> QED BY <1>1, <1>2, <1>6, FreshWorker

LEMMA FreshWriteSend ==
    ASSUME TypeInv, RowsInv, OnceInv, FreshInv, NEW w \in Workers, NEW link \in Links,
           WriteSend(w, link)
    PROVE  FreshInv'
<1>1. pc[w] = "write" /\ UNCHANGED <<db, request, customer, version, overtaken>>
    BY DEF WriteSend, localVars, histVars
<1>2. \A x \in Workers \ {w} : pc'[x] = pc[x]
    BY DEF TypeInv, TypeOK, WriteSend, Goto
<1>3. CASE link = "good"
    <2> DEFINE u == [tag |-> request[w].tag, id |-> request[w].id,
                     data |-> customer[w], version |-> version[w]]
    <2>1. /\ u.tag = request[w].tag /\ u.id = request[w].id
          /\ u.data = customer[w] /\ u.version = version[w]
        OBVIOUS
    <2>2. updates' = updates \cup {u} /\ pc'[w] = "sent"
        BY <1>3 DEF TypeInv, TypeOK, WriteSend, Goto
    <2> HIDE DEF u
    <2>3. Fresh(w) /\ Reading(w) /\ Serves(w)
        BY <1>1 DEF FreshInv, Reading, Serves
    <2>4. db[u.id] # NoRow /\ u.version <= db[u.id].version
        BY <2>1, <2>3, ReadingRow, NoRowAssumption DEF Fresh
    <2>5. NoneAhead'
        BY <1>1, <2>2, <2>4 DEF FreshInv, NoneAhead
    <2>6. \A v : Matches(v)' = Matches(v)
        BY <1>1 DEF Matches
    <2>7. \A x \in Workers : Tx(x)' = Tx(x) /\ Current(x)' = Current(x)
        BY <1>1 DEF Tx, Current
    <2>8. \A v \in updates : v.tag # request[w].tag
        BY <1>1 DEF OnceInv, Attempt, Undecided, InTransit
    <2>9. Fresh(w)'
        <3>1. Matches(u) /\ u.tag \notin overtaken => u.data = Execute(db[u.id].data, Tx(w))
            BY <1>1, <2>1, <2>3 DEF Fresh, Matches, Current
        <3> QED BY <1>1, <2>1, <2>2, <2>3, <2>6, <2>7, <2>8, <3>1 DEF Fresh, Reading
    <2>10. ASSUME NEW x \in Workers \ {w} PROVE Fresh(x)'
        <3>1. Fresh(x)
            BY DEF FreshInv
        <3>2. pc[x] = "sent" => request[x].tag # u.tag
            BY <2>1, <2>3 DEF OnceInv, OwnTags, Serves
        <3> QED BY <1>1, <1>2, <2>2, <2>6, <2>7, <3>1, <3>2 DEF Fresh, Reading
    <2> QED BY <2>5, <2>9, <2>10 DEF FreshInv
<1>4. CASE link # "good"
    <2>1. UNCHANGED updates /\ pc'[w] = "read"
        BY <1>4 DEF TypeInv, TypeOK, WriteSend, Goto
    <2>2. Fresh(w)'
        BY <2>1 DEF Fresh, Reading
    <2> QED BY <1>1, <1>2, <2>1, <2>2, FreshWorker
<1> QED BY <1>3, <1>4

(* The update that wins outdates every other copy of the row. *)
LEMMA FreshServerUpdate ==
    ASSUME TypeInv, RowsInv, FreshInv, NEW u \in updates, ServerUpdate(u)
    PROVE  FreshInv'
<1>1. /\ updates' \subseteq updates
      /\ UNCHANGED <<pc, request, customer, version, overtaken>>
    BY DEF ServerUpdate, localVars
<1>2. \A x \in Workers : Tx(x)' = Tx(x) /\ Reading(x)' = Reading(x)
    BY <1>1 DEF Tx, Reading
<1>3. CASE Matches(u)
    <2> DEFINE r == [data |-> u.data, version |-> u.version + 1]
    <2>1. /\ u.id \in Ids /\ u.version \in Nat /\ r \in Row
          /\ db[u.id].version = u.version
        BY <1>3 DEF TypeInv, TypeOK, Update, Row, Matches
    <2>2. r.version = u.version + 1
        OBVIOUS
    <2>3. db' = [db EXCEPT ![u.id] = r] /\ db \in [Ids -> Row \cup {NoRow}]
        BY <1>3 DEF ServerUpdate, TypeInv, TypeOK
    <2> HIDE DEF r
    <2>4. /\ db'[u.id].version = u.version + 1 /\ db'[u.id] # NoRow
          /\ \A i \in Ids : i # u.id => db'[i] = db[i]
        BY <2>1, <2>2, <2>3, NoRowAssumption
    <2>5. \A v \in updates : /\ v.id \in Ids /\ v.version \in Nat
                             /\ v.id = u.id => v.version < u.version + 1
        BY <2>1 DEF TypeInv, TypeOK, Update, FreshInv, NoneAhead
    <2>6. NoneAhead'
        BY <1>1, <2>1, <2>4, <2>5 DEF FreshInv, NoneAhead
    <2>7. \A v \in updates : Matches(v)' => v.id # u.id /\ Matches(v)
        BY <2>1, <2>4, <2>5 DEF Matches
    <2>8. ASSUME NEW x \in Workers PROVE Fresh(x)'
        <3>1. Fresh(x)
            BY DEF FreshInv
        <3>2. CASE Reading(x) /\ request[x].id = u.id
            <4>1. /\ version[x] \in Nat /\ version[x] < u.version + 1
                BY <2>1, <3>1, <3>2, ReadingRow DEF Fresh
            <4>2. ~Current(x)' /\ version[x] <= db'[request[x].id].version
                BY <1>1, <2>1, <2>4, <3>2, <4>1 DEF Current
            <4> QED BY <1>1, <1>2, <2>4, <2>5, <2>7, <3>1, <4>2 DEF Fresh
        <3>3. CASE Reading(x) /\ request[x].id # u.id
            <4>1. db'[request[x].id] = db[request[x].id]
                BY <2>4, <3>3, ReadingRow
            <4>2. Current(x)' = Current(x)
                BY <1>1, <4>1 DEF Current
            <4> QED BY <1>1, <1>2, <2>4, <2>5, <2>7, <3>1, <4>1, <4>2 DEF Fresh
        <3>4. CASE ~Reading(x)
            BY <1>1, <3>4 DEF Fresh, Reading
        <3> QED BY <3>2, <3>3, <3>4
    <2> QED BY <2>6, <2>8 DEF FreshInv
<1>4. CASE ~Matches(u)
    <2>1. UNCHANGED db
        BY <1>4 DEF ServerUpdate
    <2>2. \A v : Matches(v)' = Matches(v)
        BY <2>1 DEF Matches
    <2>3. \A x \in Workers : Current(x)' = Current(x)
        BY <1>1, <2>1 DEF Current
    <2>4. \A x \in Workers : Fresh(x)'
        BY <1>1, <1>2, <2>1, <2>2, <2>3 DEF FreshInv, Fresh
    <2> QED BY <1>1, <2>1, <2>4 DEF FreshInv, NoneAhead
<1> QED BY <1>3, <1>4

(* A process that starts outdates every copy of the row it inserts, and    *)
(* says so in overtaken, for the version does not.                         *)
LEMMA FreshInsert ==
    ASSUME TypeInv, RowsInv, FreshInv, NEW p \in Procs, InsertCustomer(p)
    PROVE  FreshInv'
<1> DEFINE i == inserting[p]
<1>1. UNCHANGED <<pc, request, customer, version, updates>>
    BY DEF InsertCustomer, localVars, wireVars
<1>2. overtaken' = overtaken \cup Readers(i) /\ i \in Ids
    BY InsertRows DEF InsertCustomer
<1>3. \A j \in Ids : j # i => db'[j] = db[j]
    BY DEF InsertCustomer, TypeInv, TypeOK
<1>4. RowsKept
    BY InsertRows
<1>5. db[i] # NoRow => db'[i].version = db[i].version
    BY <1>2 DEF InsertCustomer, Reinserted, TypeInv, TypeOK
<1> HIDE DEF i
<1>6. \A u \in updates : u.id \in Ids /\ (u.id = i => u.tag \in overtaken')
    BY <1>2 DEF Readers, TypeInv, TypeOK, Update
<1>7. \A x \in Workers : Reading(x) /\ request[x].id = i => request[x].tag \in overtaken'
    BY <1>2 DEF Readers, Reading
<1>8. NoneAhead'
    BY <1>1, <1>3, <1>4, <1>5, <1>6 DEF FreshInv, NoneAhead, RowsKept
<1>9. ASSUME NEW x \in Workers, Reading(x) PROVE Fresh(x)'
    <2>1. Fresh(x) /\ Tx(x)' = Tx(x)
        BY <1>1 DEF FreshInv, Tx
    <2>2. request[x].id \in Ids /\ db[request[x].id] # NoRow
        BY <1>9, ReadingRow, NoRowAssumption
    <2>3. version[x] <= db'[request[x].id].version
        BY <1>3, <1>5, <1>9, <2>1, <2>2 DEF Fresh
    <2>4. Current(x)' => Current(x) /\ db'[request[x].id] = db[request[x].id]
        BY <1>1, <1>2, <1>3, <1>7, <1>9, <2>2 DEF Current
    <2>5. ASSUME NEW u \in updates, Matches(u)', u.tag \notin overtaken'
          PROVE  Matches(u) /\ u.tag \notin overtaken /\ db'[u.id] = db[u.id]
        BY <1>2, <1>3, <1>6, <2>5 DEF Matches
    <2> QED BY <1>1, <2>1, <2>3, <2>4, <2>5 DEF Fresh
<1>10. \A x \in Workers : ~Reading(x) => Fresh(x)'
    BY <1>1 DEF Fresh, Reading
<1> QED BY <1>8, <1>9, <1>10 DEF FreshInv

(* A step that changes no row and takes no worker to a place where         *)
(* FreshInv says something of what it holds.                               *)
LEMMA FreshFrame ==
    ASSUME FreshInv, UNCHANGED <<db, overtaken>>, updates' \subseteq updates,
           \A x \in Workers :
               \/ ~Reading(x)'
               \/ /\ pc'[x] = pc[x] /\ request'[x] = request[x]
                  /\ customer'[x] = customer[x] /\ version'[x] = version[x]
    PROVE  FreshInv'
<1>1. NoneAhead'
    BY DEF FreshInv, NoneAhead
<1>2. \A u : Matches(u)' = Matches(u)
    BY DEF Matches
<1>3. ASSUME NEW x \in Workers PROVE Fresh(x)'
    <2>1. CASE ~Reading(x)'
        BY <2>1 DEF Fresh, Reading
    <2>2. CASE /\ pc'[x] = pc[x] /\ request'[x] = request[x]
               /\ customer'[x] = customer[x] /\ version'[x] = version[x]
        <3>1. Fresh(x) /\ Tx(x)' = Tx(x) /\ Current(x)' = Current(x)
            BY <2>2 DEF FreshInv, Tx, Current
        <3> QED BY <1>2, <2>2, <3>1 DEF Fresh, Reading
    <2> QED BY <2>1, <2>2
<1> QED BY <1>1, <1>3 DEF FreshInv

LEMMA FreshStep ==
    ASSUME TypeInv, RowsInv, OnceInv, FreshInv, NEW w \in Workers, WorkerStep(w)
    PROVE  FreshInv'
<1>1. pc \in [Workers -> Pcs]
    BY DEF TypeInv, TypeOK
<1>2. CASE Lock(w)
    BY <1>1, <1>2, FreshFrame DEF Lock, Goto, Reading, localVars, wireVars, histVars
<1>3. CASE WriteRecv(w)
    BY <1>1, <1>3, FreshFrame DEF WriteRecv, Goto, Reading, localVars, histVars
<1>4. CASE WriteError(w)
    <2>1. /\ updates' \subseteq updates
          /\ UNCHANGED <<db, request, customer, version, overtaken>>
        BY <1>4 DEF WriteError, localVars, histVars
    <2> QED BY <1>1, <1>4, <2>1, FreshFrame DEF WriteError, Goto, Reading
<1>5. CASE WriteLost(w)
    BY <1>1, <1>5, FreshFrame DEF WriteLost, Goto, Reading, localVars, histVars
<1>6. CASE Unlock(w)
    BY <1>1, <1>6, FreshFrame DEF Unlock, Goto, Reading, localVars, wireVars, histVars
<1>7. CASE SendAnswer(w)
    BY <1>1, <1>7, FreshFrame DEF SendAnswer, Goto, Reading, localVars, wireVars
<1> QED BY <1>2, <1>3, <1>4, <1>5, <1>6, <1>7, FreshRead, FreshCheck, FreshWriteSend
        DEF WorkerStep

LEMMA FreshNext ==
    TypeInv /\ RowsInv /\ OnceInv /\ FreshInv /\ [Next]_vars => FreshInv'
<1> SUFFICES ASSUME TypeInv, RowsInv, OnceInv, FreshInv, [Next]_vars PROVE FreshInv'
    OBVIOUS
<1>1. pc \in [Workers -> Pcs] /\ request \in [Workers -> Request]
    BY DEF TypeInv, TypeOK
<1>2. ASSUME NEW p \in Procs, ProcNext(p) PROVE FreshInv'
    <2>1. CASE Connect(p)
        BY <2>1, FreshFrame DEF Connect, localVars, wireVars, histVars
    <2>2. CASE StartThreads(p)
        BY <2>2, FreshFrame DEF StartThreads, localVars, wireVars, histVars
    <2>3. CASE Crash(p)
        BY <1>1, <2>3, FreshFrame DEF Crash, Die, Reading, localVars, histVars
    <2> QED BY <1>2, <2>1, <2>2, <2>3, FreshInsert DEF ProcNext
<1>3. ASSUME NEW w \in Workers, WorkerNext(w) PROVE FreshInv'
    <2>1. ASSUME NEW r, NEW s, InitializeHs(w, r, s) PROVE FreshInv'
        BY <1>1, <2>1, FreshFrame
           DEF InitializeHs, Goto, Reading, localVars, wireVars, histVars
    <2>2. ASSUME NEW i \in RequestIds, NEW v \in Int32, NEW label \in {"lock", "get"},
                 Receive(w, i, v, label)
          PROVE  FreshInv'
        BY <1>1, <2>2, FreshFrame DEF Receive, Goto, Reading, wireVars
    <2>3. ASSUME NEW i \in RequestIds,
                 (\E v \in Values : ExecuteTransaction(w, i, v)) \/ GetCustomer(w, i)
          PROVE  FreshInv'
        BY <2>2, <2>3, ReceiveCases
    <2> QED BY <1>3, <2>1, <2>3, FreshStep DEF WorkerNext
<1>4. ASSUME NEW u \in updates, ServerUpdate(u) PROVE FreshInv'
    BY <1>4, FreshServerUpdate
<1>5. CASE UNCHANGED vars
    BY <1>5, FreshFrame DEF vars
<1> QED BY <1>2, <1>3, <1>4, <1>5 DEF Next, Quiescent

(* No copy of a row is stale without its version telling. *)
LEMMA FreshInvariant == Spec => []FreshInv
<1>1. Init => FreshInv
    BY DEF Init, FreshInv, NoneAhead, Fresh, Reading
<1> QED BY <1>1, FreshNext, OnceInvariant, RowsInvariant, TypeInvariant, PTL DEF Spec

(***************************************************************************)
(* An update that would still match its row carries the row's present      *)
(* contents plus its own transaction, for any number of processes and      *)
(* threads, any failures and any crashes: the compare-and-swap on the      *)
(* version loses nobody's update.  Only the rows that a late start-up of   *)
(* another process resets are exempt.                                      *)
(***************************************************************************)
THEOREM NoUpdateLost == Spec => []NoLostUpdate
<1>1. FreshInv => NoLostUpdate
    BY DEF FreshInv, Fresh, NoLostUpdate
<1> QED BY <1>1, FreshInvariant, PTL

-----------------------------------------------------------------------------
(***************************************************************************)
(* The engine implements the Bank, as long as no call fails, no process    *)
(* crashes and every process has started before the first request: each    *)
(* step of the engine is a step of the Bank or none at all.                *)
(***************************************************************************)

(* What MariaDatabaseBank assumes: no failure, no crash, no late start. *)
Calm == MaxFaults = 0 /\ MaxCrashes = 0 /\ RouterWaits = TRUE

-----------------------------------------------------------------------------
(* The refinement mapping, one worker at a time.                           *)

LEMMA SameNoAnswer == B!NoAnswer = NoAnswer
BY DEF NoAnswer, B!NoAnswer

Said(b) == [NoAnswer EXCEPT !.status = "ok", !.balance = b]
Refused == [NoAnswer EXCEPT !.status = "limit"]
Unknown == [NoAnswer EXCEPT !.status = "notfound"]
Shown(c) == [status |-> "ok", balance |-> c.balance, listing |-> Listing(c)]

(* What the Bank sees of a worker. *)
Sees(w, stage, decision) == bankStage[w] = stage /\ bankDecision[w] = decision

Mapped(w) ==
    /\ pc[w] \in {"off", "idle"} => Sees(w, "idle", NoAnswer)
    /\ pc[w] \in {"lock", "read", "write"} => Sees(w, "transaction", NoAnswer)
    /\ pc[w] = "get" => Sees(w, "query", NoAnswer)
    /\ pc[w] = "check" /\ ~LimitExceeded(customer[w], Tx(w)) =>
           Sees(w, "transaction", NoAnswer)
    /\ pc[w] = "check" /\ LimitExceeded(customer[w], Tx(w)) => Sees(w, "decided", Refused)
    /\ pc[w] = "sent" /\ response[w] # "modified" => Sees(w, "transaction", NoAnswer)
    /\ pc[w] = "sent" /\ response[w] = "modified" =>
           Sees(w, "decided", Said(customer[w].balance))
    /\ pc[w] \in {"unlock", "ok"} => Sees(w, "decided", Said(customer[w].balance))
    /\ pc[w] = "extract" => Sees(w, "decided", Shown(customer[w]))
    /\ pc[w] = "limit" => Sees(w, "decided", Refused)
    /\ pc[w] = "notfound" => Sees(w, "decided", Unknown)

LEMMA MappedNow == \A w \in Workers : Mapped(w)
<1> SUFFICES ASSUME NEW w \in Workers PROVE Mapped(w)
    OBVIOUS
<1> DEFINE D == DecidedAlready(w)
<1>1. /\ pc[w] \in {"off", "idle", "lock", "read", "write", "get"} => ~D
      /\ pc[w] = "check" => (D <=> LimitExceeded(customer[w], Tx(w)))
      /\ pc[w] = "sent" => (D <=> response[w] = "modified")
      /\ pc[w] \in {"unlock", "ok", "extract", "limit", "notfound"} => D
    BY DEF DecidedAlready
<1>2. bankStage[w] = CASE pc[w] \in {"off", "idle"} -> "idle"
                       [] D -> "decided"
                       [] pc[w] = "get" -> "query"
                       [] OTHER -> "transaction"
    BY DEF bankStage
<1>3. bankDecision[w] =
          IF ~D THEN NoAnswer
          ELSE CASE pc[w] = "check" -> Refused
                 [] pc[w] \in {"sent", "unlock"} -> Said(customer[w].balance)
                 [] OTHER -> Answer(w)
    BY DEF bankDecision, Refused, Said
<1> HIDE DEF D
<1>4. D => pc[w] \notin {"off", "idle", "get"}
    BY <1>1
<1>5. pc[w] = "ok" => Answer(w) = Said(customer[w].balance)
    BY DEF Answer, Said
<1>6. pc[w] = "extract" => Answer(w) = Shown(customer[w])
    BY DEF Answer, Shown
<1>7. pc[w] = "limit" => Answer(w) = Refused
    BY DEF Answer, Refused
<1>8. pc[w] = "notfound" => Answer(w) = Unknown
    BY DEF Answer, Unknown
<1>9. CASE ~D
    <2>1. bankDecision[w] = NoAnswer
        BY <1>3, <1>9
    <2>2. pc[w] \in {"off", "idle"} => bankStage[w] = "idle"
        BY <1>2, <1>9
    <2>3. pc[w] = "get" => bankStage[w] = "query"
        BY <1>2, <1>9
    <2>4. pc[w] \in {"lock", "read", "write", "check", "sent"} => bankStage[w] = "transaction"
        BY <1>2, <1>9
    <2> QED BY <1>1, <1>9, <2>1, <2>2, <2>3, <2>4 DEF Mapped, Sees
<1>10. CASE D
    <2>1. bankStage[w] = "decided"
        BY <1>2, <1>4, <1>10
    <2>2. pc[w] = "check" => bankDecision[w] = Refused
        BY <1>3, <1>10
    <2>3. pc[w] \in {"sent", "unlock"} => bankDecision[w] = Said(customer[w].balance)
        BY <1>3, <1>10
    <2>4. pc[w] \in {"ok", "extract", "limit", "notfound"} => bankDecision[w] = Answer(w)
        BY <1>3, <1>10
    <2> QED BY <1>1, <1>5, <1>6, <1>7, <1>8, <1>10, <2>1, <2>2, <2>3, <2>4
            DEF Mapped, Sees
<1> QED BY <1>9, <1>10

LEMMA MappedThen == \A w \in Workers : Mapped(w)'
<1>1. (\A w \in Workers : Mapped(w))'
    BY MappedNow, PTL
<1> QED BY <1>1

(* The mapped variables are functions on the workers and the customers. *)
LEMMA MappedFunctions ==
    /\ bankStage = [w \in Workers |-> bankStage[w]]
    /\ bankDecision = [w \in Workers |-> bankDecision[w]]
    /\ bankAccounts = [i \in Ids |-> bankAccounts[i]]
BY DEF bankStage, bankDecision, bankAccounts

LEMMA MappedFunctionsThen ==
    /\ bankStage' = [w \in Workers |-> bankStage'[w]]
    /\ bankDecision' = [w \in Workers |-> bankDecision'[w]]
    /\ bankAccounts' = [i \in Ids |-> bankAccounts'[i]]
BY DEF bankStage, bankDecision, bankAccounts

LEMMA BankInit == Init => B!Init
<1> SUFFICES ASSUME Init PROVE B!Init
    OBVIOUS
<1>1. bankAccounts = [i \in Ids |-> [balance |-> 0, latest |-> << >>]]
    BY DEF Init, bankAccounts
<1>2. \A w \in Workers : pc[w] = "off"
    BY DEF Init
<1>3. \A w \in Workers : bankStage[w] = "idle" /\ bankDecision[w] = NoAnswer
    BY <1>2, MappedNow DEF Mapped, Sees
<1>4. bankStage = [w \in Workers |-> "idle"] /\ bankDecision = [w \in Workers |-> NoAnswer]
    BY <1>3, MappedFunctions
<1> QED BY <1>1, <1>4, SameNoAnswer DEF Init, B!Init

-----------------------------------------------------------------------------
(* What holds while nothing fails.                                         *)

(* Worker w waits for the response to u. *)
Sent(w, u) ==
    /\ pc[w] = "sent" /\ request[w].tag = u.tag
    /\ request[w].id = u.id /\ customer[w] = u.data

(***************************************************************************)
(* The invariant of calm behaviours, besides those of all behaviours:      *)
(* every process is up before the first request, until then the rows are   *)
(* as inserted, the connections work, and no update has lost its sender.   *)
(***************************************************************************)
CalmInv ==
    /\ overtaken = {}
    /\ issued > 0 => \A p \in Procs : phase[p] = "up"
    /\ issued = 0 => \A i \in Ids :
           db[i] # NoRow => db[i].data = InitialCustomer(Limit[i], ZeroTag)
    /\ \A w \in Workers : pc[w] # "off" => readLink[w] = "good" /\ writeLink[w] = "good"
    /\ \A u \in updates : \E w \in Workers : Sent(w, u)

LEMMA NoFault == ASSUME Calm, TypeInv, NEW b, Budget(b) PROVE ~b
BY DEF Calm, TypeInv, TypeOK, Budget

(* Nobody is served before the first request. *)
LEMMA NobodyServed ==
    ASSUME OnceInv, issued = 0
    PROVE  updates = {} /\ \A w \in Workers : ~Serves(w)
<1>1. 1 .. issued = {}
    OBVIOUS
<1> QED BY <1>1 DEF OnceInv, OwnTags

LEMMA CalmWorker ==
    ASSUME CalmInv, NEW w \in Workers,
           UNCHANGED <<db, phase, overtaken, updates>>,
           issued' > 0 => issued > 0 \/ \A p \in Procs : phase[p] = "up",
           issued' = 0 => issued = 0,
           \A x \in Workers \ {w} :
               /\ pc'[x] = pc[x] /\ request'[x] = request[x] /\ customer'[x] = customer[x]
               /\ readLink'[x] = readLink[x] /\ writeLink'[x] = writeLink[x],
           pc'[w] # "off" => readLink'[w] = "good" /\ writeLink'[w] = "good",
           \A u \in updates : ~Sent(w, u)
    PROVE  CalmInv'
<1>1. ASSUME NEW u \in updates PROVE \E x \in Workers : Sent(x, u)'
    <2>1. PICK x \in Workers : Sent(x, u)
        BY DEF CalmInv
    <2>2. x # w
        BY <2>1
    <2>3. Sent(x, u)'
        BY <2>1, <2>2 DEF Sent
    <2> QED BY <2>3
<1>2. \A x \in Workers : pc'[x] # "off" => readLink'[x] = "good" /\ writeLink'[x] = "good"
    BY DEF CalmInv
<1> QED BY <1>1, <1>2 DEF CalmInv

LEMMA CalmInsert ==
    ASSUME TypeInv, OnceInv, CalmInv, NEW p \in Procs, InsertCustomer(p)
    PROVE  CalmInv' /\ issued = 0
<1> DEFINE i == inserting[p]
           new == InitialCustomer(Limit[i], ZeroTag)
<1>1. issued = 0
    <2>1. ~(issued > 0) /\ issued \in Nat
        BY BoundsAssumption DEF InsertCustomer, CalmInv, TypeInv, TypeOK
    <2> QED BY <2>1
<1>2. updates = {} /\ \A w \in Workers : ~Serves(w)
    BY <1>1, NobodyServed
<1>3. Readers(i) = {}
    BY <1>2 DEF Readers, Serves
<1>4. overtaken' = {}
    BY <1>3 DEF InsertCustomer, CalmInv
<1>5. i \in Ids
    BY InsertRows
<1>6. /\ db \in [Ids -> Row \cup {NoRow}]
      /\ db' = [db EXCEPT ![i] = IF db[i] = NoRow
                                 THEN [data |-> new, version |-> 1]
                                 ELSE Reinserted(db[i], new)]
    BY DEF TypeInv, TypeOK, InsertCustomer
<1>7. UNCHANGED <<issued, phase, pc, readLink, writeLink, updates>>
    BY DEF InsertCustomer, linkVars, wireVars
<1>8. \A j \in Ids : db'[j] # NoRow => db'[j].data = InitialCustomer(Limit[j], ZeroTag)
    <2> HIDE DEF new, i
    <2>1. db'[i].data = new /\ \A j \in Ids \ {i} : db'[j] = db[j]
        BY <1>5, <1>6 DEF Reinserted
    <2> QED BY <1>1, <2>1 DEF CalmInv, new
<1> QED BY <1>1, <1>2, <1>4, <1>7, <1>8 DEF CalmInv

LEMMA CalmStep ==
    ASSUME Calm, TypeInv, OnceInv, CalmInv, NEW w \in Workers, WorkerStep(w)
    PROVE  CalmInv'
<1>1. /\ pc \in [Workers -> Pcs] /\ customer \in [Workers -> Blob]
      /\ readLink \in [Workers -> Links] /\ writeLink \in [Workers -> Links]
    BY DEF TypeInv, TypeOK
<1>2. pc[w] # "sent" => \A u \in updates : ~Sent(w, u)
    BY DEF Sent
<1>3. pc[w] # "off" => readLink[w] = "good" /\ writeLink[w] = "good"
    BY DEF CalmInv
<1>4. CASE Lock(w)
    BY <1>1, <1>2, <1>3, <1>4, CalmWorker
       DEF Lock, Goto, procVars, localVars, linkVars, wireVars, histVars
<1>5. ASSUME NEW link \in Links, ReadCustomerHs(w, link) PROVE CalmInv'
    <2>1. pc[w] \in {"read", "get"} /\ link = "good"
        BY <1>3, <1>5, NoFault DEF ReadCustomerHs
    <2>2. /\ UNCHANGED <<db, phase, updates, request, writeLink, issued>>
          /\ readLink' = [readLink EXCEPT ![w] = "good"]
        BY <1>5, <2>1 DEF ReadCustomerHs, procVars, wireVars
    <2>3. UNCHANGED overtaken
        BY <1>5 DEF ReadCustomerHs, CalmInv
    <2>4. \A x \in Workers \ {w} : pc'[x] = pc[x] /\ customer'[x] = customer[x]
        BY <1>1, <1>5 DEF ReadCustomerHs, Goto
    <2> QED BY <1>1, <1>2, <1>3, <2>1, <2>2, <2>3, <2>4, CalmWorker
<1>6. CASE Check(w)
    <2>1. /\ pc[w] = "check"
          /\ UNCHANGED <<db, phase, updates, request, readLink, writeLink, issued, overtaken>>
        BY <1>6 DEF Check, procVars, wireVars, linkVars, histVars
    <2>2. \A x \in Workers \ {w} : pc'[x] = pc[x] /\ customer'[x] = customer[x]
        BY <1>1, <1>6 DEF Check, Goto
    <2> QED BY <1>2, <1>3, <2>1, <2>2, CalmWorker
<1>7. ASSUME NEW link \in Links, WriteSend(w, link) PROVE CalmInv'
    <2>1. pc[w] = "write" /\ link = "good"
        BY <1>3, <1>7, NoFault DEF WriteSend
    <2>2. PICK u : u = [tag |-> request[w].tag, id |-> request[w].id,
                        data |-> customer[w], version |-> version[w]]
        OBVIOUS
    <2>3. /\ UNCHANGED <<db, phase, request, customer, readLink, issued, overtaken>>
          /\ updates' = updates \cup {u}
          /\ writeLink' = [writeLink EXCEPT ![w] = "good"]
          /\ pc' = [pc EXCEPT ![w] = "sent"]
        BY <1>7, <2>1, <2>2 DEF WriteSend, Goto, procVars, localVars, histVars
    <2>4. Sent(w, u)'
        BY <1>1, <2>2, <2>3 DEF Sent
    <2>5. \A v \in updates, x \in Workers : Sent(x, v) => Sent(x, v)'
        BY <1>1, <2>1, <2>3 DEF Sent
    <2>6. \A v \in updates' : \E x \in Workers : Sent(x, v)'
        BY <2>3, <2>4, <2>5 DEF CalmInv
    <2>7. \A x \in Workers :
              pc'[x] # "off" => readLink'[x] = "good" /\ writeLink'[x] = "good"
        BY <1>1, <1>3, <2>1, <2>3 DEF CalmInv
    <2> QED BY <2>3, <2>6, <2>7 DEF CalmInv
<1>8. CASE WriteRecv(w)
    <2>1. \A u \in updates : ~Sent(w, u)
        BY <1>8 DEF WriteRecv, OnceInv, Attempt, InTransit, Sent
    <2> QED BY <1>1, <1>3, <1>8, <2>1, CalmWorker
            DEF WriteRecv, Goto, procVars, localVars, linkVars, histVars
<1>9. CASE WriteError(w)
    BY <1>9, NoFault DEF WriteError
<1>10. CASE WriteLost(w)
    BY <1>10, NoFault DEF WriteLost
<1>11. CASE Unlock(w)
    BY <1>1, <1>2, <1>3, <1>11, CalmWorker
       DEF Unlock, Goto, procVars, localVars, linkVars, wireVars, histVars
<1>12. CASE SendAnswer(w)
    BY <1>1, <1>2, <1>3, <1>12, CalmWorker
       DEF SendAnswer, Goto, procVars, localVars, linkVars, wireVars
<1> QED BY <1>4, <1>5, <1>6, <1>7, <1>8, <1>9, <1>10, <1>11, <1>12 DEF WorkerStep

LEMMA CalmNext ==
    Calm /\ TypeInv /\ OnceInv /\ CalmInv /\ [Next]_vars => CalmInv'
<1> SUFFICES ASSUME Calm, TypeInv, OnceInv, CalmInv, [Next]_vars PROVE CalmInv'
    OBVIOUS
<1>1. /\ pc \in [Workers -> Pcs] /\ phase \in [Procs -> Phases] /\ issued \in Nat
      /\ readLink \in [Workers -> Links] /\ writeLink \in [Workers -> Links]
      /\ request \in [Workers -> Request]
    BY BoundsAssumption DEF TypeInv, TypeOK
<1>2. ASSUME NEW p \in Procs, ProcNext(p) PROVE CalmInv'
    <2>1. CASE Connect(p)
        BY <1>1, <2>1 DEF Connect, CalmInv, Sent, localVars, linkVars, wireVars, histVars
    <2>2. CASE StartThreads(p)
        BY <1>1, <2>2 DEF StartThreads, CalmInv, Sent, localVars, linkVars, wireVars, histVars
    <2>3. CASE Crash(p)
        BY <2>3 DEF Crash, Calm, TypeInv, TypeOK
    <2> QED BY <1>2, <2>1, <2>2, <2>3, CalmInsert DEF ProcNext
<1>3. ASSUME NEW w \in Workers, WorkerNext(w) PROVE CalmInv'
    <2>1. ASSUME NEW r, NEW s, InitializeHs(w, r, s) PROVE CalmInv'
        <3>1. r = "good" /\ s = "good" /\ pc[w] = "off"
            BY <2>1, NoFault DEF InitializeHs
        <3>2. \A u \in updates : ~Sent(w, u)
            BY <3>1 DEF Sent
        <3> QED BY <1>1, <2>1, <3>1, <3>2, CalmWorker
                DEF InitializeHs, Goto, procVars, localVars, wireVars, histVars
    <2>2. ASSUME NEW i \in RequestIds, NEW v \in Int32, NEW label \in {"lock", "get"},
                 Receive(w, i, v, label)
          PROVE  CalmInv'
        <3>1. pc[w] = "idle" /\ \A p \in Procs : phase[p] = "up"
            BY <2>2 DEF Receive, Calm
        <3>2. \A u \in updates : ~Sent(w, u)
            BY <3>1 DEF Sent
        <3>3. readLink[w] = "good" /\ writeLink[w] = "good"
            BY <3>1 DEF CalmInv
        <3>4. issued' # 0
            BY <1>1, <2>2 DEF Receive
        <3> QED BY <1>1, <2>2, <3>1, <3>2, <3>3, <3>4, CalmWorker
                DEF Receive, Goto, procVars, linkVars, wireVars
    <2>3. ASSUME NEW i \in RequestIds,
                 (\E v \in Values : ExecuteTransaction(w, i, v)) \/ GetCustomer(w, i)
          PROVE  CalmInv'
        BY <2>2, <2>3, ReceiveCases
    <2> QED BY <1>3, <2>1, <2>3, CalmStep DEF WorkerNext
<1>4. ASSUME NEW u \in updates, ServerUpdate(u) PROVE CalmInv'
    <2>1. /\ updates' \subseteq updates
          /\ UNCHANGED <<phase, pc, request, customer, readLink, writeLink, issued, overtaken>>
        BY <1>4 DEF ServerUpdate, procVars, localVars, linkVars
    <2>2. issued # 0
        BY <1>4, NobodyServed
    <2> QED BY <2>1, <2>2 DEF CalmInv, Sent
<1>5. CASE UNCHANGED vars
    BY <1>5 DEF vars, CalmInv, Sent
<1> QED BY <1>2, <1>3, <1>4, <1>5 DEF Next, Quiescent

LEMMA CalmInvariant == Calm => (Spec => []CalmInv)
<1>1. Init => CalmInv
    BY DEF Init, CalmInv
<1> SUFFICES ASSUME Calm PROVE Spec => []CalmInv
    OBVIOUS
<1>2. TypeInv /\ OnceInv /\ CalmInv /\ [Next]_vars => CalmInv'
    BY CalmNext
<1> QED BY <1>1, <1>2, OnceInvariant, TypeInvariant, PTL DEF Spec

-----------------------------------------------------------------------------
(* A step of one worker, as the Bank sees it.                              *)

(* Nobody but w moves. *)
OnlyMoves(w) ==
    \A x \in Workers \ {w} :
        /\ pc'[x] = pc[x] /\ request'[x] = request[x]
        /\ customer'[x] = customer[x] /\ response'[x] = response[x]

LEMMA OthersStay ==
    ASSUME NEW w \in Workers, OnlyMoves(w)
    PROVE  /\ bankStage' = [bankStage EXCEPT ![w] = bankStage'[w]]
           /\ bankDecision' = [bankDecision EXCEPT ![w] = bankDecision'[w]]
<1>1. ASSUME NEW x \in Workers \ {w}
      PROVE  bankStage'[x] = bankStage[x] /\ bankDecision'[x] = bankDecision[x]
    <2>1. /\ pc'[x] = pc[x] /\ request'[x] = request[x]
          /\ customer'[x] = customer[x] /\ response'[x] = response[x]
        BY DEF OnlyMoves
    <2>2. (DecidedAlready(x)' <=> DecidedAlready(x)) /\ Answer(x)' = Answer(x)
        BY <2>1 DEF Tx, DecidedAlready, Answer
    <2>3. bankStage'[x] = bankStage[x]
        BY <2>1, <2>2 DEF bankStage
    <2>4. bankDecision'[x] = bankDecision[x]
        BY <2>1, <2>2 DEF bankDecision, NoAnswer
    <2> QED BY <2>3, <2>4
<1> QED BY <1>1, MappedFunctions, MappedFunctionsThen

LEMMA AccountsStay == ASSUME UNCHANGED db PROVE UNCHANGED bankAccounts
BY DEF bankAccounts

(* What a step of w must be to be none for the Bank. *)
LEMMA BankStutter ==
    ASSUME NEW w \in Workers, OnlyMoves(w), UNCHANGED <<bankAccounts, request, issued, answer>>,
           bankStage'[w] = bankStage[w], bankDecision'[w] = bankDecision[w]
    PROVE  UNCHANGED B!vars
<1>1. UNCHANGED <<bankStage, bankDecision>>
    BY OthersStay, MappedFunctions
<1> QED BY <1>1 DEF B!vars

LEMMA BankReceive ==
    ASSUME TypeInv, NEW w \in Workers, NEW i \in RequestIds, NEW v, NEW label, NEW kind,
           <<label, kind>> \in {<<"lock", "transaction">>, <<"get", "query">>},
           Receive(w, i, v, label)
    PROVE  B!Submit(w, i, v, kind)
<1>1. /\ OnlyMoves(w)
      /\ UNCHANGED <<db, answer>>
      /\ pc[w] = "idle" /\ pc'[w] = IF i > NumCustomers \/ i < 1 THEN "notfound" ELSE label
    BY DEF Receive, Goto, OnlyMoves, wireVars, TypeInv, TypeOK
<1>2. i \in Ids <=> ~(i > NumCustomers \/ i < 1)
    BY NumCustomersAssumption DEF Ids, RequestIds
<1>3. bankStage[w] = "idle" /\ bankDecision[w] = NoAnswer
    BY <1>1, MappedNow DEF Mapped, Sees
<1>4. CASE i \in Ids
    <2>1. pc'[w] = label
        BY <1>1, <1>2, <1>4
    <2>2. bankStage'[w] = kind /\ bankDecision'[w] = NoAnswer
        BY <2>1, MappedThen DEF Mapped, Sees
    <2>3. bankStage' = [bankStage EXCEPT ![w] = kind] /\ UNCHANGED bankDecision
        BY <1>1, <1>3, <2>2, OthersStay, MappedFunctions
    <2> QED BY <1>1, <1>3, <1>4, <2>3, AccountsStay DEF Receive, B!Submit
<1>5. CASE i \notin Ids
    <2>1. pc'[w] = "notfound"
        BY <1>1, <1>2, <1>5
    <2>2. bankStage'[w] = "decided" /\ bankDecision'[w] = Unknown
        BY <2>1, MappedThen DEF Mapped, Sees
    <2>3. B!Decided(w, [B!NoAnswer EXCEPT !.status = "notfound"])
        BY <1>1, <2>2, OthersStay, SameNoAnswer DEF B!Decided, Unknown
    <2> QED BY <1>1, <1>3, <1>5, <2>3, AccountsStay DEF Receive, B!Submit
<1> QED BY <1>4, <1>5

(* A balance request is served, or a transaction refused, by the row read. *)
LEMMA BankRead ==
    ASSUME Calm, TypeInv, RowsInv, LimitInv, CalmInv, NEW w \in Workers, NEW link \in Links,
           ReadCustomerHs(w, link)
    PROVE  B!Show(w) \/ B!Transact(w) \/ UNCHANGED B!vars
<1> DEFINE i == request[w].id
           c == db[i].data
<1>1. pc[w] \in {"read", "get"} /\ link = "good"
    BY NoFault DEF ReadCustomerHs, CalmInv
<1>2. i \in Ids /\ db[i] # NoRow
    BY <1>1, ReadingRow, NoRowAssumption
<1>3. /\ OnlyMoves(w) /\ UNCHANGED <<db, request, issued, answer>>
      /\ customer'[w] = c /\ pc'[w] = IF pc[w] = "read" THEN "check" ELSE "extract"
    BY <1>1, <1>2 DEF ReadCustomerHs, Goto, AfterRead, OnlyMoves, wireVars, TypeInv, TypeOK
<1>4. UNCHANGED bankAccounts
    BY <1>3, AccountsStay
<1>5. bankAccounts[i].balance = c.balance /\ bankAccounts[i].latest = Listing(c)
    BY <1>2 DEF bankAccounts
<1>6. Tx(w)' = Tx(w) /\ Tx(w).value = request[w].value
    BY <1>3 DEF Tx
<1> HIDE DEF c
<1>7. CASE pc[w] = "get"
    <2>1. bankStage[w] = "query"
        BY <1>7, MappedNow DEF Mapped, Sees
    <2>2. bankStage'[w] = "decided" /\ bankDecision'[w] = Shown(c)
        BY <1>3, <1>7, MappedThen DEF Mapped, Sees
    <2>3. B!Decided(w, [status |-> "ok", balance |-> bankAccounts[i].balance,
                        listing |-> bankAccounts[i].latest])
        BY <1>3, <1>5, <2>2, OthersStay DEF B!Decided, Shown
    <2>4. B!Show(w)
        BY <1>3, <1>4, <2>1, <2>3 DEF B!Show
    <2> QED BY <2>4
<1>8. CASE pc[w] = "read" /\ LimitExceeded(c, Tx(w))
    <2>1. bankStage[w] = "transaction"
        BY <1>8, MappedNow DEF Mapped, Sees
    <2>2. bankStage'[w] = "decided" /\ bankDecision'[w] = Refused
        BY <1>3, <1>6, <1>8, MappedThen DEF Mapped, Sees
    <2>3. c.limit = Limit[i]
        BY <1>2 DEF LimitInv, Within, c
    <2>4. Wrap(-Limit[i]) = -Limit[i]
        BY <1>2, LimitAssumption, WrapNegatedLimit
    <2>5. Wrap(bankAccounts[i].balance + request[w].value) < -Limit[i]
        BY <1>5, <1>6, <1>8, <2>3, <2>4 DEF LimitExceeded
    <2>6. B!Decided(w, [B!NoAnswer EXCEPT !.status = "limit"])
        BY <1>3, <2>2, OthersStay, SameNoAnswer DEF B!Decided, Refused
    <2>7. B!Transact(w)
        BY <1>3, <1>4, <2>1, <2>5, <2>6 DEF B!Transact
    <2> QED BY <2>7
<1>9. CASE pc[w] = "read" /\ ~LimitExceeded(c, Tx(w))
    <2>1. bankStage[w] = "transaction" /\ bankDecision[w] = NoAnswer
        BY <1>9, MappedNow DEF Mapped, Sees
    <2>2. bankStage'[w] = "transaction" /\ bankDecision'[w] = NoAnswer
        BY <1>3, <1>6, <1>9, MappedThen DEF Mapped, Sees
    <2> QED BY <1>3, <1>4, <2>1, <2>2, BankStutter
<1> QED BY <1>1, <1>7, <1>8, <1>9

(* An accepted transaction takes effect when its update is executed. *)
LEMMA BankServerUpdate ==
    ASSUME TypeInv, OnceInv, LimitInv, SoundInv, FreshInv, CalmInv,
           NEW u \in updates, ServerUpdate(u)
    PROVE  (\E w \in Workers : B!Transact(w)) \/ UNCHANGED B!vars
<1>1. PICK w \in Workers : Sent(w, u)
    BY DEF CalmInv
<1> DEFINE i == u.id
           c == db[i].data
<1>2. /\ pc[w] = "sent" /\ request[w].tag = u.tag /\ request[w].id = i
      /\ customer[w] = u.data /\ Serves(w) /\ i \in Ids
    BY <1>1 DEF Sent, Serves, TypeInv, TypeOK, Update
<1>3. UNCHANGED <<pc, request, customer, issued, answer>>
    BY DEF ServerUpdate, localVars
<1>4. \A x \in Workers \ {w} : x \notin Waiting(u)
    BY <1>2 DEF Waiting, OnceInv, OwnTags, Serves
<1>5. OnlyMoves(w)
    BY <1>3, <1>4 DEF ServerUpdate, Respond, OnlyMoves
<1>6. bankStage[w] = "transaction" /\ bankDecision[w] = NoAnswer
    <2>1. response[w] = "none"
        BY <1>2 DEF OnceInv, Attempt, InTransit
    <2> QED BY <1>2, <2>1, MappedNow DEF Mapped, Sees
<1>7. CASE ~Matches(u)
    <2>1. response'[w] # "modified" /\ UNCHANGED db
        BY <1>2, <1>7 DEF ServerUpdate, Respond, Waiting
    <2>2. bankStage'[w] = "transaction" /\ bankDecision'[w] = NoAnswer
        BY <1>2, <1>3, <2>1, MappedThen DEF Mapped, Sees
    <2> QED BY <1>3, <1>5, <1>6, <2>1, <2>2, AccountsStay, BankStutter
<1>8. CASE Matches(u)
    <2>1. response'[w] = "modified"
        BY <1>2, <1>8 DEF ServerUpdate, Respond, Waiting
    <2>2. bankStage'[w] = "decided" /\ bankDecision'[w] = Said(u.data.balance)
        BY <1>2, <1>3, <2>1, MappedThen DEF Mapped, Sees
    <2>3. db[i] # NoRow /\ c \in Blob /\ Sound(c)
        BY <1>2, <1>8 DEF Matches, SoundInv, TypeInv, TypeOK, Row
    <2>4. u.data = Execute(c, Tx(w))
        BY <1>2, <1>8 DEF FreshInv, Fresh, CalmInv
    <2>5. bankAccounts[i].balance = c.balance /\ bankAccounts[i].latest = Listing(c)
        BY <1>2, <2>3 DEF bankAccounts
    <2> DEFINE r == [data |-> u.data, version |-> u.version + 1]
               t == [value |-> request[w].value, tag |-> request[w].tag]
               sum == Wrap(bankAccounts[i].balance + request[w].value)
               all == <<t>> \o bankAccounts[i].latest
               new == IF Len(all) > RingSize THEN SubSeq(all, 1, RingSize) ELSE all
    <2>6. r \in Row /\ r.data = u.data
        BY DEF TypeInv, TypeOK, Update, Row
    <2>7. /\ db'[i] = r /\ \A j \in Ids \ {i} : db'[j] = db[j]
        BY <1>2, <1>8 DEF ServerUpdate, TypeInv, TypeOK
    <2> HIDE DEF r, c
    <2>8. t = Tx(w) /\ t \in Transaction(Tags)
        BY TxType DEF Tx, TypeInv
    <2>9. u.data.balance = sum
        BY <2>4, <2>5, <2>8, ExecuteFields DEF Tx
    <2>10. Listing(u.data) = new
        BY <2>3, <2>4, <2>5, <2>8, ListingExecute DEF Blob, Sound
    <2> HIDE DEF t
    <2>11. ~(sum < -Limit[i])
        <3>1. u.data.balance >= -Limit[i] /\ Limit[i] \in Int
            BY <1>2, LimitAssumption DEF LimitInv, Within
        <3>2. u.data.balance \in Int
            BY IntHalfAssumption DEF TypeInv, TypeOK, Update, Blob, Customers, Int32
        <3> QED BY <2>9, <3>1, <3>2
    <2>12. bankAccounts' = [bankAccounts EXCEPT ![i] = [balance |-> sum, latest |-> new]]
        <3>1. bankAccounts'[i] = [balance |-> sum, latest |-> new]
            BY <1>2, <2>6, <2>7, <2>9, <2>10, NoRowAssumption DEF bankAccounts
        <3>2. \A j \in Ids \ {i} : bankAccounts'[j] = bankAccounts[j]
            BY <2>7 DEF bankAccounts
        <3> QED BY <3>1, <3>2, MappedFunctions, MappedFunctionsThen
    <2>13. B!Decided(w, [B!NoAnswer EXCEPT !.status = "ok", !.balance = sum])
        BY <1>5, <2>2, <2>9, OthersStay, SameNoAnswer DEF B!Decided, Said
    <2>14. B!Transact(w)
        BY <1>2, <1>3, <1>6, <2>11, <2>12, <2>13 DEF B!Transact, t
    <2> QED BY <2>14
<1> QED BY <1>7, <1>8

LEMMA BankSendAnswer ==
    ASSUME TypeInv, NEW w \in Workers, SendAnswer(w) PROVE B!Respond(w)
<1>1. /\ pc[w] \in {"ok", "extract", "limit", "notfound"} /\ pc'[w] = "idle" /\ OnlyMoves(w)
      /\ UNCHANGED <<db, request, issued>>
    BY DEF SendAnswer, Goto, OnlyMoves, localVars, wireVars, TypeInv, TypeOK
<1>2. bankStage[w] = "decided"
    BY <1>1, MappedNow DEF Mapped, Sees
<1>3. bankDecision[w] = Answer(w)
    BY <1>1 DEF bankDecision, DecidedAlready
<1>4. bankStage'[w] = "idle" /\ bankDecision'[w] = NoAnswer
    BY <1>1, MappedThen DEF Mapped, Sees
<1>5. answer' = [answer EXCEPT ![request[w].tag] = bankDecision[w]]
    BY <1>3 DEF SendAnswer
<1> QED BY <1>1, <1>2, <1>4, <1>5, OthersStay, AccountsStay, SameNoAnswer DEF B!Respond

(* The accounts are opened by the first process that inserts the rows; a   *)
(* later one finds them as they were opened.                               *)
LEMMA NewAccounts ==
    CalmInv /\ issued = 0
        => bankAccounts = [i \in Ids |-> [balance |-> 0, latest |-> << >>]]
<1> SUFFICES ASSUME CalmInv, issued = 0
             PROVE  bankAccounts = [i \in Ids |-> [balance |-> 0, latest |-> << >>]]
    OBVIOUS
<1>1. \A i \in Ids : /\ InitialCustomer(Limit[i], ZeroTag).balance = 0
                     /\ Listing(InitialCustomer(Limit[i], ZeroTag)) = << >>
    BY RingSizeAssumption DEF InitialCustomer, Listing
<1>2. \A i \in Ids : db[i] # NoRow => db[i].data = InitialCustomer(Limit[i], ZeroTag)
    BY DEF CalmInv
<1> QED BY <1>1, <1>2 DEF bankAccounts

LEMMA BankInsert ==
    ASSUME TypeInv, OnceInv, CalmInv, NEW p \in Procs, InsertCustomer(p)
    PROVE  UNCHANGED bankAccounts
<1>1. (CalmInv /\ issued = 0
           => bankAccounts = [i \in Ids |-> [balance |-> 0, latest |-> << >>]])'
    BY NewAccounts, PTL
<1>2. issued = 0 /\ CalmInv' /\ issued' = issued
    BY CalmInsert DEF InsertCustomer
<1> QED BY <1>1, <1>2, NewAccounts

(* A step in which no worker moves and no account changes. *)
LEMMA BankStill ==
    ASSUME UNCHANGED <<pc, request, customer, response, bankAccounts, issued, answer>>
    PROVE  UNCHANGED B!vars
<1>1. \A x \in Workers : (DecidedAlready(x)' <=> DecidedAlready(x)) /\ Answer(x)' = Answer(x)
    BY DEF Tx, DecidedAlready, Answer
<1>2. UNCHANGED bankStage
    BY <1>1 DEF bankStage
<1>3. UNCHANGED bankDecision
    BY <1>1 DEF bankDecision, NoAnswer
<1> QED BY <1>2, <1>3 DEF B!vars

LEMMA BankStep ==
    ASSUME Calm, TypeInv, RowsInv, LimitInv, OnceInv, CalmInv,
           NEW w \in Workers, WorkerStep(w)
    PROVE  B!Show(w) \/ B!Transact(w) \/ B!Respond(w) \/ UNCHANGED B!vars
<1>1. pc \in [Workers -> Pcs] /\ customer \in [Workers -> Blob]
      /\ response \in [Workers -> Responses]
    BY DEF TypeInv, TypeOK
<1> DEFINE Still == /\ OnlyMoves(w) /\ UNCHANGED <<db, request, issued, answer>>
<1>2. CASE Lock(w)
    <2>1. Still /\ pc[w] = "lock" /\ pc'[w] = "read"
        BY <1>1, <1>2 DEF Lock, Goto, OnlyMoves, localVars, wireVars, histVars
    <2>2. bankStage'[w] = bankStage[w] /\ bankDecision'[w] = bankDecision[w]
        BY <2>1, MappedNow, MappedThen DEF Mapped, Sees
    <2> QED BY <2>1, <2>2, AccountsStay, BankStutter
<1>3. CASE Check(w)
    <2>1. Still /\ pc[w] = "check"
        BY <1>1, <1>3 DEF Check, Goto, OnlyMoves, wireVars, histVars
    <2>2. pc'[w] = IF LimitExceeded(customer[w], Tx(w)) THEN "limit" ELSE "write"
        BY <1>1, <1>3 DEF Check, Goto
    <2>3. bankStage'[w] = bankStage[w] /\ bankDecision'[w] = bankDecision[w]
        BY <2>1, <2>2, MappedNow, MappedThen DEF Mapped, Sees
    <2> QED BY <2>1, <2>3, AccountsStay, BankStutter
<1>4. ASSUME NEW link \in Links, WriteSend(w, link) PROVE UNCHANGED B!vars
    <2>1. Still /\ pc[w] = "write" /\ UNCHANGED response /\ pc'[w] \in {"sent", "read"}
        BY <1>1, <1>4 DEF WriteSend, Goto, OnlyMoves, localVars, histVars
    <2>2. response'[w] = "none"
        BY <2>1 DEF OnceInv, Attempt
    <2>3. bankStage'[w] = bankStage[w] /\ bankDecision'[w] = bankDecision[w]
        BY <2>1, <2>2, MappedNow, MappedThen DEF Mapped, Sees
    <2> QED BY <2>1, <2>3, AccountsStay, BankStutter
<1>5. CASE WriteRecv(w)
    <2>1. /\ Still /\ pc[w] = "sent" /\ UNCHANGED customer
          /\ pc'[w] = IF response[w] = "modified" THEN "unlock" ELSE "read"
        BY <1>1, <1>5 DEF WriteRecv, Goto, OnlyMoves, localVars, histVars
    <2>2. bankStage'[w] = bankStage[w] /\ bankDecision'[w] = bankDecision[w]
        BY <2>1, MappedNow, MappedThen DEF Mapped, Sees
    <2> QED BY <2>1, <2>2, AccountsStay, BankStutter
<1>6. CASE WriteError(w)
    BY <1>6, NoFault DEF WriteError
<1>7. CASE WriteLost(w)
    BY <1>7, NoFault DEF WriteLost
<1>8. CASE Unlock(w)
    <2>1. Still /\ pc[w] = "unlock" /\ pc'[w] = "ok" /\ UNCHANGED customer
        BY <1>1, <1>8 DEF Unlock, Goto, OnlyMoves, localVars, wireVars, histVars
    <2>2. bankStage'[w] = bankStage[w] /\ bankDecision'[w] = bankDecision[w]
        BY <2>1, MappedNow, MappedThen DEF Mapped, Sees
    <2> QED BY <2>1, <2>2, AccountsStay, BankStutter
<1> QED BY <1>2, <1>3, <1>4, <1>5, <1>6, <1>7, <1>8, BankRead, BankSendAnswer
        DEF WorkerStep

(* Every step of the engine is a step of the Bank or none. *)
LEMMA BankNext ==
    ASSUME Calm, TypeInv, RowsInv, LimitInv, SoundInv, OnceInv, FreshInv, CalmInv,
           [Next]_vars
    PROVE  [B!Next]_B!vars
<1>1. ASSUME NEW p \in Procs, ProcNext(p) PROVE UNCHANGED B!vars
    <2>1. CASE Connect(p)
        BY <2>1, AccountsStay, BankStill DEF Connect, localVars, wireVars, histVars
    <2>2. CASE InsertCustomer(p)
        BY <2>2, BankInsert, BankStill DEF InsertCustomer, localVars, wireVars
    <2>3. CASE StartThreads(p)
        BY <2>3, AccountsStay, BankStill DEF StartThreads, localVars, wireVars, histVars
    <2>4. CASE Crash(p)
        BY <2>4 DEF Crash, Calm, TypeInv, TypeOK
    <2> QED BY <1>1, <2>1, <2>2, <2>3, <2>4 DEF ProcNext
<1>2. ASSUME NEW w \in Workers, NEW r, NEW s, InitializeHs(w, r, s) PROVE UNCHANGED B!vars
    <2>1. /\ pc[w] = "off" /\ pc'[w] = "idle" /\ OnlyMoves(w)
          /\ UNCHANGED <<db, request, issued, answer>>
        BY <1>2 DEF InitializeHs, Goto, OnlyMoves, localVars, wireVars, histVars,
           TypeInv, TypeOK
    <2>2. bankStage'[w] = bankStage[w] /\ bankDecision'[w] = bankDecision[w]
        BY <2>1, MappedNow, MappedThen DEF Mapped, Sees
    <2> QED BY <2>1, <2>2, AccountsStay, BankStutter
<1>3. ASSUME NEW w \in Workers, NEW i \in RequestIds, NEW v \in Values,
             ExecuteTransaction(w, i, v)
      PROVE  B!Next
    <2>1. B!Submit(w, i, v, "transaction")
        BY <1>3, BankReceive DEF ExecuteTransaction
    <2> QED BY <2>1 DEF B!Next
<1>4. ASSUME NEW w \in Workers, NEW i \in RequestIds, GetCustomer(w, i) PROVE B!Next
    <2>1. B!Submit(w, i, 0, "query")
        BY <1>4, BankReceive DEF GetCustomer
    <2> QED BY <2>1 DEF B!Next
<1>5. ASSUME NEW w \in Workers, WorkerStep(w) PROVE [B!Next]_B!vars
    BY <1>5, BankStep DEF B!Next
<1>6. ASSUME NEW u \in updates, ServerUpdate(u) PROVE [B!Next]_B!vars
    BY <1>6, BankServerUpdate DEF B!Next
<1>7. CASE UNCHANGED vars
    BY <1>7, AccountsStay, BankStill DEF vars
<1>8. ASSUME NEW w \in Workers, WorkerNext(w) PROVE [B!Next]_B!vars
    BY <1>2, <1>3, <1>4, <1>5, <1>8 DEF WorkerNext
<1> QED BY <1>1, <1>6, <1>7, <1>8 DEF Next, Quiescent

(***************************************************************************)
(* The engine implements the Bank: with any number of processes and        *)
(* threads racing on any number of customers, for every array length and   *)
(* every width of an int, each request takes effect at one instant, and    *)
(* its answer shows that instant's account.  The hypothesis is that no     *)
(* call fails, no process crashes and the router waits for every process.  *)
(***************************************************************************)
THEOREM EngineImplementsBank == Calm => (Spec => ImplementsBank)
<1> SUFFICES ASSUME Calm PROVE Spec => ImplementsBank
    OBVIOUS
<1>1. (/\ TypeInv /\ RowsInv /\ LimitInv /\ SoundInv /\ OnceInv /\ FreshInv /\ CalmInv
       /\ [Next]_vars) => [B!Next]_B!vars
    BY BankNext
<1>2. Spec => []CalmInv
    BY CalmInvariant
<1> QED BY <1>1, <1>2, BankInit, TypeInvariant, RowsInvariant, LimitInvariant,
           SoundInvariant, OnceInvariant, FreshInvariant, PTL
        DEF Spec, ImplementsBank, B!Spec
=============================================================================
