-------------------------- MODULE RequestPath_proofs --------------------------
(***************************************************************************)
(* Proofs about one customer blob (CustomerLedger) and about the path of a *)
(* request to it and back (RequestPath), for every length of the array,    *)
(* every width of an int, every limit, base, field width and set of        *)
(* requests.                                                               *)
(***************************************************************************)
EXTENDS RequestPath, NaturalsInduction, WellFoundedInduction,
        SequenceTheorems, TLAPS

-----------------------------------------------------------------------------
(* Induction on the naturals, the property given as a set: a smallest      *)
(* number outside it has a predecessor inside it.                          *)
LEMMA NatSetInduction ==
    ASSUME NEW S, S \subseteq Nat, 0 \in S, \A n \in S : n + 1 \in S
    PROVE  S = Nat
<1> SUFFICES ASSUME Nat \ S # {} PROVE FALSE
    OBVIOUS
<1> DEFINE R == OpToRel(<, Nat)
<1>1. IsWellFoundedOn(R, Nat)
    BY NatLessThanWellFounded
<1>2. \A m, n \in Nat : m < n => <<m, n>> \in R
    BY DEF OpToRel
<1> HIDE DEF R
<1>3. PICK n \in Nat \ S : \A m \in Nat \ S : ~(<<m, n>> \in R)
    BY <1>1, WFMin, Nat \ S \subseteq Nat
<1>4. n # 0 /\ n - 1 \in Nat /\ n - 1 < n
    BY <1>3
<1>5. n - 1 \in S
    BY <1>2, <1>3, <1>4
<1>6. (n - 1) + 1 \in S
    BY <1>5
<1> QED BY <1>4, <1>6

-----------------------------------------------------------------------------
(* Arithmetic: the two uses of `%' in Customer.                            *)

(* Division with a remainder, and its uniqueness. *)
LEMMA Division ==
    \A M \in Nat, x \in Int :
        M > 0 => x % M \in 0 .. M - 1 /\ \E q \in Int : x = q * M + (x % M)
<1> SUFFICES ASSUME NEW M \in Nat, NEW x \in Int, M > 0
             PROVE  x % M \in 0 .. M - 1 /\ \E q \in Int : x = q * M + (x % M)
    OBVIOUS
<1>1. x = (x \div M) * M + (x % M)
    OBVIOUS
<1> QED BY <1>1

LEMMA RemainderUnique ==
    \A M \in Nat, x, q, r \in Int :
        x = q * M + r /\ 0 <= r /\ r < M => x % M = r
OBVIOUS

(* Reducing a summand first does not change the remainder of the sum. *)
LEMMA ReduceFirst ==
    \A M \in Nat, x, v \in Int : M > 0 => ((x % M) + v) % M = (x + v) % M
<1> SUFFICES ASSUME NEW M \in Nat, NEW x \in Int, NEW v \in Int, M > 0
             PROVE  ((x % M) + v) % M = (x + v) % M
    OBVIOUS
<1> DEFINE r == x % M
           y == r + v
           s == y % M
<1>1. r \in Int /\ \E q \in Int : x = q * M + r
    BY Division
<1> HIDE DEF r
<1>2. y \in Int
    BY <1>1
<1> HIDE DEF y
<1>3. s \in 0 .. M - 1 /\ \E p \in Int : y = p * M + s
    BY <1>2, Division
<1> HIDE DEF s
<1>4. PICK q \in Int : x = q * M + r
    BY <1>1
<1>5. PICK p \in Int : y = p * M + s
    BY <1>3
<1>6. x + v = (q + p) * M + s
    <2>1. x + v = q * M + y
        BY <1>1, <1>4 DEF y
    <2>2. (q + p) * M = q * M + p * M
        OBVIOUS
    <2> QED BY <1>3, <1>5, <2>1, <2>2
<1>7. (x + v) % M = s
    <2> DEFINE z == x + v
               k == q + p
    <2>1. z \in Int /\ k \in Int /\ z = k * M + s
        BY <1>6
    <2>2. s \in Int /\ 0 <= s /\ s < M
        BY <1>3
    <2> HIDE DEF z, k
    <2>3. z % M = s
        BY <2>1, <2>2, RemainderUnique, Zenon
    <2> QED BY <2>3 DEF z
<1> QED BY <1>7 DEF r, y, s

(* What a register holds after an addition is an int. *)
LEMMA WrapInt32 == \A x \in Int : Wrap(x) \in Int32
<1> SUFFICES ASSUME NEW x \in Int PROVE Wrap(x) \in Int32
    OBVIOUS
<1> DEFINE M == 2 * IntHalf
           y == x + IntHalf
<1>1. IntHalf \in Nat /\ IntHalf > 0
    BY IntHalfAssumption
<1>2. M \in Nat /\ M > 0 /\ y \in Int
    BY <1>1
<1>3. y % M \in 0 .. M - 1
    <2> HIDE DEF M, y
    <2> QED BY <1>2
<1> QED BY <1>1, <1>3 DEF Wrap, Int32

(* Negating a limit does not overflow. *)
LEMMA WrapNegatedLimit == \A n \in 0 .. IntHalf - 1 : Wrap(-n) = -n
<1> SUFFICES ASSUME NEW n \in 0 .. IntHalf - 1 PROVE Wrap(-n) = -n
    OBVIOUS
<1> DEFINE M == 2 * IntHalf
           y == -n + IntHalf
<1>1. IntHalf \in Nat /\ IntHalf > 0
    BY IntHalfAssumption
<1>2. M \in Nat /\ M > 0 /\ y \in 0 .. M - 1
    BY <1>1
<1>3. y % M = y
    <2> HIDE DEF M, y
    <2> QED BY <1>2
<1> QED BY <1>1, <1>3 DEF Wrap

(* Wrapping at every addition or once at the end comes to the same. *)
LEMMA WrapSum == \A x, v \in Int : Wrap(Wrap(x) + v) = Wrap(x + v)
<1> SUFFICES ASSUME NEW x \in Int, NEW v \in Int
             PROVE  Wrap(Wrap(x) + v) = Wrap(x + v)
    OBVIOUS
<1> DEFINE M == 2 * IntHalf
           y == x + IntHalf
<1>1. IntHalf \in Nat /\ M \in Nat /\ M > 0 /\ y \in Int
    BY IntHalfAssumption
<1>2. ((y % M) + v) % M = (y + v) % M /\ y % M \in Int
    <2> HIDE DEF M, y
    <2>1. ((y % M) + v) % M = (y + v) % M
        BY <1>1, ReduceFirst, Zenon
    <2>2. y % M \in Int
        BY <1>1
    <2> QED BY <2>1, <2>2
<1>3. Wrap(x) + v + IntHalf = (y % M) + v
    <2>1. Wrap(x) = (y % M) - IntHalf
        BY DEF Wrap
    <2> HIDE DEF M, y
    <2> QED BY <1>1, <1>2, <2>1
<1>4. x + v + IntHalf = y + v
    BY <1>1
<1> HIDE DEF y
<1> QED BY <1>2, <1>3, <1>4 DEF Wrap

(* The initial balance. *)
LEMMA WrapZero == Wrap(0) = 0
<1>1. IntHalf \in Nat /\ IntHalf > 0 /\ 2 * IntHalf \in Nat
    BY IntHalfAssumption
<1>2. (0 + IntHalf) % (2 * IntHalf) = IntHalf
    BY <1>1
<1> QED BY <1>1, <1>2 DEF Wrap

(* The index after p in the array. *)
Following(p) == IF p + 1 = RingSize THEN 0 ELSE p + 1

LEMMA IndexAdvances ==
    \A p \in Slots : (p + 1) % RingSize = Following(p) /\ Following(p) \in Slots
BY RingSizeAssumption DEF Slots, Following

(* The index k places before p in the array. *)
Before(p, k) == IF k <= p THEN p - k ELSE p - k + RingSize

LEMMA IndexGoesBack ==
    \A p \in Slots, k \in 1 .. RingSize :
        (p - k + RingSize) % RingSize = Before(p, k) /\ Before(p, k) \in Slots
BY RingSizeAssumption DEF Slots, Before

-----------------------------------------------------------------------------
(* One step of the blob.                                                   *)

(* The fields Execute leaves behind that the limit is about. *)
LEMMA ExecuteFields ==
    ASSUME NEW c, NEW t
    PROVE  /\ Execute(c, t).limit = c.limit
           /\ Execute(c, t).balance = Wrap(c.balance + t.value)
BY DEF Execute

(* Execute keeps the blob a blob: no index leaves the array and the count  *)
(* does not overrun its cap.                                               *)
LEMMA ExecuteType ==
    ASSUME NEW Ts, NEW c \in Customers(Ts), NEW t \in Transaction(Ts)
    PROVE  Execute(c, t) \in Customers(Ts)
<1>1. RingSize \in Nat /\ IntHalf \in Nat
    BY RingSizeAssumption, IntHalfAssumption
<1>2. c.balance + t.value \in Int
    BY <1>1 DEF Customers, Transaction, Int32
<1>3. Wrap(c.balance + t.value) \in Int32
    BY <1>2, WrapInt32
<1>4. (c.next_transaction_index + 1) % RingSize \in Slots
    BY IndexAdvances DEF Customers
<1>5. [c.transactions EXCEPT ![c.next_transaction_index] = t]
          \in [Slots -> Transaction(Ts)]
    BY DEF Customers
<1>6. (IF c.transaction_count <= RingSize
       THEN c.transaction_count + 1 ELSE c.transaction_count) \in 0 .. RingSize + 1
    BY <1>1 DEF Customers
<1> QED BY <1>3, <1>4, <1>5, <1>6 DEF Execute, Customers

LEMMA InitialCustomerType ==
    ASSUME NEW Ts, NEW z \in Ts, NEW n \in Int32
    PROVE  InitialCustomer(n, z) \in Customers(Ts)
BY RingSizeAssumption, IntHalfAssumption
   DEF InitialCustomer, ZeroTransaction, Customers, Transaction, Slots, Int32

-----------------------------------------------------------------------------
(* PART I: the blob.                                                       *)

(* The transactions that requests carry. *)
Tx == [value : Values, tag : Tags]

LEMMA TxInt == \A t \in Tx : t \in Transaction(Tags) /\ t.value \in Int
<1> SUFFICES ASSUME NEW t \in Tx
             PROVE  t \in Transaction(Tags) /\ t.value \in Int
    OBVIOUS
<1>1. t.value \in Int32 /\ t = [value |-> t.value, tag |-> t.tag] /\ t.tag \in Tags
    BY ValuesAssumption DEF Tx
<1>2. Int32 \subseteq Int
    BY IntHalfAssumption DEF Int32
<1> QED BY <1>1, <1>2 DEF Transaction

-----------------------------------------------------------------------------
(* Type correctness.                                                       *)

(***************************************************************************)
(* Every value the program stores in the blob fits its C field, for every  *)
(* sequence of transactions: next_transaction_index stays inside the array *)
(* that MariaDbExecuteTransaction and to_json index with it, and           *)
(* transaction_count stops at RingSize + 1.                                *)
(***************************************************************************)
THEOREM TypeCorrect == Spec => []TypeOK
<1>1. Init => TypeOK
    <2> SUFFICES ASSUME Init PROVE TypeOK
        OBVIOUS
    <2>1. Limit \in Int32
        BY LimitAssumption, IntHalfAssumption DEF Int32
    <2> QED BY <2>1, InitialCustomerType, TagsAssumption DEF Init, TypeOK
<1>2. TypeOK /\ [Next]_vars => TypeOK'
    <2> SUFFICES ASSUME TypeOK, [Next]_vars PROVE TypeOK'
        OBVIOUS
    <2>1. ASSUME NEW v \in Values, NEW g \in Tags,
                 Accept([value |-> v, tag |-> g])
          PROVE  TypeOK'
        <3> DEFINE t == [value |-> v, tag |-> g]
        <3>1. t \in Transaction(Tags) /\ t.value \in Int
            BY TxInt DEF Tx
        <3> HIDE DEF t
        <3>2. customer' \in Customers(Tags)
            BY <2>1, <3>1, ExecuteType DEF Accept, TypeOK, t
        <3>3. ledger' \in Seq(Transaction(Tags)) /\ total' \in Int
            BY <2>1, <3>1 DEF Accept, TypeOK, t
        <3> QED BY <3>2, <3>3 DEF TypeOK
    <2>2. CASE UNCHANGED vars
        BY <2>2 DEF vars, TypeOK
    <2> QED BY <2>1, <2>2 DEF Next, Reject, Done
<1> QED BY <1>1, <1>2, PTL DEF Spec

-----------------------------------------------------------------------------
(* The limit.                                                              *)

(* Nothing changes the limit, so that the test is always against it. *)
LimitInv == customer.limit = Limit /\ customer.balance >= -Limit

LEMMA LimitInvariant == Spec => []LimitInv
<1>1. Init => LimitInv
    BY LimitAssumption, IntHalfAssumption DEF Init, InitialCustomer, LimitInv
<1>2. TypeOK /\ LimitInv /\ [Next]_vars => LimitInv'
    <2> SUFFICES ASSUME TypeOK, LimitInv, [Next]_vars PROVE LimitInv'
        OBVIOUS
    <2>1. ASSUME NEW v \in Values, NEW g \in Tags,
                 Accept([value |-> v, tag |-> g])
          PROVE  LimitInv'
        <3> DEFINE sum == Wrap(customer.balance + v)
        <3>1. ~(sum < Wrap(-Limit))
            BY <2>1 DEF Accept, LimitExceeded, LimitInv
        <3>2. Wrap(-Limit) = -Limit
            BY WrapNegatedLimit, LimitAssumption
        <3>3. sum \in Int /\ Limit \in Int
            BY WrapInt32, ValuesAssumption, LimitAssumption, IntHalfAssumption
               DEF TypeOK, Customers, Int32
        <3>4. sum >= -Limit
            <4> HIDE DEF sum
            <4> QED BY <3>1, <3>2, <3>3
        <3>5. customer'.limit = customer.limit /\ customer'.balance = sum
            BY <2>1 DEF Accept, Execute, TypeOK, Customers
        <3> QED BY <3>4, <3>5 DEF LimitInv
    <2>2. CASE UNCHANGED vars
        BY <2>2 DEF vars, LimitInv
    <2> QED BY <2>1, <2>2 DEF Next, Reject, Done
<1> QED BY <1>1, <1>2, TypeCorrect, PTL DEF Spec

(***************************************************************************)
(* No accepted transaction leaves the balance below minus the limit,       *)
(* although both sides of the limit test are computed in ints that wrap.   *)
(***************************************************************************)
THEOREM LimitHolds == Spec => []LimitRespected
<1>1. LimitInv => LimitRespected
    BY DEF LimitInv, LimitRespected
<1> QED BY <1>1, LimitInvariant, PTL

-----------------------------------------------------------------------------
(* The balance.                                                            *)

(***************************************************************************)
(* The stored balance is the exact total of the accepted transactions      *)
(* reduced to an int, after any number of them and for every width.        *)
(***************************************************************************)
THEOREM BalanceExact == Spec => []BalanceIsTotal
<1>1. Init => BalanceIsTotal
    BY WrapZero DEF Init, InitialCustomer, BalanceIsTotal
<1>2. TypeOK /\ BalanceIsTotal /\ [Next]_vars => BalanceIsTotal'
    <2> SUFFICES ASSUME TypeOK, BalanceIsTotal, [Next]_vars
                 PROVE  BalanceIsTotal'
        OBVIOUS
    <2>1. ASSUME NEW v \in Values, NEW g \in Tags,
                 Accept([value |-> v, tag |-> g])
          PROVE  BalanceIsTotal'
        <3>1. v \in Int /\ total \in Int
            BY ValuesAssumption, IntHalfAssumption DEF TypeOK, Int32
        <3>2. customer'.balance = Wrap(customer.balance + v) /\ total' = total + v
            BY <2>1, ExecuteFields DEF Accept
        <3>3. Wrap(Wrap(total) + v) = Wrap(total + v)
            BY <3>1, WrapSum
        <3> QED BY <3>2, <3>3 DEF BalanceIsTotal
    <2>2. CASE UNCHANGED vars
        BY <2>2 DEF vars, BalanceIsTotal
    <2> QED BY <2>1, <2>2 DEF Next, Reject, Done
<1> QED BY <1>1, <1>2, TypeCorrect, PTL DEF Spec

-----------------------------------------------------------------------------
(* The array as a list of the latest transactions.                         *)

(***************************************************************************)
(* The inductive invariant.  The count is the number of transactions until *)
(* it sticks above RingSize; before the array is full the index is that    *)
(* number too; and going back k places from the index, around the end of   *)
(* the array, finds the k-th latest transaction.                           *)
(***************************************************************************)
RingInv ==
    /\ customer.transaction_count =
           IF Len(ledger) <= RingSize THEN Len(ledger) ELSE RingSize + 1
    /\ Len(ledger) < RingSize => customer.next_transaction_index = Len(ledger)
    /\ \A k \in 1 .. Shown(Len(ledger)) :
           customer.transactions[Before(customer.next_transaction_index, k)]
               = ledger[Len(ledger) + 1 - k]

LEMMA RingStep ==
    ASSUME TypeOK, RingInv, NEW t \in Tx, Accept(t)
    PROVE  RingInv'
<1> DEFINE n == Len(ledger)
           p == customer.next_transaction_index
           q == customer'.next_transaction_index
<1>1. RingSize \in Nat /\ RingSize > 0 /\ n \in Nat /\ p \in Slots
    BY RingSizeAssumption DEF TypeOK, Customers
<1>2. q = Following(p) /\ q \in Slots
    BY <1>1, IndexAdvances DEF Accept, Execute, TypeOK, Customers
<1>3. Len(ledger') = n + 1
    BY DEF Accept, TypeOK
<1>4. ledger'[n + 1] = t /\ \A i \in 1 .. n : ledger'[i] = ledger[i]
    BY TxInt DEF Accept, TypeOK
<1>5. customer'.transactions = [customer.transactions EXCEPT ![p] = t]
    BY DEF Accept, Execute, TypeOK, Customers
<1>6. customer'.transaction_count =
          IF customer.transaction_count <= RingSize
          THEN customer.transaction_count + 1 ELSE customer.transaction_count
    BY DEF Accept, Execute, TypeOK, Customers
<1>7. customer'.transaction_count =
          IF n + 1 <= RingSize THEN n + 1 ELSE RingSize + 1
    BY <1>1, <1>6 DEF RingInv
<1>8. n + 1 < RingSize => q = n + 1
    BY <1>1, <1>2 DEF RingInv, Following
<1>9. ASSUME NEW k \in 1 .. Shown(n + 1)
      PROVE  customer'.transactions[Before(q, k)] = ledger'[n + 2 - k]
    <2>1. k \in 1 .. RingSize /\ k <= n + 1
        BY <1>1 DEF Shown
    <2>2. CASE k = 1
        <3>1. Before(q, k) = p
            BY <1>1, <1>2, <2>2 DEF Before, Following, Slots
        <3> QED BY <1>1, <1>4, <1>5, <2>2, <3>1 DEF TypeOK, Customers
    <2>3. CASE k > 1
        <3>1. k - 1 \in 1 .. Shown(n) /\ k - 1 \in 1 .. RingSize
            BY <1>1, <2>1, <2>3 DEF Shown
        <3>2. Before(q, k) = Before(p, k - 1) /\ Before(p, k - 1) # p
            BY <1>1, <1>2, <2>1, <2>3 DEF Before, Following, Slots
        <3>3. Before(p, k - 1) \in Slots
            BY <1>1, <3>1, IndexGoesBack
        <3>4. customer'.transactions[Before(q, k)] = customer.transactions[Before(p, k - 1)]
            BY <1>5, <3>2, <3>3 DEF TypeOK, Customers
        <3>5. customer.transactions[Before(p, k - 1)] = ledger[n + 1 - (k - 1)]
            BY <3>1 DEF RingInv
        <3>6. n + 1 - (k - 1) = n + 2 - k /\ n + 2 - k \in 1 .. n
            BY <1>1, <2>1, <2>3
        <3> QED BY <1>4, <3>4, <3>5, <3>6
    <2> QED BY <2>1, <2>2, <2>3
<1>10. \A k \in 1 .. Shown(Len(ledger')) :
           customer'.transactions[Before(q, k)] = ledger'[Len(ledger') + 1 - k]
    <2> SUFFICES ASSUME NEW k \in 1 .. Shown(Len(ledger'))
                 PROVE  customer'.transactions[Before(q, k)]
                            = ledger'[Len(ledger') + 1 - k]
        OBVIOUS
    <2>1. k \in 1 .. Shown(n + 1) /\ k \in Int
        BY <1>3
    <2>2. Len(ledger') + 1 - k = n + 2 - k
        BY <1>1, <1>3, <2>1
    <2> QED BY <1>9, <2>1, <2>2
<1> QED BY <1>3, <1>7, <1>8, <1>10 DEF RingInv

LEMMA RingListing ==
    ASSUME TypeOK, RingInv
    PROVE  ListingIsLatest
<1> DEFINE n == Len(ledger)
           p == customer.next_transaction_index
           c == customer.transaction_count
<1>1. RingSize \in Nat /\ RingSize > 0 /\ n \in Nat /\ p \in Slots /\ c \in Nat
    BY RingSizeAssumption DEF TypeOK, Customers
<1>2. c < RingSize <=> n < RingSize
    BY <1>1 DEF RingInv
<1>3. CASE n < RingSize
    <2>1. p = n /\ Shown(n) = n
        BY <1>3 DEF RingInv, Shown
    <2>2. Listing(customer) = [k \in 1 .. p |-> customer.transactions[p - k]]
        BY <1>2, <1>3 DEF Listing
    <2>3. Len(Listing(customer)) = Shown(n)
        BY <1>1, <2>1, <2>2
    <2>4. ASSUME NEW k \in 1 .. Shown(n)
          PROVE  Listing(customer)[k] = ledger[n + 1 - k]
        <3>1. k \in 1 .. p /\ Before(p, k) = p - k
            BY <1>1, <2>1 DEF Before
        <3> QED BY <2>2, <3>1 DEF RingInv
    <2> QED BY <2>3, <2>4 DEF ListingIsLatest
<1>4. CASE ~(n < RingSize)
    <2>1. Shown(n) = RingSize
        BY <1>4 DEF Shown
    <2>2. Listing(customer) =
              [k \in 1 .. RingSize |-> customer.transactions[(p - k + RingSize) % RingSize]]
        BY <1>2, <1>4 DEF Listing
    <2>3. Len(Listing(customer)) = Shown(n)
        BY <1>1, <2>1, <2>2
    <2>4. ASSUME NEW k \in 1 .. Shown(n)
          PROVE  Listing(customer)[k] = ledger[n + 1 - k]
        <3>1. k \in 1 .. RingSize /\ (p - k + RingSize) % RingSize = Before(p, k)
            BY <1>1, <2>1, IndexGoesBack
        <3> QED BY <2>2, <3>1 DEF RingInv
    <2> QED BY <2>3, <2>4 DEF ListingIsLatest
<1> QED BY <1>3, <1>4

(***************************************************************************)
(* to_json lists exactly the latest min(n, RingSize) transactions, newest  *)
(* first, after any number n of accepted transactions, for every length of *)
(* the array.                                                              *)
(***************************************************************************)
THEOREM ListingCorrect == Spec => []ListingIsLatest
<1>1. Init => RingInv
    BY RingSizeAssumption DEF Init, InitialCustomer, RingInv, Shown
<1>2. TypeOK /\ RingInv /\ [Next]_vars => RingInv'
    <2> SUFFICES ASSUME TypeOK, RingInv, [Next]_vars PROVE RingInv'
        OBVIOUS
    <2>1. ASSUME NEW v \in Values, NEW g \in Tags,
                 Accept([value |-> v, tag |-> g])
          PROVE  RingInv'
        BY <2>1, RingStep DEF Tx
    <2>2. CASE UNCHANGED vars
        BY <2>2 DEF vars, RingInv
    <2> QED BY <2>1, <2>2 DEF Next, Reject, Done
<1> QED BY <1>1, <1>2, RingListing, TypeCorrect, PTL DEF Spec

-----------------------------------------------------------------------------
(* PART II: numbers as texts.                                              *)

(* The values f of a loop of N turns, its i-th turn mapping one with F[i]. *)
Turns(f, V, v0, N, F) ==
    /\ f \in [0 .. N -> V]
    /\ f[0] = v0
    /\ \A i \in 1 .. N : f[i] = F[i][f[i - 1]]

LEMMA LoopValues ==
    ASSUME NEW V, NEW v0 \in V, NEW N \in Nat, NEW F \in [1 .. N -> [V -> V]]
    PROVE  \E f : Turns(f, V, v0, N, F)
<1> DEFINE P(n) == \E f \in [0 .. n -> V] :
                       f[0] = v0 /\ \A i \in 1 .. n : f[i] = F[i][f[i - 1]]
           S == {n \in Nat : n <= N => P(n)}
<1>1. P(0)
    <2> DEFINE f == [i \in 0 .. 0 |-> v0]
    <2>1. f \in [0 .. 0 -> V] /\ f[0] = v0 /\ \A i \in 1 .. 0 : f[i] = F[i][f[i - 1]]
        OBVIOUS
    <2> QED BY <2>1
<1>2. ASSUME NEW n \in Nat, n + 1 <= N, P(n) PROVE P(n + 1)
    <2>1. PICK f \in [0 .. n -> V] :
              f[0] = v0 /\ \A i \in 1 .. n : f[i] = F[i][f[i - 1]]
        BY <1>2
    <2> DEFINE g == [i \in 0 .. n + 1 |-> IF i = n + 1 THEN F[n + 1][f[n]] ELSE f[i]]
    <2>2. F[n + 1] \in [V -> V] /\ f[n] \in V
        BY <1>2
    <2>3. F[n + 1][f[n]] \in V
        BY <2>2
    <2>4. \A i \in 0 .. n : f[i] \in V
        OBVIOUS
    <2>5. g \in [0 .. n + 1 -> V]
        <3> SUFFICES ASSUME NEW i \in 0 .. n + 1
                     PROVE  (IF i = n + 1 THEN F[n + 1][f[n]] ELSE f[i]) \in V
            OBVIOUS
        <3> QED BY <2>3, <2>4
    <2>6. g[0] = v0
        BY <2>1
    <2>7. ASSUME NEW i \in 1 .. n + 1 PROVE g[i] = F[i][g[i - 1]]
        <3>1. CASE i = n + 1
            <4>1. i - 1 = n /\ n \in 0 .. n + 1 /\ n # n + 1 /\ i \in 0 .. n + 1
                BY <3>1
            <4>2. g[i] = F[n + 1][f[n]] /\ g[i - 1] = f[n]
                BY <3>1, <4>1
            <4> QED BY <3>1, <4>2
        <3>2. CASE i # n + 1
            <4>1. i \in 1 .. n /\ i - 1 \in 0 .. n + 1 /\ i - 1 # n + 1 /\ i \in 0 .. n + 1
                BY <3>2
            <4>2. g[i] = f[i] /\ g[i - 1] = f[i - 1]
                BY <3>2, <4>1
            <4> QED BY <2>1, <4>1, <4>2
        <3> QED BY <3>1, <3>2
    <2> HIDE DEF g
    <2> QED BY <2>5, <2>6, <2>7
<1> HIDE DEF P
<1>3. S = Nat
    <2>1. 0 \in S
        BY <1>1
    <2>2. \A n \in S : n + 1 \in S
        <3> SUFFICES ASSUME NEW n \in Nat, n <= N => P(n), n + 1 <= N PROVE P(n + 1)
            OBVIOUS
        <3> QED BY <1>2
    <2> HIDE DEF S
    <2>3. S \subseteq Nat
        BY DEF S
    <2> QED BY <2>1, <2>2, <2>3, NatSetInduction
<1>4. P(N)
    BY <1>3
<1> QED BY <1>4 DEF P, Turns

-----------------------------------------------------------------------------
(* Arithmetic of digits.                                                   *)

(* The last digit and the rest of a number. *)
LEMMA LastDigit ==
    \A x \in Nat : /\ x \div Base \in Nat
                   /\ x % Base \in Digits
                   /\ x = (x \div Base) * Base + (x % Base)
<1> SUFFICES ASSUME NEW x \in Nat
             PROVE  /\ x \div Base \in Nat
                    /\ x % Base \in Digits
                    /\ x = (x \div Base) * Base + (x % Base)
    OBVIOUS
<1>1. Base \in Nat /\ Base > 1
    BY BaseAssumption
<1>2. x % Base \in 0 .. Base - 1
    BY <1>1
<1>3. x = (x \div Base) * Base + (x % Base)
    BY <1>1
<1>4. x \div Base \in Nat
    BY <1>1
<1> QED BY <1>2, <1>3, <1>4, Zenon DEF Digits

(* A larger number leaves a larger rest. *)
LEMMA RestGrows ==
    \A x, y \in Nat : x <= y => x \div Base <= y \div Base
<1> SUFFICES ASSUME NEW x \in Nat, NEW y \in Nat, x <= y
             PROVE  x \div Base <= y \div Base
    OBVIOUS
<1>1. Base \in Nat /\ Base > 1
    BY BaseAssumption
<1>2. PICK a \in Nat, r \in 0 .. Base - 1 : x = a * Base + r /\ a = x \div Base
    <2>1. x \div Base \in Nat /\ x % Base \in 0 .. Base - 1
          /\ x = (x \div Base) * Base + (x % Base)
        BY LastDigit, Zenon DEF Digits
    <2> QED BY <2>1, Zenon
<1>3. PICK b \in Nat, s \in 0 .. Base - 1 : y = b * Base + s /\ b = y \div Base
    <2>1. y \div Base \in Nat /\ y % Base \in 0 .. Base - 1
          /\ y = (y \div Base) * Base + (y % Base)
        BY LastDigit, Zenon DEF Digits
    <2> QED BY <2>1, Zenon
<1>4. ASSUME a > b PROVE FALSE
    <2>1. PICK d \in Nat : a = b + 1 + d
        <3>1. a - b - 1 \in Nat /\ a = b + 1 + (a - b - 1)
            BY <1>4
        <3> QED BY <3>1
    <2>2. d * Base \in Nat /\ b * Base \in Nat
        BY <1>1
    <2>3. a * Base = b * Base + Base + d * Base
        BY <1>1, <2>1
    <2> QED BY <1>1, <1>2, <1>3, <2>2, <2>3
<1> QED BY <1>2, <1>3, <1>4

(* Whole turns of the range of an int are lost. *)
LEMMA WrapTurns == \A z, k \in Int : Wrap(z + k * (2 * IntHalf)) = Wrap(z)
<1> SUFFICES ASSUME NEW z \in Int, NEW k \in Int
             PROVE  Wrap(z + k * (2 * IntHalf)) = Wrap(z)
    OBVIOUS
<1> DEFINE M == 2 * IntHalf
           y == z + IntHalf
<1>1. IntHalf \in Nat /\ M \in Nat /\ M > 0 /\ y \in Int
    BY IntHalfAssumption
<1>2. PICK q \in Int : y = q * M + (y % M)
    BY <1>1, Division
<1>3. y % M \in Int /\ 0 <= y % M /\ y % M < M
    BY <1>1, Division
<1>4. k * M \in Int /\ q * M \in Int /\ q + k \in Int /\ (q + k) * M = q * M + k * M
    BY <1>1
<1> HIDE DEF M
<1>5. y + k * M = (q + k) * M + (y % M) /\ y + k * M \in Int
    BY <1>1, <1>2, <1>3, <1>4
<1>6. (y + k * M) % M = y % M
    BY <1>1, <1>3, <1>4, <1>5, RemainderUnique
<1>7. z + k * M + IntHalf = y + k * M
    BY <1>1, <1>4
<1>8. Wrap(z + k * M) = ((z + k * M + IntHalf) % M) - IntHalf
    BY DEF Wrap, M
<1>9. Wrap(z) = (y % M) - IntHalf
    BY DEF Wrap, M
<1> QED BY <1>6, <1>7, <1>8, <1>9 DEF M

(* An int is not changed. *)
LEMMA WrapOfInt == \A m \in Int32 : Wrap(m) = m
<1> SUFFICES ASSUME NEW m \in Int32 PROVE Wrap(m) = m
    OBVIOUS
<1> DEFINE M == 2 * IntHalf
           y == m + IntHalf
<1>1. IntHalf \in Nat /\ M \in Nat /\ m \in Int /\ y \in Int /\ 0 <= y /\ y < M
    BY IntHalfAssumption DEF Int32
<1>2. y = 0 * M + y /\ 0 \in Int
    BY <1>1
<1>3. y % M = y
    BY <1>1, <1>2, RemainderUnique
<1>4. Wrap(m) = (y % M) - IntHalf
    BY DEF Wrap
<1> QED BY <1>1, <1>3, <1>4

(* One turn of the loop of SubstringToInt on the int that an exact value   *)
(* was reduced to.                                                         *)
LEMMA WrapDigit ==
    \A x, d \in Int : Wrap(Wrap(Wrap(x) * Base) + d) = Wrap(x * Base + d)
<1> SUFFICES ASSUME NEW x \in Int, NEW d \in Int
             PROVE  Wrap(Wrap(Wrap(x) * Base) + d) = Wrap(x * Base + d)
    OBVIOUS
<1> DEFINE M == 2 * IntHalf
           y == x + IntHalf
<1>1. IntHalf \in Nat /\ M \in Nat /\ M > 0 /\ y \in Int /\ Base \in Int
    BY IntHalfAssumption, BaseAssumption
<1>2. PICK q \in Int : y = q * M + (y % M)
    BY <1>1, Division
<1>3. y % M \in Int
    BY <1>1, Division
<1>4. Wrap(x) = (y % M) - IntHalf
    BY DEF Wrap
<1>5. PICK w \in Int : w = Wrap(x)
    BY WrapInt32, IntHalfAssumption DEF Int32
<1> HIDE DEF M
<1>6. q * M \in Int /\ w = x - q * M
    BY <1>1, <1>2, <1>3, <1>4, <1>5
<1>7. -(q * Base) \in Int /\ w * Base \in Int /\ x * Base \in Int
    BY <1>1
<1>8. w * Base = x * Base + (-(q * Base)) * M
    BY <1>1, <1>6
<1>9. w * Base + d = x * Base + d + (-(q * Base)) * M
    <2>1. PICK a \in Int, b \in Int, c \in Int :
              a = w * Base /\ b = x * Base /\ c = (-(q * Base)) * M
        BY <1>1, <1>7
    <2>2. a = b + c
        BY <1>8, <2>1
    <2>3. a + d = b + d + c
        BY <2>2
    <2> QED BY <2>1, <2>3
<1>10. Wrap(w * Base + d) = Wrap(x * Base + d)
    <2>1. PICK z \in Int : z = x * Base + d
        BY <1>7
    <2>2. PICK k \in Int : k = -(q * Base)
        BY <1>7
    <2>3. Wrap(z + k * M) = Wrap(z)
        BY WrapTurns DEF M
    <2> QED BY <1>9, <2>1, <2>2, <2>3
<1>11. Wrap(Wrap(w * Base) + d) = Wrap(w * Base + d)
    BY <1>7, WrapSum
<1> QED BY <1>5, <1>10, <1>11


-----------------------------------------------------------------------------
(* The loops over the characters of a number.                              *)

(* The rests that the loop of WriteNumberToString goes through. *)
LEMMA LeftValues ==
    ASSUME NEW n \in Nat
    PROVE  /\ Left(n) \in [0 .. FieldWidth -> Nat]
           /\ Left(n)[0] = n
           /\ \A k \in 1 .. FieldWidth : Left(n)[k] = Left(n)[k - 1] \div Base
<1> DEFINE G(left) == [k \in 0 .. FieldWidth |->
                          IF k = 0 THEN n ELSE left[k - 1] \div Base]
           F == [k \in 1 .. FieldWidth |-> [x \in Nat |-> x \div Base]]
<1>1. FieldWidth \in Nat
    BY FieldAssumption
<1>2. F \in [1 .. FieldWidth -> [Nat -> Nat]]
    BY LastDigit
<1>3. PICK f \in [0 .. FieldWidth -> Nat] :
          f[0] = n /\ \A k \in 1 .. FieldWidth : f[k] = F[k][f[k - 1]]
    <2> HIDE DEF F
    <2>1. \E f : Turns(f, Nat, n, FieldWidth, F)
        BY <1>1, <1>2, LoopValues
    <2> QED BY <2>1, Zenon DEF Turns
<1>4. \A k \in 1 .. FieldWidth : f[k] = f[k - 1] \div Base
    <2> SUFFICES ASSUME NEW k \in 1 .. FieldWidth PROVE f[k] = f[k - 1] \div Base
        OBVIOUS
    <2>1. f[k - 1] \in Nat
        BY <1>1
    <2>2. F[k][f[k - 1]] = f[k - 1] \div Base
        BY <2>1
    <2> QED BY <1>3, <2>2
<1>5. f = G(f)
    <2>1. ASSUME NEW k \in 0 .. FieldWidth
          PROVE  f[k] = IF k = 0 THEN n ELSE f[k - 1] \div Base
        BY <1>1, <1>3, <1>4
    <2> QED BY <2>1
<1>6. Left(n) = CHOOSE left : left = G(left)
    BY DEF Left
<1> HIDE DEF G
<1>7. Left(n) = G(Left(n))
    BY <1>5, <1>6, Zenon
<1>8. PICK g : g = Left(n)
    OBVIOUS
<1>9. g = [k \in 0 .. FieldWidth |-> IF k = 0 THEN n ELSE g[k - 1] \div Base]
    BY <1>7, <1>8, Zenon DEF G
<1>10. g[0] = n /\ \A k \in 1 .. FieldWidth : g[k] = g[k - 1] \div Base
    <2>1. ASSUME NEW k \in 0 .. FieldWidth
          PROVE  g[k] = IF k = 0 THEN n ELSE g[k - 1] \div Base
        BY <1>9
    <2> QED BY <1>1, <2>1
<1>11. \A k \in 0 .. FieldWidth : g[k] \in Nat
    <2> DEFINE S == {k \in Nat : k <= FieldWidth => g[k] \in Nat}
    <2>1. 0 \in S
        BY <1>10
    <2>2. \A k \in S : k + 1 \in S
        <3> SUFFICES ASSUME NEW k \in S, k + 1 <= FieldWidth PROVE g[k + 1] \in Nat
            OBVIOUS
        <3>1. g[k] \in Nat /\ k + 1 \in 1 .. FieldWidth /\ k + 1 - 1 = k
            BY <1>1
        <3>2. g[k + 1] = g[k] \div Base
            BY <1>10, <3>1
        <3> QED BY <3>1, <3>2, LastDigit
    <2>3. S \subseteq Nat
        OBVIOUS
    <2> HIDE DEF S
    <2>4. S = Nat
        BY <2>1, <2>2, <2>3, NatSetInduction
    <2> QED BY <1>1, <2>4 DEF S
<1>12. g \in [0 .. FieldWidth -> Nat]
    <2>1. g = [k \in 0 .. FieldWidth |-> g[k]]
        BY <1>9, Zenon
    <2> QED BY <1>11, <2>1
<1> QED BY <1>8, <1>10, <1>12

(* A larger number leaves larger rests. *)
LEMMA LeftGrows ==
    ASSUME NEW m \in Nat, NEW n \in Nat, m <= n
    PROVE  \A k \in 0 .. FieldWidth : Left(m)[k] <= Left(n)[k]
<1>1. PICK f \in [0 .. FieldWidth -> Nat] :
          /\ f = Left(m)
          /\ f[0] = m /\ \A k \in 1 .. FieldWidth : f[k] = f[k - 1] \div Base
    BY LeftValues, Zenon
<1>2. PICK g \in [0 .. FieldWidth -> Nat] :
          /\ g = Left(n)
          /\ g[0] = n /\ \A k \in 1 .. FieldWidth : g[k] = g[k - 1] \div Base
    BY LeftValues, Zenon
<1>3. FieldWidth \in Nat
    BY FieldAssumption
<1> DEFINE S == {k \in Nat : k <= FieldWidth => f[k] <= g[k]}
<1>4. 0 \in S
    BY <1>1, <1>2
<1>5. \A k \in S : k + 1 \in S
    <2> SUFFICES ASSUME NEW k \in S, k + 1 <= FieldWidth PROVE f[k + 1] <= g[k + 1]
        OBVIOUS
    <2>1. /\ k \in 0 .. FieldWidth /\ k + 1 \in 1 .. FieldWidth /\ k + 1 - 1 = k
          /\ f[k] <= g[k]
        BY <1>3
    <2>2. f[k] \in Nat /\ g[k] \in Nat
        BY <2>1
    <2>3. f[k + 1] = f[k] \div Base /\ g[k + 1] = g[k] \div Base
        BY <1>1, <1>2, <2>1
    <2>4. f[k] \div Base <= g[k] \div Base
        BY <2>1, <2>2, RestGrows
    <2> QED BY <2>3, <2>4
<1>6. S \subseteq Nat
    OBVIOUS
<1> HIDE DEF S
<1>7. S = Nat
    BY <1>4, <1>5, <1>6, NatSetInduction
<1>8. ASSUME NEW k \in 0 .. FieldWidth PROVE f[k] <= g[k]
    <2>1. k \in S /\ k <= FieldWidth
        BY <1>3, <1>7
    <2> QED BY <2>1, Zenon DEF S
<1> QED BY <1>1, <1>2, <1>8

(* A text of digits has a value after each of them. *)
LEMMA ExactValues ==
    ASSUME NEW text \in Seq(Chars), AllDigits(text)
    PROVE  \E x \in [0 .. Len(text) -> Nat] :
               /\ Exact(text) = x[Len(text)]
               /\ x[0] = 0
               /\ \A i \in 1 .. Len(text) : x[i] = x[i - 1] * Base + text[i]
<1> DEFINE N == Len(text)
           G(x) == [i \in 0 .. N |-> IF i = 0 THEN 0 ELSE x[i - 1] * Base + text[i]]
           F == [i \in 1 .. N |-> [v \in Nat |-> v * Base + text[i]]]
<1>1. N \in Nat /\ Base \in Nat
    BY BaseAssumption
<1>2. F \in [1 .. N -> [Nat -> Nat]]
    <2>1. ASSUME NEW i \in 1 .. N, NEW v \in Nat PROVE v * Base + text[i] \in Nat
        <3>1. text[i] \in Nat /\ v * Base \in Nat
            BY <1>1 DEF AllDigits, Digits
        <3> QED BY <3>1
    <2> QED BY <2>1
<1>3. PICK f \in [0 .. N -> Nat] :
          f[0] = 0 /\ \A i \in 1 .. N : f[i] = F[i][f[i - 1]]
    <2> HIDE DEF F, N
    <2>1. \E f : Turns(f, Nat, 0, N, F)
        BY <1>1, <1>2, LoopValues
    <2> QED BY <2>1, Zenon DEF Turns
<1>4. \A i \in 1 .. N : f[i] = f[i - 1] * Base + text[i]
    <2> SUFFICES ASSUME NEW i \in 1 .. N PROVE f[i] = f[i - 1] * Base + text[i]
        OBVIOUS
    <2>1. f[i - 1] \in Nat
        BY <1>1
    <2>2. F[i][f[i - 1]] = f[i - 1] * Base + text[i]
        BY <2>1
    <2> QED BY <1>3, <2>2
<1>5. f = G(f)
    <2>1. ASSUME NEW i \in 0 .. N
          PROVE  f[i] = IF i = 0 THEN 0 ELSE f[i - 1] * Base + text[i]
        BY <1>1, <1>3, <1>4
    <2> QED BY <2>1
<1> DEFINE g == CHOOSE x : x = G(x)
<1>6. Exact(text) = g[N]
    BY DEF Exact
<1> HIDE DEF G, N
<1>7. g = G(g)
    BY <1>5, Zenon
<1> HIDE DEF g
<1>9. g = [i \in 0 .. N |-> IF i = 0 THEN 0 ELSE g[i - 1] * Base + text[i]]
    BY <1>7, Zenon DEF G
<1>10. g[0] = 0 /\ \A i \in 1 .. N : g[i] = g[i - 1] * Base + text[i]
    <2>1. ASSUME NEW i \in 0 .. N
          PROVE  g[i] = IF i = 0 THEN 0 ELSE g[i - 1] * Base + text[i]
        BY <1>9
    <2> QED BY <1>1, <2>1
<1>11. \A i \in 0 .. N : g[i] \in Nat
    <2> DEFINE S == {i \in Nat : i <= N => g[i] \in Nat}
    <2>1. 0 \in S
        BY <1>10
    <2>2. \A i \in S : i + 1 \in S
        <3> SUFFICES ASSUME NEW i \in S, i + 1 <= N PROVE g[i + 1] \in Nat
            OBVIOUS
        <3>1. g[i] \in Nat /\ i + 1 \in 1 .. N /\ i + 1 - 1 = i
            BY <1>1
        <3>2. g[i + 1] = g[i] * Base + text[i + 1]
            BY <1>10, <3>1
        <3>3. text[i + 1] \in Nat /\ g[i] * Base \in Nat
            BY <1>1, <3>1 DEF AllDigits, Digits, N
        <3> QED BY <3>2, <3>3
    <2>3. S \subseteq Nat
        OBVIOUS
    <2> HIDE DEF S
    <2>4. S = Nat
        BY <2>1, <2>2, <2>3, NatSetInduction
    <2> QED BY <1>1, <2>4 DEF S
<1>12. g \in [0 .. N -> Nat]
    <2>1. g = [i \in 0 .. N |-> g[i]]
        BY <1>9, Zenon
    <2> QED BY <1>11, <2>1
<1> QED BY <1>6, <1>10, <1>12 DEF N

(***************************************************************************)
(* SubstringToInt leaves the exact value of the digits reduced to an int,  *)
(* however many there are: overflow at one digit does not spoil the next.  *)
(***************************************************************************)
LEMMA ParsedIsWrapped ==
    ASSUME NEW text \in Seq(Chars), AllDigits(text)
    PROVE  /\ SubstringToInt(text) = Wrap(Exact(text))
           /\ Exact(text) \in Nat
<1> DEFINE N == Len(text)
           G(x) == [i \in 0 .. N |->
                       IF i = 0 THEN 0 ELSE Wrap(Wrap(x[i - 1] * Base) + text[i])]
<1>1. N \in Nat
    OBVIOUS
<1>2. PICK x \in [0 .. N -> Nat] :
          /\ Exact(text) = x[N]
          /\ x[0] = 0
          /\ \A i \in 1 .. N : x[i] = x[i - 1] * Base + text[i]
    BY ExactValues, Zenon
<1>3. ASSUME NEW i \in 1 .. N
      PROVE  Wrap(Wrap(Wrap(x[i - 1]) * Base) + text[i]) = Wrap(x[i])
    <2>1. x[i - 1] \in Int /\ text[i] \in Int
        BY <1>1, BaseAssumption DEF AllDigits, Digits
    <2>2. Wrap(Wrap(Wrap(x[i - 1]) * Base) + text[i]) = Wrap(x[i - 1] * Base + text[i])
        BY <2>1, WrapDigit
    <2> QED BY <1>2, <2>2
<1> DEFINE f == [i \in 0 .. N |-> Wrap(x[i])]
<1>4. f = G(f)
    <2>1. ASSUME NEW i \in 0 .. N
          PROVE  f[i] = IF i = 0 THEN 0 ELSE Wrap(Wrap(f[i - 1] * Base) + text[i])
        <3>1. CASE i = 0
            BY <1>2, <3>1, WrapZero
        <3>2. CASE i # 0
            <4>1. i \in 1 .. N /\ i - 1 \in 0 .. N
                BY <1>1, <3>2
            <4>2. f[i] = Wrap(x[i]) /\ f[i - 1] = Wrap(x[i - 1])
                BY <4>1
            <4> QED BY <1>3, <3>2, <4>1, <4>2
        <3> QED BY <3>1, <3>2
    <2>2. f = [i \in 0 .. N |-> f[i]]
        OBVIOUS
    <2> HIDE DEF f
    <2> QED BY <2>1, <2>2
<1> DEFINE g == CHOOSE y : y = G(y)
<1>5. SubstringToInt(text) = g[N]
    BY DEF SubstringToInt
<1> HIDE DEF G, N, f
<1>6. g = G(g)
    BY <1>4, Zenon
<1> HIDE DEF g
<1>7. g = [i \in 0 .. N |-> IF i = 0 THEN 0 ELSE Wrap(Wrap(g[i - 1] * Base) + text[i])]
    BY <1>6, Zenon DEF G
<1>8. ASSUME NEW i \in 0 .. N
      PROVE  g[i] = IF i = 0 THEN 0 ELSE Wrap(Wrap(g[i - 1] * Base) + text[i])
    BY <1>7
<1> DEFINE S == {i \in Nat : i <= N => g[i] = Wrap(x[i])}
<1>9. 0 \in S
    BY <1>1, <1>2, <1>8, WrapZero
<1>10. \A i \in S : i + 1 \in S
    <2> SUFFICES ASSUME NEW i \in S, i + 1 <= N PROVE g[i + 1] = Wrap(x[i + 1])
        OBVIOUS
    <2>1. /\ i + 1 \in 1 .. N /\ i + 1 \in 0 .. N /\ i + 1 # 0 /\ i + 1 - 1 = i
          /\ g[i] = Wrap(x[i])
        BY <1>1
    <2>2. g[i + 1] = Wrap(Wrap(g[i] * Base) + text[i + 1])
        BY <1>8, <2>1
    <2>3. Wrap(Wrap(Wrap(x[i]) * Base) + text[i + 1]) = Wrap(x[i + 1])
        BY <1>3, <2>1
    <2> QED BY <2>1, <2>2, <2>3
<1>11. S \subseteq Nat
    OBVIOUS
<1> HIDE DEF S
<1>12. S = Nat
    BY <1>9, <1>10, <1>11, NatSetInduction
<1>13. g[N] = Wrap(x[N])
    <2>1. N \in S /\ N <= N
        BY <1>1, <1>12
    <2> QED BY <2>1, Zenon DEF S
<1>14. x[N] \in Nat
    BY <1>1
<1> QED BY <1>2, <1>5, <1>13, <1>14

-----------------------------------------------------------------------------
(* What is written reads back.                                             *)

(* Once nothing is left nothing is left. *)
LEMMA NothingLeft ==
    ASSUME NEW n \in Nat, NEW w \in 0 .. FieldWidth, Left(n)[w] = 0
    PROVE  \A k \in w .. FieldWidth : Left(n)[k] = 0
<1>1. PICK f \in [0 .. FieldWidth -> Nat] :
          /\ f = Left(n)
          /\ \A k \in 1 .. FieldWidth : f[k] = f[k - 1] \div Base
    BY LeftValues, Zenon
<1>2. FieldWidth \in Nat
    BY FieldAssumption
<1> DEFINE S == {k \in Nat : w + k <= FieldWidth => f[w + k] = 0}
<1>3. 0 \in S
    <2>1. w + 0 = w
        BY <1>2
    <2> QED BY <1>1, <2>1
<1>4. \A k \in S : k + 1 \in S
    <2> SUFFICES ASSUME NEW k \in S, w + (k + 1) <= FieldWidth
                 PROVE  f[w + (k + 1)] = 0
        OBVIOUS
    <2>1. /\ w + (k + 1) \in 1 .. FieldWidth /\ (w + (k + 1)) - 1 = w + k
          /\ f[w + k] = 0
        BY <1>2
    <2>2. f[w + (k + 1)] = 0 \div Base
        BY <1>1, <2>1
    <2>3. 0 \div Base = 0
        BY BaseAssumption
    <2> QED BY <2>2, <2>3
<1>5. S \subseteq Nat
    OBVIOUS
<1> HIDE DEF S
<1>6. S = Nat
    BY <1>3, <1>4, <1>5, NatSetInduction
<1>7. ASSUME NEW k \in w .. FieldWidth PROVE f[k] = 0
    <2>1. k - w \in S /\ w + (k - w) = k /\ k <= FieldWidth
        BY <1>2, <1>6
    <2> QED BY <2>1 DEF S
<1> QED BY <1>1, <1>7

(* A number that fits the field has a length there. *)
LEMMA LengthOf ==
    ASSUME NEW n \in Nat, Left(n)[FieldWidth - 1] = 0, n > 0
    PROVE  \E w \in 1 .. FieldWidth - 1 : Left(n)[w] = 0 /\ Left(n)[w - 1] > 0
<1>1. PICK f \in [0 .. FieldWidth -> Nat] : f = Left(n) /\ f[0] = n
    BY LeftValues, Zenon
<1>2. FieldWidth \in Nat /\ FieldWidth > 0
    BY FieldAssumption
<1> SUFFICES ASSUME \A w \in 1 .. FieldWidth - 1 : f[w] = 0 => ~(f[w - 1] > 0)
             PROVE  FALSE
    BY <1>1
<1> DEFINE S == {k \in Nat : k <= FieldWidth - 1 => f[k] > 0}
<1>3. 0 \in S
    BY <1>1
<1>4. \A k \in S : k + 1 \in S
    <2> SUFFICES ASSUME NEW k \in S, k + 1 <= FieldWidth - 1 PROVE f[k + 1] > 0
        OBVIOUS
    <2>1. /\ k + 1 \in 1 .. FieldWidth - 1 /\ k + 1 - 1 = k /\ f[k] > 0
          /\ k + 1 \in 0 .. FieldWidth
        BY <1>2
    <2>2. f[k + 1] # 0 /\ f[k + 1] \in Nat
        BY <2>1
    <2> QED BY <2>2
<1>5. S \subseteq Nat
    OBVIOUS
<1> HIDE DEF S
<1>6. S = Nat
    BY <1>3, <1>4, <1>5, NatSetInduction
<1>7. FieldWidth - 1 \in S
    BY <1>2, <1>6
<1>8. f[FieldWidth - 1] > 0
    BY <1>2, <1>7 DEF S
<1> QED BY <1>1, <1>8

(* The digits of n, from the first, have the value n. *)
LEMMA DigitsOf ==
    ASSUME NEW n \in Nat, NEW w \in 1 .. FieldWidth, Left(n)[w] = 0,
           NEW text \in Seq(Chars), Len(text) = w,
           \A j \in 1 .. w : text[j] = Left(n)[w - j] % Base
    PROVE  AllDigits(text) /\ Exact(text) = n
<1>1. PICK f \in [0 .. FieldWidth -> Nat] :
          /\ f = Left(n)
          /\ f[0] = n /\ \A k \in 1 .. FieldWidth : f[k] = f[k - 1] \div Base
    BY LeftValues, ZenonT(40)
<1>2. FieldWidth \in Nat /\ w \in Nat
    BY FieldAssumption
<1>3. ASSUME NEW j \in 1 .. w
      PROVE  /\ w - j \in 0 .. FieldWidth /\ w - (j - 1) \in 1 .. FieldWidth
             /\ f[w - j] \in Nat
             /\ text[j] = f[w - j] % Base
             /\ f[w - (j - 1)] = f[w - j] \div Base
    <2>1. w - j \in 0 .. FieldWidth /\ w - (j - 1) \in 1 .. FieldWidth
          /\ (w - (j - 1)) - 1 = w - j
        BY <1>2
    <2> QED BY <1>1, <2>1
<1>4. AllDigits(text)
    <2> SUFFICES ASSUME NEW j \in 1 .. w PROVE text[j] \in Digits
        BY DEF AllDigits
    <2> QED BY <1>3, LastDigit
<1>5. PICK x \in [0 .. w -> Nat] :
          /\ Exact(text) = x[w]
          /\ x[0] = 0
          /\ \A i \in 1 .. w : x[i] = x[i - 1] * Base + text[i]
    BY <1>4, ExactValues, Zenon
<1> DEFINE S == {j \in Nat : j <= w => x[j] = f[w - j]}
<1>6. 0 \in S
    <2>1. w - 0 = w
        BY <1>2
    <2> QED BY <1>1, <1>5, <2>1
<1>7. \A j \in S : j + 1 \in S
    <2>0. \A j \in Nat : j + 1 \in Nat
        OBVIOUS
    <2> SUFFICES ASSUME NEW j \in Nat, j <= w => x[j] = f[w - j], j + 1 <= w
                 PROVE  x[j + 1] = f[w - (j + 1)]
        BY <2>0, Zenon
    <2>1. j + 1 \in 1 .. w /\ (j + 1) - 1 = j /\ x[j] = f[w - j]
        BY <1>2
    <2>2. x[j + 1] = x[j] * Base + text[j + 1]
        BY <1>5, <2>1
    <2>3. /\ f[w - (j + 1)] \in Nat
          /\ text[j + 1] = f[w - (j + 1)] % Base
          /\ f[w - j] = f[w - (j + 1)] \div Base
        BY <1>3, <2>1
    <2>4. f[w - (j + 1)] =
              (f[w - (j + 1)] \div Base) * Base + (f[w - (j + 1)] % Base)
        BY <2>3, LastDigit
    <2> QED BY <2>1, <2>2, <2>3, <2>4, Zenon
<1>8. S \subseteq Nat
    OBVIOUS
<1> HIDE DEF S
<1>9. S = Nat
    BY <1>6, <1>7, <1>8, NatSetInduction
<1>10. x[w] = f[0]
    <2>1. w \in S /\ w <= w /\ w - w = 0
        BY <1>2, <1>9
    <2> QED BY <2>1 DEF S
<1> QED BY <1>1, <1>4, <1>5, <1>10

(* The characters that are written over a blank field. *)
LEMMA WrittenCharacters ==
    ASSUME NEW n \in -(IntHalf - 1) .. IntHalf - 1
    PROVE  LET m == IF n < 0 THEN -n ELSE n
               text == WriteNumberToString(n, Blank)
           IN  /\ m \in 0 .. IntHalf - 1
               /\ text \in Seq(Chars) /\ Len(text) = FieldWidth
               /\ \A i \in 1 .. FieldWidth :
                      LET k == FieldWidth - i
                      IN  /\ n = 0 /\ k = 0 => text[i] = 0
                          /\ Left(m)[k] > 0 => text[i] = Left(m)[k] % Base
                          /\ n < 0 /\ Left(m)[k] = 0 /\ k > 0 /\ Left(m)[k - 1] > 0
                                 => text[i] = Minus
                          /\ Left(m)[k] = 0 /\ k > 0 /\ ~(n < 0 /\ Left(m)[k - 1] > 0)
                                 => text[i] = Space
<1> DEFINE m == IF n < 0 THEN -n ELSE n
           text == WriteNumberToString(n, Blank)
<1>1. IntHalf \in Nat /\ n \in Int /\ FieldWidth \in Nat /\ Base \in Nat
    BY IntHalfAssumption, FieldAssumption, BaseAssumption
<1>2. m \in 0 .. IntHalf - 1 /\ m \in Nat /\ m \in Int32 /\ (n < 0 => m = -n)
      /\ (n = 0 <=> m = 0)
    BY <1>1 DEF Int32
<1>3. (IF n < 0 THEN Wrap(-n) ELSE n) = m
    BY <1>2, WrapOfInt
<1>4. PICK f \in [0 .. FieldWidth -> Nat] : f = Left(m) /\ f[0] = m
    BY <1>2, LeftValues, Zenon
<1> DEFINE char(k, old) ==
               CASE n = 0 /\ k = 0 -> 0
                 [] f[k] > 0 -> f[k] % Base
                 [] n < 0 /\ ~(f[k] > 0) /\ (k = 0 \/ f[k - 1] > 0) -> Minus
                 [] OTHER -> old
<1> HIDE DEF m
<1>5. text = [i \in 1 .. FieldWidth |-> char(FieldWidth - i, Blank[i])]
    BY <1>3, <1>4 DEF WriteNumberToString
<1>6. ASSUME NEW i \in 1 .. FieldWidth
      PROVE  text[i] = char(FieldWidth - i, Space)
    <2>1. Blank[i] = Space
        BY DEF Blank
    <2> HIDE DEF char, text
    <2> QED BY <1>5, <2>1
<1>0. text = [i \in 1 .. FieldWidth |-> text[i]]
    <2> HIDE DEF char, text
    <2> QED BY <1>5
<1> HIDE DEF text
<1>7. ASSUME NEW i \in 1 .. FieldWidth, NEW k, k = FieldWidth - i
      PROVE  /\ n = 0 /\ k = 0 => text[i] = 0
             /\ f[k] > 0 => text[i] = f[k] % Base
             /\ n < 0 /\ f[k] = 0 /\ k > 0 /\ f[k - 1] > 0 => text[i] = Minus
             /\ f[k] = 0 /\ k > 0 /\ ~(n < 0 /\ f[k - 1] > 0) => text[i] = Space
             /\ text[i] \in Chars
    <2>1. k \in Int /\ 0 <= k /\ k <= FieldWidth /\ f[k] \in Nat
        BY <1>1, <1>7
    <2>2. text[i] = char(k, Space)
        BY <1>6, <1>7
    <2>3. n = 0 /\ k = 0 => ~(f[k] > 0)
        BY <1>2, <1>4
    <2>4. n = 0 /\ k = 0 => text[i] = 0
        BY <2>2, <2>3
    <2>5. f[k] > 0 => text[i] = f[k] % Base
        BY <2>2, <2>3
    <2>6. ~(f[k] > 0) /\ ~(n = 0 /\ k = 0) /\ ~(n < 0 /\ (k = 0 \/ f[k - 1] > 0))
              => text[i] = Space
        BY <2>2
    <2>7. ~(f[k] > 0) /\ ~(n = 0 /\ k = 0) /\ n < 0 /\ (k = 0 \/ f[k - 1] > 0)
              => text[i] = Minus
        BY <2>2
    <2>8. text[i] \in Chars
        <3>1. f[k] % Base \in Digits
            BY <2>1, LastDigit
        <3>2. Digits \subseteq Chars /\ 0 \in Chars /\ Space \in Chars /\ Minus \in Chars
            BY <1>1 DEF Digits, Chars, Space, Minus
        <3> HIDE DEF char
        <3> QED BY <2>4, <2>5, <2>6, <2>7, <3>1, <3>2
    <2> HIDE DEF char
    <2> QED BY <2>1, <2>4, <2>5, <2>6, <2>7, <2>8
<1>8. text \in Seq(Chars) /\ Len(text) = FieldWidth
    <2>2. \A i \in 1 .. FieldWidth : text[i] \in Chars
        BY <1>1, <1>7
    <2>3. text \in [1 .. FieldWidth -> Chars]
        BY <1>0, <2>2
    <2> QED BY <1>1, <2>3
<1>9. ASSUME NEW i \in 1 .. FieldWidth
      PROVE  LET k == FieldWidth - i
             IN  /\ n = 0 /\ k = 0 => text[i] = 0
                 /\ f[k] > 0 => text[i] = f[k] % Base
                 /\ n < 0 /\ f[k] = 0 /\ k > 0 /\ f[k - 1] > 0 => text[i] = Minus
                 /\ f[k] = 0 /\ k > 0 /\ ~(n < 0 /\ f[k - 1] > 0) => text[i] = Space
    BY <1>7
<1> QED BY <1>2, <1>4, <1>8, <1>9 DEF m, text

(* The most negative int excepted, a number written over a blank field     *)
(* reads back as itself.                                                   *)
LEMMA WriteReads ==
    ASSUME NEW n \in -(IntHalf - 1) .. IntHalf - 1
    PROVE  Reads(WriteNumberToString(n, Blank), n)
<1> DEFINE m == IF n < 0 THEN -n ELSE n
           text == WriteNumberToString(n, Blank)
           W == FieldWidth
<1>1. IntHalf \in Nat /\ n \in Int /\ W \in Nat /\ W > 0 /\ Base \in Nat /\ Base > 1
    BY IntHalfAssumption, FieldAssumption, BaseAssumption
<1>2. m \in 0 .. IntHalf - 1 /\ m \in Nat /\ (n < 0 => n = -m) /\ (~(n < 0) => n = m)
      /\ (n = 0 <=> m = 0)
    BY <1>1
<1> HIDE DEF m
<1>3. PICK f \in [0 .. W -> Nat] :
          /\ f = Left(m)
          /\ f[0] = m /\ \A k \in 1 .. W : f[k] = f[k - 1] \div Base
    BY <1>2, LeftValues, Zenon
<1>4. f[W - 1] = 0
    <2>1. f[W - 1] \in Nat
        BY <1>1
    <2>2. W - 1 \in 0 .. W /\ IntHalf - 1 \in Nat /\ m <= IntHalf - 1
        BY <1>1, <1>2, IntHalfAssumption
    <2>3. Left(m)[W - 1] <= Left(IntHalf - 1)[W - 1]
        BY <1>2, <2>2, LeftGrows
    <2>4. f[W - 1] <= 0
        BY <1>3, <2>3, FieldAssumption
    <2> QED BY <2>1, <2>4
<1>5. /\ text \in Seq(Chars) /\ Len(text) = W
      /\ \A i \in 1 .. W :
             LET k == W - i
             IN  /\ n = 0 /\ k = 0 => text[i] = 0
                 /\ f[k] > 0 => text[i] = f[k] % Base
                 /\ n < 0 /\ f[k] = 0 /\ k > 0 /\ f[k - 1] > 0 => text[i] = Minus
                 /\ f[k] = 0 /\ k > 0 /\ ~(n < 0 /\ f[k - 1] > 0) => text[i] = Space
    BY <1>3, WrittenCharacters DEF m
<1> SUFFICES Reads(text, n)
    OBVIOUS
<1> HIDE DEF text
<1> DEFINE Laid(start, w) ==
               /\ f[w] = 0
               /\ \A i \in 1 .. start - 1 : text[i] = Space
               /\ \A k \in 0 .. w - 1 : text[W - k] = f[k] % Base
               /\ n < 0 => start = W - w /\ text[start] = Minus
               /\ ~(n < 0) => start = W - w + 1
<1>6. ASSUME NEW start \in 1 .. W, NEW w \in 1 .. W, Laid(start, w)
      PROVE  Reads(text, n)
    <2> DEFINE signed == text[start] = Minus
               digits == SubSeq(text, IF signed THEN start + 1 ELSE start, Len(text))
    <2>1. signed <=> n < 0
        <3>1. ~(n < 0) => text[start] \in Digits
            <4>1. SUFFICES ASSUME ~(n < 0) PROVE text[start] \in Digits
                OBVIOUS
            <4>2. start = W - (w - 1) /\ w - 1 \in 0 .. w - 1 /\ w - 1 \in 0 .. W
                BY <1>1, <1>6, <4>1
            <4>3. text[start] = f[w - 1] % Base /\ f[w - 1] \in Nat
                BY <1>6, <4>2
            <4> QED BY <4>3, LastDigit
        <3>2. Minus \notin Digits
            BY <1>1 DEF Minus, Digits
        <3> QED BY <1>6, <3>1, <3>2
    <2> DEFINE from == W - w + 1
    <2>2. (IF signed THEN start + 1 ELSE start) = from
        BY <1>1, <1>6, <2>1
    <2>3. digits = SubSeq(text, from, W)
        BY <1>5, <2>2
    <2>4. from \in Int /\ from \in 1 .. W /\ W - from + 1 = w /\ from <= W
        BY <1>1
    <2>5. \A i \in from .. W : text[i] \in Chars
        BY <1>1, <1>5, <2>4
    <2> HIDE DEF from, signed, digits
    <2>6. /\ digits \in Seq(Chars) /\ Len(digits) = w
          /\ \A j \in 1 .. w : digits[j] = text[from + j - 1]
        <3>1. /\ SubSeq(text, from, W) \in Seq(Chars)
              /\ Len(SubSeq(text, from, W)) = IF from <= W THEN W - from + 1 ELSE 0
              /\ \A j \in 1 .. W - from + 1 : SubSeq(text, from, W)[j] = text[from + j - 1]
            BY <1>1, <2>4, <2>5, SubSeqProperties
        <3> QED BY <2>3, <2>4, <3>1
    <2>7. ASSUME NEW j \in 1 .. w PROVE digits[j] = f[w - j] % Base
        <3>1. w - j \in 0 .. w - 1 /\ W - (w - j) = from + j - 1
            BY <1>1 DEF from
        <3>2. text[W - (w - j)] = f[w - j] % Base
            BY <1>6, <3>1
        <3> QED BY <2>6, <3>1, <3>2
    <2>8. AllDigits(digits) /\ Exact(digits) = m
        <3>1. Left(m)[w] = 0 /\ \A j \in 1 .. w : digits[j] = Left(m)[w - j] % Base
            BY <1>3, <1>6, <2>7
        <3> QED BY <1>2, <2>6, <3>1, DigitsOf
    <2>9. digits # <<>>
        BY <2>6
    <2>10. n = IF signed THEN -Exact(digits) ELSE Exact(digits)
        BY <1>2, <2>1, <2>8
    <2>11. start \in 1 .. Len(text)
        BY <1>5
    <2> QED BY <1>6, <2>8, <2>9, <2>10, <2>11 DEF Reads, signed, digits
<1> HIDE DEF Laid
<1>7. CASE m = 0
    <2>1. \A k \in 0 .. W : f[k] = 0
        BY <1>1, <1>2, <1>3, <1>7, NothingLeft
    <2>2. n = 0 /\ ~(n < 0)
        BY <1>1, <1>2, <1>7
    <2>3. \A i \in 1 .. W - 1 : text[i] = Space
        <3> SUFFICES ASSUME NEW i \in 1 .. W - 1 PROVE text[i] = Space
            OBVIOUS
        <3>1. i \in 1 .. W /\ W - i \in 0 .. W /\ W - i > 0
            BY <1>1
        <3> QED BY <1>5, <2>1, <2>2, <3>1
    <2>4. text[W] = 0
        <3>1. W \in 1 .. W /\ W - W = 0
            BY <1>1
        <3> QED BY <1>5, <2>2, <3>1
    <2>5. \A k \in 0 .. 1 - 1 : text[W - k] = f[k] % Base
        <3>1. 0 % Base = 0
            BY <1>1
        <3> SUFFICES ASSUME NEW k \in 0 .. 1 - 1 PROVE text[W - k] = f[k] % Base
            OBVIOUS
        <3>2. k = 0 /\ W - k = W /\ f[k] = 0
            BY <1>1, <2>1
        <3> QED BY <2>4, <3>1, <3>2
    <2>6. W \in 1 .. W /\ 1 \in 1 .. W /\ W = W - 1 + 1
        BY <1>1
    <2>7. Laid(W, 1)
        BY <2>1, <2>2, <2>3, <2>5, <2>6 DEF Laid
    <2> QED BY <1>6, <2>6, <2>7
<1>8. CASE m > 0
    <2>1. PICK w \in 1 .. W - 1 : f[w] = 0 /\ f[w - 1] > 0
        BY <1>2, <1>3, <1>4, <1>8, LengthOf
    <2>2. \A k \in w .. W : f[k] = 0
        <3>1. w \in 0 .. W
            BY <1>1
        <3> QED BY <1>2, <1>3, <2>1, <3>1, NothingLeft
    <2>3. ASSUME NEW k \in 0 .. w - 1 PROVE f[k] > 0
        <3>1. k \in 0 .. W /\ f[k] \in Nat /\ w - 1 \in k .. W
            BY <1>1
        <3>2. f[k] # 0
            <4> SUFFICES ASSUME f[k] = 0 PROVE FALSE
                OBVIOUS
            <4>1. \A j \in k .. W : Left(m)[j] = 0
                BY <1>2, <1>3, <3>1, NothingLeft
            <4>2. f[w - 1] = 0
                BY <1>3, <3>1, <4>1
            <4> QED BY <2>1, <4>2
        <3> QED BY <3>1, <3>2
    <2>4. ASSUME NEW k \in 0 .. w - 1 PROVE text[W - k] = f[k] % Base
        <3>1. W - k \in 1 .. W /\ W - (W - k) = k
            BY <1>1
        <3> QED BY <1>5, <2>3, <3>1
    <2>5. ASSUME NEW i \in 1 .. W, w < W - i \/ (w = W - i /\ ~(n < 0))
          PROVE  text[i] = Space
        <3>1. W - i \in w .. W /\ W - i > 0 /\ W - i \in Int
            BY <1>1, <2>5
        <3>2. f[W - i] = 0
            BY <2>2, <3>1
        <3>3. ~(n < 0 /\ f[(W - i) - 1] > 0)
            <4>1. CASE w = W - i
                BY <2>5, <4>1
            <4>2. CASE w < W - i
                <5>1. (W - i) - 1 \in w .. W
                    BY <1>1, <4>2
                <5>2. f[(W - i) - 1] = 0
                    BY <2>2, <5>1
                <5> QED BY <5>2
            <4> QED BY <2>5, <4>1, <4>2
        <3> QED BY <1>5, <3>1, <3>2, <3>3
    <2>6. CASE n < 0
        <3>1. W - w \in 1 .. W /\ W - (W - w) = w /\ w > 0
            BY <1>1
        <3>2. text[W - w] = Minus
            BY <1>5, <2>1, <2>6, <3>1
        <3>3. \A i \in 1 .. (W - w) - 1 : text[i] = Space
            BY <1>1, <2>5
        <3>4. w \in 1 .. W
            BY <1>1
        <3>5. Laid(W - w, w)
            BY <2>1, <2>4, <2>6, <3>2, <3>3 DEF Laid
        <3> QED BY <1>6, <3>1, <3>4, <3>5
    <2>7. CASE ~(n < 0)
        <3>1. W - w + 1 \in 1 .. W /\ w \in 1 .. W
            BY <1>1
        <3>3. \A i \in 1 .. (W - w + 1) - 1 : text[i] = Space
            BY <1>1, <2>5, <2>7
        <3>4. Laid(W - w + 1, w)
            BY <2>1, <2>4, <2>7, <3>3 DEF Laid
        <3> QED BY <1>6, <3>1, <3>4
    <2> QED BY <2>6, <2>7
<1> QED BY <1>2, <1>7, <1>8

-----------------------------------------------------------------------------
(* PART III: the path.                                                     *)

(* What is parsed of a body is a transaction of the ledger. *)
LEMMA ParsedIsTx ==
    ASSUME NEW b \in Body, Parses(b)
    PROVE  \E v \in Values, g \in Tags : ParseJsonBody(b) = [value |-> v, tag |-> g]
<1>1. b.valor \in Seq(Chars) /\ AllDigits(b.valor) /\ b.descricao \in Tags
    BY DEF Body, Parses
<1>2. SubstringToInt(b.valor) \in Int32
    BY <1>1, ParsedIsWrapped, WrapInt32
<1>3. SubstringToInt(b.valor) \in Int
    BY <1>2, IntHalfAssumption DEF Int32
<1>4. Wrap(-SubstringToInt(b.valor)) \in Int32
    BY <1>3, WrapInt32
<1> QED BY <1>1, <1>2, <1>4, AmountsAssumption DEF ParseJsonBody

(* The body of a request that is taken for a transaction. *)
LEMMA TransactionBody ==
    ASSUME NEW h \in Https, FromHttp(h) = "transaction"
    PROVE  h.body \in Body /\ Parses(h.body)
BY HttpsAssumption DEF FromHttp

LEMMA PathStep == PathNext => [Next]_vars
<1> SUFFICES ASSUME NEW h \in Https,
                    \/ InvalidRequest(h) \/ NotFound(h) \/ Balance(h)
                    \/ TransactionAccepted(h) \/ LimitIsExceeded(h)
             PROVE  [Next]_vars
    BY DEF PathNext
<1>1. CASE InvalidRequest(h) \/ NotFound(h) \/ Balance(h)
    BY <1>1 DEF InvalidRequest, NotFound, Balance
<1>2. CASE TransactionAccepted(h) \/ LimitIsExceeded(h)
    <2>1. h.body \in Body /\ Parses(h.body)
        BY <1>2, TransactionBody DEF TransactionAccepted, LimitIsExceeded
    <2>2. PICK v \in Values, g \in Tags : ParseJsonBody(h.body) = [value |-> v, tag |-> g]
        BY <2>1, ParsedIsTx
    <2>3. Accept(ParseJsonBody(h.body)) \/ Reject(ParseJsonBody(h.body))
        BY <1>2 DEF TransactionAccepted, LimitIsExceeded
    <2>4. Accept([value |-> v, tag |-> g]) \/ Reject([value |-> v, tag |-> g])
        BY <2>2, <2>3, Zenon
    <2> QED BY <2>4 DEF Next
<1> QED BY <1>1, <1>2

(***************************************************************************)
(* Whatever texts clients send, what ProcessRequest does to the blob is a  *)
(* step of the ledger: FromHttp lets through only what parses to a         *)
(* transaction, and the other outcomes leave the blob alone.  So the       *)
(* theorems of part I hold of the path of requests too.                    *)
(***************************************************************************)
THEOREM PathImplementsLedger == PathSpec => Spec
<1>1. PathInit => Init
    BY DEF PathInit
<1>2. [PathNext]_pathVars => [Next]_vars
    <2>1. UNCHANGED pathVars => UNCHANGED vars
        BY DEF pathVars
    <2> QED BY <2>1, PathStep
<1> QED BY <1>1, <1>2, PTL DEF PathSpec, Spec

(***************************************************************************)
(* The listing, the balance and the limit of part I are right after any    *)
(* sequence of requests.                                                   *)
(***************************************************************************)
THEOREM LedgerHoldsOnThePath ==
    PathSpec => [](ListingIsLatest /\ BalanceIsTotal /\ LimitRespected)
BY PathImplementsLedger, ListingCorrect, BalanceExact, LimitHolds, PTL

-----------------------------------------------------------------------------
(* The requests behind the ledger.                                         *)

(* Every transaction of the ledger is what its request parses to. *)
Recorded ==
    /\ accepted \in Seq(Body)
    /\ Len(accepted) = Len(ledger)
    /\ \A i \in 1 .. Len(accepted) :
           Parses(accepted[i]) /\ ledger[i] = ParseJsonBody(accepted[i])

(* The buffer is the answer to the latest accepted transaction, and        *)
(* nothing has touched the blob since.                                     *)
Written == accepted # <<>> => buffer = BuildTransactionResponse(customer)

LEMMA PathInvariant == PathSpec => [](TypeOK /\ LimitInv /\ Recorded /\ Written)
<1>1. PathInit => Recorded /\ Written
    BY DEF PathInit, Init, Recorded, Written
<1>2. TypeOK /\ Recorded /\ Written /\ [PathNext]_pathVars => Recorded' /\ Written'
    <2> SUFFICES ASSUME TypeOK, Recorded, Written, [PathNext]_pathVars
                 PROVE  Recorded' /\ Written'
        OBVIOUS
    <2>1. CASE UNCHANGED <<vars, buffer, accepted>>
        BY <2>1 DEF vars, Recorded, Written
    <2>2. ASSUME NEW h \in Https, TransactionAccepted(h) PROVE Recorded' /\ Written'
        <3> DEFINE b == h.body
        <3>1. b \in Body /\ Parses(b)
            BY <2>2, TransactionBody DEF TransactionAccepted
        <3>2. PICK t \in Transaction(Tags) : t = ParseJsonBody(b)
            <4>1. PICK v \in Values, g \in Tags : ParseJsonBody(b) = [value |-> v, tag |-> g]
                BY <3>1, ParsedIsTx
            <4>2. [value |-> v, tag |-> g] \in Transaction(Tags)
                BY ValuesAssumption DEF Transaction
            <4> QED BY <4>1, <4>2
        <3>3. accepted' = Append(accepted, b) /\ ledger' = Append(ledger, t)
            BY <2>2, <3>2 DEF TransactionAccepted, Accept
        <3> HIDE DEF b
        <3>4. /\ Len(accepted') = Len(accepted) + 1 /\ Len(ledger') = Len(ledger) + 1
              /\ accepted' \in Seq(Body)
              /\ accepted'[Len(accepted) + 1] = b
              /\ \A i \in 1 .. Len(accepted) : accepted'[i] = accepted[i]
              /\ ledger'[Len(ledger) + 1] = t
              /\ \A i \in 1 .. Len(ledger) : ledger'[i] = ledger[i]
            BY <3>1, <3>3 DEF Recorded, TypeOK
        <3>5. ASSUME NEW i \in 1 .. Len(accepted')
              PROVE  Parses(accepted'[i]) /\ ledger'[i] = ParseJsonBody(accepted'[i])
            <4>1. i \in 1 .. Len(accepted) \/ i = Len(accepted) + 1
                BY <3>4 DEF Recorded
            <4>2. CASE i \in 1 .. Len(accepted)
                BY <3>4, <4>2 DEF Recorded
            <4>3. CASE i = Len(accepted) + 1
                BY <3>1, <3>2, <3>4, <4>3 DEF Recorded
            <4> QED BY <4>1, <4>2, <4>3
        <3>6. Recorded'
            BY <3>4, <3>5 DEF Recorded
        <3>7. Written'
            BY <2>2 DEF TransactionAccepted, Written, BuildTransactionResponse
        <3> QED BY <3>6, <3>7
    <2> QED BY <2>1, <2>2
            DEF PathNext, pathVars, InvalidRequest, NotFound, Balance, LimitIsExceeded, Reject
<1> QED BY <1>1, <1>2, PathImplementsLedger, TypeCorrect, LimitInvariant, PTL DEF PathSpec

(***************************************************************************)
(* The answer to an accepted transaction reads back as the limit and the   *)
(* balance that were stored, whatever answers the thread wrote into the    *)
(* same buffer before: BuildTransactionResponse clears the fields, they    *)
(* are wide enough for every int with its sign, and the one int that       *)
(* WriteNumberToString cannot write is below minus every limit.            *)
(***************************************************************************)
THEOREM AnswersReadBack == PathSpec => []AnswerReadsBack
<1>1. TypeOK /\ LimitInv /\ Written => AnswerReadsBack
    <2> SUFFICES ASSUME TypeOK, LimitInv, Written, accepted # <<>>
                 PROVE  /\ Reads(buffer.limite, customer.limit)
                        /\ Reads(buffer.saldo, customer.balance)
        BY DEF AnswerReadsBack
    <2>1. /\ buffer.limite = WriteNumberToString(customer.limit, Blank)
          /\ buffer.saldo = WriteNumberToString(customer.balance, Blank)
        BY DEF Written, BuildTransactionResponse
    <2>2. PICK l \in Int, s \in Int :
              /\ l = customer.limit /\ s = customer.balance
              /\ l \in 0 .. IntHalf - 1 /\ s \in Int32 /\ s >= -l
        <3>1. customer.balance \in Int32 /\ customer.limit = Limit
              /\ customer.balance >= -Limit
            BY DEF TypeOK, Customers, LimitInv
        <3>2. customer.balance \in Int /\ Limit \in Int /\ Limit \in 0 .. IntHalf - 1
            BY <3>1, LimitAssumption, IntHalfAssumption DEF Int32
        <3> QED BY <3>1, <3>2
    <2>3. /\ l \in -(IntHalf - 1) .. IntHalf - 1
          /\ s \in -(IntHalf - 1) .. IntHalf - 1
        BY <2>2, IntHalfAssumption DEF Int32
    <2>4. /\ Reads(WriteNumberToString(l, Blank), l)
          /\ Reads(WriteNumberToString(s, Blank), s)
        BY <2>3, WriteReads
    <2> QED BY <2>1, <2>2, <2>4
<1> QED BY <1>1, PathInvariant, PTL

(* Printing a transaction undoes parsing it. *)
LEMMA ShownAsSent ==
    ASSUME NEW b \in Body, Parses(b), Exact(b.valor) \in 1 .. IntHalf - 1
    PROVE  to_json(ParseJsonBody(b)) = [valor |-> Exact(b.valor), tipo |-> b.tipo]
<1>1. b.valor \in Seq(Chars) /\ AllDigits(b.valor) /\ b.tipo \in {"c", "d"}
    BY DEF Body, Parses
<1>2. PICK e \in Int : e = Exact(b.valor) /\ e \in 1 .. IntHalf - 1
    BY IntHalfAssumption
<1>3. e \in Int32 /\ -e \in Int32 /\ e > 0 /\ ~(-e > 0) /\ -(-e) = e
    BY <1>2, IntHalfAssumption DEF Int32
<1>4. Wrap(e) = e /\ Wrap(-e) = -e /\ Wrap(-(-e)) = e
    BY <1>3, WrapOfInt
<1>5. SubstringToInt(b.valor) = e
    BY <1>1, <1>2, <1>4, ParsedIsWrapped
<1>6. CASE b.tipo = "d"
    <2>1. ParseJsonBody(b).value = -e
        BY <1>4, <1>5, <1>6 DEF ParseJsonBody
    <2> QED BY <1>2, <1>3, <1>4, <1>6, <2>1 DEF to_json
<1>7. CASE b.tipo = "c"
    <2>1. ParseJsonBody(b).value = e
        BY <1>5, <1>7 DEF ParseJsonBody
    <2> QED BY <1>2, <1>3, <1>7, <2>1 DEF to_json
<1> QED BY <1>1, <1>6, <1>7

(***************************************************************************)
(* A statement shows the latest accepted requests with the amount and the  *)
(* type their clients sent, newest first, after any number of requests of  *)
(* any length: SubstringToInt, the sign of ParseJsonBody, the ring and     *)
(* to_json undo each other for every amount that is a positive int.        *)
(***************************************************************************)
THEOREM StatementsShowRequests == PathSpec => []StatementShowsRequests
<1>1. TypeOK /\ Recorded /\ ListingIsLatest => StatementShowsRequests
    <2> SUFFICES ASSUME TypeOK, Recorded, ListingIsLatest PROVE StatementShowsRequests
        OBVIOUS
    <2> DEFINE list == Listing(customer)
               shown == [k \in 1 .. Len(list) |-> to_json(list[k])]
               n == Len(ledger)
    <2>1. n \in Nat /\ Len(list) = Shown(n) /\ Shown(n) \in Nat /\ Shown(n) <= n
        BY RingSizeAssumption DEF TypeOK, ListingIsLatest, Shown
    <2>2. CustomerToJson(customer).transactions = shown
        BY DEF CustomerToJson
    <2>3. Len(shown) = Shown(n)
        BY <2>1
    <2>4. ASSUME NEW k \in 1 .. Shown(n),
                 NEW b, b = accepted[Len(accepted) + 1 - k],
                 Exact(b.valor) \in 1 .. IntHalf - 1
          PROVE  shown[k] = [valor |-> Exact(b.valor), tipo |-> b.tipo]
        <3>1. n + 1 - k \in 1 .. n /\ k \in 1 .. Len(list) /\ n = Len(accepted)
            BY <2>1 DEF Recorded
        <3>2. b = accepted[n + 1 - k] /\ b \in Body /\ Parses(b)
            BY <2>4, <3>1 DEF Recorded
        <3>3. list[k] = ParseJsonBody(b)
            <4>1. list[k] = ledger[n + 1 - k]
                BY DEF ListingIsLatest
            <4>2. ledger[n + 1 - k] = ParseJsonBody(accepted[n + 1 - k])
                BY <3>1 DEF Recorded
            <4> QED BY <3>2, <4>1, <4>2
        <3>4. shown[k] = to_json(list[k])
            BY <3>1
        <3> QED BY <2>4, <3>2, <3>3, <3>4, ShownAsSent
    <2> HIDE DEF shown
    <2> QED BY <2>2, <2>3, <2>4 DEF StatementShowsRequests
<1> QED BY <1>1, PathInvariant, LedgerHoldsOnThePath, PTL
=============================================================================
