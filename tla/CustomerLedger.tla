---------------------------- MODULE CustomerLedger ----------------------------
(***************************************************************************)
(* One customer blob under a sequence of MariaDbExecuteTransaction calls   *)
(* that meet no contention, next to what those calls are meant to record:  *)
(* the complete ledger of accepted transactions and their exact total.     *)
(* The two history variables are not part of the program.                  *)
(***************************************************************************)
EXTENDS Customer, FiniteSets

CONSTANTS
    Limit,          \* Customer::limit of this customer
    Values,         \* the signed amounts that requests carry
    Tags,           \* descriptions
    ZeroTag,        \* the description of a zeroed array element
    MaxLedger       \* bound: accepted transactions per behaviour

ASSUME LimitAssumption == Limit \in 0 .. IntHalf - 1
ASSUME ValuesAssumption == Values \subseteq Int32
ASSUME TagsAssumption == ZeroTag \in Tags
ASSUME MaxLedgerAssumption == MaxLedger \in Nat

VARIABLES
    customer,       \* the blob
    ledger,         \* history: every accepted transaction, oldest first
    total           \* history: the exact sum of their values

vars == <<customer, ledger, total>>

Init ==
    /\ customer = InitialCustomer(Limit, ZeroTag)
    /\ ledger = << >>
    /\ total = 0

(* The body of MariaDbExecuteTransaction for an accepted transaction. *)
Accept(t) ==
    /\ Len(ledger) < MaxLedger
    /\ ~LimitExceeded(customer, t)
    /\ customer' = Execute(customer, t)
    /\ ledger' = Append(ledger, t)
    /\ total' = total + t.value

(* The early return of LIMIT_EXCEEDED leaves the stored blob alone. *)
Reject(t) ==
    /\ LimitExceeded(customer, t)
    /\ UNCHANGED vars

(* The bound of the model is reached. *)
Done == Len(ledger) = MaxLedger /\ UNCHANGED vars

Next ==
    \/ \E v \in Values, g \in Tags :
           LET t == [value |-> v, tag |-> g] IN Accept(t) \/ Reject(t)
    \/ Done

Spec == Init /\ [][Next]_vars

-----------------------------------------------------------------------------
TypeOK ==
    /\ customer \in Customers(Tags)
    /\ ledger \in Seq(Transaction(Tags))
    /\ total \in Int

(* How many transactions a listing shows after n were accepted. *)
Shown(n) == IF n < RingSize THEN n ELSE RingSize

(***************************************************************************)
(* to_json lists exactly the latest min(n, RingSize) accepted              *)
(* transactions, newest first: the ring index, the saturating count and    *)
(* the two listing loops agree across every wrap-around.                   *)
(***************************************************************************)
ListingIsLatest ==
    /\ Len(Listing(customer)) = Shown(Len(ledger))
    /\ \A k \in 1 .. Shown(Len(ledger)) :
           Listing(customer)[k] = ledger[Len(ledger) + 1 - k]

(***************************************************************************)
(* The stored balance is the exact total reduced to an int: no sequence of *)
(* accepted transactions, overflowing ones included, loses or invents an   *)
(* amount other than by whole turns of 2^32.                               *)
(***************************************************************************)
BalanceIsTotal == customer.balance = Wrap(total)

(* No accepted transaction leaves the balance below minus the limit. *)
LimitRespected == customer.balance >= -customer.limit
=============================================================================
