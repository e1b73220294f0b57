------------------------------- MODULE Customer -------------------------------
(***************************************************************************)
(* The Customer blob of rinha/structs.h and the three operations the       *)
(* server performs on it: the limit test and the update of                 *)
(* MariaDbExecuteTransaction (rinha/maria_database.cc) and the listing of  *)
(* the latest transactions by to_json (rinha/to_json.cc).                  *)
(*                                                                         *)
(* A customer is a record of five C fields.  `limit' and `balance' are     *)
(* ints: every sum the code stores in one goes through Wrap.  Signed       *)
(* overflow is undefined in C++; the code adds, compares and stores in 32  *)
(* bit registers, so the outcome a build produces is two's complement      *)
(* wrap-around.                                                            *)
(***************************************************************************)
EXTENDS Integers, Sequences

CONSTANTS
    RingSize,       \* length of Customer::transactions, 10 in the code
    IntHalf         \* 2^31 in the code: an int is in -IntHalf .. IntHalf-1

ASSUME RingSizeAssumption == RingSize \in Nat \ {0}
ASSUME IntHalfAssumption == IntHalf \in Nat \ {0}

Int32 == -IntHalf .. IntHalf - 1

(* What a register holds after an addition whose exact result is x. *)
Wrap(x) == ((x + IntHalf) % (2 * IntHalf)) - IntHalf

Slots == 0 .. RingSize - 1

(***************************************************************************)
(* A transaction is its signed value (credits are positive, debits         *)
(* negative) and a tag that stands for the description and the timestamp,  *)
(* which no code in the server reads back.                                 *)
(***************************************************************************)
Transaction(Tags) == [value : Int32, tag : Tags]

(* A zero-initialised element of the array, `.transactions = {}'. *)
ZeroTransaction(zeroTag) == [value |-> 0, tag |-> zeroTag]

Customers(Tags) ==
    [limit : Int32,
     balance : Int32,
     transactions : [Slots -> Transaction(Tags)],
     transaction_count : 0 .. RingSize + 1,
     next_transaction_index : Slots]

(* One element of kInitialCustomers. *)
InitialCustomer(lim, zeroTag) ==
    [limit |-> lim,
     balance |-> 0,
     transactions |-> [i \in Slots |-> ZeroTransaction(zeroTag)],
     transaction_count |-> 0,
     next_transaction_index |-> 0]

(* Mutant: the test leaves the balance out. *)
LimitExceeded_IgnoresBalance(c, t) == t.value < Wrap(-c.limit)

(* customer->balance + transaction.value < -customer->limit *)
LimitExceeded(c, t) == Wrap(c.balance + t.value) < Wrap(-c.limit)

(* Mutant: an overflowing sum saturates in place of wrapping. *)
Execute_Saturates(c, t) ==
    [limit |-> c.limit,
     balance |-> IF c.balance + t.value \in Int32 THEN c.balance + t.value ELSE c.balance,
     transactions |-> [c.transactions EXCEPT ![c.next_transaction_index] = t],
     next_transaction_index |-> (c.next_transaction_index + 1) % RingSize,
     transaction_count |-> IF c.transaction_count <= RingSize
                           THEN c.transaction_count + 1 ELSE c.transaction_count]

(* Mutant: the count saturates one short of the array length. *)
Execute_CountStopsShort(c, t) ==
    [limit |-> c.limit,
     balance |-> Wrap(c.balance + t.value),
     transactions |-> [c.transactions EXCEPT ![c.next_transaction_index] = t],
     next_transaction_index |-> (c.next_transaction_index + 1) % RingSize,
     transaction_count |-> IF c.transaction_count < RingSize - 1
                           THEN c.transaction_count + 1 ELSE c.transaction_count]

(* Mutant: the index runs off the end of the array. *)
Execute_IndexUnwrapped(c, t) ==
    [limit |-> c.limit,
     balance |-> Wrap(c.balance + t.value),
     transactions |-> [c.transactions EXCEPT ![c.next_transaction_index] = t],
     next_transaction_index |-> c.next_transaction_index + 1,
     transaction_count |-> IF c.transaction_count <= RingSize
                           THEN c.transaction_count + 1 ELSE c.transaction_count]

(***************************************************************************)
(* The update of the local copy, after the limit test passed.  The count   *)
(* is incremented while it is <= RingSize, so it stops at RingSize + 1.    *)
(***************************************************************************)
Execute(c, t) ==
    [limit |-> c.limit,
     balance |-> Wrap(c.balance + t.value),
     transactions |-> [c.transactions EXCEPT ![c.next_transaction_index] = t],
     next_transaction_index |-> (c.next_transaction_index + 1) % RingSize,
     transaction_count |-> IF c.transaction_count <= RingSize
                           THEN c.transaction_count + 1 ELSE c.transaction_count]

(***************************************************************************)
(* The transactions to_json lists, in its order.  Below RingSize the loop  *)
(* runs from next_transaction_index - 1 down to 0; otherwise it visits     *)
(* RingSize slots backwards, wrapping at 0.                                *)
(***************************************************************************)
Listing(c) ==
    IF c.transaction_count < RingSize
    THEN [k \in 1 .. c.next_transaction_index |->
             c.transactions[c.next_transaction_index - k]]
    ELSE [k \in 1 .. RingSize |->
             c.transactions[(c.next_transaction_index - k + RingSize) % RingSize]]
=============================================================================
