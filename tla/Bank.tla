--------------------------------- MODULE Bank ---------------------------------
(***************************************************************************)
(* What the API promises: every request takes effect at one instant        *)
(* between its arrival and its response, on accounts that are just a       *)
(* balance and the list of the latest transactions.  There are no          *)
(* processes, mutexes, versions, arrays or retries here.                   *)
(***************************************************************************)
EXTENDS Integers, Sequences

CONSTANTS Clients, Ids, RequestIds, Limit, Values, MaxRequests,
          Latest,           \* how many transactions a listing shows
          Wrap(_)           \* what an int holds of a sum

VARIABLES
    accounts,       \* balance and latest transactions of each customer
    stage,          \* what the bank has done of a client's request
    request,
    decision,       \* the response a decided request will get
    issued,
    answer

vars == <<accounts, stage, request, decision, issued, answer>>

NoAnswer == [status |-> "none", balance |-> 0, listing |-> << >>]

Init ==
    /\ accounts = [i \in Ids |-> [balance |-> 0, latest |-> << >>]]
    /\ stage = [w \in Clients |-> "idle"]
    /\ request = [w \in Clients |-> [id |-> 0, tag |-> 0, value |-> 0]]
    /\ decision = [w \in Clients |-> NoAnswer]
    /\ issued = 0
    /\ answer = [t \in 1 .. MaxRequests |-> NoAnswer]

Decided(w, a) ==
    /\ stage' = [stage EXCEPT ![w] = "decided"]
    /\ decision' = [decision EXCEPT ![w] = a]

(* A request arrives; one for an unknown customer is decided at once. *)
Submit(w, i, v, kind) ==
    /\ stage[w] = "idle"
    /\ issued < MaxRequests
    /\ issued' = issued + 1
    /\ request' = [request EXCEPT ![w] = [id |-> i, tag |-> issued + 1, value |-> v]]
    /\ IF i \in Ids
       THEN stage' = [stage EXCEPT ![w] = kind] /\ UNCHANGED decision
       ELSE Decided(w, [NoAnswer EXCEPT !.status = "notfound"])
    /\ UNCHANGED <<accounts, answer>>

(* The whole effect of a transaction, in one step. *)
Transact(w) ==
    LET i == request[w].id
        sum == Wrap(accounts[i].balance + request[w].value)
        t == [value |-> request[w].value, tag |-> request[w].tag]
        all == <<t>> \o accounts[i].latest
    IN  /\ stage[w] = "transaction"
        /\ IF sum < -Limit[i]
           THEN /\ Decided(w, [NoAnswer EXCEPT !.status = "limit"])
                /\ UNCHANGED accounts
           ELSE /\ Decided(w, [NoAnswer EXCEPT !.status = "ok", !.balance = sum])
                /\ accounts' = [accounts EXCEPT ![i] =
                       [balance |-> sum,
                        latest |-> IF Len(all) > Latest
                                   THEN SubSeq(all, 1, Latest) ELSE all]]
        /\ UNCHANGED <<request, issued, answer>>

(* A balance request shows the account as it is at one instant. *)
Show(w) ==
    LET a == accounts[request[w].id] IN
    /\ stage[w] = "query"
    /\ Decided(w, [status |-> "ok", balance |-> a.balance, listing |-> a.latest])
    /\ UNCHANGED <<accounts, request, issued, answer>>

Respond(w) ==
    /\ stage[w] = "decided"
    /\ answer' = [answer EXCEPT ![request[w].tag] = decision[w]]
    /\ stage' = [stage EXCEPT ![w] = "idle"]
    /\ decision' = [decision EXCEPT ![w] = NoAnswer]
    /\ UNCHANGED <<accounts, request, issued>>

Next ==
    \E w \in Clients :
        \/ \E i \in RequestIds :
               \/ \E v \in Values : Submit(w, i, v, "transaction")
               \/ Submit(w, i, 0, "query")
        \/ Transact(w)
        \/ Show(w)
        \/ Respond(w)

Spec == Init /\ [][Next]_vars
=============================================================================
