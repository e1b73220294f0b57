-------------------------- MODULE MariaDatabaseBank ---------------------------
(***************************************************************************)
(* The transaction engine implements the Bank: the refinement mapping.     *)
(* A transaction takes effect when the server executes its update, a       *)
(* rejection when the row that proves it was read.                         *)
(*                                                                         *)
(* It holds when no call fails, no process crashes and every process has   *)
(* started before the first request.  A call that fails can make the       *)
(* engine answer 200 without effect (WriteCustomerHs returns 1), and a     *)
(* process that starts late resets the accounts, which no Bank does.       *)
(***************************************************************************)
EXTENDS MariaDatabase

bankAccounts ==
    [i \in Ids |->
        IF db[i] = NoRow
        THEN [balance |-> 0, latest |-> << >>]
        ELSE [balance |-> db[i].data.balance, latest |-> Listing(db[i].data)]]

DecidedAlready(w) ==
    \/ pc[w] \in {"unlock", "ok", "extract", "limit", "notfound"}
    \/ pc[w] = "check" /\ LimitExceeded(customer[w], Tx(w))
    \/ pc[w] = "sent" /\ response[w] = "modified"

bankStage ==
    [w \in Workers |->
        CASE pc[w] \in {"off", "idle"} -> "idle"
          [] DecidedAlready(w) -> "decided"
          [] pc[w] = "get" -> "query"
          [] OTHER -> "transaction"]

bankDecision ==
    [w \in Workers |->
        IF ~DecidedAlready(w) THEN NoAnswer
        ELSE CASE pc[w] = "check" -> [NoAnswer EXCEPT !.status = "limit"]
               [] pc[w] \in {"sent", "unlock"} ->
                      [NoAnswer EXCEPT !.status = "ok", !.balance = customer[w].balance]
               [] OTHER -> Answer(w)]

B == INSTANCE Bank WITH
        Clients <- Workers, Latest <- RingSize, accounts <- bankAccounts,
        stage <- bankStage, decision <- bankDecision

(* Every behaviour of the engine is a behaviour of the Bank: requests are  *)
(* linearizable across threads and processes, and the array with its       *)
(* wrapping index implements the list of the latest transactions.          *)
ImplementsBank == B!Spec
=============================================================================
