----------------------------- MODULE RequestPath -----------------------------
(***************************************************************************)
(* What one request goes through in an API process, from its text to the   *)
(* text of its answer: FromHttp and ParseJsonBody (rinha/from_http.cc),    *)
(* HandleRequest (rinha/request_handler.cc), the transaction on the blob   *)
(* (CustomerLedger), and the answer with its numbers written in a buffer   *)
(* that a thread uses for all its answers (rinha/request_processor.cc), or *)
(* the statement of to_json (rinha/to_json.cc).                            *)
(*                                                                         *)
(* Of a text only the numbers are kept as characters, a character being a  *)
(* number: 0 .. Base - 1 are the digits.  The rest of a request is what    *)
(* the parser finds where it looks.                                        *)
(***************************************************************************)
EXTENDS CustomerLedger

CONSTANTS
    Base,               \* 10 in the code
    DescriptionLength,  \* of each description
    MaxDescription,     \* 10 in the code
    FieldWidth,         \* of the two numbers in transaction_result_buffer
    NumCustomers,       \* 5 in the code
    Id,                 \* the customer whose blob is modelled
    NoBody,             \* no empty line after the headers
    Https               \* the requests that clients send

Space == Base
Minus == Base + 1
Dot == Base + 2
Chars == 0 .. Base + 2
Digits == 0 .. Base - 1

(* What is found in a body: the characters of valor up to the first comma, *)
(* if there is one, the character of tipo, the description and what        *)
(* follows it: the end of the text, more text, or no closing quote.        *)
Body ==
    [valor : Seq(Chars), comma : BOOLEAN, tipo : {"c", "d", "x"},
     descricao : Tags, rest : {"end", "more", "unclosed"}]

ASSUME BaseAssumption == Base \in Nat \ {0, 1}
ASSUME AmountsAssumption == Values = Int32      \* a request may carry any int
ASSUME IdAssumption == NumCustomers \in Nat /\ Id \in 1 .. NumCustomers
ASSUME DescriptionAssumption ==
    MaxDescription \in Nat /\ DescriptionLength \in [Tags -> Nat]
ASSUME HttpsAssumption ==
    \A h \in Https : /\ h.verb \in {"GET", "POST"}
                     /\ h.id \in Chars
                     /\ h.body = NoBody \/ h.body \in Body

VARIABLES
    buffer,     \* transaction_result_buffer: its limite and saldo fields
    reply,      \* the last answer
    accepted    \* history: the requests of the ledger's transactions

pathVars == <<vars, buffer, reply, accepted>>

Blank == [i \in 1 .. FieldWidth |-> Space]
NoReply == [status |-> 0, saldo |-> 0, transactions |-> <<>>]

PathInit ==
    /\ Init
    /\ buffer = [limite |-> Blank, saldo |-> Blank]
    /\ reply = NoReply
    /\ accepted = <<>>

-----------------------------------------------------------------------------
(* Parsing.                                                                *)

(* The int that the digits of a text leave in *x, one after the other. *)
SubstringToInt(text) ==
    LET x[i \in 0 .. Len(text)] ==
          IF i = 0 THEN 0 ELSE Wrap(Wrap(x[i - 1] * Base) + text[i])
    IN  x[Len(text)]

AllDigits(text) == \A i \in 1 .. Len(text) : text[i] \in Digits

(* A dot before the comma is found before the characters are looked at. *)
Parses(b) ==
    /\ b.comma
    /\ AllDigits(b.valor)
    /\ b.tipo \in {"c", "d"}
    /\ b.rest = "end"
    /\ DescriptionLength[b.descricao] \in 1 .. MaxDescription

(* Mutant: a debit is stored as a credit. *)
ParseJsonBody_NoSign(b) == [value |-> SubstringToInt(b.valor), tag |-> b.descricao]

ParseJsonBody(b) ==
    LET x == SubstringToInt(b.valor)
    IN  [value |-> IF b.tipo = "d" THEN Wrap(-x) ELSE x, tag |-> b.descricao]

(* The type of the request and what it asks for, or that it is invalid. *)
FromHttp(h) ==
    IF h.id \notin Digits THEN "invalid"
    ELSE IF h.verb = "GET" THEN "balance"
    ELSE IF h.body = NoBody \/ ~Parses(h.body) THEN "invalid"
    ELSE "transaction"

-----------------------------------------------------------------------------
(* Writing numbers.                                                        *)

(* What the loop of WriteNumberToString leaves of n after k digits. *)
Left(n) ==
    LET left[k \in 0 .. FieldWidth] == IF k = 0 THEN n ELSE left[k - 1] \div Base
    IN  left

(* The digits of the largest int leave room for a sign. *)
ASSUME FieldAssumption == FieldWidth \in Nat \ {0} /\ Left(IntHalf - 1)[FieldWidth - 1] = 0

(* Digits from the end, as many as it takes, then the sign; the rest of    *)
(* the field is left as it was.  The most negative int has no positive     *)
(* counterpart: no digit is written.                                       *)
WriteNumberToString(number, str) ==
    LET left == Left(IF number < 0 THEN Wrap(-number) ELSE number)
        char(k, old) ==
            CASE number = 0 /\ k = 0 -> 0
              [] left[k] > 0 -> left[k] % Base
              [] number < 0 /\ ~(left[k] > 0) /\ (k = 0 \/ left[k - 1] > 0) -> Minus
              [] OTHER -> old
    IN  [i \in 1 .. FieldWidth |-> char(FieldWidth - i, str[i])]

(* Mutant: the fields are not cleared. *)
BuildTransactionResponse_NoClear(c) ==
    [limite |-> WriteNumberToString(c.limit, buffer.limite),
     saldo |-> WriteNumberToString(c.balance, buffer.saldo)]

BuildTransactionResponse(c) ==
    [limite |-> WriteNumberToString(c.limit, Blank),
     saldo |-> WriteNumberToString(c.balance, Blank)]

(* valor and tipo of one transaction of a statement. *)
to_json(t) ==
    [valor |-> IF t.value > 0 THEN t.value ELSE Wrap(-t.value),
     tipo |-> IF t.value > 0 THEN "c" ELSE "d"]

CustomerToJson(c) ==
    [status |-> 200, saldo |-> c.balance,
     transactions |-> [k \in 1 .. Len(Listing(c)) |-> to_json(Listing(c)[k])]]

-----------------------------------------------------------------------------
(* ProcessRequest, by its outcome.                                         *)

Answer(status) == reply' = [NoReply EXCEPT !.status = status]

InvalidRequest(h) ==
    /\ FromHttp(h) = "invalid"
    /\ Answer(422)
    /\ UNCHANGED <<vars, buffer, accepted>>

(* The customers are 1 .. NumCustomers for both types of requests. *)
NotFound(h) ==
    /\ FromHttp(h) # "invalid"
    /\ h.id \notin 1 .. NumCustomers
    /\ Answer(404)
    /\ UNCHANGED <<vars, buffer, accepted>>

Balance(h) ==
    /\ FromHttp(h) = "balance"
    /\ h.id = Id
    /\ reply' = CustomerToJson(customer)
    /\ UNCHANGED <<vars, buffer, accepted>>

TransactionAccepted(h) ==
    /\ FromHttp(h) = "transaction"
    /\ h.id = Id
    /\ Accept(ParseJsonBody(h.body))
    /\ buffer' = BuildTransactionResponse(customer')
    /\ Answer(200)
    /\ accepted' = Append(accepted, h.body)

LimitIsExceeded(h) ==
    /\ FromHttp(h) = "transaction"
    /\ h.id = Id
    /\ Reject(ParseJsonBody(h.body))
    /\ Answer(422)
    /\ UNCHANGED <<buffer, accepted>>

PathNext ==
    \E h \in Https :
        \/ InvalidRequest(h)
        \/ NotFound(h)
        \/ Balance(h)
        \/ TransactionAccepted(h)
        \/ LimitIsExceeded(h)

PathSpec == PathInit /\ [][PathNext]_pathVars

-----------------------------------------------------------------------------
(* A number as the client that reads it understands it: blanks, a sign,    *)
(* digits.                                                                 *)
Exact(text) ==
    LET x[i \in 0 .. Len(text)] == IF i = 0 THEN 0 ELSE x[i - 1] * Base + text[i]
    IN  x[Len(text)]
Reads(text, number) ==
    \E start \in 1 .. Len(text) :
        /\ \A i \in 1 .. start - 1 : text[i] = Space
        /\ LET signed == text[start] = Minus
               digits == SubSeq(text, IF signed THEN start + 1 ELSE start, Len(text))
           IN  /\ digits # <<>> /\ AllDigits(digits)
               /\ number = IF signed THEN -Exact(digits) ELSE Exact(digits)

(***************************************************************************)
(* The answer to an accepted transaction reads back as the limit and the   *)
(* balance that were stored: the buffer keeps nothing of earlier answers,  *)
(* and the int that cannot be written is never a balance.                  *)
(***************************************************************************)
AnswerReadsBack ==
    accepted # <<>> => /\ Reads(buffer.limite, customer.limit)
                       /\ Reads(buffer.saldo, customer.balance)

(***************************************************************************)
(* The statement shows the latest accepted requests with the amount and    *)
(* the type their clients sent, newest first: parsing, sign, storage in    *)
(* the ring and printing undo each other.  The exceptions are amounts that *)
(* are not positive ints: past the range, what SubstringToInt makes of     *)
(* them is shown, and a credit of 0 is shown as a debit.                   *)
(***************************************************************************)
StatementShowsRequests ==
    LET shown == CustomerToJson(customer).transactions
    IN  \A k \in 1 .. Len(shown) :
            LET b == accepted[Len(accepted) + 1 - k]
            IN  Exact(b.valor) \in 1 .. IntHalf - 1 =>
                    shown[k] = [valor |-> Exact(b.valor), tipo |-> b.tipo]
=============================================================================
