------------------------- MODULE RubyBinding_proofs -------------------------
(***************************************************************************)
(* Proofs about the client of libhsclient/hstcpcli.cpp under every order   *)
(* of calls, and about the Ruby binding that calls it.                     *)
(***************************************************************************)
EXTENDS RubyBinding, SequenceTheorems, TLAPS

-----------------------------------------------------------------------------
(* The inductive invariant of the client.                                  *)

Response == [req : Nat, code : {0, 1}, num_flds : {0, 1}, rows : Seq({"row"})]

Client ==
    [fd : Fds, readbuf : Seq(Response), writebuf : Seq(Nat),
     response_end_offset : {0, 1}, cur_row_offset : Nat, num_flds : {0, 1},
     num_req_bufd : Nat, num_req_sent : Nat, num_req_rcvd : {0, 1},
     error_code : {-1, 0, 1}]

CallsTypeOK ==
    /\ cli \in Client
    /\ toServer \in Seq(Nat)
    /\ toClient \in Seq(Response)
    /\ buffered \in Nat
    /\ reconnects \in Nat
    /\ outstanding \in Seq(Nat)

(* s are the last Len(s) of the first n requests. *)
LastOf(s, n) == \A i \in 1 .. Len(s) : s[i] = n - Len(s) + i

(***************************************************************************)
(* Besides the two properties: a current response is a line of readbuf, a  *)
(* closed client has nothing outstanding, and both the buffered and the    *)
(* outstanding requests are the latest ones, without a gap.                *)
(***************************************************************************)
CallsInv ==
    /\ CallsTypeOK
    /\ ResponsesInOrder
    /\ CountersAccount
    /\ cli.response_end_offset = 1 => cli.readbuf # <<>>
    /\ cli.fd = "none" => outstanding = <<>>
    /\ LastOf(cli.writebuf, buffered)
    /\ LastOf(outstanding, buffered)

-----------------------------------------------------------------------------
(* The inductive invariant of the binding.                                 *)

Receiving == ruby.pc \in {"recv", "rows", "remove"}

Locals ==
    [pc : {"returned", "any order", "buffer", "recv", "rows", "remove"},
     method : {"none", "open_index", "execute_internal", "execute_multi_internal"},
     num_args : Nat, first : Nat, left : Nat]

RubyTypeOK ==
    /\ ruby \in Locals
    /\ results \in Seq([code : Int, req : Nat])
    /\ raised \in BOOLEAN

(* No method runs: what is buffered was left by an exception, and answers  *)
(* wait only behind one.                                                   *)
BetweenMethods ==
    /\ ruby.left = 0
    /\ At("returned") /\ cli.error_code >= 0 /\ ~raised
           => cli.writebuf = <<>> /\ outstanding = <<>>
    /\ At("any order") => results = <<>>

WhileBuffering ==
    /\ results = <<>>
    /\ Buffered \in 0 .. ruby.num_args
    /\ ruby.left > 0 => raised \/ cli.error_code < 0
    /\ cli.error_code >= 0 => Len(cli.writebuf) = ruby.left + Buffered
    /\ cli.error_code >= 0 /\ ~raised => outstanding = <<>>

(* The responses still to be removed are counted by the results so far. *)
WhileReceiving ==
    /\ cli.error_code >= 0
    /\ cli.writebuf = <<>>
    /\ buffered = ruby.first + ruby.num_args - 1
    /\ ruby.left > 0 => raised
    /\ Len(outstanding) + Len(results) =
           ruby.left + ruby.num_args + (IF At("recv") THEN 0 ELSE 1)
    /\ ~At("recv") => cli.response_end_offset = 1

RubyInv ==
    /\ RubyTypeOK
    /\ At("returned") \/ At("any order") => BetweenMethods
    /\ At("buffer") => WhileBuffering
    /\ Receiving => WhileReceiving
    /\ ResultsInOrder

-----------------------------------------------------------------------------
(* Sequences of responses and of request names.                            *)

(* Every response of a sequence answers one request. *)
LEMMA AnsweredProperties ==
  ASSUME NEW s \in Seq(Response)
  PROVE  /\ Answered(s) \in Seq(Nat)
         /\ Len(Answered(s)) = Len(s)
         /\ \A i \in 1 .. Len(s) : Answered(s)[i] = s[i].req
  <1>1. Len(s) \in Nat /\ \A i \in 1 .. Len(s) : s[i] \in Response
    BY ElementOfSeq, LenProperties
  <1>2. \A i \in 1 .. Len(s) : s[i].req \in Nat
    BY <1>1 DEF Response
  <1> QED
    BY <1>1, <1>2 DEF Answered

(* No response answers nothing. *)
LEMMA AnsweredNone == Answered(<<>>) = <<>>
  BY DEF Answered

(* Reading on in the stream. *)
LEMMA AnsweredConcat ==
  ASSUME NEW s \in Seq(Response), NEW t \in Seq(Response)
  PROVE  Answered(s \o t) = Answered(s) \o Answered(t)
  <1>1. /\ s \o t \in Seq(Response)
        /\ Len(s \o t) = Len(s) + Len(t)
        /\ Len(s) \in Nat /\ Len(t) \in Nat
        /\ \A i \in 1 .. Len(s) + Len(t) :
               (s \o t)[i] = IF i <= Len(s) THEN s[i] ELSE t[i - Len(s)]
    BY ConcatProperties, LenProperties, Zenon
  <1>2. /\ Answered(s) \o Answered(t) \in Seq(Nat)
        /\ Len(Answered(s) \o Answered(t)) = Len(s) + Len(t)
        /\ \A i \in 1 .. Len(s) + Len(t) :
               (Answered(s) \o Answered(t))[i] =
                   IF i <= Len(s) THEN Answered(s)[i] ELSE Answered(t)[i - Len(s)]
    <2>1. Len(Answered(s)) = Len(s) /\ Len(Answered(t)) = Len(t)
          /\ Answered(s) \in Seq(Nat) /\ Answered(t) \in Seq(Nat)
      BY AnsweredProperties
    <2>2. /\ Answered(s) \o Answered(t) \in Seq(Nat)
          /\ Len(Answered(s) \o Answered(t)) = Len(Answered(s)) + Len(Answered(t))
          /\ \A i \in 1 .. Len(Answered(s)) + Len(Answered(t)) :
               (Answered(s) \o Answered(t))[i] =
                   IF i <= Len(Answered(s)) THEN Answered(s)[i]
                                            ELSE Answered(t)[i - Len(Answered(s))]
      BY <2>1, ConcatProperties, Zenon
    <2> QED
      BY <2>1, <2>2, Zenon
  <1>3. /\ Answered(s \o t) \in Seq(Nat)
        /\ Len(Answered(s \o t)) = Len(s) + Len(t)
        /\ \A i \in 1 .. Len(s) + Len(t) : Answered(s \o t)[i] = (s \o t)[i].req
    BY <1>1, AnsweredProperties, Zenon
  <1>4. ASSUME NEW i \in 1 .. Len(s) + Len(t)
        PROVE  Answered(s \o t)[i] = (Answered(s) \o Answered(t))[i]
    <2>1. CASE i <= Len(s)
      <3>1. i \in 1 .. Len(s)
        BY <1>1, <2>1
      <3>2. Answered(s)[i] = s[i].req
        BY <3>1, AnsweredProperties
      <3> QED
        BY <1>1, <1>2, <1>3, <2>1, <3>2, Zenon
    <2>2. CASE ~(i <= Len(s))
      <3>1. i - Len(s) \in 1 .. Len(t)
        BY <1>1, <2>2
      <3>2. Answered(t)[i - Len(s)] = t[i - Len(s)].req
        BY <3>1, AnsweredProperties
      <3> QED
        BY <1>1, <1>2, <1>3, <2>2, <3>2, Zenon
    <2> QED
      BY <2>1, <2>2
  <1> QED
    BY <1>2, <1>3, <1>4, SeqEqual, Zenon

(* Removing the first line. *)
LEMMA AnsweredTail ==
  ASSUME NEW s \in Seq(Response), s # <<>>
  PROVE  /\ Answered(s) # <<>>
         /\ Head(Answered(s)) = Head(s).req
         /\ Answered(Tail(s)) = Tail(Answered(s))
  <1>1. /\ Tail(s) \in Seq(Response)
        /\ Len(Tail(s)) = Len(s) - 1
        /\ Len(s) \in Nat /\ Len(s) # 0
        /\ \A i \in 1 .. Len(Tail(s)) : Tail(s)[i] = s[i + 1]
    BY HeadTailProperties, LenProperties, EmptySeq
  <1>2. /\ Answered(s) \in Seq(Nat)
        /\ Len(Answered(s)) = Len(s)
        /\ \A i \in 1 .. Len(s) : Answered(s)[i] = s[i].req
    BY AnsweredProperties
  <1>3. Answered(s) # <<>>
    BY <1>1, <1>2
  <1>4. /\ Tail(Answered(s)) \in Seq(Nat)
        /\ Len(Tail(Answered(s))) = Len(s) - 1
        /\ \A i \in 1 .. Len(s) - 1 : Tail(Answered(s))[i] = Answered(s)[i + 1]
    BY <1>2, <1>3, HeadTailProperties
  <1>5. /\ Answered(Tail(s)) \in Seq(Nat)
        /\ Len(Answered(Tail(s))) = Len(s) - 1
        /\ \A i \in 1 .. Len(s) - 1 : Answered(Tail(s))[i] = Tail(s)[i].req
    BY <1>1, AnsweredProperties
  <1>6. \A i \in 1 .. Len(s) - 1 : Answered(Tail(s))[i] = Tail(Answered(s))[i]
    BY <1>1, <1>2, <1>4, <1>5
  <1>7. Answered(Tail(s)) = Tail(Answered(s))
    BY <1>4, <1>5, <1>6, SeqEqual, Zenon
  <1>8. 1 \in 1 .. Len(s)
    BY <1>1
  <1>9. Head(s) = s[1] /\ Head(Answered(s)) = Answered(s)[1]
    BY <1>2, <1>3
  <1> QED
    BY <1>2, <1>3, <1>7, <1>8, <1>9

(* The tail of a concatenation. *)
LEMMA TailOfConcat ==
  ASSUME NEW S, NEW s \in Seq(S), NEW t \in Seq(S), s # <<>>
  PROVE  /\ s \o t # <<>>
         /\ Head(s \o t) = Head(s)
         /\ Tail(s \o t) = Tail(s) \o t
  <1>1. /\ Tail(s) \in Seq(S)
        /\ Len(Tail(s)) = Len(s) - 1
        /\ Len(s) \in Nat /\ Len(s) # 0 /\ Len(t) \in Nat
        /\ \A i \in 1 .. Len(Tail(s)) : Tail(s)[i] = s[i + 1]
    BY HeadTailProperties, LenProperties, EmptySeq
  <1>2. /\ s \o t \in Seq(S)
        /\ Len(s \o t) = Len(s) + Len(t)
        /\ \A i \in 1 .. Len(s) + Len(t) :
               (s \o t)[i] = IF i <= Len(s) THEN s[i] ELSE t[i - Len(s)]
    BY ConcatProperties, Zenon
  <1>3. s \o t # <<>>
    <2>1. Len(s \o t) # 0
      BY <1>1, <1>2
    <2> QED
      BY <2>1, EmptySeq
  <1>4. /\ Tail(s \o t) \in Seq(S)
        /\ Len(Tail(s \o t)) = Len(s \o t) - 1
        /\ \A i \in 1 .. Len(Tail(s \o t)) : Tail(s \o t)[i] = (s \o t)[i + 1]
    BY <1>2, <1>3, HeadTailProperties, Zenon
  <1>5. /\ Tail(s) \o t \in Seq(S)
        /\ Len(Tail(s) \o t) = Len(Tail(s)) + Len(t)
        /\ \A i \in 1 .. Len(Tail(s)) + Len(t) :
               (Tail(s) \o t)[i] =
                   IF i <= Len(Tail(s)) THEN Tail(s)[i] ELSE t[i - Len(Tail(s))]
    BY <1>1, ConcatProperties, Zenon
  <1>6. Len(Tail(s \o t)) = Len(Tail(s) \o t)
    BY <1>1, <1>2, <1>4, <1>5
  <1>7. ASSUME NEW i \in 1 .. Len(Tail(s \o t))
        PROVE  Tail(s \o t)[i] = (Tail(s) \o t)[i]
    <2>1. /\ i + 1 \in 1 .. Len(s) + Len(t)
          /\ i \in 1 .. Len(Tail(s)) + Len(t)
          /\ i <= Len(Tail(s)) => i \in 1 .. Len(Tail(s))
          /\ i + 1 <= Len(s) <=> i <= Len(Tail(s))
          /\ (i + 1) - Len(s) = i - Len(Tail(s))
      BY <1>1, <1>2, <1>4
    <2>2. Tail(s \o t)[i] = IF i + 1 <= Len(s) THEN s[i + 1] ELSE t[(i + 1) - Len(s)]
      BY <1>2, <1>4, <2>1, Zenon
    <2>3. (Tail(s) \o t)[i] = IF i + 1 <= Len(s) THEN s[i + 1] ELSE t[(i + 1) - Len(s)]
      BY <1>1, <1>5, <2>1, Zenon
    <2> QED
      BY <2>2, <2>3
  <1>8. Tail(s \o t) = Tail(s) \o t
    BY <1>4, <1>5, <1>6, <1>7, SeqEqual, Zenon
  <1>9. Head(s \o t) = Head(s)
    <2>1. 1 \in 1 .. Len(s) + Len(t) /\ 1 <= Len(s)
      BY <1>1
    <2>2. (s \o t)[1] = s[1]
      BY <1>2, <2>1, Zenon
    <2> QED
      BY <2>2, <1>2, <1>3
  <1> QED
    BY <1>3, <1>8, <1>9

(* Streams of request names can be cut anywhere. *)
LEMMA NamesAssociative ==
  \A s, t, u \in Seq(Nat) : (s \o t) \o u = s \o (t \o u)
  BY ConcatAssociative, SMTT(30)

LEMMA NamesEmpty ==
  \A s, t \in Seq(Nat) : s \o t = <<>> => s = <<>> /\ t = <<>>
  BY ConcatEqualIffEmpty

(* Lines move from the connection into readbuf. *)
LEMMA StreamRead ==
  ASSUME NEW r \in Seq(Response), NEW c \in Seq(Response), NEW n \in 0 .. Len(c)
  PROVE  /\ SubSeq(c, 1, n) \in Seq(Response)
         /\ SubSeq(c, n + 1, Len(c)) \in Seq(Response)
         /\ r \o SubSeq(c, 1, n) \in Seq(Response)
         /\ Answered(r \o SubSeq(c, 1, n)) \o Answered(SubSeq(c, n + 1, Len(c)))
                = Answered(r) \o Answered(c)
  <1> DEFINE read == SubSeq(c, 1, n)
             rest == SubSeq(c, n + 1, Len(c))
  <1>1. Len(c) \in Nat /\ \A i \in 1 .. Len(c) : c[i] \in Response
    BY ElementOfSeq, LenProperties
  <1>2. read \in Seq(Response) /\ rest \in Seq(Response)
    <2>1. 1 \in Int /\ n \in Int /\ n + 1 \in Int /\ Len(c) \in Int
          /\ (\A i \in 1 .. n : c[i] \in Response)
          /\ (\A i \in n + 1 .. Len(c) : c[i] \in Response)
      BY <1>1
    <2> QED
      BY <2>1, SubSeqProperties, Zenon
  <1>3. read \o rest = c
    <2>1. /\ 1 \in 1 .. Len(c) + 1
          /\ n \in 1 - 1 .. Len(c)
          /\ Len(c) \in n .. Len(c)
      BY <1>1
    <2>2. read \o rest = SubSeq(c, 1, Len(c))
      BY <2>1, ConcatAdjacentSubSeq, Zenon
    <2> QED
      BY <2>2, SubSeqFull
  <1> HIDE DEF read, rest
  <1>4. r \o read \in Seq(Response)
    BY <1>2, ConcatProperties, Zenon
  <1>5. Answered(r) \in Seq(Nat) /\ Answered(read) \in Seq(Nat) /\ Answered(rest) \in Seq(Nat)
    BY <1>2, AnsweredProperties
  <1>6. Answered(r \o read) = Answered(r) \o Answered(read)
    BY <1>2, AnsweredConcat
  <1>7. Answered(c) = Answered(read) \o Answered(rest)
    BY <1>2, <1>3, AnsweredConcat
  <1>8. Answered(r \o read) \o Answered(rest) = Answered(r) \o Answered(c)
    <2>1. (Answered(r) \o Answered(read)) \o Answered(rest)
              = Answered(r) \o (Answered(read) \o Answered(rest))
      BY <1>5, NamesAssociative, Zenon
    <2> QED
      BY <2>1, <1>6, <1>7, Zenon
  <1> QED
    BY <1>2, <1>4, <1>8 DEF read, rest

(* The server answers its oldest request. *)
LEMMA StreamAnswer ==
  ASSUME NEW r \in Seq(Response), NEW c \in Seq(Response), NEW s \in Seq(Nat),
         s # <<>>, NEW answer \in Response, answer.req = Head(s)
  PROVE  /\ Append(c, answer) \in Seq(Response)
         /\ Tail(s) \in Seq(Nat)
         /\ Answered(r) \o Answered(Append(c, answer)) \o Tail(s)
                = Answered(r) \o Answered(c) \o s
  <1>1. Append(c, answer) \in Seq(Response) /\ Append(c, answer) = c \o <<answer>>
    BY AppendProperties, AppendIsConcat
  <1>2. <<answer>> \in Seq(Response)
    OBVIOUS
  <1>3. Answered(<<answer>>) = <<Head(s)>>
    BY DEF Answered
  <1>4. Tail(s) \in Seq(Nat) /\ Head(s) \in Nat
    BY HeadTailProperties
  <1>5. <<Head(s)>> \in Seq(Nat)
    BY <1>4
  <1>6. <<Head(s)>> \o Tail(s) = s
    <2>1. /\ Len(s) \in Nat /\ Len(s) # 0
          /\ Len(Tail(s)) = Len(s) - 1
          /\ \A i \in 1 .. Len(Tail(s)) : Tail(s)[i] = s[i + 1]
          /\ Head(s) = s[1]
      BY HeadTailProperties, LenProperties, EmptySeq
    <2>2. /\ <<Head(s)>> \o Tail(s) \in Seq(Nat)
          /\ Len(<<Head(s)>> \o Tail(s)) = 1 + Len(Tail(s))
          /\ \A i \in 1 .. 1 + Len(Tail(s)) : (<<Head(s)>> \o Tail(s))[i] =
                 IF i <= 1 THEN <<Head(s)>>[i] ELSE Tail(s)[i - 1]
      <3>1. Len(<<Head(s)>>) = 1
        OBVIOUS
      <3>2. /\ <<Head(s)>> \o Tail(s) \in Seq(Nat)
            /\ Len(<<Head(s)>> \o Tail(s)) = Len(<<Head(s)>>) + Len(Tail(s))
            /\ \A i \in 1 .. Len(<<Head(s)>>) + Len(Tail(s)) : (<<Head(s)>> \o Tail(s))[i] =
                 IF i <= Len(<<Head(s)>>) THEN <<Head(s)>>[i]
                                          ELSE Tail(s)[i - Len(<<Head(s)>>)]
        BY <1>4, <1>5, ConcatProperties, Zenon
      <3> QED
        BY <3>1, <3>2
    <2>3. \A i \in 1 .. 1 + Len(Tail(s)) :
              (IF i <= 1 THEN <<Head(s)>>[i] ELSE Tail(s)[i - 1]) = s[i]
      BY <2>1
    <2>4. Len(<<Head(s)>> \o Tail(s)) = Len(s)
      BY <2>1, <2>2
    <2>5. \A i \in 1 .. Len(<<Head(s)>> \o Tail(s)) : (<<Head(s)>> \o Tail(s))[i] = s[i]
      BY <2>2, <2>3, Zenon
    <2> QED
      BY <2>2, <2>4, <2>5, SeqEqual, Zenon
  <1>7. Answered(r) \in Seq(Nat) /\ Answered(c) \in Seq(Nat)
    BY AnsweredProperties
  <1>8. Answered(Append(c, answer)) = Answered(c) \o <<Head(s)>>
    BY <1>1, <1>2, <1>3, AnsweredConcat, Zenon
  <1>9. Answered(c) \o <<Head(s)>> \in Seq(Nat)
    BY <1>5, <1>7, ConcatProperties, Zenon
  <1>10. (Answered(c) \o <<Head(s)>>) \o Tail(s) = Answered(c) \o s
    <2>1. (Answered(c) \o <<Head(s)>>) \o Tail(s) = Answered(c) \o (<<Head(s)>> \o Tail(s))
      BY <1>4, <1>5, <1>7, NamesAssociative, Zenon
    <2> QED
      BY <2>1, <1>6, Zenon
  <1>11. (Answered(r) \o (Answered(c) \o <<Head(s)>>)) \o Tail(s)
            = Answered(r) \o ((Answered(c) \o <<Head(s)>>) \o Tail(s))
    BY <1>4, <1>7, <1>9, NamesAssociative, Zenon
  <1>12. (Answered(r) \o Answered(c)) \o s = Answered(r) \o (Answered(c) \o s)
    BY <1>7, NamesAssociative, Zenon
  <1> QED
    BY <1>1, <1>4, <1>8, <1>10, <1>11, <1>12, Zenon

(* The first response is removed. *)
LEMMA StreamRemove ==
  ASSUME NEW r \in Seq(Response), NEW c \in Seq(Response), NEW s \in Seq(Nat), r # <<>>
  PROVE  /\ Tail(r) \in Seq(Response)
         /\ Answered(r) \o Answered(c) \o s # <<>>
         /\ Head(Answered(r) \o Answered(c) \o s) = Head(r).req
         /\ Answered(Tail(r)) \o Answered(c) \o s = Tail(Answered(r) \o Answered(c) \o s)
  <1>1. Answered(r) \in Seq(Nat) /\ Answered(c) \in Seq(Nat)
    BY AnsweredProperties
  <1>2. /\ Answered(r) # <<>>
        /\ Head(Answered(r)) = Head(r).req
        /\ Answered(Tail(r)) = Tail(Answered(r))
    BY AnsweredTail
  <1>3. /\ Answered(r) \o Answered(c) \in Seq(Nat)
        /\ Answered(r) \o Answered(c) # <<>>
        /\ Head(Answered(r) \o Answered(c)) = Head(r).req
        /\ Tail(Answered(r) \o Answered(c)) = Answered(Tail(r)) \o Answered(c)
    BY <1>1, <1>2, TailOfConcat, ConcatProperties, Zenon
  <1> DEFINE rc == Answered(r) \o Answered(c)
  <1> HIDE DEF rc
  <1>4. /\ rc \o s # <<>>
        /\ Head(rc \o s) = Head(rc)
        /\ Tail(rc \o s) = Tail(rc) \o s
    <2>1. rc \in Seq(Nat) /\ rc # <<>>
      BY <1>3 DEF rc
    <2> QED
      BY <2>1, TailOfConcat, Zenon
  <1>5. Tail(r) \in Seq(Response)
    BY HeadTailProperties
  <1> QED
    BY <1>3, <1>4, <1>5, Zenon DEF rc

(* The first request of a run of consecutive ones is removed, or the next  *)
(* one added.                                                              *)
LEMMA LastOfTail ==
  ASSUME NEW s \in Seq(Nat), NEW n \in Nat, s # <<>>, LastOf(s, n)
  PROVE  /\ Tail(s) \in Seq(Nat)
         /\ Len(Tail(s)) = Len(s) - 1
         /\ LastOf(Tail(s), n)
  <1>1. /\ Len(s) \in Nat /\ Tail(s) \in Seq(Nat)
        /\ Len(Tail(s)) = Len(s) - 1
        /\ \A i \in 1 .. Len(Tail(s)) : Tail(s)[i] = s[i + 1]
    BY HeadTailProperties, LenProperties
  <1> QED
    BY <1>1 DEF LastOf

LEMMA LastOfAppend ==
  ASSUME NEW s \in Seq(Nat), NEW n \in Nat, LastOf(s, n)
  PROVE  /\ Append(s, n + 1) \in Seq(Nat)
         /\ Len(Append(s, n + 1)) = Len(s) + 1
         /\ LastOf(Append(s, n + 1), n + 1)
  <1>1. /\ Append(s, n + 1) \in Seq(Nat)
        /\ Len(s) \in Nat
        /\ Len(Append(s, n + 1)) = Len(s) + 1
        /\ \A i \in 1 .. Len(s) : Append(s, n + 1)[i] = s[i]
        /\ Append(s, n + 1)[Len(s) + 1] = n + 1
    BY AppendProperties, LenProperties
  <1> QED
    BY <1>1 DEF LastOf

-----------------------------------------------------------------------------
(* The client's invariant.                                                 *)

(* A client that holds nothing of a connection, only buffered requests. *)
Idle(c) ==
    /\ c \in Client
    /\ c.readbuf = <<>>
    /\ c.num_req_bufd = Len(c.writebuf)
    /\ c.num_req_sent = 0
    /\ c.num_req_rcvd = 0
    /\ c.response_end_offset = 0

(* What close() and the constructors leave. *)
LEMMA ClosedIsIdle ==
  ASSUME NEW c \in Client
  PROVE  /\ Idle(close(c)) /\ close(c).writebuf = <<>>
         /\ close(c).fd = "none" /\ close(c).error_code = c.error_code
         /\ Idle(OutOfSync(c)) /\ OutOfSync(c).writebuf = <<>>
         /\ OutOfSync(c).fd = "none" /\ OutOfSync(c).error_code = -1
  <1>1. NoConnection \in Client
    BY DEF NoConnection, Client, Fds
  <1>2. c.error_code \in {-1, 0, 1}
    BY DEF Client
  <1> QED
    BY <1>1, <1>2 DEF Idle, close, OutOfSync, set_error, NoConnection, Client

LEMMA NewIsIdle ==
  ASSUME NEW c \in Client, NEW outcome \in Fds
  PROVE  /\ Idle(hstcpcli(outcome)) /\ hstcpcli(outcome).writebuf = <<>>
         /\ reconnect(c, outcome) = hstcpcli(outcome)
  <1>1. close(clear_error(c)) = NoConnection
    BY DEF close, clear_error, set_error, NoConnection, Client
  <1>2. reconnect(c, outcome) = hstcpcli(outcome)
    BY <1>1 DEF reconnect, hstcpcli
  <1>3. NoConnection \in Client
    BY DEF NoConnection, Client, Fds
  <1>4. /\ hstcpcli(outcome) \in Client
        /\ hstcpcli(outcome).readbuf = <<>> /\ hstcpcli(outcome).writebuf = <<>>
        /\ hstcpcli(outcome).num_req_bufd = 0 /\ hstcpcli(outcome).num_req_sent = 0
        /\ hstcpcli(outcome).num_req_rcvd = 0
        /\ hstcpcli(outcome).response_end_offset = 0
    <2>1. CASE outcome = "connected"
      <3>1. hstcpcli(outcome) = [NoConnection EXCEPT !.fd = outcome]
        BY <2>1 DEF hstcpcli, Connected, socket_connect
      <3> QED
        BY <1>3, <3>1 DEF Client, NoConnection
    <2>2. CASE outcome # "connected"
      <3>1. hstcpcli(outcome) = [[NoConnection EXCEPT !.fd = outcome] EXCEPT !.error_code = -1]
        BY <2>2 DEF hstcpcli, Connected, socket_connect, set_error
      <3> QED
        BY <1>3, <3>1 DEF Client, NoConnection
    <2> QED
      BY <2>1, <2>2
  <1> QED
    BY <1>2, <1>4 DEF Idle

(* A step that loses the connection and leaves an idle client. *)
LEMMA DropPreserves ==
  ASSUME Idle(cli)', DropConnection, buffered' \in Nat, reconnects' \in Nat,
         LastOf(cli.writebuf, buffered)'
  PROVE  CallsInv'
  <1>1. toServer' = <<>> /\ toClient' = <<>> /\ outstanding' = <<>>
    BY DEF DropConnection
  <1>2. CallsTypeOK'
    BY <1>1 DEF CallsTypeOK, Idle
  <1>3. ResponsesInOrder'
    BY <1>1, AnsweredNone DEF ResponsesInOrder, Idle
  <1>4. CountersAccount'
    BY <1>1 DEF CountersAccount, Idle, Client
  <1>5. LastOf(outstanding, buffered)'
    BY <1>1 DEF LastOf
  <1> QED
    BY <1>1, <1>2, <1>3, <1>4, <1>5 DEF CallsInv, Idle

(* Where nothing is outstanding, nothing is on its way. *)
LEMMA NothingOutstanding ==
  ASSUME CallsInv, Len(outstanding) = 0
  PROVE  /\ outstanding = <<>> /\ toServer = <<>> /\ toClient = <<>>
         /\ cli.readbuf = <<>> /\ cli.num_req_sent = 0 /\ cli.num_req_rcvd = 0
         /\ cli.response_end_offset = 0
  <1>1. /\ cli.readbuf \in Seq(Response) /\ toClient \in Seq(Response)
        /\ toServer \in Seq(Nat) /\ outstanding \in Seq(Nat)
        /\ cli.num_req_sent \in Nat /\ cli.num_req_rcvd \in {0, 1}
    BY DEF CallsInv, CallsTypeOK, Client
  <1>2. /\ Answered(cli.readbuf) \in Seq(Nat) /\ Answered(toClient) \in Seq(Nat)
        /\ Len(Answered(cli.readbuf)) = Len(cli.readbuf)
        /\ Len(Answered(toClient)) = Len(toClient)
    BY <1>1, AnsweredProperties
  <1>3. outstanding = <<>>
    BY <1>1, EmptySeq
  <1>4. Answered(cli.readbuf) = <<>> /\ Answered(toClient) = <<>> /\ toServer = <<>>
    <2>1. (Answered(cli.readbuf) \o Answered(toClient)) \o toServer = <<>>
      BY <1>3 DEF CallsInv, ResponsesInOrder
    <2>2. Answered(cli.readbuf) \o Answered(toClient) \in Seq(Nat)
      BY <1>2, ConcatProperties, Zenon
    <2>3. Answered(cli.readbuf) \o Answered(toClient) = <<>> /\ toServer = <<>>
      BY <1>1, <2>1, <2>2, NamesEmpty, Zenon
    <2> QED
      BY <1>2, <2>3, NamesEmpty, Zenon
  <1>5. cli.readbuf = <<>> /\ toClient = <<>>
    BY <1>1, <1>2, <1>4, EmptySeq
  <1> QED
    BY <1>1, <1>3, <1>4, <1>5 DEF CallsInv, CountersAccount

LEMMA CallsInit == Init => CallsInv
  <1> SUFFICES ASSUME Init PROVE CallsInv
    OBVIOUS
  <1>1. Idle(cli) /\ cli.writebuf = <<>>
    <2>1. NoConnection \in Client
      BY DEF NoConnection, Client, Fds
    <2> QED
      BY <2>1, NewIsIdle DEF Init
  <1>2. CallsTypeOK
    BY <1>1 DEF Init, Idle, CallsTypeOK
  <1>3. ResponsesInOrder
    BY <1>1, AnsweredNone DEF Init, Idle, ResponsesInOrder
  <1>4. CountersAccount
    BY <1>1 DEF Init, Idle, CountersAccount, Client
  <1>5. LastOf(cli.writebuf, buffered) /\ LastOf(outstanding, buffered)
    BY <1>1 DEF Init, LastOf
  <1> QED
    BY <1>1, <1>2, <1>3, <1>4, <1>5 DEF CallsInv, Init, Idle

LEMMA BufferedClient ==
  ASSUME NEW c \in Client, NEW w \in Seq(Nat), NEW b \in Nat
  PROVE  [c EXCEPT !.writebuf = w, !.num_req_bufd = b] \in Client
  BY DEF Client

(* Buffering a request. *)
LEMMA RequestBufStep ==
  ASSUME CallsInv, RequestBuf
  PROVE  /\ CallsInv'
         /\ cli'.error_code \in {cli.error_code, -1}
         /\ cli'.error_code >= 0
                => /\ Len(cli'.writebuf) = Len(cli.writebuf) + 1
                   /\ outstanding = <<>>
                   /\ outstanding' = <<>>
  <1>1. cli \in Client /\ buffered \in Nat /\ buffered' = buffered + 1
    BY DEF CallsInv, CallsTypeOK, RequestBuf
  <1>2. /\ cli.num_req_sent \in Nat /\ cli.num_req_rcvd \in {0, 1} /\ outstanding \in Seq(Nat)
        /\ cli.writebuf \in Seq(Nat) /\ cli.num_req_bufd \in Nat
        /\ cli.error_code \in {-1, 0, 1}
    BY DEF CallsInv, CallsTypeOK, Client
  <1>3. cli' = request_buf_exec_generic(cli, buffered + 1)
    BY DEF RequestBuf, request_buf_open_index, request_buf_auth
  <1>4. reconnects' \in Nat
    BY DEF CallsInv, CallsTypeOK, RequestBuf
  <1>5. CASE cli.num_req_sent > 0 \/ cli.num_req_rcvd > 0
    <2>1. cli' = OutOfSync(cli)
      BY <1>3, <1>5 DEF request_buf_exec_generic
    <2>2. Idle(cli') /\ cli'.writebuf = <<>> /\ cli'.fd = "none" /\ cli'.error_code = -1
      BY <1>1, <2>1, ClosedIsIdle
    <2>3. DropConnection
      BY <2>2 DEF RequestBuf
    <2>4. LastOf(cli.writebuf, buffered)'
      BY <2>2 DEF LastOf
    <2> QED
      BY <1>1, <1>4, <2>2, <2>3, <2>4, DropPreserves
  <1>6. CASE ~(cli.num_req_sent > 0 \/ cli.num_req_rcvd > 0)
    <2>1. cli' = [cli EXCEPT !.writebuf = Append(@, buffered + 1), !.num_req_bufd = @ + 1]
      BY <1>3, <1>6 DEF request_buf_exec_generic
    <2>2. Len(outstanding) = 0
      BY <1>2, <1>6 DEF CallsInv, CountersAccount
    <2>3. /\ outstanding = <<>> /\ toServer = <<>> /\ toClient = <<>>
          /\ cli.readbuf = <<>> /\ cli.num_req_sent = 0 /\ cli.num_req_rcvd = 0
          /\ cli.response_end_offset = 0
      BY <2>2, NothingOutstanding
    <2>4. /\ Append(cli.writebuf, buffered + 1) \in Seq(Nat)
          /\ Len(Append(cli.writebuf, buffered + 1)) = Len(cli.writebuf) + 1
          /\ LastOf(Append(cli.writebuf, buffered + 1), buffered + 1)
      BY <1>1, <1>2, LastOfAppend DEF CallsInv
    <2>5. /\ cli'.writebuf = Append(cli.writebuf, buffered + 1)
          /\ cli'.num_req_bufd = cli.num_req_bufd + 1
          /\ cli'.error_code = cli.error_code
          /\ cli'.readbuf = cli.readbuf
          /\ cli'.num_req_sent = cli.num_req_sent
          /\ cli'.num_req_rcvd = cli.num_req_rcvd
          /\ cli'.response_end_offset = cli.response_end_offset
      BY <1>1, <2>1 DEF Client
    <2>6. cli' \in Client
      <3>1. cli.num_req_bufd + 1 \in Nat
        BY <1>2
      <3> QED
        BY <1>1, <2>1, <2>4, <3>1, BufferedClient
    <2>7. cli.num_req_bufd = Len(cli.writebuf)
      BY DEF CallsInv, CountersAccount
    <2>8. Idle(cli')
      BY <2>3, <2>4, <2>5, <2>6, <2>7 DEF Idle
    <2>9. DropConnection
      BY <2>3 DEF RequestBuf, DropConnection, KeepConnection
    <2>10. LastOf(cli.writebuf, buffered)'
      BY <1>1, <2>4, <2>5
    <2>11. outstanding' = <<>>
      BY <2>9 DEF DropConnection
    <2>12. CallsInv'
      BY <1>1, <1>4, <2>8, <2>9, <2>10, DropPreserves
    <2> QED
      BY <2>3, <2>4, <2>5, <2>11, <2>12
  <1> QED
    BY <1>5, <1>6

LEMMA SentClient ==
  ASSUME NEW c \in Client
  PROVE  [clear_error(c) EXCEPT !.writebuf = << >>, !.num_req_sent = c.num_req_bufd,
                                !.num_req_bufd = 0] \in Client
  <1>1. PICK d : d = clear_error(c)
    OBVIOUS
  <1>2. d \in Client
    BY <1>1 DEF Client, clear_error, set_error
  <1>3. PICK b : b = c.num_req_bufd
    OBVIOUS
  <1>4. b \in Nat /\ <<>> \in Seq(Nat) /\ 0 \in Nat
    BY <1>3 DEF Client
  <1>5. [d EXCEPT !.writebuf = << >>, !.num_req_sent = b, !.num_req_bufd = 0] \in Client
    BY <1>2, <1>4 DEF Client
  <1> QED
    BY <1>1, <1>3, <1>5

(* Sending what is buffered: a send that succeeds makes it outstanding. *)
LEMMA RequestSendStep ==
  ASSUME CallsInv, NEW wrote \in BOOLEAN, RequestSend(wrote)
  PROVE  /\ CallsInv'
         /\ cli'.error_code \in {-1, 0}
         /\ cli.error_code < 0 => cli'.error_code < 0
         /\ cli'.error_code >= 0
                => /\ cli'.writebuf = <<>>
                   /\ outstanding' = cli.writebuf
                   /\ cli.error_code >= 0
  <1>1. /\ cli \in Client /\ buffered \in Nat /\ reconnects \in Nat
        /\ buffered' = buffered /\ reconnects' = reconnects
    BY DEF CallsInv, CallsTypeOK, RequestSend
  <1>2. /\ cli.num_req_sent \in Nat /\ cli.num_req_rcvd \in {0, 1} /\ outstanding \in Seq(Nat)
        /\ cli.writebuf \in Seq(Nat) /\ cli.num_req_bufd \in Nat
        /\ cli.error_code \in {-1, 0, 1} /\ toServer \in Seq(Nat)
    BY DEF CallsInv, CallsTypeOK, Client
  <1>3. cli' = request_send(cli, wrote)
    BY DEF RequestSend
  <1>4. CASE cli.error_code < 0
    <2>1. cli' = cli
      BY <1>3, <1>4 DEF request_send
    <2>2. CASE cli.fd = "none"
      <3>1. outstanding = <<>>
        BY <2>2 DEF CallsInv
      <3>2. DropConnection
        BY <2>1, <2>2 DEF RequestSend
      <3>3. Idle(cli)
        BY <1>1, <3>1, NothingOutstanding DEF Idle, CallsInv, CountersAccount
      <3>4. LastOf(cli.writebuf, buffered)
        BY DEF CallsInv
      <3>5. CallsInv'
        BY <1>1, <2>1, <3>2, <3>3, <3>4, DropPreserves
      <3> QED
        BY <1>2, <1>4, <2>1, <3>5
    <2>3. CASE cli.fd # "none"
      <3>1. KeepConnection
        BY <1>2, <2>1, <2>3 DEF RequestSend
      <3>2. CallsInv'
        BY <1>1, <2>1, <3>1 DEF CallsInv, CallsTypeOK, ResponsesInOrder, CountersAccount,
                                LastOf, KeepConnection
      <3> QED
        BY <1>2, <1>4, <2>1, <3>2
    <2> QED
      BY <2>2, <2>3
  <1>5. CASE /\ ~(cli.error_code < 0)
             /\ \/ cli.fd = "none"
                \/ cli.num_req_bufd = 0
                \/ cli.num_req_sent > 0
                \/ cli.num_req_rcvd > 0
                \/ ~wrote
    <2>1. cli' = OutOfSync(cli)
      BY <1>3, <1>5 DEF request_send
    <2>2. Idle(cli') /\ cli'.writebuf = <<>> /\ cli'.fd = "none" /\ cli'.error_code = -1
      BY <1>1, <2>1, ClosedIsIdle
    <2>3. DropConnection
      BY <2>2 DEF RequestSend
    <2>4. LastOf(cli.writebuf, buffered)'
      BY <2>2 DEF LastOf
    <2>5. CallsInv'
      BY <1>1, <2>2, <2>3, <2>4, DropPreserves
    <2> QED
      BY <2>2, <2>5
  <1>6. CASE /\ ~(cli.error_code < 0)
             /\ ~ \/ cli.fd = "none"
                  \/ cli.num_req_bufd = 0
                  \/ cli.num_req_sent > 0
                  \/ cli.num_req_rcvd > 0
                  \/ ~wrote
    <2>1. cli' = [clear_error(cli) EXCEPT !.writebuf = << >>,
                                          !.num_req_sent = cli.num_req_bufd,
                                          !.num_req_bufd = 0]
      BY <1>3, <1>6 DEF request_send
    <2>2. cli' \in Client
      BY <1>1, <2>1, SentClient
    <2>3. /\ cli'.writebuf = <<>> /\ cli'.num_req_sent = cli.num_req_bufd
          /\ cli'.num_req_bufd = 0 /\ cli'.error_code = 0
          /\ cli'.fd = cli.fd /\ cli'.readbuf = cli.readbuf
          /\ cli'.num_req_rcvd = cli.num_req_rcvd
          /\ cli'.response_end_offset = cli.response_end_offset
      BY <1>1, <2>1 DEF Client, clear_error, set_error
    <2>4. /\ cli.num_req_bufd > 0 /\ cli.num_req_sent = 0 /\ cli.num_req_rcvd = 0
          /\ cli.fd # "none"
      BY <1>2, <1>6
    <2>5. Len(outstanding) = 0 /\ cli.num_req_bufd = Len(cli.writebuf)
      BY <2>4 DEF CallsInv, CountersAccount
    <2>6. /\ outstanding = <<>> /\ toServer = <<>> /\ toClient = <<>>
          /\ cli.readbuf = <<>> /\ cli.response_end_offset = 0
      BY <2>5, NothingOutstanding
    <2>7. /\ toServer' = toServer \o cli.writebuf
          /\ outstanding' = outstanding \o cli.writebuf
          /\ toClient' = toClient
      BY <2>3, <2>4 DEF RequestSend
    <2>8. toServer' = cli.writebuf /\ outstanding' = cli.writebuf /\ toClient' = <<>>
      BY <1>2, <2>6, <2>7, ConcatEmptySeq
    <2>9. CallsTypeOK'
      BY <1>1, <1>2, <2>2, <2>8 DEF CallsTypeOK
    <2>10. ResponsesInOrder'
      <3>1. (<<>> \o <<>>) \o cli.writebuf = cli.writebuf
        BY <1>2
      <3> QED
        BY <2>3, <2>6, <2>8, <3>1, AnsweredNone DEF ResponsesInOrder
    <2>11. CountersAccount'
      BY <2>3, <2>4, <2>5, <2>6, <2>8, <1>2 DEF CountersAccount
    <2>12. LastOf(cli.writebuf, buffered)' /\ LastOf(outstanding, buffered)'
      <3>1. LastOf(cli.writebuf, buffered)'
        BY <2>3 DEF LastOf
      <3>2. LastOf(cli.writebuf, buffered)
        BY DEF CallsInv
      <3> QED
        BY <1>1, <2>8, <3>1, <3>2
    <2>13. CallsInv'
      <3>1. (cli.response_end_offset = 1 => cli.readbuf # <<>>)'
        BY <2>3, <2>6
      <3>2. (cli.fd = "none" => outstanding = <<>>)'
        BY <2>3, <2>4
      <3> QED
        BY <3>1, <3>2, <2>9, <2>10, <2>11, <2>12 DEF CallsInv
    <2> QED
      BY <1>2, <1>6, <2>3, <2>8, <2>13
  <1> QED
    BY <1>4, <1>5, <1>6

(* The client after it took the first line of r. *)
LEMMA TakenClient ==
  ASSUME NEW c \in Client, NEW r \in Seq(Response), r # <<>>,
         c.num_req_sent > 0, c.num_req_rcvd = 0
  PROVE  LET d == TakeResponse([clear_error(c) EXCEPT !.readbuf = r])
         IN  /\ d \in Client
             /\ d.readbuf = r
             /\ d.writebuf = c.writebuf
             /\ d.fd = c.fd
             /\ d.response_end_offset = 1
             /\ d.num_req_bufd = c.num_req_bufd
             /\ d.num_req_sent = c.num_req_sent - 1
             /\ d.num_req_rcvd = 1
             /\ d.error_code \in {0, 1}
  <1>1. PICK e : e = [clear_error(c) EXCEPT !.readbuf = r]
    OBVIOUS
  <1>2. /\ e \in Client
        /\ e.readbuf = r /\ e.writebuf = c.writebuf /\ e.fd = c.fd
        /\ e.num_req_bufd = c.num_req_bufd
        /\ e.num_req_sent = c.num_req_sent
        /\ e.num_req_rcvd = c.num_req_rcvd
    BY <1>1 DEF Client, clear_error, set_error
  <1>3. Head(r) \in Response
    BY HeadTailProperties
  <1>4. PICK f, code : f = Head(r).num_flds /\ code = Head(r).code
    OBVIOUS
  <1>5. f \in {0, 1} /\ code \in {0, 1}
    BY <1>3, <1>4 DEF Response
  <1>6. TakeResponse(e) =
            [e EXCEPT !.response_end_offset = 1,
                      !.num_req_sent = @ - 1,
                      !.num_req_rcvd = @ + 1,
                      !.num_flds = f,
                      !.cur_row_offset = IF code = 0 THEN 1 ELSE 0,
                      !.error_code = code]
    BY <1>2, <1>4 DEF TakeResponse
  <1>7. c.num_req_sent \in Nat
    BY DEF Client
  <1>8. e.num_req_sent - 1 \in Nat /\ e.num_req_rcvd + 1 = 1
    BY <1>2, <1>7
  <1>9. PICK o : o = IF code = 0 THEN 1 ELSE 0
    OBVIOUS
  <1>10. o \in Nat
    BY <1>9
  <1>11. TakeResponse(e) =
            [e EXCEPT !.response_end_offset = 1,
                      !.num_req_sent = e.num_req_sent - 1,
                      !.num_req_rcvd = 1,
                      !.num_flds = f,
                      !.cur_row_offset = o,
                      !.error_code = code]
    BY <1>6, <1>8, <1>9
  <1>12. TakeResponse(e) \in Client
    <2>1. PICK m : m = e.num_req_sent - 1
      OBVIOUS
    <2>2. m \in Nat
      BY <1>8, <2>1
    <2>3. [e EXCEPT !.response_end_offset = 1, !.num_req_sent = m, !.num_req_rcvd = 1,
                    !.num_flds = f, !.cur_row_offset = o, !.error_code = code] \in Client
      BY <1>2, <1>5, <1>10, <2>2 DEF Client
    <2> QED
      BY <1>11, <2>1, <2>3
  <1>13. /\ TakeResponse(e).readbuf = r
         /\ TakeResponse(e).writebuf = c.writebuf
         /\ TakeResponse(e).fd = c.fd
         /\ TakeResponse(e).response_end_offset = 1
         /\ TakeResponse(e).num_req_bufd = c.num_req_bufd
         /\ TakeResponse(e).num_req_sent = c.num_req_sent - 1
         /\ TakeResponse(e).num_req_rcvd = 1
         /\ TakeResponse(e).error_code \in {0, 1}
    BY <1>2, <1>5, <1>11 DEF Client
  <1> QED
    BY <1>1, <1>12, <1>13

(* A step that leaves the client and the connection as they are. *)
LEMMA NothingChanges ==
  ASSUME CallsInv, cli' = cli, KeepConnection, UNCHANGED <<buffered, reconnects>>
  PROVE  CallsInv'
  BY DEF CallsInv, CallsTypeOK, ResponsesInOrder, CountersAccount, LastOf, KeepConnection

(* Receiving: the response that becomes current answers the oldest         *)
(* outstanding request.                                                    *)
LEMMA ResponseRecvStep ==
  ASSUME CallsInv, NEW n \in 0 .. MaxRequests, ResponseRecv(n)
  PROVE  /\ CallsInv'
         /\ cli'.error_code \in {-1, 0, 1}
         /\ cli.error_code < 0 => cli'.error_code < 0
         /\ cli'.error_code >= 0
                => /\ cli'.writebuf = cli.writebuf
                   /\ cli'.response_end_offset = 1
                   /\ outstanding' = outstanding
                   /\ outstanding # <<>>
                   /\ Head(cli'.readbuf).req = Head(outstanding)
  <1>1. /\ cli \in Client /\ buffered \in Nat /\ reconnects \in Nat
        /\ buffered' = buffered /\ reconnects' = reconnects
        /\ toClient \in Seq(Response) /\ toServer \in Seq(Nat) /\ outstanding \in Seq(Nat)
    BY DEF CallsInv, CallsTypeOK, ResponseRecv
  <1>2. /\ cli.num_req_sent \in Nat /\ cli.num_req_rcvd \in {0, 1}
        /\ cli.writebuf \in Seq(Nat) /\ cli.num_req_bufd \in Nat
        /\ cli.readbuf \in Seq(Response)
        /\ cli.error_code \in {-1, 0, 1} /\ Len(toClient) \in Nat
    BY <1>1, LenProperties DEF Client
  <1>3. cli' = response_recv(cli, SubSeq(toClient, 1, n))
    BY DEF ResponseRecv
  <1>4. n \in 0 .. Len(toClient)
    BY <1>2 DEF ResponseRecv
  <1>5. CASE cli.error_code < 0
    <2>1. cli' = cli
      BY <1>3, <1>5 DEF response_recv
    <2>2. ~CanReceive(cli)
      BY <1>2, <1>5 DEF CanReceive
    <2>3. n = 0
      BY <2>2 DEF ResponseRecv
    <2>4. CASE cli.fd = "none"
      <3>1. outstanding = <<>>
        BY <2>4 DEF CallsInv
      <3>2. DropConnection
        BY <2>1, <2>4 DEF ResponseRecv
      <3>3. Idle(cli)
        BY <1>1, <3>1, NothingOutstanding DEF Idle, CallsInv, CountersAccount
      <3>4. LastOf(cli.writebuf, buffered)
        BY DEF CallsInv
      <3>5. CallsInv'
        BY <1>1, <2>1, <3>2, <3>3, <3>4, DropPreserves
      <3> QED
        BY <1>2, <1>5, <2>1, <3>5
    <2>5. CASE cli.fd # "none"
      <3>1. toClient' = SubSeq(toClient, 1, Len(toClient))
        BY <2>1, <2>3, <2>5 DEF ResponseRecv
      <3>2. toClient' = toClient
        BY <1>1, <3>1, SubSeqFull
      <3>3. KeepConnection
        BY <2>1, <2>5, <3>2 DEF ResponseRecv, KeepConnection
      <3>4. CallsInv'
        BY <1>1, <2>1, <3>3, NothingChanges
      <3> QED
        BY <1>2, <1>5, <2>1, <3>4
    <2> QED
      BY <2>4, <2>5
  <1>6. CASE /\ ~(cli.error_code < 0)
             /\ ~CanReceive(cli) \/ cli.readbuf \o SubSeq(toClient, 1, n) = << >>
    <2>1. cli' = OutOfSync(cli)
      BY <1>3, <1>6 DEF response_recv
    <2>2. Idle(cli') /\ cli'.writebuf = <<>> /\ cli'.fd = "none" /\ cli'.error_code = -1
      BY <1>1, <2>1, ClosedIsIdle
    <2>3. DropConnection
      BY <2>2 DEF ResponseRecv
    <2>4. LastOf(cli.writebuf, buffered)'
      BY <2>2 DEF LastOf
    <2>5. CallsInv'
      BY <1>1, <2>2, <2>3, <2>4, DropPreserves
    <2> QED
      BY <2>2, <2>5
  <1>7. CASE /\ ~(cli.error_code < 0)
             /\ CanReceive(cli)
             /\ cli.readbuf \o SubSeq(toClient, 1, n) # << >>
    <2>1. PICK read : read = cli.readbuf \o SubSeq(toClient, 1, n)
      OBVIOUS
    <2>2. cli' = TakeResponse([clear_error(cli) EXCEPT !.readbuf = read])
      <3>1. cli' = TakeResponse([clear_error(cli) EXCEPT
                                     !.readbuf = @ \o SubSeq(toClient, 1, n)])
        BY <1>3, <1>7 DEF response_recv
      <3>2. clear_error(cli).readbuf = cli.readbuf
        BY <1>1 DEF clear_error, set_error, Client
      <3> QED
        BY <2>1, <3>1, <3>2
    <2>3. /\ read \in Seq(Response) /\ read # <<>>
          /\ SubSeq(toClient, n + 1, Len(toClient)) \in Seq(Response)
          /\ Answered(read) \o Answered(SubSeq(toClient, n + 1, Len(toClient)))
                 = Answered(cli.readbuf) \o Answered(toClient)
      BY <1>1, <1>2, <1>4, <1>7, <2>1, StreamRead
    <2>4. /\ cli.num_req_sent > 0 /\ cli.num_req_rcvd = 0 /\ cli.fd # "none"
          /\ cli.num_req_bufd = 0
      BY <1>7 DEF CanReceive
    <2>5. /\ cli' \in Client
          /\ cli'.readbuf = read
          /\ cli'.writebuf = cli.writebuf
          /\ cli'.fd = cli.fd
          /\ cli'.response_end_offset = 1
          /\ cli'.num_req_bufd = cli.num_req_bufd
          /\ cli'.num_req_sent = cli.num_req_sent - 1
          /\ cli'.num_req_rcvd = 1
          /\ cli'.error_code \in {0, 1}
      BY <1>1, <2>2, <2>3, <2>4, TakenClient
    <2>6. /\ toClient' = SubSeq(toClient, n + 1, Len(toClient))
          /\ toServer' = toServer /\ outstanding' = outstanding
      BY <2>4, <2>5 DEF ResponseRecv
    <2>7. CallsTypeOK'
      BY <1>1, <2>3, <2>5, <2>6 DEF CallsTypeOK
    <2>8. ResponsesInOrder'
      <3>1. (Answered(read) \o Answered(SubSeq(toClient, n + 1, Len(toClient)))) \o toServer
                = outstanding
        BY <2>3, Zenon DEF CallsInv, ResponsesInOrder
      <3> QED
        BY <2>5, <2>6, <3>1, Zenon DEF ResponsesInOrder
    <2>9. CountersAccount'
      <3>1. /\ cli.num_req_bufd = Len(cli.writebuf)
            /\ cli.num_req_sent + cli.num_req_rcvd = Len(outstanding)
        BY DEF CallsInv, CountersAccount
      <3>2. (cli.num_req_sent - 1) + 1 = Len(outstanding)
        BY <1>2, <2>4, <3>1
      <3>3. /\ cli'.num_req_bufd = Len(cli'.writebuf)
            /\ cli'.num_req_sent + cli'.num_req_rcvd = Len(outstanding')
            /\ cli'.num_req_rcvd = cli'.response_end_offset
            /\ ~(cli'.num_req_bufd > 0)
        BY <2>4, <2>5, <2>6, <3>1, <3>2
      <3> QED
        BY <3>3 DEF CountersAccount
    <2>10. LastOf(cli.writebuf, buffered)' /\ LastOf(outstanding, buffered)'
      BY <1>1, <2>5, <2>6 DEF CallsInv
    <2>11. CallsInv'
      BY <2>3, <2>4, <2>5, <2>7, <2>8, <2>9, <2>10 DEF CallsInv
    <2>12. outstanding # <<>> /\ Head(read).req = Head(outstanding)
      <3>1. toClient' \in Seq(Response)
        BY <2>3, <2>6
      <3>2. Answered(read) \o Answered(toClient') \o toServer = outstanding
        BY <2>5, <2>6, <2>8, Zenon DEF ResponsesInOrder
      <3> QED
        BY <1>1, <2>3, <3>1, <3>2, StreamRemove, ZenonT(40)
    <2> QED
      BY <1>7, <2>5, <2>6, <2>11, <2>12
  <1> QED
    BY <1>5, <1>6, <1>7

(* Reading a row moves only the offset. *)
LEMMA GetNextRowStep ==
  ASSUME CallsInv, GetNextRow
  PROVE  /\ CallsInv'
         /\ cli'.error_code = cli.error_code
         /\ cli'.writebuf = cli.writebuf
         /\ cli'.response_end_offset = cli.response_end_offset
         /\ outstanding' = outstanding
         /\ buffered' = buffered
  <1>1. /\ cli \in Client /\ buffered' = buffered /\ reconnects' = reconnects
        /\ KeepConnection
    BY DEF CallsInv, CallsTypeOK, GetNextRow
  <1>2. CASE cli' = cli
    BY <1>1, <1>2, NothingChanges DEF KeepConnection
  <1>3. CASE cli' = [cli EXCEPT !.cur_row_offset = @ + 1]
    <2>1. cli.cur_row_offset \in Nat
      BY <1>1 DEF Client
    <2>2. cli.cur_row_offset + 1 \in Nat
      BY <2>1
    <2>3. /\ cli' \in Client
          /\ cli'.error_code = cli.error_code
          /\ cli'.writebuf = cli.writebuf /\ cli'.readbuf = cli.readbuf
          /\ cli'.fd = cli.fd
          /\ cli'.response_end_offset = cli.response_end_offset
          /\ cli'.num_req_bufd = cli.num_req_bufd
          /\ cli'.num_req_sent = cli.num_req_sent
          /\ cli'.num_req_rcvd = cli.num_req_rcvd
      <3>1. PICK o : o = cli.cur_row_offset + 1
        OBVIOUS
      <3>2. o \in Nat /\ cli' = [cli EXCEPT !.cur_row_offset = o]
        BY <1>3, <2>2, <3>1
      <3> QED
        BY <1>1, <3>2 DEF Client
    <2>4. CallsTypeOK'
      BY <1>1, <2>3 DEF CallsInv, CallsTypeOK, KeepConnection
    <2>5. ResponsesInOrder' /\ CountersAccount'
      BY <1>1, <2>3 DEF CallsInv, ResponsesInOrder, CountersAccount, KeepConnection
    <2>6. LastOf(cli.writebuf, buffered)' /\ LastOf(outstanding, buffered)'
      BY <1>1, <2>3 DEF CallsInv, KeepConnection
    <2>7. CallsInv'
      BY <1>1, <2>3, <2>4, <2>5, <2>6 DEF CallsInv, KeepConnection
    <2> QED
      BY <1>1, <2>3, <2>7 DEF KeepConnection
  <1> QED
    BY <1>2, <1>3 DEF GetNextRow, get_next_row

LEMMA RemovedClient ==
  ASSUME NEW c \in Client, c.readbuf # <<>>, c.num_req_rcvd = 1
  PROVE  LET d == [c EXCEPT !.readbuf = Tail(@), !.response_end_offset = 0,
                            !.num_req_rcvd = @ - 1, !.cur_row_offset = 0, !.num_flds = 0]
         IN  /\ d \in Client
             /\ d.readbuf = Tail(c.readbuf)
             /\ d.writebuf = c.writebuf
             /\ d.fd = c.fd
             /\ d.error_code = c.error_code
             /\ d.response_end_offset = 0
             /\ d.num_req_bufd = c.num_req_bufd
             /\ d.num_req_sent = c.num_req_sent
             /\ d.num_req_rcvd = 0
  <1>1. PICK r : r = Tail(c.readbuf)
    OBVIOUS
  <1>2. r \in Seq(Response)
    BY <1>1, HeadTailProperties DEF Client
  <1>3. [c EXCEPT !.readbuf = r, !.response_end_offset = 0, !.num_req_rcvd = 0,
                  !.cur_row_offset = 0, !.num_flds = 0] \in Client
    BY <1>2 DEF Client
  <1>4. c.num_req_rcvd - 1 = 0
    OBVIOUS
  <1> QED
    BY <1>1, <1>3, <1>4 DEF Client

(* Removing a response takes its request from the outstanding ones. *)
LEMMA ResponseBufRemoveStep ==
  ASSUME CallsInv, ResponseBufRemove
  PROVE  /\ CallsInv'
         /\ cli'.error_code \in {cli.error_code, -1}
         /\ cli.response_end_offset = 1
                => /\ cli'.error_code = cli.error_code
                   /\ cli'.writebuf = cli.writebuf
                   /\ outstanding # <<>>
                   /\ outstanding' = Tail(outstanding)
  <1>1. /\ cli \in Client /\ buffered \in Nat /\ reconnects \in Nat
        /\ buffered' = buffered /\ reconnects' = reconnects
        /\ toClient \in Seq(Response) /\ toServer \in Seq(Nat) /\ outstanding \in Seq(Nat)
    BY DEF CallsInv, CallsTypeOK, ResponseBufRemove
  <1>2. /\ cli.readbuf \in Seq(Response) /\ cli.response_end_offset \in {0, 1}
        /\ cli.num_req_sent \in Nat /\ cli.num_req_bufd \in Nat
    BY <1>1 DEF Client
  <1>3. cli' = response_buf_remove(cli)
    BY DEF ResponseBufRemove
  <1>4. CASE cli.response_end_offset = 0
    <2>1. cli' = OutOfSync(cli)
      BY <1>3, <1>4 DEF response_buf_remove
    <2>2. Idle(cli') /\ cli'.writebuf = <<>> /\ cli'.fd = "none" /\ cli'.error_code = -1
      BY <1>1, <2>1, ClosedIsIdle
    <2>3. DropConnection
      BY <2>2 DEF ResponseBufRemove
    <2>4. LastOf(cli.writebuf, buffered)'
      BY <2>2 DEF LastOf
    <2>5. CallsInv'
      BY <1>1, <2>2, <2>3, <2>4, DropPreserves
    <2> QED
      BY <1>4, <2>2, <2>5
  <1>5. CASE cli.response_end_offset = 1
    <2>1. /\ cli.readbuf # <<>> /\ cli.num_req_rcvd = 1
          /\ cli.num_req_bufd = Len(cli.writebuf)
          /\ cli.num_req_sent + 1 = Len(outstanding)
          /\ cli.num_req_bufd > 0 => Len(outstanding) = 0
      BY <1>5 DEF CallsInv, CountersAccount
    <2>2. cli' = [cli EXCEPT !.readbuf = Tail(@), !.response_end_offset = 0,
                             !.num_req_rcvd = @ - 1, !.cur_row_offset = 0, !.num_flds = 0]
      BY <1>3, <1>5 DEF response_buf_remove
    <2>3. /\ cli' \in Client
          /\ cli'.readbuf = Tail(cli.readbuf)
          /\ cli'.writebuf = cli.writebuf
          /\ cli'.fd = cli.fd
          /\ cli'.error_code = cli.error_code
          /\ cli'.response_end_offset = 0
          /\ cli'.num_req_bufd = cli.num_req_bufd
          /\ cli'.num_req_sent = cli.num_req_sent
          /\ cli'.num_req_rcvd = 0
      BY <1>1, <2>1, <2>2, RemovedClient
    <2>4. outstanding # <<>>
      BY <1>2, <2>1
    <2>5. cli.fd # "none"
      BY <2>4 DEF CallsInv
    <2>6. /\ outstanding' = Tail(outstanding)
          /\ toServer' = toServer /\ toClient' = toClient
      BY <2>3, <2>5 DEF ResponseBufRemove
    <2>7. LastOf(outstanding, buffered)
      BY DEF CallsInv
    <2>8. /\ Tail(outstanding) \in Seq(Nat)
          /\ Len(Tail(outstanding)) = Len(outstanding) - 1
          /\ LastOf(Tail(outstanding), buffered)
      BY <1>1, <2>4, <2>7, LastOfTail
    <2>9. CallsTypeOK'
      BY <1>1, <2>3, <2>6, <2>8 DEF CallsTypeOK
    <2>10. ResponsesInOrder'
      <3>1. Answered(cli.readbuf) \o Answered(toClient) \o toServer = outstanding
        BY DEF CallsInv, ResponsesInOrder
      <3>2. Answered(Tail(cli.readbuf)) \o Answered(toClient) \o toServer = Tail(outstanding)
        BY <1>1, <1>2, <2>1, <3>1, StreamRemove, Zenon
      <3> QED
        BY <2>3, <2>6, <3>2, Zenon DEF ResponsesInOrder
    <2>11. CountersAccount'
      BY <1>2, <2>1, <2>3, <2>6, <2>8 DEF CountersAccount
    <2>12. LastOf(cli.writebuf, buffered)' /\ LastOf(outstanding, buffered)'
      BY <1>1, <2>3, <2>6, <2>8 DEF CallsInv
    <2>13. CallsInv'
      BY <2>3, <2>5, <2>9, <2>10, <2>11, <2>12 DEF CallsInv
    <2> QED
      BY <2>3, <2>4, <2>6, <2>13
  <1> QED
    BY <1>2, <1>4, <1>5

(* close() and reconnect(). *)
LEMMA CloseStep ==
  ASSUME CallsInv, Close \/ Reconnect
  PROVE  /\ CallsInv' /\ cli'.writebuf = <<>> /\ outstanding' = <<>>
         /\ cli'.error_code = cli.error_code \/ \E outcome \in Fds : cli' = hstcpcli(outcome)
  <1>1. cli \in Client /\ buffered \in Nat /\ reconnects \in Nat
    BY DEF CallsInv, CallsTypeOK
  <1>2. DropConnection /\ buffered' = buffered /\ reconnects' \in Nat
    BY <1>1 DEF Close, Reconnect
  <1>3. /\ Idle(cli') /\ cli'.writebuf = <<>>
        /\ cli'.error_code = cli.error_code \/ \E outcome \in Fds : cli' = hstcpcli(outcome)
    <2>1. CASE Close
      BY <1>1, <2>1, ClosedIsIdle DEF Close
    <2>2. CASE Reconnect
      BY <1>1, <2>2, NewIsIdle DEF Reconnect
    <2> QED
      BY <2>1, <2>2
  <1>4. LastOf(cli.writebuf, buffered)'
    BY <1>3 DEF LastOf
  <1>5. CallsInv'
    BY <1>1, <1>2, <1>3, <1>4, DropPreserves
  <1> QED
    BY <1>2, <1>3, <1>5 DEF DropConnection

(* The server's step does not touch the client. *)
LEMMA ServerAnswerStep ==
  ASSUME CallsInv, ServerAnswer
  PROVE  CallsInv' /\ UNCHANGED <<cli, buffered, outstanding>>
  <1>1. /\ cli' = cli /\ buffered' = buffered /\ reconnects' = reconnects
        /\ outstanding' = outstanding /\ toServer # <<>> /\ toServer' = Tail(toServer)
    BY DEF ServerAnswer
  <1>2. /\ cli.readbuf \in Seq(Response) /\ toClient \in Seq(Response)
        /\ toServer \in Seq(Nat)
    BY DEF CallsInv, CallsTypeOK, Client
  <1>3. PICK answer \in Answers(Head(toServer)) : toClient' = Append(toClient, answer)
    BY DEF ServerAnswer
  <1>4. answer \in Response /\ answer.req = Head(toServer)
    <2>1. Head(toServer) \in Nat
      BY <1>1, <1>2, HeadTailProperties
    <2>2. <<>> \in Seq({"row"}) /\ <<"row">> \in Seq({"row"})
      OBVIOUS
    <2>3. PICK r : r = Head(toServer)
      OBVIOUS
    <2>4. \A a \in Answers(r) : a \in Response /\ a.req = r
      <3>1. PICK none, one : none = <<>> /\ one = <<"row">>
        OBVIOUS
      <3>2. none \in Seq({"row"}) /\ one \in Seq({"row"}) /\ r \in Nat
        BY <2>1, <2>2, <2>3, <3>1
      <3>3. /\ [req |-> r, code |-> 0, num_flds |-> 1, rows |-> one] \in Response
            /\ [req |-> r, code |-> 0, num_flds |-> 0, rows |-> none] \in Response
            /\ [req |-> r, code |-> 1, num_flds |-> 1, rows |-> none] \in Response
        BY <3>2 DEF Response
      <3>4. Answers(r) = {[req |-> r, code |-> 0, num_flds |-> 1, rows |-> one],
                          [req |-> r, code |-> 0, num_flds |-> 0, rows |-> none],
                          [req |-> r, code |-> 1, num_flds |-> 1, rows |-> none]}
        BY <3>1 DEF Answers
      <3> QED
        BY <3>3, <3>4
    <2> QED
      BY <1>3, <2>3, <2>4
  <1>5. /\ Append(toClient, answer) \in Seq(Response)
        /\ Tail(toServer) \in Seq(Nat)
        /\ Answered(cli.readbuf) \o Answered(Append(toClient, answer)) \o Tail(toServer)
               = Answered(cli.readbuf) \o Answered(toClient) \o toServer
    BY <1>1, <1>2, <1>4, StreamAnswer
  <1>6. CallsTypeOK'
    BY <1>1, <1>3, <1>5 DEF CallsInv, CallsTypeOK
  <1>7. ResponsesInOrder'
    BY <1>1, <1>3, <1>5, Zenon DEF CallsInv, ResponsesInOrder
  <1>8. CountersAccount' /\ LastOf(cli.writebuf, buffered)' /\ LastOf(outstanding, buffered)'
    BY <1>1 DEF CallsInv, CountersAccount
  <1> QED
    BY <1>1, <1>6, <1>7, <1>8 DEF CallsInv

(* One case per call. *)
LEMMA CallsNext == CallsInv /\ [Next]_vars => CallsInv'
  <1> SUFFICES ASSUME CallsInv, [Next]_vars PROVE CallsInv'
    OBVIOUS
  <1>1. CASE RequestBuf
    BY <1>1, RequestBufStep
  <1>2. CASE \E wrote \in BOOLEAN : RequestSend(wrote)
    BY <1>2, RequestSendStep
  <1>3. CASE \E n \in 0 .. MaxRequests : ResponseRecv(n)
    BY <1>3, ResponseRecvStep
  <1>4. CASE GetNextRow
    BY <1>4, GetNextRowStep
  <1>5. CASE ResponseBufRemove
    BY <1>5, ResponseBufRemoveStep
  <1>6. CASE Close \/ Reconnect
    BY <1>6, CloseStep
  <1>7. CASE ServerAnswer
    BY <1>7, ServerAnswerStep
  <1>8. CASE UNCHANGED vars
    BY <1>8, NothingChanges DEF vars, KeepConnection
  <1> QED
    BY <1>1, <1>2, <1>3, <1>4, <1>5, <1>6, <1>7, <1>8 DEF Next

(***************************************************************************)
(* For any number of requests and reconnects and every order of the calls  *)
(* of hstcpcli, ResponsesInOrder: the lines of readbuf, of the connection  *)
(* and the requests at the server are, in this order, the requests whose   *)
(* response has not been removed.                                          *)
(***************************************************************************)
THEOREM CallsInOrder == Spec => []ResponsesInOrder
  <1>1. CallsInv => ResponsesInOrder
    BY DEF CallsInv
  <1> QED
    BY <1>1, CallsInit, CallsNext, PTL DEF Spec

(***************************************************************************)
(* Under every order of calls the request counters of hstcpcli account for *)
(* every request, and none of the decrements wraps.                        *)
(***************************************************************************)
THEOREM CallsAccount == Spec => []CountersAccount
  <1>1. CallsInv => CountersAccount
    BY DEF CallsInv
  <1> QED
    BY <1>1, CallsInit, CallsNext, PTL DEF Spec

(* No call but a successful reconnect clears a negative error. *)
LEMMA DeadStep ==
  ASSUME CallsInv, Next, cli.error_code < 0, cli'.error_code >= 0
  PROVE  cli' = hstcpcli("connected")
  <1>1. cli.error_code \in {-1, 0, 1}
    BY DEF CallsInv, CallsTypeOK, Client
  <1>2. ~RequestBuf
    BY <1>1, RequestBufStep
  <1>3. ~\E wrote \in BOOLEAN : RequestSend(wrote)
    BY <1>1, RequestSendStep
  <1>4. ~\E n \in 0 .. MaxRequests : ResponseRecv(n)
    BY <1>1, ResponseRecvStep
  <1>5. ~GetNextRow
    BY <1>1, GetNextRowStep
  <1>6. ~ResponseBufRemove
    BY <1>1, ResponseBufRemoveStep
  <1>7. ~ServerAnswer
    BY <1>1, ServerAnswerStep
  <1>8. Close \/ Reconnect
    BY <1>2, <1>3, <1>4, <1>5, <1>6, <1>7 DEF Next
  <1>9. PICK outcome \in Fds : cli' = hstcpcli(outcome)
    BY <1>1, <1>8, CloseStep
  <1>10. CASE outcome = "connected"
    BY <1>9, <1>10
  <1>11. CASE outcome # "connected"
    <2>1. hstcpcli(outcome).error_code = -1
      BY <1>11 DEF hstcpcli, Connected, socket_connect, set_error, NoConnection
    <2> QED
      BY <1>9, <2>1
  <1> QED
    BY <1>10, <1>11

(***************************************************************************)
(* A client that failed stays failed through every call until a reconnect  *)
(* that succeeds, which leaves a client like a new one.                    *)
(***************************************************************************)
THEOREM CallsDeadUntilReconnect == Spec => DeadUntilReconnect
  <1>1. CallsInv /\ [Next]_vars
          => [cli.error_code < 0 /\ cli'.error_code >= 0 => cli' = hstcpcli("connected")]_vars
    BY DeadStep DEF vars
  <1> QED
    BY <1>1, CallsInit, CallsNext, PTL DEF Spec, DeadUntilReconnect

-----------------------------------------------------------------------------
(* The binding makes calls of hstcpcli and nothing else.                   *)

LEMMA BindingInit == RubyInit => Init
  BY DEF RubyInit, initialize

LEMMA BindingCalls == [RubyNext]_allVars => [Next]_vars
  BY DEF RubyNext, allVars, open_index, execute_internal, execute_multi_internal, Start,
         Raise, Buffer, Send, Recv, Rows, Remove, CloseOrReconnect, Next

(* Every behaviour of the binding is one of the client. *)
THEOREM BindingImplementsCalls == RubySpec => Spec
  BY BindingInit, BindingCalls, PTL DEF RubySpec, Spec

(***************************************************************************)
(* ResponsesInOrder, for the binding of libhsclient/handlersocket.cpp with *)
(* batches of any length and exceptions anywhere in them.                  *)
(***************************************************************************)
THEOREM BindingInOrder == RubySpec => []ResponsesInOrder
  BY BindingImplementsCalls, CallsInOrder, PTL

(* CountersAccount, for the binding: no method makes a counter wrap. *)
THEOREM BindingAccounts == RubySpec => []CountersAccount
  BY BindingImplementsCalls, CallsAccount, PTL

(* DeadUntilReconnect, for the binding: no method revives a failed client. *)
THEOREM BindingDeadUntilReconnect == RubySpec => DeadUntilReconnect
  BY BindingImplementsCalls, CallsDeadUntilReconnect, PTL

-----------------------------------------------------------------------------
(* The binding's invariant.                                                *)

RubyFields ==
    /\ ruby.num_args \in Nat /\ ruby.first \in Nat /\ ruby.left \in Nat
    /\ cli.error_code \in {-1, 0, 1}
    /\ cli.writebuf \in Seq(Nat) /\ Len(cli.writebuf) \in Nat
    /\ outstanding \in Seq(Nat) /\ Len(outstanding) \in Nat
    /\ buffered \in Nat
    /\ results \in Seq([code : Int, req : Nat]) /\ Len(results) \in Nat
    /\ raised \in BOOLEAN

LEMMA FieldTypes ==
  ASSUME CallsInv, RubyInv
  PROVE  RubyFields
  <1>1. /\ cli \in Client /\ outstanding \in Seq(Nat) /\ buffered \in Nat
        /\ RubyTypeOK
    BY DEF CallsInv, CallsTypeOK, RubyInv
  <1>2. cli.error_code \in {-1, 0, 1} /\ cli.writebuf \in Seq(Nat)
    BY <1>1 DEF Client
  <1>3. Len(cli.writebuf) \in Nat /\ Len(outstanding) \in Nat
    BY <1>1, <1>2, LenProperties
  <1>4. results \in Seq([code : Int, req : Nat]) /\ Len(results) \in Nat
    BY <1>1, LenProperties DEF RubyTypeOK
  <1> QED
    BY <1>1, <1>2, <1>3, <1>4 DEF RubyFields, RubyTypeOK, Locals

LEMMA RubyStart == RubyInit => RubyInv
  <1> SUFFICES ASSUME RubyInit PROVE RubyInv
    OBVIOUS
  <1>1. (ruby = Returned \/ ruby = AnyCaller) /\ results = <<>>
    BY DEF RubyInit, initialize
  <1>2. Returned \in Locals /\ Returned.pc = "returned" /\ Returned.left = 0
    BY DEF Returned, Locals
  <1>3. AnyCaller \in Locals /\ AnyCaller.pc = "any order" /\ AnyCaller.left = 0
    <2>1. PICK r \in Locals : r = Returned
      BY <1>2
    <2>2. [r EXCEPT !.pc = "any order"] \in Locals /\ [r EXCEPT !.pc = "any order"].left = 0
          /\ [r EXCEPT !.pc = "any order"].pc = "any order"
      BY <1>2, <2>1 DEF Locals
    <2> QED
      BY <2>1, <2>2, Zenon DEF AnyCaller
  <1>4. RubyTypeOK /\ ruby.left = 0 /\ ruby.pc \in {"returned", "any order"}
    <2>1. raised \in BOOLEAN
      BY Zenon DEF RubyInit
    <2> QED
      <3>1. ruby \in Locals /\ ruby.left = 0 /\ ruby.pc \in {"returned", "any order"}
        BY <1>1, <1>2, <1>3, Zenon
      <3>2. results \in Seq([code : Int, req : Nat])
        BY <1>1
      <3> QED
        BY <2>1, <3>1, <3>2, Zenon DEF RubyTypeOK
  <1>5. cli.writebuf = <<>> /\ outstanding = <<>>
    <2>1. NoConnection \in Client
      BY DEF NoConnection, Client, Fds
    <2> QED
      BY <2>1, BindingInit, NewIsIdle DEF Init
  <1>6. BetweenMethods
    BY <1>1, <1>4, <1>5 DEF BetweenMethods, At
  <1>7. ResultsInOrder
    <2>1. ~(ruby.left > 0) /\ Len(results) = 0
      <3>1. ruby.left = 0 /\ results = <<>>
        BY <1>1, <1>4
      <3>2. \A x, s : x = 0 /\ s = <<>> => ~(x > 0) /\ Len(s) = 0
        OBVIOUS
      <3> QED
        BY <3>1, <3>2, Zenon
    <2>2. \A k \in 1 .. 0 : FALSE
      OBVIOUS
    <2> QED
      BY <2>1, <2>2, Zenon DEF ResultsInOrder
  <1> QED
    BY <1>4, <1>6, <1>7 DEF RubyInv, At, Receiving

(* A step that ends a method, with whatever it reports. *)
LEMMA ReturnPreserves ==
  ASSUME Return, results' \in Seq([code : Int, req : Nat]), raised' \in BOOLEAN,
         cli'.error_code >= 0 /\ ~raised' => cli'.writebuf = <<>> /\ outstanding' = <<>>
  PROVE  RubyInv'
  <1>1. /\ ruby'.pc = "returned" /\ ruby'.left = 0
        /\ ruby' \in Locals
    BY DEF Return, Returned, Locals
  <1>2. RubyTypeOK'
    BY <1>1 DEF RubyTypeOK
  <1>3. BetweenMethods'
    BY <1>1 DEF BetweenMethods, At
  <1>4. ResultsInOrder'
    <2>1. ~(ruby'.left > 0)
      BY <1>1
    <2> QED
      BY <1>1, <2>1, Zenon DEF ResultsInOrder
  <1> QED
    BY <1>1, <1>2, <1>3, <1>4 DEF RubyInv, At, Receiving

(* A method starts with what the ones before left in the client. *)
LEMMA StartStep ==
  ASSUME CallsInv, RubyInv, NEW n \in Nat,
         NEW method \in {"open_index", "execute_internal", "execute_multi_internal"},
         Start(method, n)
  PROVE  RubyInv'
  <1>1. RubyFields
    BY FieldTypes
  <1>2. /\ ruby' = [pc |-> "buffer", method |-> method, num_args |-> n,
                    first |-> buffered + 1, left |-> Len(cli.writebuf)]
        /\ results' = <<>> /\ raised' = raised
        /\ cli' = cli /\ outstanding' = outstanding /\ buffered' = buffered
        /\ At("returned")
    BY DEF Start, vars
  <1>3. buffered + 1 \in Nat
    BY <1>1 DEF RubyFields
  <1>4. RubyTypeOK'
    BY <1>1, <1>2, <1>3 DEF RubyTypeOK, RubyFields, Locals
  <1>5. BetweenMethods
    BY <1>2 DEF RubyInv
  <1>6. /\ ruby'.pc = "buffer" /\ ruby'.num_args = n /\ ruby'.first = buffered + 1
        /\ ruby'.left = Len(cli.writebuf)
    BY <1>2
  <1>7. Buffered' = 0
    BY <1>1, <1>2, <1>6 DEF Buffered, RubyFields
  <1>8. WhileBuffering'
    <2>1. cli.error_code >= 0 /\ ~raised => cli.writebuf = <<>> /\ outstanding = <<>>
      BY <1>2, <1>5 DEF BetweenMethods
    <2>2. Len(cli.writebuf) > 0 => raised \/ cli.error_code < 0
      BY <1>1, <2>1 DEF RubyFields
    <2>3. Len(cli.writebuf) = Len(cli.writebuf) + 0 /\ 0 \in 0 .. n
      BY <1>1 DEF RubyFields
    <2> QED
      BY <1>2, <1>6, <1>7, <2>1, <2>2, <2>3 DEF WhileBuffering
  <1>9. ResultsInOrder'
    BY <1>2, <1>8 DEF ResultsInOrder, WhileBuffering
  <1> QED
    BY <1>4, <1>6, <1>8, <1>9 DEF RubyInv, At, Receiving

(* An exception that leaves requests in the client is remembered. *)
LEMMA RaiseStep ==
  ASSUME CallsInv, RubyInv, Raise
  PROVE  RubyInv'
  <1>1. RubyFields
    BY FieldTypes
  <1>2. WhileBuffering
    BY DEF RubyInv, Raise
  <1>3. /\ Return /\ results' = results /\ raised' = (raised \/ Buffered > 0)
        /\ cli' = cli /\ outstanding' = outstanding
    BY DEF Raise, vars
  <1>4. ASSUME cli'.error_code >= 0, ~raised'
        PROVE  cli'.writebuf = <<>> /\ outstanding' = <<>>
    <2>1. Buffered = 0
      <3>1. ~(Buffered > 0)
        BY <1>3, <1>4, Zenon
      <3>2. Buffered \in 0 .. ruby.num_args
        BY <1>2 DEF WhileBuffering
      <3>3. ruby.num_args \in Nat
        BY <1>1 DEF RubyFields
      <3> QED
        BY <3>1, <3>2, <3>3
    <2>2. cli.error_code >= 0 /\ ~raised
      BY <1>3, <1>4
    <2>3. ruby.left = 0
      BY <1>1, <1>2, <2>2, SMTT(30) DEF WhileBuffering, RubyFields
    <2>4. Len(cli.writebuf) = 0
      BY <1>2, <2>1, <2>2, <2>3 DEF WhileBuffering
    <2> QED
      BY <1>1, <1>2, <1>3, <2>2, <2>4 DEF WhileBuffering, RubyFields
  <1>5. raised' \in BOOLEAN
    BY <1>3
  <1>6. results' \in Seq([code : Int, req : Nat])
    BY <1>1, <1>3 DEF RubyFields
  <1> QED
    BY <1>3, <1>4, <1>5, <1>6, ReturnPreserves

(* Every request that a method buffers is one more in the client, unless   *)
(* the client fails.                                                       *)
LEMMA BufferStep ==
  ASSUME CallsInv, RubyInv, Buffer
  PROVE  RubyInv'
  <1>1. RubyFields
    BY FieldTypes
  <1>2. WhileBuffering
    BY DEF RubyInv, Buffer
  <1>3. /\ ruby' = ruby /\ results' = results /\ raised' = raised
        /\ RequestBuf /\ Buffered < ruby.num_args /\ ruby.pc = "buffer"
        /\ buffered' = buffered + 1
    BY DEF Buffer, rubyVars, RequestBuf, At
  <1>4. /\ cli'.error_code \in {cli.error_code, -1}
        /\ cli'.error_code >= 0
               => /\ Len(cli'.writebuf) = Len(cli.writebuf) + 1
                  /\ outstanding' = <<>>
    BY <1>3, RequestBufStep
  <1>5. Buffered' = Buffered + 1
    <2>1. buffered \in Nat /\ ruby.first \in Nat
      BY <1>1 DEF RubyFields
    <2>2. Buffered' = buffered' + 1 - ruby'.first /\ Buffered = buffered + 1 - ruby.first
      BY DEF Buffered
    <2>3. ruby'.first = ruby.first /\ buffered' = buffered + 1
      BY <1>3
    <2> QED
      BY <2>1, <2>2, <2>3
  <1>6. WhileBuffering'
    <2>1. Buffered \in Nat
      BY <1>1, <1>2 DEF WhileBuffering, RubyFields
    <2>2. Buffered' \in 0 .. ruby'.num_args
      BY <1>1, <1>3, <1>5, <2>1 DEF RubyFields
    <2>3. ruby'.left > 0 => raised' \/ cli'.error_code < 0
      BY <1>1, <1>2, <1>3, <1>4 DEF WhileBuffering, RubyFields
    <2>4. cli'.error_code >= 0 => Len(cli'.writebuf) = ruby'.left + Buffered'
      <3>1. ASSUME cli'.error_code >= 0
            PROVE  Len(cli'.writebuf) = ruby'.left + Buffered'
        <4>1. cli.error_code >= 0
          BY <1>1, <1>4, <3>1 DEF RubyFields
        <4>2. Len(cli.writebuf) = ruby.left + Buffered
          BY <1>2, <4>1 DEF WhileBuffering
        <4> QED
          BY <1>1, <1>3, <1>4, <1>5, <2>1, <3>1, <4>2 DEF RubyFields
      <3> QED
        BY <3>1
    <2>5. results' = <<>>
      BY <1>2, <1>3 DEF WhileBuffering
    <2>6. cli'.error_code >= 0 /\ ~raised' => outstanding' = <<>>
      BY <1>4
    <2> QED
      BY <2>2, <2>3, <2>4, <2>5, <2>6 DEF WhileBuffering
  <1>7. RubyTypeOK'
    BY <1>3 DEF RubyInv, RubyTypeOK
  <1>8. ResultsInOrder'
    BY <1>6 DEF ResultsInOrder, WhileBuffering
  <1> QED
    BY <1>3, <1>6, <1>7, <1>8 DEF RubyInv, At, Receiving

LEMMA GotoFields ==
  ASSUME RubyInv, NEW label \in {"recv", "rows", "remove"}, Goto(label)
  PROVE  /\ ruby' \in Locals /\ ruby'.pc = label
         /\ ruby'.num_args = ruby.num_args /\ ruby'.first = ruby.first
         /\ ruby'.left = ruby.left
  BY DEF RubyInv, RubyTypeOK, Locals, Goto

(* A step to another point of the loop over the responses. *)
LEMMA ReceivingPreserves ==
  ASSUME RubyInv, NEW label \in {"recv", "rows", "remove"}, Goto(label),
         results' \in Seq([code : Int, req : Nat]), raised' = raised,
         WhileReceiving', ResultsInOrder'
  PROVE  RubyInv'
  <1>1. ruby' \in Locals /\ ruby'.pc = label
    BY GotoFields
  <1>2. raised' \in BOOLEAN
    BY Zenon DEF RubyInv, RubyTypeOK
  <1>3. RubyTypeOK'
    BY <1>1, <1>2, Zenon DEF RubyTypeOK
  <1>4. ~At("returned")' /\ ~At("any order")' /\ ~At("buffer")'
    BY <1>1 DEF At
  <1> QED
    BY <1>3, <1>4, Zenon DEF RubyInv

(* A send that succeeds makes what was left and the method's requests      *)
(* outstanding.                                                            *)
LEMMA SendStep ==
  ASSUME CallsInv, RubyInv, Send
  PROVE  RubyInv'
  <1>1. RubyFields
    BY FieldTypes
  <1>2. WhileBuffering
    BY Zenon DEF RubyInv, Send
  <1>3. raised' = raised /\ raised \in BOOLEAN
    BY <1>1, Zenon DEF Send, RubyFields
  <1>4. PICK wrote \in BOOLEAN : RequestSend(wrote)
    BY Zenon DEF Send
  <1>5. /\ cli'.error_code \in {-1, 0}
        /\ cli'.error_code >= 0
                => /\ cli'.writebuf = <<>>
                   /\ outstanding' = cli.writebuf
                   /\ cli.error_code >= 0
    BY <1>4, RequestSendStep
  <1>6. buffered' = buffered
    BY <1>4 DEF RequestSend
  <1>7. CASE cli'.error_code # 0
    <2>1. Return /\ (results' = <<[code |-> cli'.error_code, req |-> 0]>> \/ results' = <<>>)
      BY <1>7 DEF Send
    <2>2. cli'.error_code = -1
      BY <1>5, <1>7
    <2>3. results' \in Seq([code : Int, req : Nat])
      <3>1. PICK r : r = [code |-> cli'.error_code, req |-> 0]
        OBVIOUS
      <3>2. r \in [code : Int, req : Nat]
        BY <2>2, <3>1
      <3>3. <<r>> \in Seq([code : Int, req : Nat]) /\ <<>> \in Seq([code : Int, req : Nat])
        BY <3>2
      <3> QED
        BY <2>1, <3>1, <3>3, Zenon
    <2>4. ~(cli'.error_code >= 0)
      BY <2>2
    <2>5. raised' \in BOOLEAN
      BY <1>3
    <2> QED
      BY <2>1, <2>3, <2>4, <2>5, ReturnPreserves, Zenon
  <1>8. CASE cli'.error_code = 0
    <2>1. Goto("recv") /\ results' = results
      BY <1>8 DEF Send
    <2>2. /\ ruby'.pc = "recv"
          /\ ruby'.num_args = ruby.num_args /\ ruby'.first = ruby.first
          /\ ruby'.left = ruby.left
      BY <2>1, GotoFields
    <2>3. /\ cli'.error_code >= 0 /\ cli'.writebuf = <<>> /\ outstanding' = cli.writebuf
          /\ cli.error_code >= 0 /\ ~(cli.error_code < 0)
      BY <1>1, <1>5, <1>8 DEF RubyFields
    <2>4. ruby.left > 0 => raised
      BY <1>2, <2>3, Zenon DEF WhileBuffering
    <2>5. Len(cli.writebuf) = ruby.left + ruby.num_args
      BY <1>2, <2>3 DEF WhileBuffering, Send
    <2>6. results = <<>> /\ Len(results) = 0
      BY <1>2 DEF WhileBuffering
    <2>7. buffered' = ruby'.first + ruby'.num_args - 1
      <3>1. buffered + 1 - ruby.first = ruby.num_args
        BY DEF Send, Buffered
      <3>2. buffered \in Nat /\ ruby.first \in Nat /\ ruby.num_args \in Nat
        BY <1>1 DEF RubyFields
      <3> QED
        BY <1>6, <2>2, <3>1, <3>2
    <2>8. Len(outstanding') + Len(results') = ruby'.left + ruby'.num_args + 0
      <3>1. ruby.left \in Nat /\ ruby.num_args \in Nat
        BY <1>1 DEF RubyFields
      <3> QED
        BY <2>1, <2>2, <2>3, <2>5, <2>6, <3>1
    <2>9. ruby'.left > 0 => raised'
      BY <1>3, <2>2, <2>4, Zenon
    <2>10. At("recv")'
      BY <2>2 DEF At
    <2>11. WhileReceiving'
      BY <2>3, <2>7, <2>8, <2>9, <2>10, Zenon DEF WhileReceiving
    <2>12. ResultsInOrder'
      <3>1. \A k \in 1 .. 0 : FALSE
        OBVIOUS
      <3>2. Len(results') = 0
        BY <2>1, <2>6
      <3> QED
        BY <2>9, <3>1, <3>2, Zenon DEF ResultsInOrder
    <2>13. results' \in Seq([code : Int, req : Nat])
      BY <1>1, <2>1, Zenon DEF RubyFields
    <2> QED
      BY <1>3, <2>1, <2>11, <2>12, <2>13, ReceivingPreserves, Zenon
  <1> QED
    BY <1>7, <1>8

(* Results while a method runs, at their places. *)
Placed(rs, first, left) ==
    \A k \in 1 .. Len(rs) : rs[k].code >= 0 => rs[k].req + left = first + k - 1

(* One more result at its place. *)
LEMMA PlacedAppend ==
  ASSUME NEW rs \in Seq([code : Int, req : Nat]), NEW r \in [code : Int, req : Nat],
         NEW first \in Nat, NEW left \in Nat,
         Placed(rs, first, left), r.req + left = first + Len(rs)
  PROVE  /\ Append(rs, r) \in Seq([code : Int, req : Nat])
         /\ Len(Append(rs, r)) = Len(rs) + 1
         /\ Placed(Append(rs, r), first, left)
  <1>1. /\ Append(rs, r) \in Seq([code : Int, req : Nat])
        /\ Len(rs) \in Nat
        /\ Len(Append(rs, r)) = Len(rs) + 1
        /\ \A i \in 1 .. Len(rs) : Append(rs, r)[i] = rs[i]
        /\ Append(rs, r)[Len(rs) + 1] = r
    BY AppendProperties, LenProperties
  <1>2. ASSUME NEW k \in 1 .. Len(rs) + 1, Append(rs, r)[k].code >= 0
        PROVE  Append(rs, r)[k].req + left = first + k - 1
    <2>1. CASE k \in 1 .. Len(rs)
      BY <1>1, <1>2, <2>1 DEF Placed
    <2>2. CASE k = Len(rs) + 1
      <3>1. Append(rs, r)[k].req = r.req
        BY <1>1, <2>2
      <3> QED
        BY <1>1, <2>2, <3>1
    <2> QED
      BY <1>1, <2>1, <2>2
  <1> QED
    BY <1>1, <1>2 DEF Placed

LEMMA InOrderRunning ==
  ASSUME ruby.pc # "returned"
  PROVE  ResultsInOrder <=> /\ Placed(results, ruby.first, ruby.left)
                            /\ ruby.left > 0 => raised \/ cli.error_code < 0
  BY Zenon DEF ResultsInOrder, Placed

LEMMA InOrderRunningNext ==
  ASSUME ruby'.pc # "returned", Placed(results', ruby'.first, ruby'.left),
         ruby'.left > 0 => raised'
  PROVE  ResultsInOrder'
  BY Zenon DEF ResultsInOrder, Placed

(* The next response answers the next request of the method. *)
LEMMA RecvStep ==
  ASSUME CallsInv, RubyInv, Recv
  PROVE  RubyInv'
  <1>1. RubyFields
    BY FieldTypes
  <1>2. ruby.pc = "recv" /\ WhileReceiving /\ ResultsInOrder
    BY DEF RubyInv, Recv, At, Receiving
  <1>3. raised' = raised /\ raised \in BOOLEAN
    BY <1>1, Zenon DEF Recv, RubyFields
  <1>4. PICK n \in 0 .. MaxRequests : ResponseRecv(n)
    BY Zenon DEF Recv
  <1>5. /\ cli'.error_code \in {-1, 0, 1}
        /\ cli'.error_code >= 0
                => /\ cli'.writebuf = cli.writebuf
                   /\ cli'.response_end_offset = 1
                   /\ outstanding' = outstanding
                   /\ outstanding # <<>>
                   /\ Head(cli'.readbuf).req = Head(outstanding)
    BY <1>4, ResponseRecvStep
  <1>6. buffered' = buffered
    BY <1>4 DEF ResponseRecv
  <1>7. /\ ruby.left \in Nat /\ ruby.num_args \in Nat /\ ruby.first \in Nat
        /\ buffered \in Nat /\ outstanding \in Seq(Nat) /\ Len(outstanding) \in Nat
        /\ results \in Seq([code : Int, req : Nat]) /\ Len(results) \in Nat
    BY <1>1 DEF RubyFields
  <1>8. CASE cli'.error_code < 0
    <2>1. Return /\ results' = Append(results, [code |-> cli'.error_code, req |-> 0])
      BY <1>8 DEF Recv
    <2>2. PICK r : r = [code |-> cli'.error_code, req |-> 0]
      OBVIOUS
    <2>3. r \in [code : Int, req : Nat]
      BY <1>5, <2>2
    <2>4. results' \in Seq([code : Int, req : Nat])
      BY <1>7, <2>1, <2>2, <2>3, AppendProperties
    <2>5. ~(cli'.error_code >= 0)
      BY <1>5, <1>8
    <2>6. raised' \in BOOLEAN
      BY <1>3
    <2> QED
      BY <2>1, <2>4, <2>5, <2>6, ReturnPreserves, Zenon
  <1>9. CASE ~(cli'.error_code < 0)
    <2>1. PICK label \in {"rows", "remove"} : Goto(label)
      BY <1>9 DEF Recv
    <2>2. PICK r : r = [code |-> cli'.error_code, req |-> Head(cli'.readbuf).req]
      OBVIOUS
    <2>3. results' = Append(results, r)
      BY <1>9, <2>2 DEF Recv
    <2>4. /\ ruby'.pc = label
          /\ ruby'.num_args = ruby.num_args /\ ruby'.first = ruby.first
          /\ ruby'.left = ruby.left
      BY <2>1, GotoFields
    <2>5. /\ cli'.error_code >= 0 /\ cli'.writebuf = cli.writebuf
          /\ cli'.response_end_offset = 1
          /\ outstanding' = outstanding /\ outstanding # <<>>
          /\ Head(cli'.readbuf).req = Head(outstanding)
      BY <1>5, <1>9
    <2>6. At("recv")
      BY <1>2 DEF At
    <2>7. /\ cli.writebuf = <<>>
          /\ buffered = ruby.first + ruby.num_args - 1
          /\ Len(outstanding) + Len(results) = ruby.left + ruby.num_args + 0
      BY <1>2, <2>6, Zenon DEF WhileReceiving
    <2>8. Head(outstanding) = buffered - Len(outstanding) + 1
      <3>1. LastOf(outstanding, buffered)
        BY DEF CallsInv
      <3>2. Len(outstanding) # 0
        BY <1>7, <2>5, EmptySeq
      <3>3. 1 \in 1 .. Len(outstanding)
        BY <1>7, <3>2
      <3>4. outstanding[1] = buffered - Len(outstanding) + 1
        BY <3>1, <3>3, Zenon DEF LastOf
      <3>5. Head(outstanding) = outstanding[1]
        BY <1>7, <2>5
      <3> QED
        BY <3>4, <3>5
    <2>9. Head(outstanding) \in Nat
      BY <1>7, <2>5, HeadTailProperties
    <2>10. r \in [code : Int, req : Nat] /\ r.req = Head(outstanding)
      BY <1>5, <2>2, <2>5, <2>9
    <2>11. r.req + ruby.left = ruby.first + Len(results)
      <3>1. /\ ruby.left \in Nat /\ ruby.num_args \in Nat /\ ruby.first \in Nat
            /\ buffered \in Nat /\ Len(outstanding) \in Nat /\ Len(results) \in Nat
            /\ buffered = ruby.first + ruby.num_args - 1
            /\ Len(outstanding) + Len(results) = ruby.left + ruby.num_args + 0
        BY <1>7, <2>7, Zenon
      <3>2. PICK q : q = r.req
        OBVIOUS
      <3>3. q + ruby.left = ruby.first + Len(results)
        <4>1. q = buffered - Len(outstanding) + 1
          BY <2>8, <2>10, <3>2, Zenon
        <4>2. PICK first, args, left, len, found :
                  /\ first = ruby.first /\ args = ruby.num_args /\ left = ruby.left
                  /\ len = Len(outstanding) /\ found = Len(results)
          OBVIOUS
        <4>3. /\ first \in Nat /\ args \in Nat /\ left \in Nat
              /\ len \in Nat /\ found \in Nat
              /\ len + found = left + args + 0
              /\ q = ((first + args - 1) - len) + 1
          BY <3>1, <4>1, <4>2, Zenon
        <4>4. q + left = first + found
          BY <4>3
        <4> QED
          BY <4>2, <4>4, Zenon
      <3> QED
        BY <3>2, <3>3, Zenon
    <2>12. Placed(results, ruby.first, ruby.left)
      BY <1>2, InOrderRunning
    <2>13. /\ results' \in Seq([code : Int, req : Nat])
           /\ Len(results') = Len(results) + 1
           /\ Placed(results', ruby'.first, ruby'.left)
      <3>1. /\ Append(results, r) \in Seq([code : Int, req : Nat])
            /\ Len(Append(results, r)) = Len(results) + 1
            /\ Placed(Append(results, r), ruby.first, ruby.left)
        BY <1>7, <2>10, <2>11, <2>12, PlacedAppend
      <3> QED
        BY <2>3, <2>4, <3>1, Zenon
    <2>14. ruby'.left > 0 => raised'
      BY <1>2, <1>3, <2>4, Zenon DEF WhileReceiving
    <2>15. ~At("recv")' /\ ruby'.pc # "returned"
      BY <2>4 DEF At
    <2>16. ResultsInOrder'
      BY <2>13, <2>14, <2>15, InOrderRunningNext
    <2>17. Len(outstanding') + Len(results') = ruby'.left + ruby'.num_args + 1
      <3>1. /\ ruby.left \in Nat /\ ruby.num_args \in Nat
            /\ Len(outstanding) \in Nat /\ Len(results) \in Nat
            /\ Len(outstanding) + Len(results) = ruby.left + ruby.num_args + 0
            /\ Len(outstanding') = Len(outstanding) /\ Len(results') = Len(results) + 1
            /\ ruby'.left = ruby.left /\ ruby'.num_args = ruby.num_args
        BY <1>7, <2>4, <2>5, <2>7, <2>13, Zenon
      <3> QED
        BY <3>1
    <2>18. cli'.writebuf = <<>> /\ buffered' = ruby'.first + ruby'.num_args - 1
      BY <1>6, <2>4, <2>5, <2>7
    <2>19. WhileReceiving'
      BY <2>5, <2>14, <2>15, <2>17, <2>18, Zenon DEF WhileReceiving
    <2> QED
      BY <1>3, <2>1, <2>13, <2>16, <2>19, ReceivingPreserves, Zenon
  <1> QED
    BY <1>8, <1>9

(* Reading rows changes nothing that the results depend on. *)
LEMMA RowsStep ==
  ASSUME CallsInv, RubyInv, Rows
  PROVE  RubyInv'
  <1>1. RubyFields
    BY FieldTypes
  <1>2. ruby.pc = "rows" /\ WhileReceiving /\ ResultsInOrder
    BY DEF RubyInv, Rows, At, Receiving
  <1>3. GetNextRow /\ results' = results
    BY DEF Rows
  <1>4. raised' = raised
    BY Zenon DEF Rows
  <1>5. /\ cli'.error_code = cli.error_code /\ cli'.writebuf = cli.writebuf
        /\ cli'.response_end_offset = cli.response_end_offset
        /\ outstanding' = outstanding /\ buffered' = buffered
    BY <1>3, GetNextRowStep
  <1>6. PICK label \in {"rows", "remove"} : Goto(label)
    BY DEF Rows
  <1>7. /\ ruby'.pc = label
        /\ ruby'.num_args = ruby.num_args /\ ruby'.first = ruby.first
        /\ ruby'.left = ruby.left
    BY <1>6, GotoFields
  <1>8. ~At("recv") /\ ~At("recv")' /\ ruby'.pc # "returned"
    BY <1>2, <1>7 DEF At
  <1>9. WhileReceiving'
    BY <1>2, <1>3, <1>4, <1>5, <1>7, <1>8, Zenon DEF WhileReceiving
  <1>10. Placed(results, ruby.first, ruby.left)
    BY <1>2, InOrderRunning
  <1>11. ruby'.left > 0 => raised'
    BY <1>9, Zenon DEF WhileReceiving
  <1>12. Placed(results', ruby'.first, ruby'.left)
    BY <1>3, <1>7, <1>10, Zenon
  <1>13. ResultsInOrder'
    BY <1>8, <1>11, <1>12, InOrderRunningNext
  <1>14. results' \in Seq([code : Int, req : Nat])
    BY <1>1, <1>3, Zenon DEF RubyFields
  <1> QED
    BY <1>4, <1>6, <1>9, <1>13, <1>14, ReceivingPreserves, Zenon

(* The method goes on to its next response, or returns after as many as    *)
(* it has requests.                                                        *)
LEMMA RemoveStep ==
  ASSUME CallsInv, RubyInv, Remove
  PROVE  RubyInv'
  <1>1. RubyFields
    BY FieldTypes
  <1>2. ruby.pc = "remove" /\ WhileReceiving /\ ResultsInOrder
    BY DEF RubyInv, Remove, At, Receiving
  <1>3. /\ ResponseBufRemove /\ results' = results
        /\ IF Len(results) < ruby.num_args THEN Goto("recv") ELSE Return
    BY DEF Remove
  <1>4. raised' = raised /\ raised \in BOOLEAN
    BY <1>1, Zenon DEF Remove, RubyFields
  <1>5. ~At("recv")
    BY <1>2 DEF At
  <1>6. /\ cli.error_code >= 0 /\ cli.writebuf = <<>>
        /\ buffered = ruby.first + ruby.num_args - 1
        /\ Len(outstanding) + Len(results) = ruby.left + ruby.num_args + 1
        /\ cli.response_end_offset = 1
    BY <1>2, <1>5, Zenon DEF WhileReceiving
  <1>7. /\ cli'.error_code = cli.error_code /\ cli'.writebuf = cli.writebuf
        /\ outstanding # <<>> /\ outstanding' = Tail(outstanding)
        /\ buffered' = buffered
    BY <1>3, <1>6, ResponseBufRemoveStep DEF ResponseBufRemove
  <1>8. /\ ruby.left \in Nat /\ ruby.num_args \in Nat
        /\ outstanding \in Seq(Nat) /\ Len(outstanding) \in Nat
        /\ results \in Seq([code : Int, req : Nat]) /\ Len(results) \in Nat
    BY <1>1 DEF RubyFields
  <1>9. /\ outstanding' \in Seq(Nat) /\ Len(outstanding') = Len(outstanding) - 1
        /\ Len(outstanding) # 0
    BY <1>7, <1>8, HeadTailProperties, EmptySeq
  <1>10. results' \in Seq([code : Int, req : Nat])
    BY <1>3, <1>8
  <1>11. CASE Len(results) < ruby.num_args
    <2>1. Goto("recv")
      BY <1>3, <1>11
    <2>2. /\ ruby'.pc = "recv"
          /\ ruby'.num_args = ruby.num_args /\ ruby'.first = ruby.first
          /\ ruby'.left = ruby.left
      BY <2>1, GotoFields
    <2>3. At("recv")' /\ ruby'.pc # "returned"
      BY <2>2 DEF At
    <2>4. Len(outstanding') + Len(results') = ruby'.left + ruby'.num_args + 0
      <3>1. /\ ruby.left \in Nat /\ ruby.num_args \in Nat
            /\ Len(outstanding) \in Nat /\ Len(results) \in Nat
            /\ Len(outstanding) + Len(results) = ruby.left + ruby.num_args + 1
            /\ Len(outstanding') = Len(outstanding) - 1 /\ Len(results') = Len(results)
            /\ ruby'.left = ruby.left /\ ruby'.num_args = ruby.num_args
        BY <1>3, <1>6, <1>8, <1>9, <2>2, Zenon
      <3> QED
        BY <3>1
    <2>5. /\ cli'.error_code >= 0 /\ cli'.writebuf = <<>>
          /\ buffered' = ruby'.first + ruby'.num_args - 1
      BY <1>6, <1>7, <2>2
    <2>6. ruby'.left > 0 => raised'
      BY <1>2, <1>4, <2>2, Zenon DEF WhileReceiving
    <2>7. WhileReceiving'
      BY <2>3, <2>4, <2>5, <2>6, Zenon DEF WhileReceiving
    <2>8. Placed(results, ruby.first, ruby.left)
      BY <1>2, InOrderRunning
    <2>9. Placed(results', ruby'.first, ruby'.left)
      BY <1>3, <2>2, <2>8, Zenon
    <2>10. ResultsInOrder'
      BY <2>3, <2>6, <2>9, InOrderRunningNext
    <2> QED
      BY <1>4, <1>10, <2>1, <2>7, <2>10, ReceivingPreserves, Zenon
  <1>12. CASE ~(Len(results) < ruby.num_args)
    <2>1. Return
      BY <1>3, <1>12
    <2>2. ASSUME ~raised'
          PROVE  outstanding' = <<>>
      <3>1. ~(ruby.left > 0)
        BY <1>2, <1>4, <2>2, Zenon DEF WhileReceiving
      <3>2. Len(outstanding') = 0
        <4>1. /\ ruby.left \in Nat /\ ruby.num_args \in Nat
              /\ Len(outstanding) \in Nat /\ Len(results) \in Nat
              /\ Len(outstanding) # 0
              /\ Len(outstanding) + Len(results) = ruby.left + ruby.num_args + 1
              /\ Len(outstanding') = Len(outstanding) - 1
          BY <1>6, <1>8, <1>9, Zenon
        <4> QED
          BY <1>12, <3>1, <4>1
      <3> QED
        BY <1>9, <3>2, EmptySeq
    <2>3. cli'.writebuf = <<>>
      BY <1>6, <1>7
    <2>4. raised' \in BOOLEAN
      BY <1>4
    <2> QED
      BY <1>10, <2>1, <2>2, <2>3, <2>4, ReturnPreserves, Zenon
  <1> QED
    BY <1>11, <1>12

(* close() and reconnect() forget the exceptions with the connection. *)
LEMMA CloseOrReconnectStep ==
  ASSUME CallsInv, RubyInv, CloseOrReconnect
  PROVE  RubyInv'
  <1>1. ruby.pc = "returned" /\ BetweenMethods /\ RubyTypeOK
    BY DEF RubyInv, CloseOrReconnect, At
  <1>2. (Close \/ Reconnect) /\ ruby' = ruby /\ results' = results
    BY DEF CloseOrReconnect
  <1>3. raised' \in BOOLEAN
    BY Zenon DEF CloseOrReconnect
  <1>4. cli'.writebuf = <<>> /\ outstanding' = <<>>
    BY <1>2, CloseStep
  <1>5. ruby'.pc = "returned" /\ ruby'.left = 0
    BY <1>1, <1>2 DEF BetweenMethods
  <1>6. RubyTypeOK'
    BY <1>1, <1>2, <1>3, Zenon DEF RubyTypeOK
  <1>7. BetweenMethods'
    BY <1>4, <1>5 DEF BetweenMethods, At
  <1>8. ResultsInOrder'
    <2>1. ~(ruby'.left > 0)
      BY <1>5
    <2> QED
      BY <1>5, <2>1, Zenon DEF ResultsInOrder
  <1> QED
    BY <1>5, <1>6, <1>7, <1>8 DEF RubyInv, At, Receiving

(* The binding sees nothing of a step that leaves the client alone. *)
LEMMA OutsideStep ==
  ASSUME RubyInv, cli' = cli, buffered' = buffered, outstanding' = outstanding,
         ruby' = ruby, results' = results, raised' = raised
  PROVE  RubyInv'
  <1>1. Buffered' = Buffered /\ \A label : At(label)' <=> At(label)
    BY DEF Buffered, At
  <1>2. RubyTypeOK' /\ ResultsInOrder'
    BY Zenon DEF RubyInv, RubyTypeOK, ResultsInOrder
  <1>3. BetweenMethods => BetweenMethods'
    BY <1>1, Zenon DEF BetweenMethods
  <1>4. WhileBuffering => WhileBuffering'
    BY <1>1, Zenon DEF WhileBuffering
  <1>5. WhileReceiving => WhileReceiving'
    BY <1>1, Zenon DEF WhileReceiving
  <1>6. Receiving' <=> Receiving
    BY DEF Receiving
  <1> QED
    BY <1>1, <1>2, <1>3, <1>4, <1>5, <1>6, Zenon DEF RubyInv

(* Where C++ code calls in any order, no method has results. *)
LEMMA AnyOrderStep ==
  ASSUME RubyInv, ruby = AnyCaller, ruby' = ruby, results' = results, raised' = raised
  PROVE  RubyInv'
  <1>1. ruby.pc = "any order"
    <2>1. PICK r \in Locals : r = Returned
      BY DEF Returned, Locals
    <2>2. [r EXCEPT !.pc = "any order"].pc = "any order"
      BY <2>1 DEF Locals
    <2> QED
      BY <2>1, <2>2, Zenon DEF AnyCaller
  <1>2. BetweenMethods
    BY <1>1 DEF RubyInv, At
  <1>3. results = <<>> /\ ruby.left = 0
    BY <1>1, <1>2 DEF BetweenMethods, At
  <1>4. RubyTypeOK'
    BY Zenon DEF RubyInv, RubyTypeOK
  <1>5. BetweenMethods'
    BY <1>1, <1>3 DEF BetweenMethods, At
  <1>6. ResultsInOrder'
    <2>1. ~(ruby.left > 0) /\ Len(results) = 0
      BY <1>3
    <2>2. \A k \in 1 .. 0 : FALSE
      OBVIOUS
    <2> QED
      BY <2>1, <2>2, Zenon DEF ResultsInOrder
  <1> QED
    BY <1>1, <1>4, <1>5, <1>6 DEF RubyInv, At, Receiving

(* One case per step of a method. *)
LEMMA BindingNext == CallsInv /\ RubyInv /\ [RubyNext]_allVars => RubyInv'
  <1> SUFFICES ASSUME CallsInv, RubyInv, [RubyNext]_allVars PROVE RubyInv'
    OBVIOUS
  <1>1. CASE open_index \/ execute_internal
    BY <1>1, StartStep DEF open_index, execute_internal
  <1>2. CASE execute_multi_internal
    <2>1. PICK n \in 0 .. MaxMulti : Start("execute_multi_internal", n)
      BY <1>2 DEF execute_multi_internal
    <2>2. n \in Nat
      BY MaxMultiAssumption
    <2> QED
      BY <2>1, <2>2, StartStep
  <1>3. CASE Raise
    BY <1>3, RaiseStep
  <1>4. CASE Buffer
    BY <1>4, BufferStep
  <1>5. CASE Send
    BY <1>5, SendStep
  <1>6. CASE Recv
    BY <1>6, RecvStep
  <1>7. CASE Rows
    BY <1>7, RowsStep
  <1>8. CASE Remove
    BY <1>8, RemoveStep
  <1>9. CASE CloseOrReconnect
    BY <1>9, CloseOrReconnectStep
  <1>10. CASE ServerAnswer /\ ruby # AnyCaller /\ UNCHANGED rubyVars
    BY <1>10, ServerAnswerStep, OutsideStep DEF rubyVars
  <1>11. CASE Next /\ ruby = AnyCaller /\ UNCHANGED rubyVars
    BY <1>11, AnyOrderStep DEF rubyVars
  <1>12. CASE UNCHANGED allVars
    BY <1>12, OutsideStep DEF allVars, vars, rubyVars
  <1> QED
    BY <1>1, <1>2, <1>3, <1>4, <1>5, <1>6, <1>7, <1>8, <1>9, <1>10, <1>11, <1>12
       DEF RubyNext

LEMMA BindingInvariant == RubySpec => [](CallsInv /\ RubyInv)
  <1>1. RubyInit => CallsInv /\ RubyInv
    BY BindingInit, CallsInit, RubyStart
  <1>2. (CallsInv /\ RubyInv) /\ [RubyNext]_allVars => (CallsInv /\ RubyInv)'
    BY BindingCalls, CallsNext, BindingNext
  <1> QED
    BY <1>1, <1>2, PTL DEF RubySpec

(***************************************************************************)
(* Whatever fails and however long the batches are, the k-th result of a   *)
(* method of the binding is for its k-th request, but for the requests an  *)
(* exception left in the client before.                                    *)
(***************************************************************************)
THEOREM BindingResultsInOrder == RubySpec => []ResultsInOrder
  <1>1. CallsInv /\ RubyInv => ResultsInOrder
    BY DEF RubyInv
  <1> QED
    BY <1>1, BindingInvariant, PTL

(***************************************************************************)
(* Between two methods a client that has not failed is at a stable point,  *)
(* unless an exception left requests in it: every response of a batch has  *)
(* been removed.                                                           *)
(***************************************************************************)
THEOREM BindingStable == RubySpec => []StableBetweenMethods
  <1>1. CallsInv /\ RubyInv => StableBetweenMethods
    <2> SUFFICES ASSUME CallsInv, RubyInv, At("returned"), cli.fd # "none",
                        cli.error_code >= 0, ~raised
                 PROVE  stable_point(cli)
      BY Zenon DEF StableBetweenMethods
    <2>1. BetweenMethods
      BY Zenon DEF RubyInv
    <2>2. cli.writebuf = <<>> /\ outstanding = <<>>
      BY <2>1, Zenon DEF BetweenMethods
    <2>3. cli.num_req_sent = 0 /\ cli.num_req_rcvd = 0 /\ cli.response_end_offset = 0
      BY <2>2, NothingOutstanding
    <2>4. cli.num_req_bufd = 0
      BY <2>2 DEF CallsInv, CountersAccount
    <2> QED
      BY <2>3, <2>4 DEF stable_point
  <1> QED
    BY <1>1, BindingInvariant, PTL
=============================================================================
