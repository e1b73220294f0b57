------------------------ MODULE HandlerSocket_proofs ------------------------
(***************************************************************************)
(* Proofs about the calls of rinha/handler_socket.cc.  Part I: the values  *)
(* that libhsclient writes into a line come out of it again, bytes and     *)
(* numbers.  Part II: what a connection can look like at any moment, and   *)
(* what follows for the values that ReadCustomerHs and WriteCustomerHs     *)
(* return.  Part III: what the lines on their way say, and what follows    *)
(* for the rows.                                                           *)
(***************************************************************************)
EXTENDS HandlerSocket, NaturalsInduction, WellFoundedInduction, SequenceTheorems, TLAPS

-----------------------------------------------------------------------------
(* PART I: the bytes.  Induction, and loops.                               *)

(* Induction on the naturals, the property given as a set: a smallest      *)
(* number outside it has a predecessor inside it.                          *)
LEMMA NatSetInduction ==
    ASSUME NEW S, S \subseteq Nat, 0 \in S, \A n \in S : n + 1 \in S
    PROVE  S = Nat
<1> SUFFICES ASSUME Nat \ S # {} PROVE FALSE
    OBVIOUS
<1> DEFINE R == OpToRel(<, Nat)
<1>1. IsWellFoundedOn(R, Nat)
    BY NatLessThanWellFounded
<1>2. \A m, n \in Nat : m < n => <<m, n>> \in R
    BY DEF OpToRel
<1> HIDE DEF R
<1>3. PICK n \in Nat \ S : \A m \in Nat \ S : ~(<<m, n>> \in R)
    BY <1>1, WFMin, Nat \ S \subseteq Nat
<1>4. n # 0 /\ n - 1 \in Nat /\ n - 1 < n
    BY <1>3
<1>5. n - 1 \in S
    BY <1>2, <1>3, <1>4
<1>6. (n - 1) + 1 \in S
    BY <1>5
<1> QED BY <1>4, <1>6

(* The values f of a loop of N turns, its i-th turn mapping one with F[i]. *)
Turns(f, V, v0, N, F) ==
    /\ f \in [0 .. N -> V]
    /\ f[0] = v0
    /\ \A i \in 1 .. N : f[i] = F[i][f[i - 1]]

(* A loop has such values: one turn more can always be taken. *)
LEMMA LoopValues ==
    ASSUME NEW V, NEW v0 \in V, NEW N \in Nat, NEW F \in [1 .. N -> [V -> V]]
    PROVE  \E f : Turns(f, V, v0, N, F)
<1> DEFINE P(n) == \E f \in [0 .. n -> V] :
                       f[0] = v0 /\ \A i \in 1 .. n : f[i] = F[i][f[i - 1]]
           S == {n \in Nat : n <= N => P(n)}
<1>1. P(0)
    <2> DEFINE f == [i \in 0 .. 0 |-> v0]
    <2>1. f \in [0 .. 0 -> V] /\ f[0] = v0 /\ \A i \in 1 .. 0 : f[i] = F[i][f[i - 1]]
        OBVIOUS
    <2> QED BY <2>1
<1>2. ASSUME NEW n \in Nat, n + 1 <= N, P(n) PROVE P(n + 1)
    <2>1. PICK f \in [0 .. n -> V] :
              f[0] = v0 /\ \A i \in 1 .. n : f[i] = F[i][f[i - 1]]
        BY <1>2
    <2> DEFINE g == [i \in 0 .. n + 1 |-> IF i = n + 1 THEN F[n + 1][f[n]] ELSE f[i]]
    <2>2. F[n + 1] \in [V -> V] /\ f[n] \in V
        BY <1>2
    <2>3. F[n + 1][f[n]] \in V
        BY <2>2
    <2>4. \A i \in 0 .. n : f[i] \in V
        OBVIOUS
    <2>5. g \in [0 .. n + 1 -> V]
        <3> SUFFICES ASSUME NEW i \in 0 .. n + 1
                     PROVE  (IF i = n + 1 THEN F[n + 1][f[n]] ELSE f[i]) \in V
            OBVIOUS
        <3> QED BY <2>3, <2>4
    <2>6. g[0] = v0
        BY <2>1
    <2>7. ASSUME NEW i \in 1 .. n + 1 PROVE g[i] = F[i][g[i - 1]]
        <3>1. CASE i = n + 1
            <4>1. i - 1 = n /\ n \in 0 .. n + 1 /\ n # n + 1 /\ i \in 0 .. n + 1
                BY <3>1
            <4>2. g[i] = F[n + 1][f[n]] /\ g[i - 1] = f[n]
                BY <3>1, <4>1
            <4> QED BY <3>1, <4>2
        <3>2. CASE i # n + 1
            <4>1. i \in 1 .. n /\ i - 1 \in 0 .. n + 1 /\ i - 1 # n + 1 /\ i \in 0 .. n + 1
                BY <3>2
            <4>2. g[i] = f[i] /\ g[i - 1] = f[i - 1]
                BY <3>2, <4>1
            <4> QED BY <2>1, <4>1, <4>2
        <3> QED BY <3>1, <3>2
    <2> HIDE DEF g
    <2> QED BY <2>5, <2>6, <2>7
<1> HIDE DEF P
<1>3. S = Nat
    <2>1. 0 \in S
        BY <1>1
    <2>2. \A n \in S : n + 1 \in S
        <3> SUFFICES ASSUME NEW n \in Nat, n <= N => P(n), n + 1 <= N PROVE P(n + 1)
            OBVIOUS
        <3> QED BY <1>2
    <2> HIDE DEF S
    <2>3. S \subseteq Nat
        BY DEF S
    <2> QED BY <2>1, <2>2, <2>3, NatSetInduction
<1>4. P(N)
    BY <1>3
<1> QED BY <1>4 DEF P, Turns

-----------------------------------------------------------------------------
(* What a loop writes.                                                     *)

(* The values of the recursive function behind Written. *)
LEMMA WrittenValues ==
    ASSUME NEW T, NEW N \in Nat, NEW piece \in [1 .. N -> Seq(T)]
    PROVE  /\ Written(piece) \in [0 .. N -> Seq(T)]
           /\ Written(piece)[0] = <<>>
           /\ \A i \in 1 .. N : Written(piece)[i] = Written(piece)[i - 1] \o piece[i]
<1> DEFINE G(w) == [i \in 0 .. N |-> IF i = 0 THEN <<>> ELSE w[i - 1] \o piece[i]]
           F == [i \in 1 .. N |-> [s \in Seq(T) |-> s \o piece[i]]]
<1>1. Len(piece) = N /\ <<>> \in Seq(T)
    OBVIOUS
<1>2. F \in [1 .. N -> [Seq(T) -> Seq(T)]]
    <2>1. ASSUME NEW i \in 1 .. N, NEW s \in Seq(T) PROVE s \o piece[i] \in Seq(T)
        <3>1. piece[i] \in Seq(T)
            OBVIOUS
        <3> QED BY <3>1
    <2> QED BY <2>1
<1>3. PICK f \in [0 .. N -> Seq(T)] :
          f[0] = <<>> /\ \A i \in 1 .. N : f[i] = F[i][f[i - 1]]
    <2> HIDE DEF F
    <2>1. \E f : Turns(f, Seq(T), <<>>, N, F)
        BY <1>1, <1>2, LoopValues
    <2> QED BY <2>1, Zenon DEF Turns
<1>4. ASSUME NEW i \in 1 .. N PROVE f[i] = f[i - 1] \o piece[i]
    <2>1. f[i - 1] \in Seq(T)
        OBVIOUS
    <2>2. F[i][f[i - 1]] = f[i - 1] \o piece[i]
        BY <2>1
    <2> QED BY <1>3, <2>2
<1>5. f = G(f)
    <2>1. ASSUME NEW i \in 0 .. N
          PROVE  f[i] = IF i = 0 THEN <<>> ELSE f[i - 1] \o piece[i]
        <3>1. i = 0 \/ (i # 0 /\ i \in 1 .. N)
            OBVIOUS
        <3> QED BY <1>3, <1>4, <3>1, Zenon
    <2> QED BY <2>1
<1> DEFINE g == Written(piece)
<1>6. g = CHOOSE w : w = G(w)
    BY <1>1 DEF Written
<1> HIDE DEF G, g
<1>7. g = G(g)
    BY <1>5, <1>6, Zenon
<1>8. g = [i \in 0 .. N |-> IF i = 0 THEN <<>> ELSE g[i - 1] \o piece[i]]
    BY <1>7, Zenon DEF G
<1>9. ASSUME NEW i \in 0 .. N
      PROVE  g[i] = IF i = 0 THEN <<>> ELSE g[i - 1] \o piece[i]
    BY <1>8
<1> DEFINE S == {i \in Nat : i <= N => g[i] = f[i]}
<1>10. 0 \in S
    BY <1>3, <1>9
<1>11. \A i \in S : i + 1 \in S
    <2> SUFFICES ASSUME NEW i \in S, i + 1 <= N PROVE g[i + 1] = f[i + 1]
        OBVIOUS
    <2>1. PICK j \in 1 .. N : j = i + 1 /\ j - 1 = i /\ j \in 0 .. N /\ j # 0
        OBVIOUS
    <2>2. g[i] = f[i]
        OBVIOUS
    <2>3. g[j] = g[j - 1] \o piece[j]
        BY <1>9, <2>1, Zenon
    <2>4. f[j] = f[j - 1] \o piece[j]
        BY <1>4, Zenon
    <2>5. g[j] = f[j]
        BY <2>1, <2>2, <2>3, <2>4, Zenon
    <2> QED BY <2>1, <2>5, Zenon
<1>12. S \subseteq Nat
    OBVIOUS
<1> HIDE DEF S
<1>13. S = Nat
    BY <1>10, <1>11, <1>12, NatSetInduction
<1>14. \A i \in 0 .. N : g[i] = f[i]
    <2> SUFFICES ASSUME NEW i \in 0 .. N PROVE g[i] = f[i]
        OBVIOUS
    <2>1. i \in S /\ i <= N
        BY <1>13
    <2> QED BY <2>1, Zenon DEF S
<1>15. g = f
    <2>1. g = [i \in 0 .. N |-> g[i]]
        BY <1>8, Zenon
    <2> QED BY <1>14, <2>1
<1> QED BY <1>3, <1>4, <1>15 DEF g

(* Each piece stays where it was written. *)
Placed(w, piece, N) ==
    \A i \in 1 .. N :
        /\ Len(w[i]) = Len(w[i - 1]) + Len(piece[i])
        /\ Len(w[i]) <= Len(w[N])
        /\ \A q \in 1 .. Len(piece[i]) : w[N][Len(w[i - 1]) + q] = piece[i][q]

(* Every piece is found where the loop has put it. *)
LEMMA WrittenPlaces ==
    ASSUME NEW T, NEW N \in Nat, NEW piece \in [1 .. N -> Seq(T)]
    PROVE  Placed(Written(piece), piece, N)
<1> DEFINE w == Written(piece)
<1>0. /\ w \in [0 .. N -> Seq(T)]
      /\ \A i \in 1 .. N : w[i] = w[i - 1] \o piece[i]
    BY WrittenValues
<1> HIDE DEF w
<1>1. ASSUME NEW i \in 1 .. N
      PROVE  /\ Len(w[i]) = Len(w[i - 1]) + Len(piece[i])
             /\ Len(w[i - 1]) \in Nat /\ Len(piece[i]) \in Nat
             /\ \A q \in 1 .. Len(w[i - 1]) : w[i][q] = w[i - 1][q]
             /\ \A q \in 1 .. Len(piece[i]) : w[i][Len(w[i - 1]) + q] = piece[i][q]
    <2>1. PICK s \in Seq(T), t \in Seq(T) : s = w[i - 1] /\ t = piece[i]
        BY <1>0
    <2>2. /\ Len(s \o t) = Len(s) + Len(t)
          /\ \A q \in 1 .. Len(s) : (s \o t)[q] = s[q]
          /\ \A q \in 1 .. Len(t) : (s \o t)[Len(s) + q] = t[q]
        OBVIOUS
    <2>3. w[i] = s \o t
        BY <1>0, <2>1, Zenon
    <2>4. Len(s) \in Nat /\ Len(t) \in Nat
        OBVIOUS
    <2> QED BY <2>1, <2>2, <2>3, <2>4, Zenon
<1> DEFINE Kept(i, j) == /\ Len(w[i]) <= Len(w[j])
                         /\ \A q \in 1 .. Len(w[i]) : w[j][q] = w[i][q]
<1>2. ASSUME NEW i \in 1 .. N PROVE Kept(i, N)
    <2> DEFINE S == {d \in Nat : i + d <= N => Kept(i, i + d)}
    <2>1. \A j \in 0 .. N : w[j] \in Seq(T) /\ Len(w[j]) \in Nat
        BY <1>0
    <2>2. 0 \in S
        <3>1. i + 0 = i /\ Len(w[i]) \in Nat
            BY <2>1
        <3>2. Kept(i, i)
            BY <3>1
        <3> QED BY <3>1, <3>2
    <2>3. ASSUME NEW d \in Nat, i + d <= N => Kept(i, i + d), i + (d + 1) <= N
          PROVE  Kept(i, i + (d + 1))
        <3>1. /\ i + (d + 1) \in 1 .. N /\ (i + (d + 1)) - 1 = i + d
              /\ Kept(i, i + d) /\ i + d \in 0 .. N
            BY <2>3
        <3>2. PICK j \in 1 .. N : j = i + (d + 1) /\ j - 1 = i + d
            BY <3>1
        <3>3. /\ Len(w[j]) = Len(w[j - 1]) + Len(piece[j])
              /\ Len(w[j - 1]) \in Nat /\ Len(piece[j]) \in Nat /\ Len(w[i]) \in Nat
              /\ \A q \in 1 .. Len(w[j - 1]) : w[j][q] = w[j - 1][q]
            BY <1>1, <2>1
        <3>4. Kept(i, j - 1)
            BY <3>1, <3>2
        <3>5. Kept(i, j)
            <4>1. Len(w[i]) <= Len(w[j])
                BY <3>3, <3>4
            <4>2. ASSUME NEW q \in 1 .. Len(w[i]) PROVE w[j][q] = w[i][q]
                <5>1. q \in 1 .. Len(w[j - 1])
                    BY <3>3, <3>4
                <5> QED BY <3>3, <3>4, <5>1, Zenon
            <4> QED BY <4>1, <4>2
        <3> QED BY <3>2, <3>5
    <2> HIDE DEF Kept
    <2>4. \A d \in S : d + 1 \in S
        BY <2>3
    <2>5. S \subseteq Nat
        OBVIOUS
    <2> HIDE DEF S
    <2>6. S = Nat
        BY <2>2, <2>4, <2>5, NatSetInduction
    <2>7. N - i \in S /\ i + (N - i) = N
        BY <2>6
    <2> QED BY <2>7 DEF S
<1> SUFFICES ASSUME NEW i \in 1 .. N
             PROVE  /\ Len(w[i]) = Len(w[i - 1]) + Len(piece[i])
                    /\ Len(w[i]) <= Len(w[N])
                    /\ \A q \in 1 .. Len(piece[i]) :
                           w[N][Len(w[i - 1]) + q] = piece[i][q]
    BY DEF Placed, w
<1>3. Kept(i, N)
    BY <1>2
<1>4. ASSUME NEW q \in 1 .. Len(piece[i]) PROVE w[N][Len(w[i - 1]) + q] = piece[i][q]
    <2>1. Len(w[i - 1]) + q \in 1 .. Len(w[i])
        BY <1>1
    <2> QED BY <1>1, <1>3, <2>1
<1> QED BY <1>1, <1>3, <1>4

-----------------------------------------------------------------------------
(* Escaping.                                                               *)

(* The bytes of an escaped value: no tab, no newline, no null. *)
Plain == {special_char_escape_prefix} \cup {x \in Nat : x >= special_char_noescape_min}

(* One byte becomes one or two, none of them special to a line. *)
LEMMA EscapedByte ==
    ASSUME NEW c \in Nat
    PROVE  /\ EscapeByte(c) \in Seq(Plain)
           /\ c >= special_char_noescape_min =>
                  Len(EscapeByte(c)) = 1 /\ EscapeByte(c)[1] = c
           /\ ~(c >= special_char_noescape_min) =>
                  /\ Len(EscapeByte(c)) = 2
                  /\ EscapeByte(c)[1] = special_char_escape_prefix
                  /\ EscapeByte(c)[2] = c + special_char_escape_shift
<1>1. CASE c >= special_char_noescape_min
    <2>1. c \in Plain /\ EscapeByte(c) = <<c>>
        BY <1>1 DEF Plain, EscapeByte
    <2> QED BY <1>1, <2>1
<1>2. CASE ~(c >= special_char_noescape_min)
    <2>1. special_char_escape_prefix \in Plain /\ c + special_char_escape_shift \in Plain
        BY DEF Plain, special_char_escape_shift, special_char_noescape_min
    <2>2. EscapeByte(c) = <<special_char_escape_prefix, c + special_char_escape_shift>>
        BY <1>2 DEF EscapeByte
    <2> QED BY <1>2, <2>1, <2>2
<1> QED BY <1>1, <1>2

(* The escaped bytes of a value one after the other. *)
LEMMA EscapeWrites ==
    ASSUME NEW v \in Seq(Nat)
    PROVE  \E w \in [0 .. Len(v) -> Seq(Plain)] :
               /\ escape_string(v) = w[Len(v)]
               /\ w[0] = <<>>
               /\ Placed(w, [i \in 1 .. Len(v) |-> EscapeByte(v[i])], Len(v))
<1> DEFINE N == Len(v)
           piece == [i \in 1 .. N |-> EscapeByte(v[i])]
<1>1. N \in Nat /\ \A i \in 1 .. N : v[i] \in Nat
    OBVIOUS
<1>2. piece \in [1 .. N -> Seq(Plain)]
    BY <1>1, EscapedByte
<1>3. PICK w : w = Written(piece)
    OBVIOUS
<1>4. escape_string(v) = w[N]
    BY <1>3 DEF escape_string
<1> HIDE DEF N, piece
<1>6. w \in [0 .. N -> Seq(Plain)] /\ w[0] = <<>>
    BY <1>1, <1>2, <1>3, WrittenValues
<1>7. Placed(w, piece, N)
    BY <1>1, <1>2, <1>3, WrittenPlaces
<1> QED BY <1>4, <1>6, <1>7, Zenon DEF N, piece

(* So do all of them. *)
LEMMA EscapedType ==
    ASSUME NEW v \in Seq(Nat)
    PROVE  escape_string(v) \in Seq(Plain)
<1>1. PICK w \in [0 .. Len(v) -> Seq(Plain)] : escape_string(v) = w[Len(v)]
    BY EscapeWrites, Zenon
<1>2. Len(v) \in 0 .. Len(v)
    OBVIOUS
<1> QED BY <1>1, <1>2

(* The states that unescape_string goes through. *)
Unescaping == [wrote : Seq(Nat), next : {"any", "escaped", "none"}]

(* Each turn of unescape_string leaves it in one of these states. *)
LEMMA UnescapeByteType ==
    ASSUME NEW a \in Unescaping, NEW c \in Nat
    PROVE  UnescapeByte(a, c) \in Unescaping
<1>1. a.wrote \in Seq(Nat) /\ Append(a.wrote, c) \in Seq(Nat)
    BY DEF Unescaping
<1>2. ASSUME c >= special_char_escape_shift
      PROVE  Append(a.wrote, c - special_char_escape_shift) \in Seq(Nat)
    <2>1. c - special_char_escape_shift \in Nat
        BY <1>2 DEF special_char_escape_shift
    <2> QED BY <1>1, <2>1
<1>3. \/ UnescapeByte(a, c) = [wrote |-> a.wrote, next |-> "escaped"]
      \/ UnescapeByte(a, c) = [wrote |-> Append(a.wrote, c), next |-> "any"]
      \/ /\ c >= special_char_escape_shift
         /\ UnescapeByte(a, c) =
                [wrote |-> Append(a.wrote, c - special_char_escape_shift), next |-> "any"]
      \/ UnescapeByte(a, c) = [wrote |-> a.wrote, next |-> "none"]
    <2>1. CASE a.next = "any" /\ c = special_char_escape_prefix
        BY <2>1 DEF UnescapeByte
    <2>2. CASE a.next = "any" /\ c # special_char_escape_prefix
        BY <2>2 DEF UnescapeByte
    <2>3. CASE a.next # "any" /\ a.next = "escaped" /\ c >= special_char_escape_shift
        BY <2>3 DEF UnescapeByte
    <2>4. CASE a.next # "any" /\ ~(a.next = "escaped" /\ c >= special_char_escape_shift)
        <3>1. /\ ~(a.next = "any" /\ c = special_char_escape_prefix)
              /\ ~(a.next = "any" /\ c # special_char_escape_prefix)
              /\ ~(a.next = "escaped" /\ c >= special_char_escape_shift)
            BY <2>4
        <3> QED BY <3>1 DEF UnescapeByte
    <2> QED BY <2>1, <2>2, <2>3, <2>4
<1>4. \A x \in Seq(Nat), n \in {"any", "escaped", "none"} :
          [wrote |-> x, next |-> n] \in Unescaping
    BY DEF Unescaping
<1>5. "any" \in {"any", "escaped", "none"} /\ "escaped" \in {"any", "escaped", "none"}
      /\ "none" \in {"any", "escaped", "none"}
    OBVIOUS
<1> QED BY <1>1, <1>2, <1>3, <1>4, <1>5, Zenon

(* The values of the recursive function behind unescape_string. *)
LEMMA UnescapeValues ==
    ASSUME NEW bytes \in Seq(Nat)
    PROVE  \E g : /\ unescape_string(bytes) = g[Len(bytes)].wrote
                  /\ g[0] = [wrote |-> <<>>, next |-> "any"]
                  /\ \A i \in 1 .. Len(bytes) : g[i] = UnescapeByte(g[i - 1], bytes[i])
<1> DEFINE N == Len(bytes)
           v0 == [wrote |-> <<>>, next |-> "any"]
           G(x) == [i \in 0 .. N |-> IF i = 0 THEN v0 ELSE UnescapeByte(x[i - 1], bytes[i])]
           F == [i \in 1 .. N |-> [a \in Unescaping |-> UnescapeByte(a, bytes[i])]]
<1>1. N \in Nat /\ v0 \in Unescaping
    BY DEF Unescaping
<1>2. F \in [1 .. N -> [Unescaping -> Unescaping]]
    <2>1. \A i \in 1 .. N : bytes[i] \in Nat
        OBVIOUS
    <2> QED BY <2>1, UnescapeByteType
<1>3. PICK f \in [0 .. N -> Unescaping] :
          f[0] = v0 /\ \A i \in 1 .. N : f[i] = F[i][f[i - 1]]
    <2> HIDE DEF F, N, v0
    <2>1. \E f : Turns(f, Unescaping, v0, N, F)
        BY <1>1, <1>2, LoopValues
    <2> QED BY <2>1, Zenon DEF Turns
<1>4. ASSUME NEW i \in 1 .. N PROVE f[i] = UnescapeByte(f[i - 1], bytes[i])
    <2>1. f[i - 1] \in Unescaping
        BY <1>1
    <2>2. F[i][f[i - 1]] = UnescapeByte(f[i - 1], bytes[i])
        BY <2>1
    <2> QED BY <1>3, <2>2
<1> HIDE DEF v0
<1>5. f = G(f)
    <2>1. ASSUME NEW i \in 0 .. N
          PROVE  f[i] = IF i = 0 THEN v0 ELSE UnescapeByte(f[i - 1], bytes[i])
        <3>1. i = 0 \/ (i # 0 /\ i \in 1 .. N)
            BY <1>1
        <3> QED BY <1>3, <1>4, <3>1, Zenon
    <2> QED BY <2>1
<1> DEFINE g == CHOOSE x : x = G(x)
<1>6. unescape_string(bytes) = g[N].wrote
    BY DEF unescape_string, v0
<1> HIDE DEF G, N
<1>7. g = G(g)
    BY <1>5, Zenon
<1> HIDE DEF g
<1>8. g = [i \in 0 .. N |-> IF i = 0 THEN v0 ELSE UnescapeByte(g[i - 1], bytes[i])]
    BY <1>7, Zenon DEF G
<1>9. ASSUME NEW i \in 0 .. N
      PROVE  g[i] = IF i = 0 THEN v0 ELSE UnescapeByte(g[i - 1], bytes[i])
    BY <1>8
<1>10. g[0] = v0
    BY <1>1, <1>9
<1>11. ASSUME NEW i \in 1 .. N PROVE g[i] = UnescapeByte(g[i - 1], bytes[i])
    <2>1. i \in 0 .. N /\ i # 0
        BY <1>1
    <2> QED BY <1>9, <2>1, Zenon
<1> QED BY <1>6, <1>10, <1>11, Zenon DEF N, v0

(***************************************************************************)
(* unescape_string undoes escape_string, whatever the bytes.               *)
(***************************************************************************)
LEMMA UnescapeEscape ==
    ASSUME NEW v \in Seq(Nat)
    PROVE  unescape_string(escape_string(v)) = v
<1> DEFINE N == Len(v)
           e == escape_string(v)
           piece == [i \in 1 .. N |-> EscapeByte(v[i])]
<1>1. N \in Nat /\ \A i \in 1 .. N : v[i] \in Nat
    OBVIOUS
<1>2. PICK w \in [0 .. N -> Seq(Plain)] :
          w[0] = <<>> /\ e = w[N] /\ Placed(w, piece, N)
    BY EscapeWrites, Zenon
<1>3. \A i \in 0 .. N : Len(w[i]) \in Nat
    OBVIOUS
<1>4. e \in Seq(Nat)
    <2>1. e \in Seq(Plain)
        BY EscapedType
    <2>2. Plain \subseteq Nat
        BY DEF Plain, special_char_escape_prefix
    <2> HIDE DEF e
    <2>3. Len(e) \in Nat /\ e \in [1 .. Len(e) -> Plain]
        BY <2>1
    <2>4. e \in [1 .. Len(e) -> Nat]
        BY <2>2, <2>3
    <2> QED BY <2>3, <2>4
<1> HIDE DEF e
<1>5. PICK g : /\ unescape_string(e) = g[Len(e)].wrote
               /\ g[0] = [wrote |-> <<>>, next |-> "any"]
               /\ \A i \in 1 .. Len(e) : g[i] = UnescapeByte(g[i - 1], e[i])
    BY <1>4, UnescapeValues, Zenon
<1> DEFINE P(k) == g[Len(w[k])] = [wrote |-> SubSeq(v, 1, k), next |-> "any"]
           S == {k \in Nat : k <= N => P(k)}
<1>6. P(0)
    <2>1. SubSeq(v, 1, 0) = <<>> /\ Len(w[0]) = 0
        BY <1>2
    <2> QED BY <1>5, <2>1
<1>7. ASSUME NEW k \in Nat, k + 1 <= N, P(k) PROVE P(k + 1)
    <2>1. PICK j \in 1 .. N : j = k + 1 /\ j - 1 = k /\ k \in 0 .. N
        BY <1>7
    <2>2. PICK c \in Nat : c = v[j]
        BY <1>1
    <2>3. PICK m \in Nat : m = Len(w[k])
        BY <1>3, <2>1
    <2>4. /\ Len(w[j]) = m + Len(EscapeByte(c))
          /\ m + Len(EscapeByte(c)) <= Len(e)
          /\ \A q \in 1 .. Len(EscapeByte(c)) : e[m + q] = EscapeByte(c)[q]
        <3>1. piece[j] = EscapeByte(c)
            BY <2>2
        <3> HIDE DEF piece
        <3> QED BY <1>2, <2>1, <2>3, <3>1, Zenon DEF Placed
    <2>5. g[m] = [wrote |-> SubSeq(v, 1, k), next |-> "any"]
        BY <1>7, <2>3
    <2>6. Append(SubSeq(v, 1, k), c) = SubSeq(v, 1, j)
        BY <1>1, <2>1, <2>2
    <2>7. Len(e) \in Nat
        BY <1>4
    <2>8. ASSUME NEW i \in 1 .. Len(e) PROVE g[i] = UnescapeByte(g[i - 1], e[i])
        BY <1>5
    <2>9. g[Len(w[j])] = [wrote |-> SubSeq(v, 1, j), next |-> "any"]
        <3>1. CASE c >= special_char_noescape_min
            <4>1. /\ Len(w[j]) = m + 1 /\ m + 1 \in 1 .. Len(e) /\ (m + 1) - 1 = m
                  /\ e[m + 1] = c
                <5>1. Len(EscapeByte(c)) = 1 /\ EscapeByte(c)[1] = c
                    BY <3>1, EscapedByte
                <5>2. 1 \in 1 .. Len(EscapeByte(c))
                    BY <5>1
                <5>3. e[m + 1] = c
                    BY <2>4, <5>1, <5>2, Zenon
                <5> QED BY <2>4, <2>7, <5>1, <5>3
            <4>2. g[m + 1] = UnescapeByte(g[m], c)
                BY <2>8, <4>1
            <4>3. c # special_char_escape_prefix
                BY <3>1 DEF special_char_noescape_min, special_char_escape_prefix
            <4>4. g[m + 1] = [wrote |-> Append(SubSeq(v, 1, k), c), next |-> "any"]
                <5>1. PICK a : a = SubSeq(v, 1, k)
                    OBVIOUS
                <5>2. g[m] = [wrote |-> a, next |-> "any"]
                    BY <2>5, <5>1
                <5>3. g[m].next = "any" /\ g[m].wrote = a
                    BY <5>2
                <5>4. UnescapeByte(g[m], c) = [wrote |-> Append(g[m].wrote, c), next |-> "any"]
                    BY <4>3, <5>3 DEF UnescapeByte
                <5> QED BY <4>2, <5>1, <5>3, <5>4, Zenon
            <4> QED BY <2>6, <4>1, <4>4, Zenon
        <3>2. CASE ~(c >= special_char_noescape_min)
            <4> DEFINE x == special_char_escape_prefix
                       y == c + special_char_escape_shift
            <4>1. /\ Len(EscapeByte(c)) = 2 /\ EscapeByte(c)[1] = x /\ EscapeByte(c)[2] = y
                BY <3>2, EscapedByte
            <4>2. /\ Len(w[j]) = m + 2
                  /\ m + 1 \in 1 .. Len(e) /\ m + 2 \in 1 .. Len(e)
                  /\ (m + 1) - 1 = m /\ (m + 2) - 1 = m + 1
                BY <2>4, <2>7, <4>1
            <4>3. e[m + 1] = x /\ e[m + 2] = y
                <5>1. 1 \in 1 .. Len(EscapeByte(c)) /\ 2 \in 1 .. Len(EscapeByte(c))
                    BY <4>1
                <5> QED BY <2>4, <4>1, <5>1
            <4>4. g[m + 1] = UnescapeByte(g[m], x)
                BY <2>8, <4>2, <4>3
            <4>5. g[m + 2] = UnescapeByte(g[m + 1], y)
                BY <2>8, <4>2, <4>3
            <4>6. y >= special_char_escape_shift /\ y - special_char_escape_shift = c
                BY DEF special_char_escape_shift
            <4> HIDE DEF y
            <4>7. PICK a : a = SubSeq(v, 1, k)
                OBVIOUS
            <4>8. g[m].next = "any" /\ g[m].wrote = a
                BY <2>5, <4>7
            <4>9. UnescapeByte(g[m], x) = [wrote |-> g[m].wrote, next |-> "escaped"]
                BY <4>8 DEF UnescapeByte
            <4>10. g[m + 1].next = "escaped" /\ g[m + 1].wrote = a
                BY <4>4, <4>8, <4>9
            <4>11. UnescapeByte(g[m + 1], y) =
                       [wrote |-> Append(g[m + 1].wrote, y - special_char_escape_shift),
                        next |-> "any"]
                <5>1. g[m + 1].next # "any"
                    BY <4>10
                <5> QED BY <4>6, <4>10, <5>1 DEF UnescapeByte
            <4>12. g[m + 2] = [wrote |-> Append(a, c), next |-> "any"]
                BY <4>5, <4>6, <4>10, <4>11, Zenon
            <4> QED BY <2>6, <4>2, <4>7, <4>12, Zenon
        <3> QED BY <3>1, <3>2
    <2> QED BY <2>1, <2>9
<1> HIDE DEF P
<1>8. 0 \in S
    BY <1>6
<1>9. \A k \in S : k + 1 \in S
    BY <1>7
<1>10. S \subseteq Nat
    OBVIOUS
<1> HIDE DEF S
<1>11. S = Nat
    BY <1>8, <1>9, <1>10, NatSetInduction
<1>12. P(N)
    BY <1>1, <1>11 DEF S
<1>13. g[Len(e)].wrote = SubSeq(v, 1, N)
    BY <1>2, <1>12 DEF P
<1>14. SubSeq(v, 1, N) = v
    OBVIOUS
<1> QED BY <1>5, <1>13, <1>14 DEF e

-----------------------------------------------------------------------------
(* Lines of values.                                                        *)

(* The bytes of a line: no newline. *)
Wire == {TAB} \cup Plain

(* How the two kinds of byte differ. *)
LEMMA PlainBytes ==
    /\ Plain \subseteq Nat /\ Wire \subseteq Nat /\ Plain \subseteq Wire
    /\ TAB \notin Plain /\ 0 \notin Plain /\ NL \notin Wire
BY DEF Plain, Wire, TAB, NL, special_char_escape_prefix, special_char_noescape_min

(* No value is taken for the null string_ref. *)
LEMMA NotNull ==
    ASSUME NEW v \in Seq(Nat)
    PROVE  v # Null
<1>1. -1 \notin Nat /\ Null[1] = -1 /\ Len(Null) = 1 /\ 1 \in 1 .. 1
    BY DEF Null
<1>2. 1 \in 1 .. Len(v) => v[1] \in Nat
    BY ElementOfSeq
<1> QED BY <1>1, <1>2, Zenon

(* A value in a line: a tab and the escaped bytes. *)
LEMMA DelimValue ==
    ASSUME NEW v \in Seq(Nat)
    PROVE  /\ append_delim_value(v) \in Seq(Wire)
           /\ Len(append_delim_value(v)) = Len(escape_string(v)) + 1
           /\ append_delim_value(v)[1] = TAB
           /\ \A q \in 1 .. Len(escape_string(v)) :
                  append_delim_value(v)[q + 1] = escape_string(v)[q]
<1>1. v # Null
    BY NotNull
<1>2. PICK e \in Seq(Plain) : e = escape_string(v)
    BY EscapedType
<1>3. append_delim_value(v) = <<TAB>> \o e
    BY <1>1, <1>2, Zenon DEF append_delim_value
<1>4. e \in Seq(Wire)
    <2>1. Len(e) \in Nat /\ e \in [1 .. Len(e) -> Plain]
        OBVIOUS
    <2>2. e \in [1 .. Len(e) -> Wire]
        BY <2>1, PlainBytes
    <2> QED BY <2>1, <2>2
<1>5. <<TAB>> \in Seq(Wire) /\ Len(<<TAB>>) = 1 /\ <<TAB>>[1] = TAB
    BY DEF Wire
<1>6. PICK t \in Seq(Wire) : t = <<TAB>>
    BY <1>5
<1>7. /\ t \o e \in Seq(Wire) /\ Len(t \o e) = Len(t) + Len(e)
      /\ \A i \in 1 .. Len(t) + Len(e) :
             (t \o e)[i] = IF i <= Len(t) THEN t[i] ELSE e[i - Len(t)]
    BY <1>4, ConcatProperties, Zenon
<1>8. Len(t) = 1 /\ t[1] = TAB /\ Len(e) \in Nat
    BY <1>5, <1>6
<1>9. PICK r : r = t \o e
    OBVIOUS
<1>10. r \in Seq(Wire) /\ Len(r) = Len(e) + 1 /\ r[1] = TAB
    BY <1>7, <1>8, <1>9
<1>11. ASSUME NEW q \in 1 .. Len(e) PROVE r[q + 1] = e[q]
    <2>1. q + 1 \in 1 .. Len(t) + Len(e) /\ ~(q + 1 <= Len(t)) /\ (q + 1) - Len(t) = q
        BY <1>8
    <2> QED BY <1>7, <1>9, <2>1
<1> QED BY <1>2, <1>3, <1>6, <1>9, <1>10, <1>11, Zenon

(* A line of values, and where each of them is. *)
LEMMA LineWrites ==
    ASSUME NEW vs \in Seq(Seq(Nat))
    PROVE  \E w \in [0 .. Len(vs) -> Seq(Wire)] :
               /\ append_delim_values(vs) = w[Len(vs)]
               /\ w[0] = <<>>
               /\ Placed(w, [i \in 1 .. Len(vs) |-> append_delim_value(vs[i])], Len(vs))
<1> DEFINE N == Len(vs)
           piece == [i \in 1 .. N |-> append_delim_value(vs[i])]
<1>1. N \in Nat /\ \A i \in 1 .. N : vs[i] \in Seq(Nat)
    OBVIOUS
<1>2. piece \in [1 .. N -> Seq(Wire)]
    BY <1>1, DelimValue
<1>3. PICK w : w = Written(piece)
    OBVIOUS
<1>4. append_delim_values(vs) = w[N]
    BY <1>3 DEF append_delim_values
<1> HIDE DEF N, piece
<1>6. w \in [0 .. N -> Seq(Wire)] /\ w[0] = <<>>
    BY <1>1, <1>2, <1>3, WrittenValues
<1>7. Placed(w, piece, N)
    BY <1>1, <1>2, <1>3, WrittenPlaces
<1> QED BY <1>4, <1>6, <1>7, Zenon DEF N, piece

(* Neither the values nor what is between them holds a newline. *)
LEMMA LineType ==
    ASSUME NEW vs \in Seq(Seq(Nat))
    PROVE  append_delim_values(vs) \in Seq(Wire)
<1>1. PICK w \in [0 .. Len(vs) -> Seq(Wire)] : append_delim_values(vs) = w[Len(vs)]
    BY LineWrites, Zenon
<1>2. Len(vs) \in 0 .. Len(vs)
    OBVIOUS
<1> QED BY <1>1, <1>2

(* A token ends at the first tab. *)
LEMMA TokenEnds ==
    ASSUME NEW line \in Seq(Nat), NEW start \in Nat, NEW end \in start .. Len(line) + 1,
           end <= Len(line) => line[end] = TAB,
           \A q \in start .. end - 1 : line[q] # TAB
    PROVE  read_token(line, start) = end
<1> DEFINE P(p) == /\ p <= Len(line) => line[p] = TAB
                   /\ \A q \in start .. p - 1 : line[q] # TAB
<1>1. P(end) /\ Len(line) \in Nat
    OBVIOUS
<1>2. ASSUME NEW p \in start .. Len(line) + 1, P(p) PROVE p = end
    <2>1. ~(p < end)
        <3> SUFFICES ASSUME p < end PROVE FALSE
            OBVIOUS
        <3>1. p \in start .. end - 1 /\ p <= Len(line)
            BY <1>1
        <3> QED BY <1>2, <3>1
    <2>2. ~(end < p)
        <3> SUFFICES ASSUME end < p PROVE FALSE
            OBVIOUS
        <3>1. end \in start .. p - 1 /\ end <= Len(line)
            BY <1>1
        <3> QED BY <1>2, <3>1
    <2> QED BY <1>1, <2>1, <2>2
<1>3. read_token(line, start) = CHOOSE p \in start .. Len(line) + 1 : P(p)
    BY DEF read_token
<1> HIDE DEF P
<1> QED BY <1>1, <1>2, <1>3, Zenon

(* One value is taken off the line. *)
(* In line, behind its first m bytes: a tab, e, and then a tab or the end. *)
Delimited(line, m, e) ==
    /\ m + 1 + Len(e) <= Len(line)
    /\ line[m + 1] = TAB
    /\ \A q \in 1 .. Len(e) : line[m + 1 + q] = e[q]
    /\ m + 2 + Len(e) <= Len(line) => line[m + 2 + Len(e)] = TAB

(* The next turn of get_next_row takes the value that follows. *)
LEMMA FieldTaken ==
    ASSUME NEW line \in Seq(Nat), NEW v \in Seq(Nat), NEW m \in Nat, NEW flds,
           Delimited(line, m, escape_string(v))
    PROVE  Field(line, [start |-> m + 1, flds |-> flds])
               = [start |-> m + 2 + Len(escape_string(v)), flds |-> Append(flds, v)]
<1> SUFFICES ASSUME NEW e, e = escape_string(v),
                    m + 1 + Len(e) <= Len(line),
                    line[m + 1] = TAB,
                    \A q \in 1 .. Len(e) : line[m + 1 + q] = e[q],
                    m + 2 + Len(e) <= Len(line) => line[m + 2 + Len(e)] = TAB
             PROVE  Field(line, [start |-> m + 1, flds |-> flds])
                        = [start |-> m + 2 + Len(e), flds |-> Append(flds, v)]
    BY Zenon DEF Delimited
<1> DEFINE end == m + 2 + Len(e)
           token == SubSeq(line, m + 2, end - 1)
<1>1. e \in Seq(Plain) /\ Len(e) \in Nat /\ Len(line) \in Nat
    BY EscapedType
<1>2. skip_one(line, m + 1) = m + 2
    BY <1>1 DEF skip_one
<1>3. ASSUME NEW q \in m + 2 .. end - 1
      PROVE  line[q] = e[q - (m + 1)] /\ q - (m + 1) \in 1 .. Len(e) /\ line[q] # TAB /\ line[q] \in Plain
    <2>1. q - (m + 1) \in 1 .. Len(e) /\ m + 1 + (q - (m + 1)) = q
        BY <1>1
    <2>2. line[q] = e[q - (m + 1)]
        BY <2>1
    <2>3. e[q - (m + 1)] \in Plain
        BY <1>1, <2>1
    <2> QED BY <2>1, <2>2, <2>3, PlainBytes
<1>4. read_token(line, m + 2) = end
    <2>1. m + 2 \in Nat /\ end \in m + 2 .. Len(line) + 1 /\ (end <= Len(line) => line[end] = TAB)
        BY <1>1
    <2>2. \A q \in m + 2 .. end - 1 : line[q] # TAB
        BY <1>3
    <2> HIDE DEF end
    <2> QED BY <2>1, <2>2, TokenEnds
<1>5. token = e
    <2>1. m + 2 \in Int /\ end \in Int /\ end - 1 \in Int /\ end - 1 = m + 1 + Len(e)
        BY <1>1
    <2>2. \A i \in m + 2 .. end - 1 : line[i] \in Plain
        BY <1>3
    <2> HIDE DEF end
    <2>3. /\ token \in Seq(Plain)
          /\ Len(token) = IF m + 2 <= end - 1 THEN (end - 1) - (m + 2) + 1 ELSE 0
          /\ \A i \in 1 .. (end - 1) - (m + 2) + 1 : token[i] = line[(m + 2) + i - 1]
        BY <2>1, <2>2, SubSeqProperties
    <2> HIDE DEF token
    <2>4. Len(token) = Len(e) /\ (end - 1) - (m + 2) + 1 = Len(e)
        <3>1. (end - 1) - (m + 2) + 1 = Len(e)
            BY <1>1, <2>1
        <3>2. Len(e) = IF m + 2 <= end - 1 THEN (end - 1) - (m + 2) + 1 ELSE 0
            BY <1>1, <2>1
        <3> QED BY <2>3, <3>1, <3>2, Zenon
    <2>5. ASSUME NEW i \in 1 .. Len(e) PROVE token[i] = e[i]
        <3>1. (m + 2) + i - 1 = m + 1 + i
            BY <1>1
        <3>2. token[i] = line[(m + 2) + i - 1]
            BY <2>3, <2>4
        <3> QED BY <3>1, <3>2
    <2> QED BY <1>1, <2>3, <2>4, <2>5, SeqEqual
<1> HIDE DEF token
<1>6. ~is_null_expression(token)
    <2>1. e # <<0>>
        <3>1. e = <<0>> => 1 \in 1 .. Len(e) /\ e[1] = 0
            BY <1>1
        <3>2. \A i \in 1 .. Len(e) : e[i] \in Plain
            BY <1>1
        <3> QED BY <3>1, <3>2, PlainBytes
    <2> QED BY <1>5, <2>1 DEF is_null_expression
<1>7. unescape_string(token) = v
    BY <1>5, UnescapeEscape
<1> HIDE DEF end
<1> QED BY <1>2, <1>4, <1>6, <1>7 DEF Field, token, end

(***************************************************************************)
(* The loop of get_next_row takes a line apart into the values it was made *)
(* of, whatever their bytes.                                               *)
(***************************************************************************)
LEMMA FieldsRead ==
    ASSUME NEW vs \in Seq(Seq(Nat))
    PROVE  fields(append_delim_values(vs), Len(vs)) = vs
<1> DEFINE N == Len(vs)
           line == append_delim_values(vs)
           piece == [i \in 1 .. N |-> append_delim_value(vs[i])]
           v0 == [start |-> 1, flds |-> <<>>]
           G(x) == [i \in 0 .. N |-> IF i = 0 THEN v0 ELSE Field(line, x[i - 1])]
<1>1. N \in Nat /\ \A i \in 1 .. N : vs[i] \in Seq(Nat)
    OBVIOUS
<1>2. PICK w \in [0 .. N -> Seq(Wire)] :
          line = w[N] /\ w[0] = <<>> /\ Placed(w, piece, N)
    BY LineWrites, Zenon
<1>3. \A i \in 0 .. N : Len(w[i]) \in Nat
    OBVIOUS
<1>4. line \in Seq(Nat)
    <2>1. line \in Seq(Wire)
        BY LineType
    <2> HIDE DEF line
    <2>2. Len(line) \in Nat /\ line \in [1 .. Len(line) -> Wire]
        BY <2>1
    <2>3. line \in [1 .. Len(line) -> Nat]
        BY <2>2, PlainBytes
    <2> QED BY <2>2, <2>3
<1> DEFINE f == [i \in 0 .. N |-> [start |-> Len(w[i]) + 1, flds |-> SubSeq(vs, 1, i)]]
<1>5. ASSUME NEW i \in 1 .. N PROVE f[i] = Field(line, f[i - 1])
    <2> DEFINE e == escape_string(vs[i])
               m == Len(w[i - 1])
    <2>1. i - 1 \in 0 .. N /\ i \in 0 .. N /\ m \in Nat /\ Len(w[i]) \in Nat
        BY <1>1, <1>3
    <2>2. vs[i] \in Seq(Nat) /\ piece[i] = append_delim_value(vs[i])
        BY <1>1
    <2>3. e \in Seq(Plain) /\ Len(e) \in Nat
        BY <2>2, EscapedType
    <2>4. /\ Len(piece[i]) = Len(e) + 1 /\ piece[i][1] = TAB
          /\ \A q \in 1 .. Len(e) : piece[i][q + 1] = e[q]
        BY <2>2, DelimValue
    <2> HIDE DEF piece, line, e
    <2>5. /\ Len(w[i]) = m + Len(piece[i])
          /\ Len(w[i]) <= Len(line)
          /\ \A q \in 1 .. Len(piece[i]) : line[m + q] = piece[i][q]
        BY <1>2, Zenon DEF Placed
    <2>6. line[m + 1] = TAB
        <3>1. 1 \in 1 .. Len(piece[i])
            BY <2>3, <2>4
        <3> QED BY <2>4, <2>5, <3>1
    <2>7. ASSUME NEW q \in 1 .. Len(e) PROVE line[m + 1 + q] = e[q]
        <3>1. q + 1 \in 1 .. Len(piece[i]) /\ m + (q + 1) = m + 1 + q
            BY <2>1, <2>3, <2>4
        <3> QED BY <2>4, <2>5, <3>1
    <2>8. m + 1 + Len(e) <= Len(line) /\ Len(w[i]) + 1 = m + 2 + Len(e)
        BY <1>4, <2>1, <2>3, <2>4, <2>5
    <2>9. ASSUME Len(w[i]) + 1 <= Len(line) PROVE line[Len(w[i]) + 1] = TAB
        <3>1. i # N
            BY <1>2, <1>4, <2>1, <2>9
        <3>2. PICK j \in 1 .. N : j = i + 1 /\ j - 1 = i
            BY <1>1, <3>1
        <3>3. Len(piece[j]) = Len(escape_string(vs[j])) + 1 /\ piece[j][1] = TAB
            BY <1>1, DelimValue DEF piece
        <3>4. 1 \in 1 .. Len(piece[j])
            <4>1. Len(escape_string(vs[j])) \in Nat
                BY <1>1, EscapedType
            <4> QED BY <3>3, <4>1
        <3>5. line[Len(w[j - 1]) + 1] = piece[j][1]
            BY <1>2, <3>4, Zenon DEF Placed
        <3> QED BY <3>2, <3>3, <3>5
    <2>10. m + 2 + Len(e) <= Len(line) => line[m + 2 + Len(e)] = TAB
        BY <2>8, <2>9
    <2>11. PICK s : s = SubSeq(vs, 1, i - 1)
        OBVIOUS
    <2>12. Append(s, vs[i]) = SubSeq(vs, 1, i)
        BY <1>1, <2>11
    <2>13. f[i - 1] = [start |-> m + 1, flds |-> s]
        BY <2>1, <2>11
    <2>14. Field(line, [start |-> m + 1, flds |-> s])
               = [start |-> m + 2 + Len(e), flds |-> Append(s, vs[i])]
        <3> HIDE DEF m
        <3>1. e = escape_string(vs[i])
            BY DEF e
        <3>2. \A q \in 1 .. Len(e) : line[m + 1 + q] = e[q]
            BY <2>7
        <3>3. Delimited(line, m, e)
            BY <2>6, <2>8, <2>10, <3>2, Zenon DEF Delimited
        <3> QED BY <1>4, <2>1, <2>2, <3>1, <3>3, FieldTaken, ZenonT(40)
    <2>15. f[i] = [start |-> m + 2 + Len(e), flds |-> Append(s, vs[i])]
        BY <2>1, <2>8, <2>12
    <2> QED BY <2>13, <2>14, <2>15
<1>6. f[0] = v0
    <2>1. SubSeq(vs, 1, 0) = <<>> /\ Len(w[0]) = 0 /\ 0 \in 0 .. N
        BY <1>1, <1>2
    <2> QED BY <2>1
<1>7. f = [i \in 0 .. N |-> f[i]]
    OBVIOUS
<1>8. f[N].flds = vs
    <2>1. SubSeq(vs, 1, N) = vs /\ N \in 0 .. N
        BY <1>1
    <2> QED BY <2>1
<1> DEFINE g == CHOOSE x : x = G(x)
<1>9. fields(line, N) = g[N].flds
    BY DEF fields
<1> HIDE DEF N, line, v0, f, piece
<1>10. f = G(f)
    <2>1. ASSUME NEW i \in 0 .. N PROVE f[i] = IF i = 0 THEN v0 ELSE Field(line, f[i - 1])
        <3>1. i = 0 \/ (i # 0 /\ i \in 1 .. N)
            BY <1>1
        <3> QED BY <1>5, <1>6, <3>1, Zenon
    <2> QED BY <1>7, <2>1
<1> HIDE DEF G
<1>11. g = G(g)
    BY <1>10, Zenon
<1> HIDE DEF g
<1>12. g = [i \in 0 .. N |-> IF i = 0 THEN v0 ELSE Field(line, g[i - 1])]
    BY <1>11, Zenon DEF G
<1>13. ASSUME NEW i \in 0 .. N
       PROVE  g[i] = IF i = 0 THEN v0 ELSE Field(line, g[i - 1])
    BY <1>12
<1> DEFINE S == {i \in Nat : i <= N => g[i] = f[i]}
<1>14. 0 \in S
    BY <1>1, <1>6, <1>13
<1>15. \A i \in S : i + 1 \in S
    <2> SUFFICES ASSUME NEW i \in S, i + 1 <= N PROVE g[i + 1] = f[i + 1]
        OBVIOUS
    <2>1. PICK j \in 1 .. N : j = i + 1 /\ j - 1 = i /\ j \in 0 .. N /\ j # 0
        BY <1>1
    <2>2. g[i] = f[i]
        BY <1>1
    <2>3. g[j] = Field(line, g[j - 1])
        BY <1>13, <2>1, Zenon
    <2>4. f[j] = Field(line, f[j - 1])
        BY <1>5, Zenon
    <2>5. g[j] = f[j]
        BY <2>1, <2>2, <2>3, <2>4, Zenon
    <2> QED BY <2>1, <2>5, Zenon
<1>16. S \subseteq Nat
    OBVIOUS
<1> HIDE DEF S
<1>17. S = Nat
    BY <1>14, <1>15, <1>16, NatSetInduction
<1>18. g[N] = f[N]
    <2>1. N \in S /\ N <= N
        BY <1>1, <1>17
    <2> QED BY <2>1, Zenon DEF S
<1> QED BY <1>8, <1>9, <1>18, Zenon DEF N, line

(* The same for a line of one value. *)
LEMMA OneFieldRead ==
    ASSUME NEW v \in Seq(Nat)
    PROVE  /\ append_delim_value(v) = append_delim_values(<<v>>)
           /\ fields(append_delim_value(v), 1)[1] = v
<1> DEFINE vs == <<v>>
           piece == [i \in 1 .. 1 |-> append_delim_value(vs[i])]
<1>1. vs \in Seq(Seq(Nat)) /\ Len(vs) = 1 /\ vs[1] = v
    OBVIOUS
<1>2. piece \in [1 .. 1 -> Seq(Wire)] /\ piece[1] = append_delim_value(v)
    BY <1>1, DelimValue
<1>3. append_delim_values(vs) = Written(piece)[1]
    BY <1>1 DEF append_delim_values
<1> HIDE DEF vs, piece
<1>4. Written(piece)[0] = <<>> /\ Written(piece)[1] = Written(piece)[1 - 1] \o piece[1]
    <2>1. 1 \in Nat /\ 1 \in 1 .. 1
        OBVIOUS
    <2> QED BY <1>2, <2>1, WrittenValues, ZenonT(40)
<1>5. append_delim_value(v) \in Seq(Wire)
    BY DelimValue
<1>6. <<>> \o append_delim_value(v) = append_delim_value(v)
    BY <1>5, ConcatEmptySeq
<1>7. append_delim_value(v) = append_delim_values(vs)
    <2>1. 1 - 1 = 0
        OBVIOUS
    <2> QED BY <1>2, <1>3, <1>4, <1>6, <2>1, Zenon
<1>8. fields(append_delim_values(vs), 1) = vs
    BY <1>1, FieldsRead
<1> QED BY <1>1, <1>7, <1>8 DEF vs

-----------------------------------------------------------------------------
(* Numbers.                                                                *)

(* What std::stoi has read after each of its bytes. *)
Reading(g, bytes) ==
    /\ g[0] = 0
    /\ \A i \in 1 .. Len(bytes) : g[i] = 10 * g[i - 1] + (bytes[i] - 48)

(* The values of the recursive function behind stoi. *)
LEMMA StoiValues ==
    ASSUME NEW bytes \in Seq(Nat)
    PROVE  \E g : stoi(bytes) = g[Len(bytes)] /\ Reading(g, bytes)
<1> DEFINE N == Len(bytes)
           G(x) == [i \in 0 .. N |-> IF i = 0 THEN 0 ELSE 10 * x[i - 1] + (bytes[i] - 48)]
           F == [i \in 1 .. N |-> [a \in Int |-> 10 * a + (bytes[i] - 48)]]
<1>1. N \in Nat /\ 0 \in Int
    OBVIOUS
<1>2. F \in [1 .. N -> [Int -> Int]]
    <2>1. \A i \in 1 .. N : bytes[i] \in Nat
        OBVIOUS
    <2> QED BY <2>1
<1>3. PICK f \in [0 .. N -> Int] : f[0] = 0 /\ \A i \in 1 .. N : f[i] = F[i][f[i - 1]]
    <2> HIDE DEF F, N
    <2>1. \E f : Turns(f, Int, 0, N, F)
        BY <1>1, <1>2, LoopValues
    <2> QED BY <2>1, Zenon DEF Turns
<1>4. ASSUME NEW i \in 1 .. N PROVE f[i] = 10 * f[i - 1] + (bytes[i] - 48)
    <2>1. f[i - 1] \in Int
        BY <1>1
    <2>2. F[i][f[i - 1]] = 10 * f[i - 1] + (bytes[i] - 48)
        BY <2>1
    <2> QED BY <1>3, <2>2
<1>5. f = G(f)
    <2>1. ASSUME NEW i \in 0 .. N
          PROVE  f[i] = IF i = 0 THEN 0 ELSE 10 * f[i - 1] + (bytes[i] - 48)
        <3>1. i = 0 \/ (i # 0 /\ i \in 1 .. N)
            BY <1>1
        <3> QED BY <1>3, <1>4, <3>1, Zenon
    <2> QED BY <2>1
<1> DEFINE g == CHOOSE x : x = G(x)
<1>6. stoi(bytes) = g[N]
    BY DEF stoi
<1> HIDE DEF G, N
<1>7. g = G(g)
    BY <1>5, Zenon
<1> HIDE DEF g
<1>8. g = [i \in 0 .. N |-> IF i = 0 THEN 0 ELSE 10 * g[i - 1] + (bytes[i] - 48)]
    BY <1>7, Zenon DEF G
<1>9. ASSUME NEW i \in 0 .. N
      PROVE  g[i] = IF i = 0 THEN 0 ELSE 10 * g[i - 1] + (bytes[i] - 48)
    BY <1>8
<1>10. g[0] = 0
    BY <1>1, <1>9
<1>11. ASSUME NEW i \in 1 .. N PROVE g[i] = 10 * g[i - 1] + (bytes[i] - 48)
    <2>1. i \in 0 .. N /\ i # 0
        BY <1>1
    <2> QED BY <1>9, <2>1, Zenon
<1> QED BY <1>6, <1>10, <1>11, Zenon DEF N, Reading

(* A digit more. *)
LEMMA StoiAppend ==
    ASSUME NEW bytes \in Seq(Nat), NEW c \in Nat
    PROVE  stoi(Append(bytes, c)) = 10 * stoi(bytes) + (c - 48)
<1> DEFINE n == Len(bytes)
           more == Append(bytes, c)
<1>1. more \in Seq(Nat) /\ Len(more) = n + 1 /\ n \in Nat /\ more[n + 1] = c
    OBVIOUS
<1>2. \A i \in 1 .. n : more[i] = bytes[i]
    OBVIOUS
<1> HIDE DEF more
<1>3. PICK x : stoi(bytes) = x[n] /\ Reading(x, bytes)
    BY StoiValues
<1>4. PICK y : stoi(more) = y[Len(more)] /\ Reading(y, more)
    BY <1>1, StoiValues
<1> HIDE DEF n
<1> DEFINE S == {i \in Nat : i <= n => y[i] = x[i]}
<1>5. 0 \in S
    BY <1>3, <1>4 DEF Reading
<1>6. \A i \in S : i + 1 \in S
    <2> SUFFICES ASSUME NEW i \in S, i + 1 <= n PROVE y[i + 1] = x[i + 1]
        OBVIOUS
    <2>1. PICK j \in 1 .. n : j = i + 1 /\ j - 1 = i /\ j \in 1 .. Len(more)
        BY <1>1
    <2>2. y[i] = x[i]
        BY <1>1
    <2>3. y[j] = 10 * y[j - 1] + (more[j] - 48) /\ x[j] = 10 * x[j - 1] + (bytes[j] - 48)
        BY <1>3, <1>4, <2>1, Zenon DEF Reading, n
    <2>4. y[j] = x[j]
        BY <1>2, <2>1, <2>2, <2>3, Zenon
    <2> QED BY <2>1, <2>4, Zenon
<1>7. S \subseteq Nat
    OBVIOUS
<1> HIDE DEF S
<1>8. S = Nat
    BY <1>5, <1>6, <1>7, NatSetInduction
<1>9. y[n] = x[n]
    <2>1. n \in S /\ n <= n
        BY <1>1, <1>8
    <2> QED BY <2>1, Zenon DEF S
<1>10. y[n + 1] = 10 * y[n] + (c - 48)
    <2>1. n + 1 \in 1 .. Len(more) /\ (n + 1) - 1 = n
        BY <1>1
    <2>2. y[n + 1] = 10 * y[(n + 1) - 1] + (more[n + 1] - 48)
        BY <1>4, <2>1, Zenon DEF Reading
    <2> QED BY <1>1, <2>1, <2>2, Zenon
<1> QED BY <1>1, <1>3, <1>4, <1>9, <1>10, Zenon DEF more

(* Nothing read yet. *)
LEMMA StoiEmpty == stoi(<<>>) = 0
<1>1. <<>> \in Seq(Nat) /\ Len(<<>>) = 0
    OBVIOUS
<1>2. PICK g : stoi(<<>>) = g[Len(<<>>)] /\ Reading(g, <<>>)
    BY <1>1, StoiValues
<1> QED BY <1>1, <1>2, Zenon DEF Reading

(* The last digit and the rest. *)
LEMMA LastDigit ==
    ASSUME NEW m \in Nat
    PROVE  /\ m % 10 \in 0 .. 9 /\ m \div 10 \in Nat
           /\ m = 10 * (m \div 10) + (m % 10)
           /\ m >= 10 => m \div 10 < m
OBVIOUS

(* One digit, or one more than the rest has. *)
Digits(f, m) == IF m < 10 THEN <<48 + m>> ELSE Append(f[m \div 10], 48 + (m % 10))

(* The values of the recursive function behind to_string exist. *)
LEMMA DigitsExist ==
    ASSUME NEW N \in Nat
    PROVE  \E f \in [0 .. N -> Seq(Nat)] : \A m \in 0 .. N : f[m] = Digits(f, m)
<1> DEFINE P(n) == \E f \in [0 .. n -> Seq(Nat)] : \A m \in 0 .. n : f[m] = Digits(f, m)
           S == {n \in Nat : P(n)}
<1>1. P(0)
    <2> DEFINE f == [m \in 0 .. 0 |-> <<48>>]
    <2>1. f \in [0 .. 0 -> Seq(Nat)] /\ \A m \in 0 .. 0 : f[m] = Digits(f, m)
        BY DEF Digits
    <2> QED BY <2>1
<1>2. ASSUME NEW n \in Nat, P(n) PROVE P(n + 1)
    <2>1. PICK f \in [0 .. n -> Seq(Nat)] : \A m \in 0 .. n : f[m] = Digits(f, m)
        BY <1>2
    <2> DEFINE g == [m \in 0 .. n + 1 |-> IF m = n + 1 THEN Digits(f, n + 1) ELSE f[m]]
    <2>2. Digits(f, n + 1) \in Seq(Nat)
        <3>1. CASE n + 1 < 10
            BY <3>1 DEF Digits
        <3>2. CASE ~(n + 1 < 10)
            <4>1. (n + 1) \div 10 \in 0 .. n /\ 48 + ((n + 1) % 10) \in Nat
                BY <3>2, LastDigit
            <4>2. f[(n + 1) \div 10] \in Seq(Nat)
                BY <4>1
            <4> QED BY <3>2, <4>1, <4>2 DEF Digits
        <3> QED BY <3>1, <3>2
    <2>3. \A m \in 0 .. n : f[m] \in Seq(Nat)
        OBVIOUS
    <2>4. g \in [0 .. n + 1 -> Seq(Nat)]
        <3> SUFFICES ASSUME NEW m \in 0 .. n + 1
                     PROVE  (IF m = n + 1 THEN Digits(f, n + 1) ELSE f[m]) \in Seq(Nat)
            OBVIOUS
        <3>1. m = n + 1 \/ (m # n + 1 /\ m \in 0 .. n)
            OBVIOUS
        <3> QED BY <2>2, <2>3, <3>1, Zenon
    <2>5. ASSUME NEW m \in 0 .. n + 1 PROVE g[m] = Digits(g, m)
        <3>1. g[m] = Digits(f, m)
            <4>1. m = n + 1 \/ (m # n + 1 /\ m \in 0 .. n)
                OBVIOUS
            <4>2. g[m] = IF m = n + 1 THEN Digits(f, n + 1) ELSE f[m]
                OBVIOUS
            <4> HIDE DEF g
            <4> QED BY <2>1, <4>1, <4>2, Zenon
        <3>2. ~(m < 10) => g[m \div 10] = f[m \div 10]
            <4>1. ~(m < 10) => m \div 10 \in 0 .. n + 1 /\ m \div 10 # n + 1
                BY LastDigit
            <4> QED BY <4>1
        <3> HIDE DEF g
        <3> QED BY <3>1, <3>2, Zenon DEF Digits
    <2> HIDE DEF g
    <2> QED BY <2>4, <2>5
<1> HIDE DEF P
<1>3. S = Nat
    <2>1. 0 \in S
        BY <1>1
    <2>2. \A n \in S : n + 1 \in S
        BY <1>2
    <2> HIDE DEF S
    <2>3. S \subseteq Nat
        BY DEF S
    <2> QED BY <2>1, <2>2, <2>3, NatSetInduction
<1>4. P(N)
    BY <1>3
<1> QED BY <1>4 DEF P

(***************************************************************************)
(* A number comes through: std::stoi reads what std::to_string wrote.      *)
(***************************************************************************)
LEMMA NumberReadsBack ==
    ASSUME NEW n \in Nat
    PROVE  to_string(n) \in Seq(Nat) /\ stoi(to_string(n)) = n
<1> DEFINE G(x) == [m \in 0 .. n |-> IF m < 10 THEN <<48 + m>>
                                     ELSE Append(x[m \div 10], 48 + (m % 10))]
           g == CHOOSE x : x = G(x)
<1>1. to_string(n) = g[n]
    BY DEF to_string
<1>2. PICK f \in [0 .. n -> Seq(Nat)] : \A m \in 0 .. n : f[m] = Digits(f, m)
    BY DigitsExist
<1>3. f = G(f)
    BY <1>2 DEF Digits
<1> HIDE DEF G
<1>4. g = G(g)
    BY <1>3, Zenon
<1> HIDE DEF g
<1>5. g = [m \in 0 .. n |-> Digits(g, m)]
    BY <1>4, Zenon DEF G, Digits
<1>6. \A m \in 0 .. n : g[m] = Digits(g, m)
    BY <1>5, Zenon
<1> DEFINE Good == {m \in 0 .. n : g[m] \in Seq(Nat) /\ stoi(g[m]) = m}
           S == {k \in Nat : \A m \in 0 .. k : m <= n => m \in Good}
<1>7. ASSUME NEW m \in 0 .. n, m < 10 PROVE m \in Good
    <2>1. g[m] = <<48 + m>>
        BY <1>6, <1>7, Zenon DEF Digits
    <2>2. PICK e, c : e = <<>> /\ c = 48 + m
        OBVIOUS
    <2>3. /\ e \in Seq(Nat) /\ c \in Nat /\ c - 48 = m /\ 10 * 0 + m = m
          /\ <<48 + m>> = Append(e, c) /\ <<48 + m>> \in Seq(Nat)
        BY <2>2
    <2>4. stoi(e) = 0
        BY <2>2, StoiEmpty
    <2> HIDE <2>2
    <2>5. stoi(Append(e, c)) = 10 * stoi(e) + (c - 48)
        BY <2>3, StoiAppend
    <2>6. stoi(Append(e, c)) = m
        BY <2>3, <2>4, <2>5, Zenon
    <2>7. g[m] \in Seq(Nat) /\ stoi(g[m]) = m
        BY <2>1, <2>3, <2>6, Zenon
    <2> QED BY <2>7
<1>8. ASSUME NEW m \in 0 .. n, ~(m < 10), m \div 10 \in Good PROVE m \in Good
    <2> DEFINE s == g[m \div 10]
               c == 48 + (m % 10)
    <2>1. g[m] = Append(s, c)
        BY <1>6, <1>8, Zenon DEF Digits
    <2>2. c \in Nat /\ c - 48 = m % 10
        BY LastDigit
    <2>3. s \in Seq(Nat) /\ stoi(s) = m \div 10
        BY <1>8
    <2> HIDE DEF s, c
    <2>4. stoi(Append(s, c)) = 10 * stoi(s) + (c - 48) /\ Append(s, c) \in Seq(Nat)
        BY <2>2, <2>3, StoiAppend
    <2>5. m = 10 * (m \div 10) + (m % 10)
        BY LastDigit
    <2>6. g[m] \in Seq(Nat) /\ stoi(g[m]) = m
        BY <2>1, <2>2, <2>3, <2>4, <2>5, Zenon
    <2> QED BY <2>6
<1> HIDE DEF Good
<1>9. 0 \in S
    <2>1. 0 \in 0 .. n /\ 0 < 10
        OBVIOUS
    <2>2. 0 \in Good
        BY <1>7, <2>1
    <2> QED BY <2>2
<1>10. \A k \in S : k + 1 \in S
    <2> SUFFICES ASSUME NEW k \in Nat, \A j \in 0 .. k : j <= n => j \in Good,
                        NEW m \in 0 .. k + 1, m <= n
                 PROVE  m \in Good
        <3>1. \A k \in Nat : k + 1 \in Nat
            OBVIOUS
        <3> QED BY <3>1, Zenon
    <2>1. k \in Nat /\ \A j \in 0 .. k : j <= n => j \in Good
        OBVIOUS
    <2>2. m \in 0 .. n
        BY <2>1
    <2>3. CASE m < 10
        BY <1>7, <2>2, <2>3
    <2>4. CASE ~(m < 10)
        <3>1. m \div 10 \in 0 .. k /\ m \div 10 <= n
            BY <2>1, <2>2, <2>4, LastDigit
        <3> QED BY <1>8, <2>1, <2>2, <2>4, <3>1
    <2> QED BY <2>3, <2>4
<1>11. S = Nat
    <2>1. S \subseteq Nat
        OBVIOUS
    <2> HIDE DEF S
    <2> QED BY <1>9, <1>10, <2>1, NatSetInduction
<1>12. n \in Good
    <2>1. n \in 0 .. n /\ n <= n
        OBVIOUS
    <2>2. n \in S
        BY <1>11, Zenon
    <2> QED BY <2>1, <2>2, Zenon
<1> QED BY <1>1, <1>12, Zenon DEF Good

-----------------------------------------------------------------------------
(* PART II: the connections.  The clients a connection goes through.       *)

IdleClient == [NoConnection EXCEPT !.fd = "connected"]

PendingClient == [IdleClient EXCEPT !.num_req_sent = 1]

ClosedClient == [NoConnection EXCEPT !.error_code = -1]

(* The response a is the current one. *)
AnsweredClient(a) ==
    [fd |-> "connected", readbuf |-> <<a>>, writebuf |-> << >>,
     response_end_offset |-> 1, cur_row_offset |-> IF a.code = 0 THEN 1 ELSE 0,
     num_flds |-> a.num_flds, num_req_bufd |-> 0, num_req_sent |-> 0,
     num_req_rcvd |-> 1, error_code |-> a.code]

(* An error response was received and never removed. *)
Poisoned(c) ==
    /\ c.readbuf # <<>>
    /\ c = AnsweredClient(Head(c.readbuf))
    /\ Head(c.readbuf).code = 1

(* Closed for good, whatever it has buffered since. *)
Dead(c) ==
    /\ c = [ClosedClient EXCEPT !.fd = c.fd, !.writebuf = c.writebuf,
                                !.num_req_bufd = c.num_req_bufd]
    /\ c.fd \in Fds \ {"connected"}

-----------------------------------------------------------------------------
(* The inductive invariant.                                                *)

(* Where the thread is while it waits for a response on connection k. *)
Calling(k) == IF k = "read_ptr" THEN "reading" ELSE "writing"
AtWait(k) == pc = Waiting(k) \/ pc = Calling(k)

(* The request that the thread waits for on connection k. *)
AwaitedReq(k) == IF pc = Waiting(k) THEN 0 ELSE call
AwaitedOp(k) ==
    IF pc = Waiting(k) THEN "open" ELSE IF k = "read_ptr" THEN "read" ELSE "write"

Pcs == {"open read", "opening read", "open write", "opening write",
        "ready", "reading", "writing", "aborted"}

NothingUnderWay(k) == asked[k] = <<>> /\ told[k] = <<>>

(* The awaited request is with the server, or its answer on the way back. *)
Awaited(k) ==
    \/ /\ told[k] = <<>>
       /\ asked[k] # <<>>
       /\ asked[k] = <<Head(asked[k])>>
       /\ Head(asked[k]).req = AwaitedReq(k)
       /\ Head(asked[k]).op = AwaitedOp(k)
    \/ /\ asked[k] = <<>>
       /\ told[k] # <<>>
       /\ told[k] = <<Head(told[k])>>
       /\ Head(told[k]).req = AwaitedReq(k)
       /\ Head(told[k]).code \in {0, 1}

LinkState(k) ==
    \/ cli[k] = NoConnection /\ NothingUnderWay(k) /\ ~AtWait(k)
    \/ cli[k] = IdleClient /\ NothingUnderWay(k) /\ ~AtWait(k)
    \/ cli[k] = PendingClient /\ Awaited(k) /\ AtWait(k)
    \/ Poisoned(cli[k]) /\ NothingUnderWay(k) /\ ~AtWait(k)
    \/ Dead(cli[k]) /\ told[k] = <<>> /\ ~AtWait(k)

(* InitializeHs opens the read connection first. *)
Unopened ==
    /\ pc = "open read" => cli["read_ptr"] = NoConnection
    /\ pc \in {"open read", "opening read", "open write"}
           => cli["write_ptr"] = NoConnection

(* At most one request is left with the server, after an answer that was   *)
(* not waited for; a write among them was not refused.                     *)
Requests(k) ==
    asked[k] # <<>> =>
        /\ asked[k] = <<Head(asked[k])>>
        /\ Head(asked[k]).op \in {"open", IF k = "read_ptr" THEN "read" ELSE "write"}
        /\ Head(asked[k]).op = "open" => Head(asked[k]).req = 0
        /\ Head(asked[k]).op = "write" => Head(asked[k]).req \in 1 .. call \ refused

(* The write under way was not refused, and unless the answer on its way   *)
(* says so it was not applied.                                             *)
WriteUnderWay ==
    pc = "writing" =>
        /\ call \in 1 .. call \ refused
        /\ \/ call \notin applied
           \/ told["write_ptr"] = <<ModifiedAnswer([req |-> call], 1)>>

Inv ==
    /\ pc \in Pcs
    /\ call \in Nat
    /\ DOMAIN cli = Conns /\ DOMAIN asked = Conns /\ DOMAIN told = Conns
    /\ \A k \in Conns : LinkState(k)
    /\ \A k \in Conns : Requests(k)
    /\ Unopened
    /\ applied \subseteq 1 .. call
    /\ refused \subseteq 1 .. call \ applied
    /\ WriteUnderWay


-----------------------------------------------------------------------------
(* What the methods of the client make of these clients.                   *)

(* Two sequences of at most one element. *)
LEMMA OneElement ==
  ASSUME NEW a
  PROVE  /\ <<>> \o <<a>> = <<a>>
         /\ Append(<<>>, a) = <<a>>
         /\ Tail(<<a>>) = <<>>
         /\ Head(<<a>>) = a
         /\ <<a>> # <<>>
         /\ <<>> \o <<>> = <<>>
         /\ <<a>> \o <<>> = <<a>>
  <1>1. <<>> \in Seq({a}) /\ <<a>> \in Seq({a})
    OBVIOUS
  <1> QED
    BY <1>1

(* out-of-sync use, a failed send and a failed receive close a client. *)
LEMMA OutOfSyncCloses ==
  ASSUME NEW c
  PROVE  OutOfSync(c) = ClosedClient
  BY DEF OutOfSync, set_error, close, NoConnection, ClosedClient

(* A closed client is dead. *)
LEMMA ClosedIsDead == Dead(ClosedClient)
  BY DEF Dead, ClosedClient, NoConnection, Fds

(* A connected client by its other fields, in the order of the struct. *)
ClientOf(readbuf, writebuf, ends, cur, flds, bufd, sent, rcvd, code) ==
    [fd |-> "connected", readbuf |-> readbuf, writebuf |-> writebuf,
     response_end_offset |-> ends, cur_row_offset |-> cur, num_flds |-> flds,
     num_req_bufd |-> bufd, num_req_sent |-> sent, num_req_rcvd |-> rcvd,
     error_code |-> code]

(* The connected clients field by field. *)
LEMMA IdleFields ==
  /\ IdleClient = ClientOf(<<>>, <<>>, 0, 0, 0, 0, 0, 0, 0)
  /\ PendingClient = ClientOf(<<>>, <<>>, 0, 0, 0, 0, 1, 0, 0)
  <1>1. IdleClient = ClientOf(<<>>, <<>>, 0, 0, 0, 0, 0, 0, 0)
    BY DEF IdleClient, NoConnection, ClientOf
  <1> QED
    BY <1>1 DEF PendingClient, ClientOf

(* The same for one whose current response is a. *)
LEMMA AnsweredIs ==
  ASSUME NEW a
  PROVE  AnsweredClient(a) =
             ClientOf(<<a>>, <<>>, 1, IF a.code = 0 THEN 1 ELSE 0, a.num_flds,
                      0, 0, 1, a.code)
  BY DEF AnsweredClient, ClientOf

(* A request on an idle connection is sent whole, or closes it. *)
LEMMA SendIdle ==
  ASSUME NEW r, NEW wrote \in BOOLEAN
  PROVE  request_send(request_buf_exec_generic(IdleClient, r), wrote)
             = IF wrote THEN PendingClient ELSE ClosedClient
  <1> DEFINE b == [IdleClient EXCEPT !.writebuf = <<r>>, !.num_req_bufd = 1]
  <1>1. request_buf_exec_generic(IdleClient, r) = b
    BY OneElement DEF request_buf_exec_generic, IdleClient, NoConnection
  <1>2. /\ b.error_code = 0 /\ b.fd = "connected" /\ b.num_req_bufd = 1
        /\ b.num_req_sent = 0 /\ b.num_req_rcvd = 0
    BY DEF IdleClient, NoConnection
  <1>3. [clear_error(b) EXCEPT !.writebuf = << >>, !.num_req_sent = b.num_req_bufd,
                               !.num_req_bufd = 0] = PendingClient
    <2>0. b = ClientOf(<<>>, <<r>>, 0, 0, 0, 1, 0, 0, 0)
      <3>1. [ClientOf(<<>>, <<>>, 0, 0, 0, 0, 0, 0, 0) EXCEPT !.writebuf = <<r>>]
            = ClientOf(<<>>, <<r>>, 0, 0, 0, 0, 0, 0, 0)
        BY DEF ClientOf
      <3>2. [ClientOf(<<>>, <<r>>, 0, 0, 0, 0, 0, 0, 0) EXCEPT !.num_req_bufd = 1]
            = ClientOf(<<>>, <<r>>, 0, 0, 0, 1, 0, 0, 0)
        BY DEF ClientOf
      <3> QED
        BY <3>1, <3>2, IdleFields
    <2>1. clear_error(b) = ClientOf(<<>>, <<r>>, 0, 0, 0, 1, 0, 0, 0)
      BY <2>0 DEF ClientOf, clear_error, set_error
    <2>2. [ClientOf(<<>>, <<r>>, 0, 0, 0, 1, 0, 0, 0)
              EXCEPT !.writebuf = << >>, !.num_req_sent = 1, !.num_req_bufd = 0]
          = ClientOf(<<>>, <<>>, 0, 0, 0, 0, 1, 0, 0)
      <3>1. [ClientOf(<<>>, <<r>>, 0, 0, 0, 1, 0, 0, 0) EXCEPT !.writebuf = << >>]
            = ClientOf(<<>>, <<>>, 0, 0, 0, 1, 0, 0, 0)
        BY DEF ClientOf
      <3>2. [ClientOf(<<>>, <<>>, 0, 0, 0, 1, 0, 0, 0) EXCEPT !.num_req_sent = 1]
            = ClientOf(<<>>, <<>>, 0, 0, 0, 1, 1, 0, 0)
        BY DEF ClientOf
      <3>3. [ClientOf(<<>>, <<>>, 0, 0, 0, 1, 1, 0, 0) EXCEPT !.num_req_bufd = 0]
            = ClientOf(<<>>, <<>>, 0, 0, 0, 0, 1, 0, 0)
        BY DEF ClientOf
      <3> QED
        BY <3>1, <3>2, <3>3
    <2> HIDE DEF b
    <2> QED
      BY <1>2, <2>1, <2>2, IdleFields
  <1> HIDE DEF b
  <1>4. request_send(b, wrote) =
            IF ~wrote THEN OutOfSync(b)
            ELSE [clear_error(b) EXCEPT !.writebuf = << >>,
                                        !.num_req_sent = b.num_req_bufd,
                                        !.num_req_bufd = 0]
    <2>1. ~(b.error_code < 0) /\ ~(b.num_req_sent > 0) /\ ~(b.num_req_rcvd > 0)
          /\ b.num_req_bufd # 0 /\ b.fd # "none"
      BY <1>2
    <2> QED
      BY <2>1, Zenon DEF request_send
  <1> QED
    BY <1>1, <1>3, <1>4, OutOfSyncCloses, Zenon

(* A request on a client that never connected closes it. *)
LEMMA SendUnopened ==
  ASSUME NEW r, NEW wrote \in BOOLEAN
  PROVE  request_send(request_buf_exec_generic(NoConnection, r), wrote) = ClosedClient
  <1> DEFINE b == [NoConnection EXCEPT !.writebuf = <<r>>, !.num_req_bufd = 1]
  <1>1. request_buf_exec_generic(NoConnection, r) = b
    BY OneElement DEF request_buf_exec_generic, NoConnection
  <1>2. b.error_code = 0 /\ b.fd = "none"
    BY DEF NoConnection
  <1> HIDE DEF b
  <1> QED
    BY <1>1, <1>2, OutOfSyncCloses DEF request_send

(* The fields of the client that an error response has poisoned. *)
LEMMA AnsweredFields ==
  ASSUME NEW a
  PROVE  /\ AnsweredClient(a).num_req_rcvd = 1
         /\ AnsweredClient(a).num_req_sent = 0
         /\ AnsweredClient(a).error_code = a.code
         /\ AnsweredClient(a).readbuf = <<a>>
         /\ AnsweredClient(a).response_end_offset = 1
         /\ AnsweredClient(a).num_flds = a.num_flds
         /\ AnsweredClient(a).cur_row_offset = IF a.code = 0 THEN 1 ELSE 0
         /\ AnsweredClient(a).fd = "connected"
  BY AnsweredIs DEF ClientOf

(* The next request on a poisoned connection closes it. *)
LEMMA SendPoisoned ==
  ASSUME NEW c, NEW r, NEW wrote \in BOOLEAN, Poisoned(c)
  PROVE  request_send(request_buf_exec_generic(c, r), wrote) = ClosedClient
  <1>1. c.num_req_rcvd = 1
    BY AnsweredFields DEF Poisoned
  <1>2. request_buf_exec_generic(c, r) = ClosedClient
    BY <1>1, OutOfSyncCloses DEF request_buf_exec_generic
  <1>3. ClosedClient.error_code < 0
    BY DEF ClosedClient, NoConnection
  <1> QED
    BY <1>2, <1>3 DEF request_send

(* The fields of a dead client that steer it. *)
LEMMA DeadFields ==
  ASSUME NEW c, Dead(c)
  PROVE  /\ c.error_code = -1 /\ c.num_req_sent = 0 /\ c.num_req_rcvd = 0
         /\ c.fd # "connected"
  BY DEF Dead, ClosedClient, NoConnection

(* Nobody reconnects: a dead client stays dead and sends nothing. *)
LEMMA SendDead ==
  ASSUME NEW c, NEW r, NEW wrote \in BOOLEAN, Dead(c)
  PROVE  Dead(request_send(request_buf_exec_generic(c, r), wrote))
  <1> DEFINE b == [c EXCEPT !.writebuf = Append(@, r), !.num_req_bufd = @ + 1]
  <1>1. request_buf_exec_generic(c, r) = b
    BY DeadFields DEF request_buf_exec_generic
  <1>2. Dead(b)
    <2> DEFINE w == Append(c.writebuf, r)
               n == c.num_req_bufd + 1
               f == c.fd
    <2>1. b = [ClosedClient EXCEPT !.fd = f, !.writebuf = w, !.num_req_bufd = n]
      BY DEF Dead, ClosedClient, NoConnection
    <2>2. b.fd = f /\ b.writebuf = w /\ b.num_req_bufd = n
      BY <2>1 DEF ClosedClient, NoConnection
    <2>3. f \in Fds \ {"connected"}
      BY DEF Dead
    <2> QED
      BY <2>1, <2>2, <2>3 DEF Dead
  <1>3. b.error_code < 0
    <2>1. b.error_code = -1
      BY <1>2, DeadFields
    <2> QED
      BY <2>1
  <1> HIDE DEF b
  <1> QED
    BY <1>1, <1>2, <1>3 DEF request_send


(* The constructor gives an idle client, or one that is dead already. *)
LEMMA NewClient ==
  ASSUME NEW outcome \in Fds
  PROVE  IF outcome = "connected" THEN hstcpcli(outcome) = IdleClient
                                  ELSE Dead(hstcpcli(outcome))
  BY DEF hstcpcli, Connected, socket_connect, set_error, IdleClient, Dead,
         ClosedClient, NoConnection, Fds

(* A receive on a connection with one request under way: nothing came. *)
LEMMA ReceiveNothing == response_recv(PendingClient, <<>>) = ClosedClient
  <1>1. PendingClient.error_code = 0 /\ PendingClient.readbuf = <<>>
    BY DEF PendingClient, IdleClient, NoConnection
  <1>2. PendingClient.readbuf \o <<>> = <<>>
    BY <1>1, OneElement
  <1> QED
    BY <1>1, <1>2, OutOfSyncCloses DEF response_recv

(* The response came and becomes the current one. *)
LEMMA ReceiveAnswer ==
  ASSUME NEW a
  PROVE  response_recv(PendingClient, <<a>>) = AnsweredClient(a)
  <1>1. PendingClient.error_code = 0 /\ PendingClient.readbuf = <<>>
    BY DEF PendingClient, IdleClient, NoConnection
  <1>2. PendingClient.readbuf \o <<a>> = <<a>> /\ <<a>> # <<>> /\ Head(<<a>>) = a
    BY <1>1, OneElement
  <1>3. CanReceive(PendingClient)
    BY DEF CanReceive, PendingClient, IdleClient, NoConnection
  <1> DEFINE d == [clear_error(PendingClient) EXCEPT !.readbuf = @ \o <<a>>]
  <1>4. response_recv(PendingClient, <<a>>) = TakeResponse(d)
    <2>1. ~(PendingClient.error_code < 0)
      BY <1>1
    <2> QED
      BY <2>1, <1>2, <1>3, Zenon DEF response_recv
  <1>5. d = ClientOf(<<a>>, <<>>, 0, 0, 0, 0, 1, 0, 0)
    <2>1. clear_error(PendingClient) = PendingClient
      BY IdleFields DEF ClientOf, clear_error, set_error
    <2> QED
      BY <1>1, <1>2, <2>1, IdleFields DEF ClientOf
  <1> HIDE DEF d
  <1>6. d.readbuf = <<a>> /\ d.num_req_sent - 1 = 0 /\ d.num_req_rcvd + 1 = 1
    BY <1>5 DEF ClientOf
  <1>7. TakeResponse(d) = AnsweredClient(a)
    <2>1. TakeResponse(d) =
              [d EXCEPT !.response_end_offset = 1, !.num_req_sent = 0,
                        !.num_req_rcvd = 1, !.num_flds = a.num_flds,
                        !.cur_row_offset = IF a.code = 0 THEN 1 ELSE 0,
                        !.error_code = a.code]
      BY <1>2, <1>5, <1>6 DEF TakeResponse, ClientOf
    <2> QED
      BY <2>1, <1>5, AnsweredIs DEF ClientOf
  <1> QED
    BY <1>4, <1>7

(* Removing the current response leaves the connection idle. *)
LEMMA RemoveAnswer ==
  ASSUME NEW a, a.code = 0
  PROVE  response_buf_remove(AnsweredClient(a)) = IdleClient
  <1>1. AnsweredClient(a).response_end_offset # 0
    BY AnsweredFields
  <1>2. Tail(AnsweredClient(a).readbuf) = <<>>
    BY AnsweredFields, OneElement
  <1>3. response_buf_remove(AnsweredClient(a)) =
            [AnsweredClient(a) EXCEPT !.readbuf = <<>>, !.response_end_offset = 0,
                                      !.num_req_rcvd = 0, !.cur_row_offset = 0,
                                      !.num_flds = 0]
    <2>1. AnsweredClient(a).num_req_rcvd - 1 = 0
      BY AnsweredFields
    <2> QED
      BY <1>1, <1>2, <2>1, AnsweredIs DEF response_buf_remove, ClientOf
  <1> QED
    BY <1>3, AnsweredIs, IdleFields, ZenonT(40) DEF ClientOf

(* The four kinds of client as HsLink names them, told apart. *)
LEMMA LinkOfClient ==
  /\ Link(NoConnection) = "good" /\ NoConnection.num_req_sent = 0
  /\ NoConnection.error_code = 0
  /\ Link(IdleClient) = "good" /\ IdleClient.num_req_sent = 0
  /\ IdleClient.error_code = 0
  /\ Link(PendingClient) = "good" /\ PendingClient.num_req_sent = 1
  /\ PendingClient.error_code = 0
  /\ PendingClient.fd = "connected"
  /\ Link(ClosedClient) = "dead" /\ ClosedClient.num_req_sent = 0
  /\ ClosedClient.error_code = -1
  /\ NoConnection # PendingClient /\ IdleClient # PendingClient
  <1>1. /\ NoConnection.error_code = 0 /\ NoConnection.num_req_rcvd = 0
        /\ NoConnection.num_req_sent = 0
    BY DEF NoConnection
  <1>2. /\ IdleClient.error_code = 0 /\ IdleClient.num_req_rcvd = 0
        /\ IdleClient.num_req_sent = 0
    BY DEF IdleClient, NoConnection
  <1>3. /\ PendingClient.error_code = 0 /\ PendingClient.num_req_rcvd = 0
        /\ PendingClient.num_req_sent = 1 /\ PendingClient.fd = "connected"
    BY DEF PendingClient, IdleClient, NoConnection
  <1>4. ClosedClient.error_code = -1 /\ ClosedClient.num_req_sent = 0
    BY DEF ClosedClient, NoConnection
  <1> QED
    BY <1>1, <1>2, <1>3, <1>4 DEF Link

(* A poisoned client is poisoned, and not one with a request under way. *)
LEMMA LinkOfPoisoned ==
  ASSUME NEW c, Poisoned(c)
  PROVE  Link(c) = "poisoned" /\ c # PendingClient /\ c.error_code = 1
         /\ c.num_req_sent = 0
  <1>1. c.error_code = 1 /\ c.num_req_rcvd = 1 /\ c.num_req_sent = 0
    BY AnsweredFields DEF Poisoned
  <1>2. c # PendingClient
    BY <1>1, LinkOfClient
  <1> QED
    BY <1>1, <1>2 DEF Link

(* A dead client is dead, and not one with a request under way. *)
LEMMA LinkOfDead ==
  ASSUME NEW c, Dead(c)
  PROVE  Link(c) = "dead" /\ c # PendingClient
  <1>1. c.error_code = -1 /\ c.num_req_rcvd = 0 /\ c.num_req_sent = 0
    BY DeadFields
  <1>2. c # PendingClient
    BY <1>1, LinkOfClient
  <1> QED
    BY <1>1, <1>2 DEF Link


-----------------------------------------------------------------------------
(* What a call does to its connection.                                     *)

(* The thread waits on one connection at a time. *)
LEMMA OneWait ==
  ASSUME NEW j \in Conns, NEW k \in Conns, j # k, NEW p,
         p = Waiting(k) \/ p = Calling(k)
  PROVE  p # Waiting(j) /\ p # Calling(j)
  <1>1. CASE k = "read_ptr"
    BY <1>1 DEF Waiting, Calling, Conns
  <1>2. CASE k = "write_ptr"
    BY <1>2 DEF Waiting, Calling, Conns
  <1> QED
    BY <1>1, <1>2 DEF Conns

(* Without a wait no request is under way that the client knows of. *)
LEMMA NoWaitNoPending ==
  ASSUME NEW k \in Conns, LinkState(k)
  PROVE  AtWait(k) <=> cli[k] = PendingClient
  BY LinkOfClient, LinkOfPoisoned, LinkOfDead DEF LinkState

(* A connection that a step leaves alone, and on which nobody waits. *)
LEMMA QuietLink ==
  ASSUME NEW j \in Conns, LinkState(j), ~AtWait(j), ~AtWait(j)',
         cli'[j] = cli[j], asked'[j] = asked[j], told'[j] = told[j]
  PROVE  LinkState(j)'
  BY DEF LinkState, NothingUnderWay

(* Its leftover request stays one that was not refused. *)
LEMMA QuietRequests ==
  ASSUME NEW j \in Conns, Requests(j), asked'[j] = asked[j],
         \A n \in 1 .. call \ refused : n \in 1 .. call' \ refused'
  PROVE  Requests(j)'
  <1> SUFFICES ASSUME asked'[j] # <<>> PROVE Requests(j)'
    BY DEF Requests
  <1>1. Head(asked[j]).op = "write"
            => Head(asked[j]).req \in 1 .. call' \ refused'
    BY DEF Requests
  <1> QED
    BY <1>1, Zenon DEF Requests

(* A request sent on an idle or a new connection becomes the awaited one;  *)
(* otherwise the connection is dead and the server sees nothing.           *)
LEMMA SendRequestEffect ==
  ASSUME NEW k \in Conns, NEW c, NEW r, NEW wrote \in BOOLEAN,
         DOMAIN cli = Conns, DOMAIN asked = Conns,
         c = NoConnection \/ c = IdleClient \/ Poisoned(c) \/ Dead(c),
         SendRequest(k, c, r, wrote)
  PROVE  /\ DOMAIN cli' = Conns /\ DOMAIN asked' = Conns
         /\ \A j \in Conns \ {k} : cli'[j] = cli[j] /\ asked'[j] = asked[j]
         /\ \/ /\ c = IdleClient /\ cli'[k] = PendingClient
               /\ asked'[k] = Append(asked[k], r)
            \/ Dead(cli'[k]) /\ asked'[k] = asked[k]
  <1> DEFINE d == request_send(request_buf_exec_generic(c, r), wrote)
  <1>1. \/ c = IdleClient /\ d = PendingClient
        \/ Dead(d)
    BY SendIdle, SendUnopened, SendPoisoned, SendDead, ClosedIsDead
  <1>2. /\ cli' = [cli EXCEPT ![k] = d]
        /\ asked' = [asked EXCEPT ![k] = IF d.num_req_sent > 0
                                         THEN Append(asked[k], r) ELSE asked[k]]
    BY DEF SendRequest
  <1> HIDE DEF d
  <1>3. CASE c = IdleClient /\ d = PendingClient
    <2>1. d.num_req_sent > 0
      <3>1. d.num_req_sent = 1
        BY <1>3, LinkOfClient
      <3> QED
        BY <3>1
    <2> QED
      BY <1>2, <1>3, <2>1
  <1>4. CASE Dead(d)
    <2>1. ~(d.num_req_sent > 0)
      <3>1. d.num_req_sent = 0
        BY <1>4, DeadFields
      <3> QED
        BY <3>1
    <2> QED
      BY <1>2, <1>4, <2>1
  <1> QED
    BY <1>1, <1>3, <1>4

(* The link after a send, as HsLink predicts it. *)
LEMMA SendRequestLink ==
  ASSUME NEW k \in Conns, NEW c, NEW r, NEW wrote \in BOOLEAN,
         DOMAIN cli = Conns, DOMAIN asked = Conns,
         c = NoConnection \/ c = IdleClient \/ Poisoned(c) \/ Dead(c),
         SendRequest(k, c, r, wrote)
  PROVE  Link(cli'[k]) \in SendLinks(Link(c))
  <1>1. \/ c = IdleClient /\ cli'[k] = PendingClient
        \/ Dead(cli'[k])
    BY SendRequestEffect
  <1>2. Link(c) = "good" => "good" \in SendLinks(Link(c))
    BY DEF SendLinks
  <1>3. "dead" \in SendLinks(Link(c))
    BY DEF SendLinks
  <1> QED
    BY <1>1, <1>2, <1>3, LinkOfClient, LinkOfDead

(* A wait ends with the answer to the request that was sent, or with a     *)
(* closed connection.                                                      *)
LEMMA ReceiveEffect ==
  ASSUME NEW k \in Conns, NEW lost \in BOOLEAN, LinkState(k), AtWait(k),
         Arrival(k, lost)
  PROVE  \/ Received(k, Arrivals(k, lost)) = ClosedClient /\ lost
         \/ /\ Received(k, Arrivals(k, lost)) = AnsweredClient(Head(told[k]))
            /\ asked[k] = <<>>
            /\ told[k] = <<Head(told[k])>>
            /\ Head(told[k]).req = AwaitedReq(k)
            /\ Head(told[k]).code \in {0, 1}
  <1>1. cli[k] = PendingClient /\ Awaited(k)
    BY DEF LinkState
  <1>2. CASE lost
    BY <1>1, <1>2, ReceiveNothing DEF Received, Arrivals
  <1>3. CASE ~lost
    <2>1. told[k] # <<>>
      BY <1>3 DEF Arrival
    <2>2. /\ asked[k] = <<>> /\ told[k] = <<Head(told[k])>>
          /\ Head(told[k]).req = AwaitedReq(k) /\ Head(told[k]).code \in {0, 1}
      BY <1>1, <2>1 DEF Awaited
    <2>3. Received(k, Arrivals(k, lost)) = response_recv(PendingClient, told[k])
      BY <1>1, <1>3 DEF Received, Arrivals
    <2>4. response_recv(PendingClient, <<Head(told[k])>>) = AnsweredClient(Head(told[k]))
      BY ReceiveAnswer
    <2> QED
      BY <2>2, <2>3, <2>4
  <1> QED
    BY <1>2, <1>3


-----------------------------------------------------------------------------
(* Every step preserves the invariant.                                     *)

(* The invariant holds before InitializeHs. *)
LEMMA InvInit == Init => Inv
  <1> SUFFICES ASSUME Init PROVE Inv
    OBVIOUS
  <1>1. \A k \in Conns : cli[k] = NoConnection /\ asked[k] = <<>> /\ told[k] = <<>>
    BY DEF Init
  <1>2. pc = "open read" /\ call = 0
    BY DEF Init, Opening
  <1>3. \A k \in Conns : ~AtWait(k)
    BY <1>2 DEF AtWait, Waiting, Calling, Conns
  <1>4. \A k \in Conns : LinkState(k)
    BY <1>1, <1>3 DEF LinkState, NothingUnderWay
  <1>5. \A k \in Conns : Requests(k)
    BY <1>1 DEF Requests
  <1>6. Unopened
    BY <1>1 DEF Unopened, Conns
  <1>7. WriteUnderWay
    BY <1>2 DEF WriteUnderWay
  <1>8. applied \subseteq 1 .. call /\ refused \subseteq 1 .. call \ applied
    BY DEF Init
  <1>9. DOMAIN cli = Conns /\ DOMAIN asked = Conns /\ DOMAIN told = Conns
    BY DEF Init
  <1> QED
    BY <1>2, <1>4, <1>5, <1>6, <1>7, <1>8, <1>9 DEF Inv, Pcs

(* InitializeHs up to its wait. *)
LEMMA OpenSendStep ==
  ASSUME Inv, NEW k \in Conns, NEW outcome \in Fds, NEW wrote \in BOOLEAN,
         OpenSend(k, outcome, wrote)
  PROVE  Inv'
  <1> DEFINE r == [op |-> "open", req |-> 0]
             c == hstcpcli(outcome)
  <1>1. /\ pc = Opening(k)
        /\ SendRequest(k, c, r, wrote)
        /\ pc' = IF cli'[k].error_code # 0 THEN "aborted" ELSE Waiting(k)
        /\ UNCHANGED <<told, call, applied, refused>>
    BY DEF OpenSend, ThreadRest
  <1>2. c = IdleClient \/ Dead(c)
    BY NewClient
  <1>3. DOMAIN cli = Conns /\ DOMAIN asked = Conns /\ DOMAIN told = Conns
        /\ LinkState(k) /\ Unopened /\ call \in Nat
        /\ applied \subseteq 1 .. call /\ refused \subseteq 1 .. call \ applied
        /\ \A j \in Conns : LinkState(j) /\ Requests(j)
    BY DEF Inv
  <1> HIDE DEF c
  <1>4. /\ DOMAIN cli' = Conns /\ DOMAIN asked' = Conns
        /\ \A j \in Conns \ {k} : cli'[j] = cli[j] /\ asked'[j] = asked[j]
        /\ \/ cli'[k] = PendingClient /\ asked'[k] = Append(asked[k], r)
           \/ Dead(cli'[k]) /\ asked'[k] = asked[k]
    BY <1>1, <1>2, <1>3, SendRequestEffect
  <1>5. cli[k] = NoConnection
    BY <1>1, <1>3 DEF Unopened, Opening, Conns
  <1>6. asked[k] = <<>> /\ told[k] = <<>>
    <2>1. cli[k] # IdleClient /\ ~Poisoned(cli[k]) /\ ~Dead(cli[k]) /\ cli[k] # PendingClient
      <3>1. cli[k].error_code = 0 /\ cli[k].fd = "none"
        BY <1>5 DEF NoConnection
      <3>2. IdleClient.fd = "connected" /\ PendingClient.fd = "connected"
        BY IdleFields DEF ClientOf
      <3> QED
        BY <3>1, <3>2, LinkOfPoisoned, DeadFields
    <2> QED
      BY <1>3, <2>1 DEF LinkState, NothingUnderWay
  <1>7. \A j \in Conns : ~AtWait(j)
    BY <1>1 DEF AtWait, Opening, Waiting, Calling, Conns
  <1>8. CASE cli'[k] = PendingClient /\ asked'[k] = Append(asked[k], r)
    <2>1. asked'[k] = <<r>> /\ asked'[k] # <<>> /\ Head(asked'[k]) = r
      BY <1>6, <1>8, OneElement
    <2>2. pc' = Waiting(k)
      BY <1>1, <1>8, LinkOfClient
    <2>3. AtWait(k)'
      BY <2>2 DEF AtWait
    <2>4. Awaited(k)'
      BY <1>1, <1>6, <2>1, <2>2 DEF Awaited, AwaitedReq, AwaitedOp
    <2>5. LinkState(k)'
      BY <1>8, <2>3, <2>4 DEF LinkState
    <2>6. \A j \in Conns \ {k} : ~AtWait(j)'
      BY <2>2, OneWait DEF AtWait
    <2>7. \A j \in Conns : LinkState(j)'
      BY <1>1, <1>3, <1>4, <1>7, <2>5, <2>6, QuietLink
    <2>8. Requests(k)'
      BY <2>1 DEF Requests
    <2>9. \A j \in Conns : Requests(j)'
      BY <1>1, <1>3, <1>4, <2>8, QuietRequests
    <2>10. Unopened'
      BY <1>1, <1>3, <1>4, <2>2 DEF Unopened, Waiting, Opening, Conns
    <2>11. WriteUnderWay' /\ pc' \in Pcs
      BY <2>2 DEF WriteUnderWay, Waiting, Pcs
    <2> QED
      BY <1>1, <1>3, <1>4, <2>7, <2>9, <2>10, <2>11 DEF Inv
  <1>9. CASE Dead(cli'[k]) /\ asked'[k] = asked[k]
    <2>1. cli'[k].error_code # 0
      BY <1>9, DeadFields
    <2>2. pc' = "aborted"
      BY <1>1, <2>1
    <2>3. \A j \in Conns : ~AtWait(j)'
      BY <2>2 DEF AtWait, Waiting, Calling
    <2>4. LinkState(k)'
      BY <1>1, <1>6, <1>9, <2>3 DEF LinkState
    <2>5. \A j \in Conns : LinkState(j)'
      BY <1>1, <1>3, <1>4, <1>7, <2>3, <2>4, QuietLink
    <2>6. \A j \in Conns : Requests(j)'
      BY <1>1, <1>3, <1>4, <1>9, QuietRequests
    <2>7. Unopened' /\ WriteUnderWay' /\ pc' \in Pcs
      BY <2>2 DEF Unopened, WriteUnderWay, Pcs
    <2> QED
      BY <1>1, <1>3, <1>4, <2>5, <2>6, <2>7 DEF Inv
  <1> QED
    BY <1>4, <1>8, <1>9


(* The connection after a wait: idle, poisoned or dead. *)
LEMMA ReceivedLink ==
  ASSUME Inv, NEW k \in Conns, NEW lost \in BOOLEAN, AtWait(k), Arrival(k, lost),
         NEW c, c = Received(k, Arrivals(k, lost)),
         cli' = [cli EXCEPT ![k] = IF c.error_code = 0
                                   THEN response_buf_remove(c) ELSE c],
         told' = [told EXCEPT ![k] = <<>>], asked' = asked,
         \A j \in Conns : ~AtWait(j)'
  PROVE  /\ DOMAIN cli' = Conns /\ DOMAIN told' = Conns
         /\ \A j \in Conns : LinkState(j)'
         /\ \A j \in Conns \ {k} : cli'[j] = cli[j]
         /\ c.error_code = 0 => Link(cli'[k]) = "good"
         /\ c.error_code # 0 => Link(cli'[k]) # "good"
         /\ c.error_code \in {-1, 0, 1}
  <1> DEFINE a == Head(told[k])
             d == IF c.error_code = 0 THEN response_buf_remove(c) ELSE c
  <1>1. DOMAIN cli = Conns /\ DOMAIN told = Conns /\ \A j \in Conns : LinkState(j)
    BY DEF Inv
  <1>2. \/ c = ClosedClient
        \/ c = AnsweredClient(a) /\ asked[k] = <<>> /\ a.code \in {0, 1}
    BY <1>1, ReceiveEffect
  <1> HIDE DEF a
  <1>3. /\ \/ d = IdleClient /\ asked[k] = <<>>
           \/ Poisoned(d) /\ asked[k] = <<>>
           \/ Dead(d)
        /\ c.error_code = 0 => Link(d) = "good"
        /\ c.error_code # 0 => Link(d) # "good"
        /\ c.error_code \in {-1, 0, 1}
    <2>1. CASE c = ClosedClient
      BY <2>1, ClosedIsDead, LinkOfClient
    <2>2. CASE c = AnsweredClient(a) /\ asked[k] = <<>> /\ a.code = 0
      BY <2>2, AnsweredFields, RemoveAnswer, LinkOfClient
    <2>3. CASE c = AnsweredClient(a) /\ asked[k] = <<>> /\ a.code = 1
      <3>1. c.readbuf = <<a>> /\ c.error_code = 1
        BY <2>3, AnsweredFields
      <3>2. Head(c.readbuf) = a /\ c.readbuf # <<>>
        BY <3>1, OneElement
      <3>3. Poisoned(c)
        BY <2>3, <3>2 DEF Poisoned
      <3> QED
        BY <2>3, <3>1, <3>3, LinkOfPoisoned
    <2> QED
      BY <1>2, <2>1, <2>2, <2>3
  <1>4. /\ cli'[k] = d
        /\ told'[k] = <<>>
        /\ DOMAIN cli' = Conns /\ DOMAIN told' = Conns
        /\ \A j \in Conns \ {k} : cli'[j] = cli[j] /\ told'[j] = told[j]
    BY <1>1
  <1> HIDE DEF d
  <1>5. LinkState(k)'
    BY <1>3, <1>4 DEF LinkState, NothingUnderWay
  <1>6. \A j \in Conns \ {k} : ~AtWait(j)
    BY OneWait DEF AtWait
  <1>7. \A j \in Conns \ {k} : LinkState(j)'
    BY <1>1, <1>4, <1>6, QuietLink
  <1> QED
    BY <1>3, <1>4, <1>5, <1>7

(* InitializeHs after its wait. *)
LEMMA OpenRecvStep ==
  ASSUME Inv, NEW k \in Conns, NEW lost \in BOOLEAN, OpenRecv(k, lost)
  PROVE  Inv'
  <1> DEFINE c == Received(k, Arrivals(k, lost))
  <1>1. /\ pc = Waiting(k)
        /\ Arrival(k, lost)
        /\ cli' = [cli EXCEPT ![k] = IF c.error_code = 0
                                     THEN response_buf_remove(c) ELSE c]
        /\ pc' = CASE c.error_code > 0 -> "aborted"
                   [] k = "read_ptr" /\ c.error_code <= 0 -> Opening("write_ptr")
                   [] OTHER -> "ready"
        /\ told' = [told EXCEPT ![k] = <<>>]
        /\ asked' = asked
        /\ UNCHANGED <<call, applied, refused>>
    BY DEF OpenRecv, ThreadRest
  <1> HIDE DEF c
  <1>2. /\ pc' \in {"aborted", "open write", "ready"}
        /\ pc' = "open write" => k = "read_ptr"
    BY <1>1 DEF Opening
  <1>3. \A j \in Conns : ~AtWait(j)'
    BY <1>2 DEF AtWait, Waiting, Calling
  <1>4. AtWait(k)
    BY <1>1 DEF AtWait
  <1>5. /\ DOMAIN cli' = Conns /\ DOMAIN told' = Conns
        /\ \A j \in Conns : LinkState(j)'
        /\ \A j \in Conns \ {k} : cli'[j] = cli[j]
    BY <1>1, <1>3, <1>4, ReceivedLink DEF c
  <1>6. \A j \in Conns : Requests(j)'
    BY <1>1, QuietRequests DEF Inv
  <1>7. Unopened'
    <2>1. pc' = "open write" => cli["write_ptr"] = NoConnection
      BY <1>1, <1>2 DEF Inv, Unopened, Waiting
    <2>2. pc' = "open write" => cli'["write_ptr"] = cli["write_ptr"]
      BY <1>2, <1>5 DEF Conns
    <2> QED
      BY <1>2, <2>1, <2>2 DEF Unopened
  <1>8. WriteUnderWay' /\ pc' \in Pcs
    BY <1>2 DEF WriteUnderWay, Pcs
  <1> QED
    BY <1>1, <1>5, <1>6, <1>7, <1>8 DEF Inv

(* A call of ReadCustomerHs or WriteCustomerHs up to its wait. *)
LEMMA SentLink ==
  ASSUME Inv, NEW k \in Conns, NEW r, NEW wrote \in BOOLEAN,
         pc = "ready", SendRequest(k, cli[k], r, wrote), told' = told,
         call' = call + 1, r.req = call',
         r.op = IF k = "read_ptr" THEN "read" ELSE "write",
         pc' = IF cli'[k].error_code # 0 THEN "ready" ELSE Calling(k)
  PROVE  /\ DOMAIN cli' = Conns /\ DOMAIN asked' = Conns
         /\ \A j \in Conns : LinkState(j)'
         /\ \A j \in Conns \ {k} : cli'[j] = cli[j] /\ asked'[j] = asked[j]
         /\ Link(cli'[k]) \in SendLinks(Link(cli[k]))
         /\ \/ pc' = Calling(k) /\ asked'[k] = <<r>>
            \/ pc' = "ready" /\ asked'[k] = asked[k] /\ cli'[k].error_code # 0
  <1>1. DOMAIN cli = Conns /\ DOMAIN asked = Conns /\ \A j \in Conns : LinkState(j)
    BY DEF Inv
  <1>2. \A j \in Conns : ~AtWait(j)
    BY DEF AtWait, Waiting, Calling
  <1>3. /\ cli[k] = NoConnection \/ cli[k] = IdleClient \/ Poisoned(cli[k]) \/ Dead(cli[k])
        /\ told[k] = <<>>
        /\ cli[k] = IdleClient => asked[k] = <<>>
    <2>1. Dead(cli[k]) => cli[k] # IdleClient
      BY LinkOfDead, LinkOfClient
    <2> QED
      BY <1>1, <1>2, <2>1 DEF LinkState, NothingUnderWay
  <1>4. /\ DOMAIN cli' = Conns /\ DOMAIN asked' = Conns
        /\ \A j \in Conns \ {k} : cli'[j] = cli[j] /\ asked'[j] = asked[j]
        /\ \/ /\ cli[k] = IdleClient /\ cli'[k] = PendingClient
              /\ asked'[k] = Append(asked[k], r)
           \/ Dead(cli'[k]) /\ asked'[k] = asked[k]
    BY <1>1, <1>3, SendRequestEffect
  <1>5. Link(cli'[k]) \in SendLinks(Link(cli[k]))
    BY <1>1, <1>3, SendRequestLink
  <1>6. \A j \in Conns \ {k} : ~AtWait(j)'
    <2>1. pc' = "ready" \/ pc' = Calling(k)
      OBVIOUS
    <2>2. pc' = "ready" => \A j \in Conns : ~AtWait(j)'
      BY DEF AtWait, Waiting, Calling
    <2> QED
      BY <2>1, <2>2, OneWait DEF AtWait
  <1>7. \A j \in Conns \ {k} : LinkState(j)'
    BY <1>1, <1>2, <1>4, <1>6, QuietLink
  <1>8. CASE cli[k] = IdleClient /\ cli'[k] = PendingClient
              /\ asked'[k] = Append(asked[k], r)
    <2>1. asked'[k] = <<r>> /\ asked'[k] # <<>> /\ Head(asked'[k]) = r
      BY <1>3, <1>8, OneElement
    <2>2. pc' = Calling(k)
      BY <1>8, LinkOfClient
    <2>3. pc' # Waiting(k)
      BY <2>2 DEF Waiting, Calling
    <2>4. Awaited(k)'
      BY <1>3, <2>1, <2>3 DEF Awaited, AwaitedReq, AwaitedOp
    <2>5. LinkState(k)'
      BY <1>8, <2>2, <2>4 DEF LinkState, AtWait
    <2> QED
      BY <1>4, <1>5, <1>7, <2>1, <2>2, <2>5
  <1>9. CASE Dead(cli'[k]) /\ asked'[k] = asked[k]
    <2>1. cli'[k].error_code # 0
      BY <1>9, DeadFields
    <2>2. pc' = "ready"
      BY <2>1
    <2>3. ~AtWait(k)'
      BY <2>2 DEF AtWait, Waiting, Calling
    <2>4. LinkState(k)'
      BY <1>3, <1>9, <2>3 DEF LinkState
    <2> QED
      BY <1>4, <1>5, <1>7, <1>9, <2>1, <2>2, <2>4
  <1> QED
    BY <1>4, <1>8, <1>9


(* ReadCustomerHs up to its wait. *)
LEMMA ReadSendStep ==
  ASSUME Inv, NEW wrote \in BOOLEAN, ReadSend(wrote)
  PROVE  Inv' /\ Link(cli'["read_ptr"]) \in SendLinks(Link(cli["read_ptr"]))
              /\ cli'["write_ptr"] = cli["write_ptr"]
  <1> DEFINE r == [op |-> "read", req |-> call', kvs |-> append_delim_value(Id)]
  <1>1. /\ pc = "ready"
        /\ call' = call + 1
        /\ SendRequest("read_ptr", cli["read_ptr"], r, wrote)
        /\ pc' = IF cli'["read_ptr"].error_code # 0 THEN "ready" ELSE "reading"
        /\ told' = told
        /\ UNCHANGED <<applied, refused>>
    BY DEF ReadSend, ThreadRest
  <1>2. r.req = call' /\ r.op = "read" /\ r # <<>>
    OBVIOUS
  <1>3. "read_ptr" \in Conns /\ "write_ptr" \in Conns /\ Calling("read_ptr") = "reading"
    BY DEF Conns, Calling
  <1> HIDE DEF r
  <1>4. /\ DOMAIN cli' = Conns /\ DOMAIN asked' = Conns
        /\ \A j \in Conns : LinkState(j)'
        /\ \A j \in Conns \ {"read_ptr"} : cli'[j] = cli[j] /\ asked'[j] = asked[j]
        /\ Link(cli'["read_ptr"]) \in SendLinks(Link(cli["read_ptr"]))
        /\ \/ pc' = "reading" /\ asked'["read_ptr"] = <<r>>
           \/ pc' = "ready" /\ asked'["read_ptr"] = asked["read_ptr"]
    BY <1>1, <1>2, <1>3, SentLink
  <1>5. call \in Nat /\ \A j \in Conns : Requests(j)
    BY DEF Inv
  <1>6. \A n \in 1 .. call \ refused : n \in 1 .. call' \ refused'
    BY <1>1, <1>5
  <1>7. asked'["read_ptr"] = <<r>> => Requests("read_ptr")'
    <2>1. Head(<<r>>) = r
      BY OneElement
    <2> QED
      BY <1>2, <2>1 DEF Requests
  <1>8. \A j \in Conns : Requests(j)'
    BY <1>3, <1>4, <1>5, <1>6, <1>7, QuietRequests
  <1>9. Unopened' /\ WriteUnderWay' /\ pc' \in Pcs
    BY <1>4 DEF Unopened, WriteUnderWay, Pcs
  <1>10. applied' \subseteq 1 .. call' /\ refused' \subseteq 1 .. call' \ applied'
         /\ call' \in Nat
    BY <1>1 DEF Inv
  <1> QED
    BY <1>1, <1>3, <1>4, <1>8, <1>9, <1>10 DEF Inv

(* WriteCustomerHs up to its wait: a request that was not sent is refused. *)
LEMMA WriteSendStep ==
  ASSUME Inv, NEW wrote \in BOOLEAN, WriteSend(wrote)
  PROVE  Inv' /\ Link(cli'["write_ptr"]) \in SendLinks(Link(cli["write_ptr"]))
              /\ cli'["read_ptr"] = cli["read_ptr"]
  <1> DEFINE r == [op |-> "write", req |-> call',
                   kvs |-> append_delim_values(<<Id, to_string(version)>>),
                   mvs |-> append_delim_values(
                               <<Id, Blob(call'), to_string(version + 1)>>)]
  <1>1. /\ pc = "ready"
        /\ call' = call + 1
        /\ SendRequest("write_ptr", cli["write_ptr"], r, wrote)
        /\ pc' = IF cli'["write_ptr"].error_code # 0 THEN "ready" ELSE "writing"
        /\ refused' = IF cli'["write_ptr"].error_code # 0
                      THEN refused \cup {call'} ELSE refused
        /\ told' = told
        /\ UNCHANGED applied
    BY DEF WriteSend, ThreadRest
  <1>2. r.req = call' /\ r.op = "write"
    OBVIOUS
  <1>3. "read_ptr" \in Conns /\ "write_ptr" \in Conns /\ Calling("write_ptr") = "writing"
    BY DEF Conns, Calling
  <1> HIDE DEF r
  <1>4. /\ DOMAIN cli' = Conns /\ DOMAIN asked' = Conns
        /\ \A j \in Conns : LinkState(j)'
        /\ \A j \in Conns \ {"write_ptr"} : cli'[j] = cli[j] /\ asked'[j] = asked[j]
        /\ Link(cli'["write_ptr"]) \in SendLinks(Link(cli["write_ptr"]))
        /\ \/ pc' = "writing" /\ asked'["write_ptr"] = <<r>>
           \/ /\ pc' = "ready" /\ asked'["write_ptr"] = asked["write_ptr"]
              /\ cli'["write_ptr"].error_code # 0
    BY <1>1, <1>2, <1>3, SentLink
  <1>5. /\ call \in Nat /\ call' \in Nat /\ \A j \in Conns : Requests(j)
        /\ applied \subseteq 1 .. call /\ refused \subseteq 1 .. call \ applied
    BY <1>1 DEF Inv
  <1>6. /\ refused' = IF pc' = "ready" THEN refused \cup {call'} ELSE refused
        /\ pc' = "writing" \/ pc' = "ready"
    BY <1>1
  <1>7. \A n \in 1 .. call \ refused : n \in 1 .. call' \ refused'
    BY <1>1, <1>5, <1>6
  <1>8. pc' = "writing" => call' \in 1 .. call' \ refused' /\ call' \notin applied'
    BY <1>1, <1>5, <1>6
  <1>9. pc' = "writing" => Requests("write_ptr")'
    <2>1. SUFFICES ASSUME pc' = "writing" PROVE Requests("write_ptr")'
      OBVIOUS
    <2>2. asked'["write_ptr"] = <<r>> /\ Head(<<r>>) = r
      BY <1>4, <2>1, OneElement
    <2> QED
      BY <1>2, <1>8, <2>1, <2>2 DEF Requests
  <1>10. \A j \in Conns : Requests(j)'
    BY <1>3, <1>4, <1>5, <1>7, <1>9, QuietRequests
  <1>11. Unopened' /\ WriteUnderWay' /\ pc' \in Pcs
    BY <1>6, <1>8 DEF Unopened, WriteUnderWay, Pcs
  <1>12. applied' \subseteq 1 .. call' /\ refused' \subseteq 1 .. call' \ applied'
    BY <1>1, <1>5, <1>6
  <1>13. DOMAIN told' = Conns
    BY <1>1 DEF Inv
  <1> QED
    BY <1>3, <1>4, <1>5, <1>10, <1>11, <1>12, <1>13 DEF Inv

(* ReadCustomerHs after its wait. *)
LEMMA ReadRecvStep ==
  ASSUME Inv, NEW lost \in BOOLEAN, ReadRecv(lost)
  PROVE  /\ Inv'
         /\ ret' = "true" <=> Link(cli'["read_ptr"]) = "good"
         /\ ret' = "true" => seen' = call
  <1> DEFINE k == "read_ptr"
             c == Received(k, Arrivals(k, lost))
  <1>1. /\ pc = "reading" /\ pc' = "ready"
        /\ Arrival(k, lost)
        /\ cli' = [cli EXCEPT ![k] = IF c.error_code = 0
                                     THEN response_buf_remove(c) ELSE c]
        /\ ret' = IF c.error_code # 0 THEN "false" ELSE "true"
        /\ c.error_code = 0 => seen' = Head(c.readbuf).req
        /\ told' = [told EXCEPT ![k] = <<>>]
        /\ asked' = asked
        /\ UNCHANGED <<call, applied, refused>>
    BY DEF ReadRecv, ThreadRest
  <1>2. k \in Conns /\ AtWait(k)
    BY <1>1 DEF Conns, AtWait, Calling
  <1>3. \A j \in Conns : ~AtWait(j)'
    BY <1>1 DEF AtWait, Waiting, Calling
  <1> HIDE DEF c, k
  <1>4. /\ DOMAIN cli' = Conns /\ DOMAIN told' = Conns
        /\ \A j \in Conns : LinkState(j)'
        /\ c.error_code = 0 => Link(cli'[k]) = "good"
        /\ c.error_code # 0 => Link(cli'[k]) # "good"
    BY <1>1, <1>2, <1>3, ReceivedLink DEF c
  <1>5. \A j \in Conns : Requests(j)'
    BY <1>1, QuietRequests DEF Inv
  <1>6. Unopened' /\ WriteUnderWay' /\ pc' \in Pcs
    BY <1>1 DEF Unopened, WriteUnderWay, Pcs
  <1>7. Inv'
    BY <1>1, <1>4, <1>5, <1>6 DEF Inv
  <1>8. ret' = "true" <=> Link(cli'[k]) = "good"
    BY <1>1, <1>4
  <1>9. ret' = "true" => seen' = call
    <2>1. SUFFICES ASSUME ret' = "true" PROVE seen' = call
      OBVIOUS
    <2>2. c.error_code = 0
      BY <1>1, <2>1
    <2>3. c # ClosedClient
      BY <2>2, LinkOfClient
    <2>4. c = AnsweredClient(Head(told[k])) /\ Head(told[k]).req = AwaitedReq(k)
      BY <1>1, <1>2, <2>3, ReceiveEffect DEF Inv, c
    <2>5. c.readbuf = <<Head(told[k])>>
      BY <2>4, AnsweredFields
    <2>6. Head(c.readbuf) = Head(told[k])
      BY <2>5, OneElement
    <2>7. AwaitedReq(k) = call
      BY <1>1 DEF AwaitedReq, Waiting
    <2> QED
      BY <1>1, <2>2, <2>4, <2>6, <2>7
  <1> QED
    BY <1>7, <1>8, <1>9 DEF k


(* An answer that says one row was modified makes WriteCustomerHs return   *)
(* true.                                                                   *)
LEMMA ModifiedIsSeen ==
  ASSUME NEW r, NEW c, c = AnsweredClient(ModifiedAnswer(r, 1))
  PROVE  c.error_code = 0 /\ HasRow(c) /\ stoi(CurrentRow(c)[1]) > 0
  <1> DEFINE x == append_delim_value(to_string(1))
             a == ModifiedAnswer(r, 1)
  <1>1. a.code = 0 /\ a.num_flds = 1 /\ a.rows = <<x>>
    BY DEF ModifiedAnswer
  <1> HIDE DEF x, a
  <1>2. /\ c.error_code = 0 /\ c.num_flds = 1 /\ c.cur_row_offset = 1
        /\ c.readbuf = <<a>>
    BY <1>1, AnsweredFields DEF a
  <1>3. Head(c.readbuf) = a
    BY <1>2, OneElement
  <1>4. HasRow(c)
    BY <1>1, <1>2, <1>3 DEF HasRow
  <1>5. CurrentRow(c) = fields(x, 1)
    BY <1>1, <1>2, <1>3 DEF CurrentRow
  <1>6. stoi(fields(x, 1)[1]) = 1
    <2>1. to_string(1) \in Seq(Nat) /\ stoi(to_string(1)) = 1
      BY NumberReadsBack
    <2>2. fields(x, 1)[1] = to_string(1)
      BY <2>1, OneFieldRead DEF x
    <2> QED
      BY <2>1, <2>2, Zenon
  <1> QED
    BY <1>2, <1>4, <1>5, <1>6

(* WriteCustomerHs after its wait: false only when nothing was applied. *)
LEMMA WriteRecvStep ==
  ASSUME Inv, NEW lost \in BOOLEAN, WriteRecv(lost)
  PROVE  Inv' /\ (ret' = "false" => Link(cli'["write_ptr"]) = "good")
  <1> DEFINE k == "write_ptr"
             c == Received(k, Arrivals(k, lost))
             modified == HasRow(c) /\ stoi(CurrentRow(c)[1]) > 0
  <1>1. /\ pc = "writing" /\ pc' = "ready"
        /\ Arrival(k, lost)
        /\ cli' = [cli EXCEPT ![k] = IF c.error_code = 0
                                     THEN response_buf_remove(c) ELSE c]
        /\ \/ /\ c.error_code # 0 \/ modified
              /\ ret' = "true" /\ refused' = refused
           \/ /\ c.error_code = 0 /\ ~modified
              /\ ret' = "false" /\ refused' = refused \cup {call}
        /\ told' = [told EXCEPT ![k] = <<>>]
        /\ asked' = asked
        /\ UNCHANGED <<call, applied>>
    BY DEF WriteRecv, ThreadRest
  <1>2. k \in Conns /\ AtWait(k)
    BY <1>1 DEF Conns, AtWait, Calling
  <1>3. \A j \in Conns : ~AtWait(j)'
    BY <1>1 DEF AtWait, Waiting, Calling
  <1>4. (HasRow(c) /\ stoi(CurrentRow(c)[1]) > 0) => modified
    OBVIOUS
  <1> HIDE DEF c, modified
  <1>5. /\ DOMAIN cli' = Conns /\ DOMAIN told' = Conns
        /\ \A j \in Conns : LinkState(j)'
        /\ c.error_code = 0 => Link(cli'[k]) = "good"
    <2> HIDE DEF k
    <2> QED
      BY <1>1, <1>2, <1>3, ReceivedLink DEF c
  <1>6. ret' = "false" =>
            refused' = refused \cup {call} /\ call \notin applied /\ asked[k] = <<>>
    <2>1. SUFFICES ASSUME ret' = "false"
                   PROVE  call \notin applied /\ asked[k] = <<>>
      BY <1>1
    <2>2. c.error_code = 0 /\ ~modified
      BY <1>1, <2>1
    <2>3. c # ClosedClient
      BY <2>2, LinkOfClient
    <2>4. /\ c = AnsweredClient(Head(told[k])) /\ asked[k] = <<>>
          /\ told[k] = <<Head(told[k])>>
      <3> HIDE DEF k
      <3> QED
        BY <1>1, <1>2, <2>3, ReceiveEffect DEF Inv, c
    <2>5. ASSUME told[k] = <<ModifiedAnswer([req |-> call], 1)>>
          PROVE  FALSE
      <3>1. Head(told[k]) = ModifiedAnswer([req |-> call], 1)
        BY <2>5, OneElement
      <3>2. HasRow(c) /\ stoi(CurrentRow(c)[1]) > 0
        BY <2>4, <3>1, ModifiedIsSeen
      <3> QED
        BY <1>4, <2>2, <3>2
    <2>6. call \notin applied
      BY <1>1, <2>5 DEF Inv, WriteUnderWay
    <2> QED
      BY <2>4, <2>6
  <1>7. refused' = refused \/ ret' = "false"
    BY <1>1
  <1>8. call \in Nat /\ call \in 1 .. call
    BY <1>1 DEF Inv, WriteUnderWay
  <1>9. applied' \subseteq 1 .. call' /\ refused' \subseteq 1 .. call' \ applied'
    BY <1>1, <1>6, <1>7, <1>8 DEF Inv
  <1>10. \A j \in Conns : Requests(j)'
    <2>1. CASE refused' = refused
      BY <1>1, <2>1, QuietRequests DEF Inv
    <2>2. CASE ret' = "false"
      <3>1. Requests(k)'
        BY <1>1, <1>6, <2>2 DEF Requests
      <3>2. Requests("read_ptr")'
        <4>1. Requests("read_ptr") /\ asked'["read_ptr"] = asked["read_ptr"]
          BY <1>1 DEF Inv, Conns
        <4>2. asked["read_ptr"] # <<>> => Head(asked["read_ptr"]).op # "write"
          BY <4>1 DEF Requests
        <4> QED
          BY <4>1, <4>2 DEF Requests
      <3> QED
        BY <3>1, <3>2 DEF Conns
    <2> QED
      BY <1>7, <2>1, <2>2
  <1>11. Unopened' /\ WriteUnderWay' /\ pc' \in Pcs
    BY <1>1 DEF Unopened, WriteUnderWay, Pcs
  <1>12. Inv'
    BY <1>1, <1>5, <1>9, <1>10, <1>11 DEF Inv
  <1>13. ret' = "false" => Link(cli'[k]) = "good"
    BY <1>1, <1>5
  <1> QED
    BY <1>12, <1>13

(* The server takes a request and answers it, or nobody listens. *)
LEMMA Answering ==
  ASSUME Inv, NEW k \in Conns, asked[k] # <<>>, NEW answer, Reply(k, answer),
         answer.req = Head(asked[k]).req, answer.code \in {0, 1},
         asked' = [asked EXCEPT ![k] = Tail(@)],
         UNCHANGED <<cli, pc, call, refused>>
  PROVE  /\ DOMAIN cli' = Conns /\ DOMAIN asked' = Conns /\ DOMAIN told' = Conns
         /\ \A j \in Conns : LinkState(j)' /\ Requests(j)'
         /\ pc \in Pcs /\ call \in Nat /\ Unopened'
         /\ \A j \in Conns \ {k} : told'[j] = told[j]
         /\ pc = "writing" /\ k = "write_ptr" =>
                /\ Head(asked[k]).req = call /\ call \notin applied
                /\ told'[k] = <<answer>>
  <1> DEFINE r == Head(asked[k])
  <1>1. DOMAIN cli = Conns /\ DOMAIN asked = Conns /\ DOMAIN told = Conns
        /\ \A j \in Conns : LinkState(j) /\ Requests(j)
    BY DEF Inv
  <1>2. asked[k] = <<r>>
    BY <1>1 DEF Requests
  <1> HIDE DEF r
  <1>3. Tail(asked[k]) = <<>>
    BY <1>2, OneElement
  <1>4. /\ asked'[k] = <<>>
        /\ DOMAIN asked' = Conns /\ DOMAIN told' = Conns
        /\ \A j \in Conns \ {k} : asked'[j] = asked[j] /\ told'[j] = told[j]
        /\ told'[k] = IF cli[k].fd = "connected"
                      THEN Append(told[k], answer) ELSE told[k]
    BY <1>1, <1>3 DEF Reply
  <1>5. \/ cli[k] = PendingClient /\ Awaited(k) /\ AtWait(k)
        \/ Dead(cli[k]) /\ told[k] = <<>> /\ ~AtWait(k)
    BY <1>1 DEF LinkState, NothingUnderWay
  <1>6. /\ LinkState(k)'
        /\ pc = "writing" /\ k = "write_ptr" =>
                /\ Head(asked[k]).req = call /\ call \notin applied
                /\ told'[k] = <<answer>>
    <2>1. CASE cli[k] = PendingClient /\ Awaited(k) /\ AtWait(k)
      <3>1. told[k] = <<>> /\ r.req = AwaitedReq(k)
        BY <2>1 DEF Awaited, r
      <3>2. told'[k] = <<answer>>
        BY <1>4, <2>1, <3>1, LinkOfClient, OneElement
      <3>3. Head(<<answer>>) = answer /\ <<answer>> # <<>>
        BY OneElement
      <3>4. AwaitedReq(k)' = AwaitedReq(k)
        BY DEF AwaitedReq
      <3>5. Awaited(k)'
        BY <1>4, <3>1, <3>2, <3>3, <3>4 DEF Awaited, r
      <3>6. LinkState(k)'
        BY <2>1, <3>5 DEF LinkState, AtWait
      <3>7. pc = "writing" /\ k = "write_ptr" => r.req = call /\ call \notin applied
        <4>1. SUFFICES ASSUME pc = "writing", k = "write_ptr"
                       PROVE  r.req = call /\ call \notin applied
          OBVIOUS
        <4>2. AwaitedReq(k) = call
          BY <4>1 DEF AwaitedReq, Waiting
        <4>3. told[k] # <<ModifiedAnswer([req |-> call], 1)>>
          BY <3>1, OneElement
        <4>4. call \notin applied
          BY <4>1, <4>3 DEF Inv, WriteUnderWay
        <4> QED
          BY <3>1, <4>2, <4>4
      <3> QED
        BY <3>2, <3>6, <3>7 DEF r
    <2>2. CASE Dead(cli[k]) /\ told[k] = <<>> /\ ~AtWait(k)
      <3>1. told'[k] = <<>>
        BY <1>4, <2>2, DeadFields
      <3>2. LinkState(k)'
        BY <2>2, <3>1 DEF LinkState, AtWait
      <3>3. ~(pc = "writing" /\ k = "write_ptr")
        BY <2>2 DEF AtWait, Calling
      <3> QED
        BY <3>2, <3>3
    <2> QED
      BY <1>5, <2>1, <2>2
  <1>7. \A j \in Conns \ {k} : LinkState(j)'
    BY <1>1, <1>4 DEF LinkState, NothingUnderWay, Awaited, AwaitedReq, AwaitedOp, AtWait
  <1>8. \A j \in Conns : Requests(j)'
    BY <1>1, <1>4 DEF Requests
  <1>9. Unopened' /\ pc \in Pcs /\ call \in Nat
    BY DEF Inv, Unopened
  <1> QED
    BY <1>1, <1>4, <1>6, <1>7, <1>8, <1>9


(* The server executes a request. *)
LEMMA ServerExecuteStep ==
  ASSUME Inv, NEW k \in Conns, ServerExecute(k)
  PROVE  Inv'
  <1> DEFINE r == Head(asked[k])
             one == ModifiedAnswer(r, 1)
  <1>1. /\ asked[k] # <<>>
        /\ asked' = [asked EXCEPT ![k] = Tail(@)]
        /\ UNCHANGED <<cli, pc, call, refused>>
    BY DEF ServerExecute
  <1>2. \/ Reply(k, OpenAnswer(r)) /\ applied' = applied
        \/ Reply(k, RowAnswer(r)) /\ applied' = applied
        \/ Reply(k, ModifiedAnswer(r, 0)) /\ applied' = applied
        \/ r.op = "write" /\ Reply(k, one) /\ applied' = applied \cup {r.req}
    BY Zenon DEF ServerExecute
  <1>3. /\ OpenAnswer(r).req = r.req /\ OpenAnswer(r).code \in {0, 1}
        /\ RowAnswer(r).req = r.req /\ RowAnswer(r).code \in {0, 1}
        /\ ModifiedAnswer(r, 0).req = r.req /\ ModifiedAnswer(r, 0).code \in {0, 1}
        /\ one.req = r.req /\ one.code \in {0, 1}
    BY DEF OpenAnswer, RowAnswer, ModifiedAnswer
  <1>4. Requests(k) /\ applied \subseteq 1 .. call
        /\ refused \subseteq 1 .. call \ applied
    BY DEF Inv
  <1>5. PICK answer : /\ Reply(k, answer)
                      /\ answer.req = r.req /\ answer.code \in {0, 1}
                      /\ \/ applied' = applied
                         \/ /\ r.op = "write" /\ answer = one
                            /\ applied' = applied \cup {r.req}
    BY <1>2, <1>3, Zenon
  <1>6. /\ DOMAIN cli' = Conns /\ DOMAIN asked' = Conns /\ DOMAIN told' = Conns
        /\ \A j \in Conns : LinkState(j)' /\ Requests(j)'
        /\ pc \in Pcs /\ call \in Nat /\ Unopened'
        /\ \A j \in Conns \ {k} : told'[j] = told[j]
        /\ pc = "writing" /\ k = "write_ptr" =>
                r.req = call /\ call \notin applied /\ told'[k] = <<answer>>
    BY <1>1, <1>5, Answering
  <1>7. r.op = "write" => r.req \in 1 .. call \ refused /\ k = "write_ptr"
    BY <1>1, <1>4 DEF Requests, Conns
  <1>8. applied' \subseteq 1 .. call' /\ refused' \subseteq 1 .. call' \ applied'
    BY <1>1, <1>4, <1>5, <1>7
  <1>9. WriteUnderWay'
    <2>1. SUFFICES ASSUME pc = "writing"
                   PROVE  /\ call \in 1 .. call \ refused
                          /\ \/ call \notin applied'
                             \/ told'["write_ptr"] = <<ModifiedAnswer([req |-> call], 1)>>
      BY <1>1 DEF WriteUnderWay, ModifiedAnswer
    <2>2. /\ call \in 1 .. call \ refused
          /\ \/ call \notin applied
             \/ told["write_ptr"] = <<ModifiedAnswer([req |-> call], 1)>>
      BY <2>1 DEF Inv, WriteUnderWay
    <2>3. CASE k = "write_ptr"
      <3>1. r.req = call /\ call \notin applied /\ told'[k] = <<answer>>
        BY <1>6, <2>1, <2>3
      <3>2. one = ModifiedAnswer([req |-> call], 1)
        BY <3>1 DEF ModifiedAnswer
      <3> QED
        BY <1>5, <2>2, <2>3, <3>1, <3>2
    <2>4. CASE k # "write_ptr"
      BY <1>5, <1>6, <1>7, <2>2, <2>4 DEF Conns
    <2> QED
      BY <2>3, <2>4
  <1> QED
    BY <1>1, <1>6, <1>8, <1>9 DEF Inv

(* The server answers with an error code. *)
LEMMA ServerErrorStep ==
  ASSUME Inv, NEW k \in Conns, ServerError(k)
  PROVE  Inv'
  <1> DEFINE r == Head(asked[k])
  <1>1. /\ asked[k] # <<>>
        /\ Reply(k, ErrorAnswer(r))
        /\ asked' = [asked EXCEPT ![k] = Tail(@)]
        /\ UNCHANGED <<cli, pc, call, refused>>
        /\ UNCHANGED applied
    BY DEF ServerError
  <1>2. ErrorAnswer(r).req = r.req /\ ErrorAnswer(r).code \in {0, 1}
    BY DEF ErrorAnswer
  <1>3. PICK answer : answer = ErrorAnswer(r)
    OBVIOUS
  <1>4. /\ DOMAIN cli' = Conns /\ DOMAIN asked' = Conns /\ DOMAIN told' = Conns
        /\ \A j \in Conns : LinkState(j)' /\ Requests(j)'
        /\ pc \in Pcs /\ call \in Nat /\ Unopened'
        /\ \A j \in Conns \ {k} : told'[j] = told[j]
        /\ pc = "writing" /\ k = "write_ptr" => call \notin applied
    BY <1>1, <1>2, <1>3, Answering
  <1>5. WriteUnderWay'
    <2>1. SUFFICES ASSUME pc = "writing"
                   PROVE  /\ call \in 1 .. call \ refused
                          /\ \/ call \notin applied
                             \/ told'["write_ptr"] = <<ModifiedAnswer([req |-> call], 1)>>
      BY <1>1 DEF WriteUnderWay, ModifiedAnswer
    <2>2. /\ call \in 1 .. call \ refused
          /\ \/ call \notin applied
             \/ told["write_ptr"] = <<ModifiedAnswer([req |-> call], 1)>>
      BY <2>1 DEF Inv, WriteUnderWay
    <2> QED
      BY <1>4, <2>1, <2>2 DEF Conns
  <1> QED
    BY <1>1, <1>4, <1>5 DEF Inv

(* Other writers and a stopped thread leave all of it alone. *)
LEMMA ElsewhereStep ==
  ASSUME Inv, UNCHANGED <<cli, asked, told, pc, call, applied, refused>>
  PROVE  Inv'
  <1>1. \A k \in Conns : LinkState(k)' /\ Requests(k)'
    BY DEF Inv, LinkState, NothingUnderWay, Awaited, AwaitedReq, AwaitedOp,
           AtWait, Requests
  <1>2. Unopened' /\ WriteUnderWay'
    BY DEF Inv, Unopened, WriteUnderWay, ModifiedAnswer
  <1> QED
    BY <1>1, <1>2 DEF Inv

(***************************************************************************)
(* Every step preserves the invariant; the two moments the action          *)
(* properties speak of are the sends at "ready" and the ends of the waits. *)
(***************************************************************************)
LEMMA InvNext ==
  ASSUME Inv, [Next]_vars
  PROVE  /\ Inv'
         /\ \A k \in Conns : pc = "ready" /\ cli'[k] # cli[k]
                => Link(cli'[k]) \in SendLinks(Link(cli[k]))
         /\ pc = "reading" /\ pc' = "ready" =>
                /\ ret' = "true" <=> Link(cli'["read_ptr"]) = "good"
                /\ ret' = "true" => seen' = call
         /\ pc = "writing" /\ pc' = "ready" /\ ret' = "false"
                => Link(cli'["write_ptr"]) = "good"
  <1>1. ASSUME NEW k \in Conns, ServerExecute(k) \/ ServerError(k)
        PROVE  Inv' /\ cli' = cli /\ pc' = pc
    BY <1>1, ServerExecuteStep, ServerErrorStep DEF ServerExecute, ServerError
  <1>2. ASSUME OtherWrite \/ Stopped \/ UNCHANGED vars
        PROVE  Inv' /\ cli' = cli /\ pc' = pc
    <2>1. UNCHANGED <<cli, asked, told, pc, call, applied, refused>>
      BY <1>2 DEF OtherWrite, Stopped, vars
    <2> QED
      BY <2>1, ElsewhereStep
  <1>3. ASSUME NEW k \in Conns, NEW outcome \in Fds, NEW wrote \in BOOLEAN,
               OpenSend(k, outcome, wrote)
        PROVE  Inv' /\ pc \notin {"ready", "reading", "writing"}
    BY <1>3, OpenSendStep DEF OpenSend, Opening
  <1>4. ASSUME NEW k \in Conns, NEW lost \in BOOLEAN, OpenRecv(k, lost)
        PROVE  Inv' /\ pc \notin {"ready", "reading", "writing"}
    BY <1>4, OpenRecvStep DEF OpenRecv, Waiting
  <1>5. ASSUME NEW wrote \in BOOLEAN, ReadSend(wrote)
        PROVE  /\ Inv' /\ pc = "ready"
               /\ Link(cli'["read_ptr"]) \in SendLinks(Link(cli["read_ptr"]))
               /\ cli'["write_ptr"] = cli["write_ptr"]
    BY <1>5, ReadSendStep DEF ReadSend
  <1>6. ASSUME NEW wrote \in BOOLEAN, WriteSend(wrote)
        PROVE  /\ Inv' /\ pc = "ready"
               /\ Link(cli'["write_ptr"]) \in SendLinks(Link(cli["write_ptr"]))
               /\ cli'["read_ptr"] = cli["read_ptr"]
    BY <1>6, WriteSendStep DEF WriteSend
  <1>7. ASSUME NEW lost \in BOOLEAN, ReadRecv(lost)
        PROVE  /\ Inv' /\ pc = "reading"
               /\ ret' = "true" <=> Link(cli'["read_ptr"]) = "good"
               /\ ret' = "true" => seen' = call
    BY <1>7, ReadRecvStep DEF ReadRecv
  <1>8. ASSUME NEW lost \in BOOLEAN, WriteRecv(lost)
        PROVE  /\ Inv' /\ pc = "writing"
               /\ ret' = "false" => Link(cli'["write_ptr"]) = "good"
    BY <1>8, WriteRecvStep DEF WriteRecv
  <1>9. Conns = {"read_ptr", "write_ptr"}
    BY DEF Conns
  <1>10. \/ \E k \in Conns : ServerExecute(k) \/ ServerError(k)
         \/ OtherWrite \/ Stopped \/ UNCHANGED vars
         \/ \E k \in Conns, outcome \in Fds, wrote \in BOOLEAN : OpenSend(k, outcome, wrote)
         \/ \E k \in Conns, lost \in BOOLEAN : OpenRecv(k, lost)
         \/ \E wrote \in BOOLEAN : ReadSend(wrote) \/ WriteSend(wrote)
         \/ \E lost \in BOOLEAN : ReadRecv(lost) \/ WriteRecv(lost)
    BY DEF Next
  <1>11. Inv'
    BY <1>1, <1>2, <1>3, <1>4, <1>5, <1>6, <1>7, <1>8, <1>10, Zenon
  <1>12. \A k \in Conns : pc = "ready" /\ cli'[k] # cli[k]
             => Link(cli'[k]) \in SendLinks(Link(cli[k]))
    BY <1>1, <1>2, <1>3, <1>4, <1>5, <1>6, <1>7, <1>8, <1>9, <1>10
  <1>13. pc = "reading" /\ pc' = "ready" =>
             /\ ret' = "true" <=> Link(cli'["read_ptr"]) = "good"
             /\ ret' = "true" => seen' = call
    BY <1>1, <1>2, <1>3, <1>4, <1>5, <1>6, <1>7, <1>8, <1>10
  <1>14. pc = "writing" /\ pc' = "ready" /\ ret' = "false"
             => Link(cli'["write_ptr"]) = "good"
    BY <1>1, <1>2, <1>3, <1>4, <1>5, <1>6, <1>7, <1>8, <1>10
  <1> QED
    BY <1>11, <1>12, <1>13, <1>14

(* The invariant holds at every moment. *)
LEMMA Invariance == Spec => []Inv
  <1>1. Inv /\ [Next]_vars => Inv'
    BY InvNext
  <1> QED
    BY InvInit, <1>1, PTL DEF Spec

-----------------------------------------------------------------------------
(* PART III: the rows.  What the lines on the wire say.                    *)

Rows == [data : Seq(Nat), version : Nat]

(* The line of a row, as the server sends it. *)
RowBytes(h) == append_delim_values(<<Id, h.data, to_string(h.version)>>)

(* A write asks to turn version v into v + 1, with the data of its call. *)
WriteLine(r) ==
    /\ r.req \in Nat
    /\ \E v \in Nat :
           /\ r.kvs = append_delim_values(<<Id, to_string(v)>>)
           /\ r.mvs = append_delim_values(<<Id, Blob(r.req), to_string(v + 1)>>)

(* An answer to a read carries a row that the table has held. *)
RowLine(a, rows) ==
    a.num_flds = 3 /\ \E h \in rows : a.rows = <<RowBytes(h)>>

CountLine(a) == \E n \in 0 .. 1 : a.rows = <<append_delim_value(to_string(n))>>

AnswerLine(a, rows) == a.rows = <<>> \/ CountLine(a) \/ RowLine(a, rows)

WireInv ==
    /\ held \subseteq Rows
    /\ row \in held
    /\ others \in Nat
    /\ version # NoData => [data |-> customer, version |-> version] \in held
    /\ seen # NoData => version # NoData
    /\ \A k \in Conns :
           asked[k] # <<>> /\ Head(asked[k]).op = "write" => WriteLine(Head(asked[k]))
    /\ \A k \in Conns : told[k] # <<>> => AnswerLine(Head(told[k]), held)
    /\ pc = "reading" /\ told["read_ptr"] # <<>> /\ Head(told["read_ptr"]).code = 0
           => RowLine(Head(told["read_ptr"]), held)

(* No newline among the bytes of a line. *)
LEMMA WireIsOneLine ==
  ASSUME NEW bytes \in Seq(Wire)
  PROVE  OneLine(bytes)
  <1>1. \A i \in 1 .. Len(bytes) : bytes[i] \in Wire
    OBVIOUS
  <1> QED
    BY <1>1, PlainBytes DEF OneLine

(* The line of a row, written and taken apart. *)
LEMMA ThreeValues ==
  ASSUME NEW a \in Seq(Nat), NEW b \in Seq(Nat), NEW c \in Seq(Nat)
  PROVE  /\ append_delim_values(<<a, b, c>>) \in Seq(Wire)
         /\ fields(append_delim_values(<<a, b, c>>), 3) = <<a, b, c>>
  <1> DEFINE vs == <<a, b, c>>
  <1>1. vs \in Seq(Seq(Nat)) /\ Len(vs) = 3
    OBVIOUS
  <1> HIDE DEF vs
  <1>2. append_delim_values(vs) \in Seq(Wire)
    BY <1>1, LineType
  <1>3. fields(append_delim_values(vs), Len(vs)) = vs
    BY <1>1, FieldsRead
  <1> QED
    BY <1>1, <1>2, <1>3, Zenon DEF vs

(* The same for the key of a write. *)
LEMMA TwoValues ==
  ASSUME NEW a \in Seq(Nat), NEW b \in Seq(Nat)
  PROVE  fields(append_delim_values(<<a, b>>), 2) = <<a, b>>
  <1> DEFINE vs == <<a, b>>
  <1>1. vs \in Seq(Seq(Nat)) /\ Len(vs) = 2
    OBVIOUS
  <1> HIDE DEF vs
  <1>3. fields(append_delim_values(vs), Len(vs)) = vs
    BY <1>1, FieldsRead
  <1> QED
    BY <1>1, <1>3, Zenon DEF vs

(* The bytes of a Customer are bytes. *)
LEMMA BlobBytes ==
  ASSUME NEW n \in Nat
  PROVE  Blob(n) \in Seq(Nat)
  BY DEF Blob, TAB, NL

(* So are those of its key. *)
LEMMA IdBytes == Id \in Seq(Nat)
  BY NumberReadsBack DEF Id

(* A row of the table comes back as it was sent. *)
LEMMA RowRead ==
  ASSUME NEW h \in Rows
  PROVE  /\ RowBytes(h) \in Seq(Wire)
         /\ fields(RowBytes(h), 3) = <<Id, h.data, to_string(h.version)>>
         /\ h.data # Null /\ to_string(h.version) # Null
         /\ stoi(to_string(h.version)) = h.version
  <1>1. h.data \in Seq(Nat) /\ h.version \in Nat
    BY DEF Rows
  <1>2. to_string(h.version) \in Seq(Nat) /\ stoi(to_string(h.version)) = h.version
    BY <1>1, NumberReadsBack
  <1> QED
    BY <1>1, <1>2, IdBytes, NotNull, ThreeValues DEF RowBytes

(* What the server makes of a write request. *)
LEMMA WriteRead ==
  ASSUME NEW r, WriteLine(r), NEW v \in Nat
  PROVE  /\ OneLine(r.mvs)
         /\ fields(r.kvs, 2) = <<Id, to_string(v)>> =>
                /\ fields(r.mvs, 3)[2] = Blob(r.req)
                /\ stoi(fields(r.mvs, 3)[3]) = v + 1
                /\ [data |-> Blob(r.req), version |-> v + 1] \in Rows
  <1>1. PICK u \in Nat :
            /\ r.kvs = append_delim_values(<<Id, to_string(u)>>)
            /\ r.mvs = append_delim_values(<<Id, Blob(r.req), to_string(u + 1)>>)
    BY DEF WriteLine
  <1>2. r.req \in Nat /\ u + 1 \in Nat /\ v + 1 \in Nat
    BY DEF WriteLine
  <1>3. /\ to_string(u) \in Seq(Nat) /\ stoi(to_string(u)) = u
        /\ to_string(v) \in Seq(Nat) /\ stoi(to_string(v)) = v
        /\ to_string(u + 1) \in Seq(Nat) /\ stoi(to_string(u + 1)) = u + 1
    BY <1>2, NumberReadsBack
  <1>4. Blob(r.req) \in Seq(Nat)
    BY <1>2, BlobBytes
  <1>5. r.mvs \in Seq(Wire) /\ fields(r.mvs, 3) = <<Id, Blob(r.req), to_string(u + 1)>>
    BY <1>1, <1>3, <1>4, IdBytes, ThreeValues, Zenon
  <1>6. fields(r.kvs, 2) = <<Id, to_string(u)>>
    BY <1>1, <1>3, IdBytes, TwoValues, Zenon
  <1>7. fields(r.kvs, 2) = <<Id, to_string(v)>> => u = v
    <2>1. SUFFICES ASSUME <<Id, to_string(u)>> = <<Id, to_string(v)>> PROVE u = v
      BY <1>6, Zenon
    <2>2. to_string(u) = to_string(v)
      BY <2>1
    <2> QED
      BY <1>3, <2>2, Zenon
  <1>8. [data |-> Blob(r.req), version |-> v + 1] \in Rows
    BY <1>2, <1>4 DEF Rows
  <1>9. OneLine(r.mvs)
    BY <1>5, WireIsOneLine
  <1>10. fields(r.mvs, 3)[2] = Blob(r.req) /\ fields(r.mvs, 3)[3] = to_string(u + 1)
    <2> HIDE DEF Blob
    <2> QED
      BY <1>5
  <1> QED
    BY <1>3, <1>7, <1>8, <1>9, <1>10, Zenon

(* An answer stays one when the table has held more. *)
LEMMA MoreRows ==
  ASSUME NEW a, NEW H, NEW K, H \subseteq K
  PROVE  /\ AnswerLine(a, H) => AnswerLine(a, K)
         /\ RowLine(a, H) => RowLine(a, K)
  BY DEF AnswerLine, RowLine

(* No line of an answer holds a newline. *)
LEMMA AnswerIsOneLine ==
  ASSUME NEW a, NEW H, H \subseteq Rows, AnswerLine(a, H)
  PROVE  \A j \in 1 .. Len(a.rows) : OneLine(a.rows[j])
  <1>1. CASE a.rows = <<>>
    BY <1>1
  <1>2. ASSUME NEW x \in Seq(Wire), a.rows = <<x>>
        PROVE  \A j \in 1 .. Len(a.rows) : OneLine(a.rows[j])
    <2>1. OneLine(x)
      BY WireIsOneLine
    <2>2. \A j \in 1 .. Len(a.rows) : a.rows[j] = x
      BY <1>2
    <2> QED
      BY <2>1, <2>2
  <1>3. CASE CountLine(a)
    <2>1. PICK n \in 0 .. 1 : a.rows = <<append_delim_value(to_string(n))>>
      BY <1>3 DEF CountLine
    <2>2. to_string(n) \in Seq(Nat)
      BY NumberReadsBack
    <2>3. append_delim_value(to_string(n)) \in Seq(Wire)
      BY <2>2, DelimValue
    <2> QED
      BY <1>2, <2>1, <2>3, Zenon
  <1>4. CASE RowLine(a, H)
    <2>1. PICK h \in H : a.rows = <<RowBytes(h)>>
      BY <1>4 DEF RowLine
    <2>2. RowBytes(h) \in Seq(Wire)
      BY RowRead
    <2> QED
      BY <1>2, <2>1, <2>2, Zenon
  <1> QED
    BY <1>1, <1>3, <1>4 DEF AnswerLine

-----------------------------------------------------------------------------
(* Every step keeps to these lines.                                        *)

(* Nothing is on its way before InitializeHs. *)
LEMMA WireInit == Init => WireInv
  <1> SUFFICES ASSUME Init PROVE WireInv
    OBVIOUS
  <1>1. /\ \A k \in Conns : asked[k] = <<>> /\ told[k] = <<>>
        /\ row = [data |-> Blob(0), version |-> 1] /\ held = {row}
        /\ version = NoData /\ seen = NoData /\ others = 0 /\ pc = "open read"
    BY DEF Init, Opening
  <1>2. Blob(0) \in Seq(Nat)
    BY BlobBytes
  <1>3. row \in Rows
    <2> HIDE DEF Blob
    <2> QED
      BY <1>1, <1>2 DEF Rows
  <1> QED
    BY <1>1, <1>3 DEF WireInv

(* The rows, the thread's copy of one and the requests under way, apart    *)
(* from the connection k.                                                  *)
LEMMA WireElsewhere ==
  ASSUME WireInv, NEW k \in Conns,
         held \subseteq held', held' \subseteq Rows, row' \in held', others' \in Nat,
         version' # NoData => [data |-> customer', version |-> version'] \in held',
         seen' # NoData => version' # NoData,
         \A j \in Conns \ {k} : asked'[j] = asked[j] /\ told'[j] = told[j],
         asked'[k] # <<>> /\ Head(asked'[k]).op = "write" => WriteLine(Head(asked'[k])),
         told'[k] # <<>> => AnswerLine(Head(told'[k]), held'),
         pc' = "reading" /\ told'["read_ptr"] # <<>> /\ Head(told'["read_ptr"]).code = 0
             => RowLine(Head(told'["read_ptr"]), held')
  PROVE  WireInv'
  <1>1. ASSUME NEW j \in Conns
        PROVE  asked'[j] # <<>> /\ Head(asked'[j]).op = "write" => WriteLine(Head(asked'[j]))
    BY DEF WireInv
  <1>2. ASSUME NEW j \in Conns
        PROVE  told'[j] # <<>> => AnswerLine(Head(told'[j]), held')
    <2>1. CASE j = k
      BY <2>1
    <2>2. CASE j # k
      <3>1. told'[j] = told[j]
        BY <2>2
      <3>2. told[j] # <<>> => AnswerLine(Head(told[j]), held)
        BY DEF WireInv
      <3>3. AnswerLine(Head(told[j]), held) => AnswerLine(Head(told[j]), held')
        BY MoreRows
      <3> QED
        BY <3>1, <3>2, <3>3, Zenon
    <2> QED
      BY <2>1, <2>2
  <1> QED
    BY <1>1, <1>2, Zenon DEF WireInv, WriteLine, AnswerLine, RowLine, CountLine, RowBytes

(* A step that leaves the connections to the server alone. *)
LEMMA WireQuiet ==
  ASSUME WireInv, UNCHANGED <<asked, told, pc>>,
         held \subseteq held', held' \subseteq Rows, row' \in held', others' \in Nat,
         UNCHANGED <<customer, version, seen>>
  PROVE  WireInv'
  <1> DEFINE k == "read_ptr"
  <1>1. /\ k \in Conns
        /\ version # NoData => [data |-> customer, version |-> version] \in held'
        /\ seen # NoData => version # NoData
        /\ asked[k] # <<>> /\ Head(asked[k]).op = "write" => WriteLine(Head(asked[k]))
    BY DEF WireInv, Conns
  <1>2. told[k] # <<>> => AnswerLine(Head(told[k]), held')
    <2>1. told[k] # <<>> => AnswerLine(Head(told[k]), held)
      BY <1>1 DEF WireInv
    <2> QED
      BY <2>1, MoreRows
  <1>3. pc = "reading" /\ told[k] # <<>> /\ Head(told[k]).code = 0
            => RowLine(Head(told[k]), held')
    <2>1. pc = "reading" /\ told[k] # <<>> /\ Head(told[k]).code = 0
            => RowLine(Head(told[k]), held)
      BY DEF WireInv
    <2> QED
      BY <2>1, MoreRows
  <1> QED
    BY <1>1, <1>2, <1>3, WireElsewhere

(* The answer takes the place of its request, or goes nowhere. *)
LEMMA Answered ==
  ASSUME Inv, NEW k \in Conns, asked[k] # <<>>, NEW answer, Reply(k, answer),
         asked' = [asked EXCEPT ![k] = Tail(@)]
  PROVE  /\ asked'[k] = <<>>
         /\ \/ told'[k] = <<>>
            \/ told'[k] = <<answer>> /\ Head(asked[k]).op = AwaitedOp(k)
         /\ \A j \in Conns \ {k} : asked'[j] = asked[j] /\ told'[j] = told[j]
  <1>1. DOMAIN asked = Conns /\ DOMAIN told = Conns /\ LinkState(k) /\ Requests(k)
    BY DEF Inv
  <1>2. PICK r : r = Head(asked[k])
    OBVIOUS
  <1>3. asked[k] = <<r>>
    BY <1>1, <1>2 DEF Requests
  <1>4. Tail(asked[k]) = <<>>
    BY <1>3, OneElement
  <1>5. /\ asked'[k] = <<>>
        /\ \A j \in Conns \ {k} : asked'[j] = asked[j] /\ told'[j] = told[j]
        /\ told'[k] = IF cli[k].fd = "connected"
                      THEN Append(told[k], answer) ELSE told[k]
    BY <1>1, <1>4 DEF Reply
  <1>6. \/ Awaited(k)
        \/ Dead(cli[k]) /\ told[k] = <<>>
    BY <1>1 DEF LinkState, NothingUnderWay
  <1>7. told[k] = <<>>
    BY <1>6 DEF Awaited
  <1>8. told'[k] = <<>> \/ told'[k] = <<answer>>
    BY <1>5, <1>7, OneElement
  <1>9. CASE Awaited(k)
    <2>1. Head(asked[k]).op = AwaitedOp(k)
      BY <1>9 DEF Awaited
    <2> QED
      BY <1>5, <1>8, <2>1
  <1>10. CASE Dead(cli[k]) /\ told[k] = <<>>
    <2>1. cli[k].fd # "connected"
      BY <1>10, DeadFields
    <2>2. told'[k] = told[k]
      BY <1>5, <2>1, Zenon
    <2>3. told'[k] = <<>>
      BY <1>7, <2>2, Zenon
    <2> QED
      BY <1>5, <2>3
  <1> QED
    BY <1>6, <1>9, <1>10

(* The server answers a request with a line that is allowed. *)
LEMMA AnsweredWire ==
  ASSUME Inv, WireInv, NEW k \in Conns, asked[k] # <<>>, NEW answer, Reply(k, answer),
         asked' = [asked EXCEPT ![k] = Tail(@)],
         held \subseteq held', held' \subseteq Rows, row' \in held',
         AnswerLine(answer, held'),
         Head(asked[k]).op = "read" /\ answer.code = 0 => RowLine(answer, held'),
         UNCHANGED <<customer, version, seen, others, pc>>
  PROVE  WireInv'
  <1>1. /\ asked'[k] = <<>>
        /\ \/ told'[k] = <<>>
           \/ told'[k] = <<answer>> /\ Head(asked[k]).op = AwaitedOp(k)
        /\ \A j \in Conns \ {k} : asked'[j] = asked[j] /\ told'[j] = told[j]
    BY Answered
  <1>2. <<answer>> # <<>> /\ Head(<<answer>>) = answer
    BY OneElement
  <1>3. told'[k] # <<>> => AnswerLine(Head(told'[k]), held')
    BY <1>1, <1>2, Zenon
  <1>4. /\ version' # NoData => [data |-> customer', version |-> version'] \in held'
        /\ seen' # NoData => version' # NoData
        /\ others' \in Nat
    BY DEF WireInv
  <1>5. ASSUME pc' = "reading", told'["read_ptr"] # <<>>, Head(told'["read_ptr"]).code = 0
        PROVE  RowLine(Head(told'["read_ptr"]), held')
    <2>1. CASE k = "read_ptr"
      <3>1. told'[k] = <<answer>> /\ Head(asked[k]).op = AwaitedOp(k)
        BY <1>1, <1>5, <2>1
      <3>2. AwaitedOp(k) = "read"
        BY <1>5, <2>1 DEF AwaitedOp, Waiting
      <3>3. Head(told'[k]) = answer
        BY <1>2, <3>1
      <3>4. Head(told'[k]).code = 0
        BY <1>5, <2>1
      <3>5. RowLine(answer, held')
        BY <3>1, <3>2, <3>3, <3>4
      <3> QED
        BY <2>1, <3>3, <3>5
    <2>2. CASE k # "read_ptr"
      <3>1. told'["read_ptr"] = told["read_ptr"]
        BY <1>1, <2>2 DEF Conns
      <3>2. RowLine(Head(told["read_ptr"]), held)
        BY <1>5, <3>1 DEF WireInv
      <3> QED
        BY <3>1, <3>2, MoreRows
    <2> QED
      BY <2>1, <2>2
  <1> QED
    BY <1>1, <1>3, <1>4, <1>5, WireElsewhere

(* The server executes a request. *)
LEMMA ServerExecuteWire ==
  ASSUME Inv, WireInv, NEW k \in Conns, ServerExecute(k)
  PROVE  WireInv'
  <1> DEFINE r == Head(asked[k])
  <1>1. /\ asked[k] # <<>>
        /\ asked' = [asked EXCEPT ![k] = Tail(@)]
        /\ UNCHANGED <<customer, version, seen, others, pc>>
    BY DEF ServerExecute
  <1>2. \/ /\ r.op = "open" /\ Reply(k, OpenAnswer(r))
           /\ UNCHANGED <<row, held>>
        \/ /\ r.op = "read" /\ Reply(k, RowAnswer(r))
           /\ UNCHANGED <<row, held>>
        \/ /\ r.op = "write" /\ Reply(k, ModifiedAnswer(r, 1))
           /\ fields(r.kvs, 2) = <<Id, to_string(row.version)>>
           /\ row' = [data |-> fields(r.mvs, 3)[2], version |-> stoi(fields(r.mvs, 3)[3])]
           /\ held' = held \cup {[data |-> Blob(r.req), version |-> row.version + 1]}
        \/ /\ r.op # "read" /\ Reply(k, ModifiedAnswer(r, 0))
           /\ UNCHANGED <<row, held>>
    BY Zenon DEF ServerExecute
  <1>3. held \subseteq Rows /\ row \in held /\ row.version \in Nat
    BY DEF WireInv, Rows
  <1>4. CASE r.op = "open" /\ Reply(k, OpenAnswer(r)) /\ UNCHANGED <<row, held>>
    <2>1. AnswerLine(OpenAnswer(r), held')
      BY DEF AnswerLine, OpenAnswer
    <2> QED
      BY <1>1, <1>3, <1>4, <2>1, AnsweredWire
  <1>5. CASE r.op = "read" /\ Reply(k, RowAnswer(r)) /\ UNCHANGED <<row, held>>
    <2>1. RowLine(RowAnswer(r), held)
      BY <1>3 DEF RowLine, RowAnswer, RowBytes
    <2>2. PICK answer : answer = RowAnswer(r)
      OBVIOUS
    <2>3. Reply(k, answer) /\ AnswerLine(answer, held') /\ RowLine(answer, held')
      BY <1>5, <2>1, <2>2 DEF AnswerLine
    <2> QED
      BY <1>1, <1>3, <1>5, <2>3, AnsweredWire
  <1>6. CASE /\ r.op = "write" /\ Reply(k, ModifiedAnswer(r, 1))
             /\ fields(r.kvs, 2) = <<Id, to_string(row.version)>>
             /\ row' = [data |-> fields(r.mvs, 3)[2], version |-> stoi(fields(r.mvs, 3)[3])]
             /\ held' = held \cup {[data |-> Blob(r.req), version |-> row.version + 1]}
    <2>1. WriteLine(r)
      BY <1>1, <1>6 DEF WireInv
    <2>2. /\ fields(r.mvs, 3)[2] = Blob(r.req)
          /\ stoi(fields(r.mvs, 3)[3]) = row.version + 1
          /\ [data |-> Blob(r.req), version |-> row.version + 1] \in Rows
      BY <1>3, <1>6, <2>1, WriteRead
    <2>3. row' \in held' /\ held' \subseteq Rows /\ held \subseteq held'
      BY <1>3, <1>6, <2>2, Zenon
    <2>4. AnswerLine(ModifiedAnswer(r, 1), held')
      BY DEF AnswerLine, CountLine, ModifiedAnswer
    <2>5. r.op # "read"
      BY <1>6
    <2> HIDE DEF r
    <2> QED
      BY <1>1, <1>6, <2>3, <2>4, <2>5, AnsweredWire DEF r
  <1>7. CASE r.op # "read" /\ Reply(k, ModifiedAnswer(r, 0)) /\ UNCHANGED <<row, held>>
    <2>1. AnswerLine(ModifiedAnswer(r, 0), held')
      BY DEF AnswerLine, CountLine, ModifiedAnswer
    <2> QED
      BY <1>1, <1>3, <1>7, <2>1, AnsweredWire
  <1> QED
    BY <1>2, <1>4, <1>5, <1>6, <1>7

(* The server answers with an error code and no row. *)
LEMMA ServerErrorWire ==
  ASSUME Inv, WireInv, NEW k \in Conns, ServerError(k)
  PROVE  WireInv'
  <1> DEFINE r == Head(asked[k])
  <1>1. /\ asked[k] # <<>> /\ Reply(k, ErrorAnswer(r))
        /\ asked' = [asked EXCEPT ![k] = Tail(@)]
        /\ UNCHANGED <<customer, version, seen, others, pc, row, held>>
    BY DEF ServerError
  <1>2. AnswerLine(ErrorAnswer(r), held') /\ ErrorAnswer(r).code # 0
    BY DEF AnswerLine, ErrorAnswer
  <1>3. held \subseteq Rows /\ row \in held
    BY DEF WireInv
  <1>4. PICK answer : answer = ErrorAnswer(r)
    OBVIOUS
  <1>5. Reply(k, answer) /\ AnswerLine(answer, held') /\ answer.code # 0
    BY <1>1, <1>2, <1>4
  <1> QED
    BY <1>1, <1>3, <1>5, AnsweredWire

(* Another writer puts a row of its own in the table. *)
LEMMA OtherWriteWire ==
  ASSUME WireInv, OtherWrite
  PROVE  WireInv'
  <1>1. /\ others' = others + 1
        /\ row' = [data |-> Blob(100 + others), version |-> row.version + 1]
        /\ held' = held \cup {row'}
        /\ UNCHANGED <<asked, told, pc, customer, version, seen>>
    BY DEF OtherWrite
  <1>2. others \in Nat /\ row \in Rows /\ held \subseteq Rows
    BY DEF WireInv
  <1>3. Blob(100 + others) \in Seq(Nat) /\ row.version + 1 \in Nat
    <2>1. 100 + others \in Nat
      BY <1>2
    <2>2. Blob(100 + others) \in Seq(Nat)
      BY <2>1, BlobBytes
    <2>3. row.version \in Nat
      BY <1>2 DEF Rows
    <2> QED
      BY <2>2, <2>3
  <1>4. row' \in Rows
    <2>1. PICK d \in Seq(Nat), v \in Nat : d = Blob(100 + others) /\ v = row.version + 1
      BY <1>3
    <2>2. [data |-> d, version |-> v] \in Rows
      BY DEF Rows
    <2> QED
      BY <1>1, <2>1, <2>2, Zenon
  <1>5. others' \in Nat /\ held \subseteq held' /\ held' \subseteq Rows /\ row' \in held'
    BY <1>1, <1>2, <1>4
  <1> QED
    BY <1>1, <1>5, WireQuiet

(* A request is sent, or not, on a connection on which nobody waits. *)
LEMMA SentWire ==
  ASSUME Inv, WireInv, NEW k \in Conns, NEW r, told' = told,
         asked'[k] = <<r>> \/ asked'[k] = asked[k],
         \A j \in Conns \ {k} : asked'[j] = asked[j],
         r.op = "write" => WriteLine(r),
         \A j \in Conns : ~AtWait(j),
         UNCHANGED <<row, held, others, customer, version, seen>>
  PROVE  WireInv'
  <1>1. /\ held \subseteq Rows /\ row \in held /\ others \in Nat
        /\ version # NoData => [data |-> customer, version |-> version] \in held
        /\ seen # NoData => version # NoData
        /\ asked[k] # <<>> /\ Head(asked[k]).op = "write" => WriteLine(Head(asked[k]))
        /\ told[k] # <<>> => AnswerLine(Head(told[k]), held)
    BY DEF WireInv
  <1>2. Head(<<r>>) = r
    BY OneElement
  <1>3. asked'[k] # <<>> /\ Head(asked'[k]).op = "write" => WriteLine(Head(asked'[k]))
    BY <1>1, <1>2, Zenon
  <1>4. told["read_ptr"] = <<>>
    <2>1. "read_ptr" \in Conns
      BY DEF Conns
    <2>2. LinkState("read_ptr") /\ ~AtWait("read_ptr")
      BY <2>1 DEF Inv
    <2> QED
      BY <2>2 DEF LinkState, NothingUnderWay
  <1> QED
    BY <1>1, <1>3, <1>4, WireElsewhere

(* InitializeHs sends no row. *)
LEMMA OpenSendWire ==
  ASSUME Inv, WireInv, NEW k \in Conns, NEW outcome \in Fds, NEW wrote \in BOOLEAN,
         OpenSend(k, outcome, wrote)
  PROVE  WireInv'
  <1> DEFINE r == [op |-> "open", req |-> 0]
             c == hstcpcli(outcome)
  <1>1. /\ pc = Opening(k)
        /\ SendRequest(k, c, r, wrote)
        /\ UNCHANGED <<told, row, held, others, customer, version, seen>>
    BY DEF OpenSend, ThreadRest
  <1>2. c = IdleClient \/ Dead(c)
    BY NewClient
  <1>3. DOMAIN cli = Conns /\ DOMAIN asked = Conns /\ LinkState(k)
        /\ Unopened
    BY DEF Inv
  <1> HIDE DEF c
  <1>4. /\ \A j \in Conns \ {k} : asked'[j] = asked[j]
        /\ asked'[k] = Append(asked[k], r) \/ asked'[k] = asked[k]
    BY <1>1, <1>2, <1>3, SendRequestEffect
  <1>5. cli[k] = NoConnection
    BY <1>1, <1>3 DEF Unopened, Opening, Conns
  <1>6. asked[k] = <<>>
    <2>1. ~Dead(cli[k]) /\ cli[k] # PendingClient
      <3>1. cli[k].error_code = 0
        BY <1>5 DEF NoConnection
      <3> QED
        BY <1>5, <3>1, LinkOfClient, DeadFields
    <2> QED
      BY <1>3, <2>1 DEF LinkState, NothingUnderWay
  <1>7. \A j \in Conns : ~AtWait(j)
    BY <1>1 DEF AtWait, Opening, Waiting, Calling, Conns
  <1>8. r.op # "write"
    OBVIOUS
  <1> HIDE DEF r
  <1>9. asked'[k] = <<r>> \/ asked'[k] = asked[k]
    BY <1>4, <1>6, OneElement, Zenon
  <1> QED
    BY <1>1, <1>4, <1>7, <1>8, <1>9, SentWire

(* ReadCustomerHs sends a key only. *)
LEMMA ReadSendWire ==
  ASSUME Inv, WireInv, NEW wrote \in BOOLEAN, ReadSend(wrote)
  PROVE  WireInv'
  <1> DEFINE r == [op |-> "read", req |-> call', kvs |-> append_delim_value(Id)]
             k == "read_ptr"
  <1>1. /\ pc = "ready"
        /\ call' = call + 1
        /\ SendRequest(k, cli[k], r, wrote)
        /\ pc' = IF cli'[k].error_code # 0 THEN "ready" ELSE Calling(k)
        /\ told' = told
        /\ UNCHANGED <<row, held, others, customer, version, seen>>
    BY DEF ReadSend, ThreadRest, Calling
  <1>2. r.req = call' /\ r.op = IF k = "read_ptr" THEN "read" ELSE "write"
    OBVIOUS
  <1>3. k \in Conns /\ r.op # "write"
    BY DEF Conns
  <1>4. \A j \in Conns : ~AtWait(j)
    BY <1>1 DEF AtWait, Waiting, Calling
  <1> HIDE DEF r, k
  <1>5. /\ \A j \in Conns \ {k} : asked'[j] = asked[j]
        /\ asked'[k] = <<r>> \/ asked'[k] = asked[k]
    BY <1>1, <1>2, <1>3, SentLink
  <1> QED
    BY <1>1, <1>3, <1>4, <1>5, SentWire

(* WriteCustomerHs sends the version that was read, and the next one. *)
LEMMA WriteSendWire ==
  ASSUME Inv, WireInv, NEW wrote \in BOOLEAN, WriteSend(wrote)
  PROVE  WireInv'
  <1> DEFINE kv == append_delim_values(<<Id, to_string(version)>>)
             mv == append_delim_values(<<Id, Blob(call'), to_string(version + 1)>>)
             r == [op |-> "write", req |-> call', kvs |-> kv, mvs |-> mv]
             k == "write_ptr"
  <1>1. /\ pc = "ready" /\ seen = call
        /\ call' = call + 1
        /\ SendRequest(k, cli[k], r, wrote)
        /\ pc' = IF cli'[k].error_code # 0 THEN "ready" ELSE Calling(k)
        /\ told' = told
        /\ UNCHANGED <<row, held, others, customer, version, seen>>
    BY DEF WriteSend, ThreadRest, Calling
  <1>2. version \in Nat /\ call' \in Nat
    <2>1. call \in Nat
      BY DEF Inv
    <2>2. version # NoData
      BY <1>1, <2>1 DEF WireInv, NoData
    <2>3. [data |-> customer, version |-> version] \in Rows
      BY <2>2 DEF WireInv
    <2> QED
      BY <1>1, <2>1, <2>3 DEF Rows
  <1>3. WriteLine(r)
    <2>1. r.req = call' /\ r.kvs = kv /\ r.mvs = mv
      <3> HIDE DEF kv, mv
      <3> QED
        OBVIOUS
    <2> QED
      BY <1>2, <2>1, Zenon DEF WriteLine
  <1>4. r.req = call' /\ r.op = IF k = "read_ptr" THEN "read" ELSE "write"
    <2> HIDE DEF kv, mv
    <2> QED
      OBVIOUS
  <1>5. k \in Conns
    BY DEF Conns
  <1>6. \A j \in Conns : ~AtWait(j)
    BY <1>1 DEF AtWait, Waiting, Calling
  <1> HIDE DEF r, k
  <1>7. /\ \A j \in Conns \ {k} : asked'[j] = asked[j]
        /\ asked'[k] = <<r>> \/ asked'[k] = asked[k]
    BY <1>1, <1>4, <1>5, SentLink
  <1> QED
    BY <1>1, <1>3, <1>5, <1>6, <1>7, SentWire

(* A wait ends without a row: its answer is gone. *)
LEMMA TakenWire ==
  ASSUME WireInv, DOMAIN told = Conns, NEW k \in Conns, pc' # "reading",
         told' = [told EXCEPT ![k] = <<>>], asked' = asked,
         version' # NoData => [data |-> customer', version |-> version'] \in held,
         seen' # NoData => version' # NoData,
         UNCHANGED <<row, held, others>>
  PROVE  WireInv'
  <1>1. /\ held \subseteq Rows /\ row \in held /\ others \in Nat
        /\ asked[k] # <<>> /\ Head(asked[k]).op = "write" => WriteLine(Head(asked[k]))
    BY DEF WireInv
  <1>2. told'[k] = <<>> /\ \A j \in Conns \ {k} : told'[j] = told[j]
    OBVIOUS
  <1> QED
    BY <1>1, <1>2, WireElsewhere

(* InitializeHs takes its answer. *)
LEMMA OpenRecvWire ==
  ASSUME Inv, WireInv, NEW k \in Conns, NEW lost \in BOOLEAN, OpenRecv(k, lost)
  PROVE  WireInv'
  <1> DEFINE c == Received(k, Arrivals(k, lost))
  <1>1. /\ pc' = CASE c.error_code > 0 -> "aborted"
                   [] k = "read_ptr" /\ c.error_code <= 0 -> Opening("write_ptr")
                   [] OTHER -> "ready"
        /\ told' = [told EXCEPT ![k] = <<>>] /\ asked' = asked
        /\ UNCHANGED <<row, held, others, customer, version, seen>>
    BY DEF OpenRecv, ThreadRest
  <1> HIDE DEF c
  <1>2. pc' # "reading"
    BY <1>1 DEF Opening
  <1>3. DOMAIN told = Conns
    BY DEF Inv
  <1>4. /\ version' # NoData => [data |-> customer', version |-> version'] \in held
        /\ seen' # NoData => version' # NoData
    BY <1>1 DEF WireInv
  <1> QED
    BY <1>1, <1>2, <1>3, <1>4, TakenWire

(* WriteCustomerHs takes its answer. *)
LEMMA WriteRecvWire ==
  ASSUME Inv, WireInv, NEW lost \in BOOLEAN, WriteRecv(lost)
  PROVE  WireInv'
  <1>1. /\ pc' = "ready" /\ asked' = asked
        /\ told' = [told EXCEPT !["write_ptr"] = <<>>]
        /\ UNCHANGED <<row, held, others, customer, version, seen>>
    BY DEF WriteRecv, ThreadRest
  <1>2. DOMAIN told = Conns /\ "write_ptr" \in Conns
    BY DEF Inv, Conns
  <1>3. /\ version' # NoData => [data |-> customer', version |-> version'] \in held
        /\ seen' # NoData => version' # NoData
    BY <1>1 DEF WireInv
  <1> QED
    BY <1>1, <1>2, <1>3, TakenWire

(* The row in the answer to a read, as get_next_row takes it apart. *)
LEMMA RowTaken ==
  ASSUME NEW a, NEW h \in Rows, a.code = 0, a.num_flds = 3, a.rows = <<RowBytes(h)>>,
         NEW c, c = AnsweredClient(a)
  PROVE  HasRow(c) /\ CurrentRow(c) = <<Id, h.data, to_string(h.version)>>
  <1>1. PICK x : x = RowBytes(h)
    OBVIOUS
  <1>2. /\ c.num_flds = 3 /\ c.cur_row_offset = 1 /\ c.readbuf = <<a>>
    BY AnsweredFields
  <1>3. Head(c.readbuf) = a
    BY <1>2, OneElement
  <1>4. a.rows = <<x>>
    BY <1>1
  <1>5. Len(a.rows) = 1 /\ a.rows[1] = x
    BY <1>4
  <1>6. HasRow(c)
    <2>1. 3 > 0 /\ 1 <= 1
      OBVIOUS
    <2> QED
      BY <1>2, <1>3, <1>5, <2>1, Zenon DEF HasRow
  <1>7. CurrentRow(c) = fields(x, 3)
    BY <1>2, <1>3, <1>5, Zenon DEF CurrentRow
  <1> QED
    BY <1>1, <1>6, <1>7, RowRead, Zenon

(* ReadCustomerHs copies a row that the table has held. *)
LEMMA ReadRecvWire ==
  ASSUME Inv, WireInv, NEW lost \in BOOLEAN, ReadRecv(lost)
  PROVE  WireInv'
  <1> DEFINE k == "read_ptr"
             c == Received(k, Arrivals(k, lost))
             r == CurrentRow(c)
  <1>1. /\ pc = "reading" /\ pc' = "ready" /\ Arrival(k, lost)
        /\ told' = [told EXCEPT ![k] = <<>>] /\ asked' = asked
        /\ UNCHANGED <<row, held, others>>
        /\ \/ c.error_code # 0 /\ UNCHANGED <<customer, version, seen>>
           \/ /\ c.error_code = 0
              /\ HasRow(c) =>
                     /\ customer' = IF r[2] # Null THEN r[2] ELSE customer
                     /\ version' = IF r[3] # Null THEN stoi(r[3]) ELSE version
    BY DEF ReadRecv, ThreadRest
  <1>2. k \in Conns /\ AtWait(k) /\ DOMAIN told = Conns /\ LinkState(k)
    BY <1>1 DEF Conns, AtWait, Calling, Inv
  <1> HIDE DEF c, r, k
  <1>3. /\ version' # NoData => [data |-> customer', version |-> version'] \in held
        /\ seen' # NoData => version' # NoData
    <2>1. CASE c.error_code # 0 /\ UNCHANGED <<customer, version, seen>>
      BY <2>1 DEF WireInv
    <2>2. CASE /\ c.error_code = 0
               /\ HasRow(c) =>
                     /\ customer' = IF r[2] # Null THEN r[2] ELSE customer
                     /\ version' = IF r[3] # Null THEN stoi(r[3]) ELSE version
      <3>1. c # ClosedClient
        BY <2>2, LinkOfClient
      <3>2. PICK a : a = Head(told[k])
        OBVIOUS
      <3>3. c = AnsweredClient(a) /\ told[k] = <<a>>
        BY <1>1, <1>2, <3>1, <3>2, ReceiveEffect DEF c
      <3>4. a.code = 0 /\ told[k] # <<>>
        BY <2>2, <3>3, AnsweredFields, OneElement
      <3>5. RowLine(a, held) /\ held \subseteq Rows
        BY <1>1, <3>2, <3>4 DEF WireInv, k
      <3>6. PICK h \in held : a.num_flds = 3 /\ a.rows = <<RowBytes(h)>>
        BY <3>5 DEF RowLine
      <3>7. h \in Rows
        BY <3>5
      <3>8. HasRow(c) /\ r = <<Id, h.data, to_string(h.version)>>
        BY <3>3, <3>4, <3>6, <3>7, RowTaken DEF r
      <3>9. r[2] = h.data /\ r[3] = to_string(h.version)
        BY <3>8
      <3>10. customer' = h.data /\ version' = h.version
        BY <2>2, <3>7, <3>8, <3>9, RowRead, Zenon
      <3>11. [data |-> h.data, version |-> h.version] = h /\ h.version \in Nat
        BY <3>7 DEF Rows
      <3>12. version' # NoData
        BY <3>10, <3>11 DEF NoData
      <3> QED
        BY <3>10, <3>11, <3>12, Zenon
    <2> QED
      BY <1>1, <2>1, <2>2
  <1>4. pc' # "reading"
    BY <1>1
  <1> QED
    BY <1>1, <1>2, <1>3, <1>4, TakenWire

(* Every step keeps to the lines. *)
LEMMA WireNext ==
  ASSUME Inv, WireInv, [Next]_vars
  PROVE  WireInv'
  <1>1. ASSUME Stopped \/ UNCHANGED vars PROVE WireInv'
    <2>1. UNCHANGED <<asked, told, pc, row, held, others, customer, version, seen>>
      BY <1>1 DEF Stopped, vars
    <2>2. held \subseteq Rows /\ row \in held /\ others \in Nat
      BY DEF WireInv
    <2> QED
      BY <2>1, <2>2, WireQuiet
  <1>2. \/ \E k \in Conns : ServerExecute(k) \/ ServerError(k)
        \/ OtherWrite \/ Stopped \/ UNCHANGED vars
        \/ \E k \in Conns, outcome \in Fds, wrote \in BOOLEAN : OpenSend(k, outcome, wrote)
        \/ \E k \in Conns, lost \in BOOLEAN : OpenRecv(k, lost)
        \/ \E wrote \in BOOLEAN : ReadSend(wrote) \/ WriteSend(wrote)
        \/ \E lost \in BOOLEAN : ReadRecv(lost) \/ WriteRecv(lost)
    BY DEF Next
  <1> QED
    BY <1>1, <1>2, ServerExecuteWire, ServerErrorWire, OtherWriteWire, OpenSendWire,
       OpenRecvWire, ReadSendWire, WriteSendWire, ReadRecvWire, WriteRecvWire, Zenon

(* The lines are as described at every moment. *)
LEMMA WireInvariance == Spec => []WireInv
  <1>1. Inv /\ WireInv /\ [Next]_vars => WireInv'
    BY WireNext
  <1> QED
    BY WireInit, Invariance, <1>1, PTL DEF Spec

-----------------------------------------------------------------------------
(* The results.                                                            *)

(***************************************************************************)
(* A write for which WriteCustomerHs returned false was not applied and    *)
(* never will be, whatever is lost, late or refused: the retry loop of     *)
(* MariaDbExecuteTransaction applies no transaction twice.                 *)
(***************************************************************************)
THEOREM FalseIsNeverApplied == Spec => []FalseMeansNotApplied
  <1>1. Inv => FalseMeansNotApplied
    <2> SUFFICES ASSUME Inv, NEW n \in refused
                 PROVE  /\ n \notin applied
                        /\ \A i \in 1 .. Len(asked["write_ptr"]) :
                               asked["write_ptr"][i].req # n
      BY DEF FalseMeansNotApplied
    <2>1. n \in 1 .. call /\ n \notin applied /\ call \in Nat
      BY DEF Inv
    <2>2. Requests("write_ptr")
      BY DEF Inv, Conns
    <2>3. CASE asked["write_ptr"] = <<>>
      BY <2>1, <2>3
    <2>4. CASE asked["write_ptr"] # <<>>
      <3>1. /\ asked["write_ptr"] = <<Head(asked["write_ptr"])>>
            /\ Head(asked["write_ptr"]).req # n
        BY <2>1, <2>2, <2>4 DEF Requests
      <3> HIDE <2>4
      <3>2. PICK h : h = Head(asked["write_ptr"])
        OBVIOUS
      <3>3. asked["write_ptr"] = <<h>> /\ h.req # n
        BY <3>1, <3>2
      <3>4. \A i \in 1 .. Len(asked["write_ptr"]) : asked["write_ptr"][i] = h
        BY <3>3
      <3> QED
        BY <2>1, <3>3, <3>4
    <2> QED
      BY <2>3, <2>4
  <1> QED
    BY <1>1, Invariance, PTL

(***************************************************************************)
(* A read that returns true delivers the answer to the request of that     *)
(* very call, and never one that an earlier call left behind.              *)
(***************************************************************************)
THEOREM ReadsAnswerTheirCalls == Spec => ReadAnswersItsCall
  <1>1. Inv /\ [Next]_vars =>
            [pc = "reading" /\ pc' = "ready" /\ ret' = "true" => seen' = call]_vars
    BY InvNext
  <1> QED
    BY <1>1, Invariance, PTL DEF Spec, ReadAnswersItsCall

(***************************************************************************)
(* Between calls each connection is in the state HsLink predicts, which is *)
(* what MariaDatabase.tla takes for granted of the two connections.        *)
(***************************************************************************)
THEOREM LinksMoveAsPredicted == Spec => LinkMoves
  <1> DEFINE Moves ==
       /\ \A k \in Conns :
              pc = "ready" /\ cli'[k] # cli[k]
                 => Link(cli'[k]) \in SendLinks(Link(cli[k]))
       /\ pc = "reading" /\ pc' = "ready"
              => (ret' = "true" <=> Link(cli'["read_ptr"]) = "good")
       /\ pc = "writing" /\ pc' = "ready" /\ ret' = "false"
              => Link(cli'["write_ptr"]) = "good"
  <1>1. Inv /\ [Next]_vars => [Moves]_vars
    BY InvNext
  <1> QED
    BY <1>1, Invariance, PTL DEF Spec, LinkMoves

(***************************************************************************)
(* Whatever bytes a customer is made of come through the wire: the row a   *)
(* thread has read, data and version together, is one the table has held,  *)
(* so is the row in the table, and no line on its way holds a newline.     *)
(***************************************************************************)
THEOREM RowsComeThrough == Spec => []RowsSurviveTheWire
  <1>1. Inv /\ WireInv => RowsSurviveTheWire
    <2> SUFFICES ASSUME Inv, WireInv PROVE RowsSurviveTheWire
      OBVIOUS
    <2>1. ASSUME NEW k \in Conns, NEW i \in 1 .. Len(asked[k]), asked[k][i].op = "write"
          PROVE  OneLine(asked[k][i].mvs)
      <3>1. Requests(k)
        BY DEF Inv
      <3>2. asked[k] # <<>>
        OBVIOUS
      <3>3. PICK r : r = Head(asked[k])
        OBVIOUS
      <3>4. asked[k] = <<r>>
        BY <3>1, <3>2, <3>3 DEF Requests
      <3>5. asked[k][i] = r
        BY <3>4
      <3>6. WriteLine(r)
        BY <2>1, <3>2, <3>3, <3>5 DEF WireInv
      <3>7. OneLine(r.mvs)
        BY <3>6, WriteRead, 0 \in Nat, Zenon
      <3> QED
        BY <3>5, <3>7
    <2>2. ASSUME NEW k \in Conns, NEW i \in 1 .. Len(told[k]),
                 NEW j \in 1 .. Len(told[k][i].rows)
          PROVE  OneLine(told[k][i].rows[j])
      <3>1. LinkState(k)
        BY DEF Inv
      <3>2. told[k] # <<>>
        OBVIOUS
      <3>3. PICK a : a = Head(told[k])
        OBVIOUS
      <3>4. told[k] = <<a>>
        BY <3>1, <3>2, <3>3 DEF LinkState, NothingUnderWay, Awaited
      <3>5. told[k][i] = a
        BY <3>4
      <3>6. AnswerLine(a, held) /\ held \subseteq Rows
        BY <3>2, <3>3 DEF WireInv
      <3>7. \A n \in 1 .. Len(a.rows) : OneLine(a.rows[n])
        BY <3>6, AnswerIsOneLine
      <3> QED
        BY <3>5, <3>7
    <2>3. row \in held /\ (version # NoData => [data |-> customer, version |-> version] \in held)
      BY DEF WireInv
    <2> QED
      BY <2>1, <2>2, <2>3 DEF RowsSurviveTheWire
  <1> QED
    BY <1>1, Invariance, WireInvariance, PTL
=============================================================================
