---------------------------- MODULE MCRequestPath ----------------------------
(***************************************************************************)
(* RequestPath on 4-bit ints, a ring of three and digits of base 3.  The   *)
(* amounts are 1, 2, 7, none, and 8 and 17, which do not fit in an int;    *)
(* the malformed requests each fail another test of the parser.            *)
(***************************************************************************)
EXTENDS RequestPath

MCDescriptionLength == [zero |-> 0, text |-> 2, long |-> 3]

Amount(digits, tipo) ==
    [valor |-> digits, comma |-> TRUE, tipo |-> tipo, descricao |-> "text", rest |-> "end"]

Good == {Amount(<<1>>, "d"), Amount(<<2>>, "c"), Amount(<<2, 1>>, "c"),
         Amount(<<2, 1>>, "d"), Amount(<<1, 2, 2>>, "c"),
         Amount(<<2, 2>>, "d"), Amount(<<>>, "c")}

Malformed ==
    LET b == Amount(<<1>>, "c")
    IN  {[b EXCEPT !.comma = FALSE], [b EXCEPT !.valor = <<1, Dot, 1>>],
         [b EXCEPT !.valor = <<Minus, 1>>], [b EXCEPT !.tipo = "x"],
         [b EXCEPT !.descricao = "zero"], [b EXCEPT !.descricao = "long"],
         [b EXCEPT !.rest = "more"], [b EXCEPT !.rest = "unclosed"]}

Post(id, body) == [verb |-> "POST", id |-> id, body |-> body]
Get(id) == [verb |-> "GET", id |-> id, body |-> NoBody]

MCHttps ==
    {Post(Id, b) : b \in Good \cup Malformed}
        \cup {Post(Id, NoBody), Post(Space, Amount(<<1>>, "c")), Post(2, Amount(<<1>>, "c")),
              Get(Id), Get(0), Get(Minus)}

MCInt32 == Int32
=============================================================================
