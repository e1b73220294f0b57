------------------------------- MODULE HsWire --------------------------------
(***************************************************************************)
(* How values travel in the lines of the HandlerSocket protocol:           *)
(* libhsclient/escape.cpp and escape.hpp, and the parts of hstcpcli.cpp    *)
(* that write a request's values and take a row apart.  A value is a       *)
(* sequence of bytes.  Positions in a line count from 1, and `finish' is   *)
(* the position behind its last byte.                                      *)
(***************************************************************************)
EXTENDS Integers, Sequences

TAB == 9
NL == 10

special_char_escape_prefix == 1
special_char_noescape_min == 16
special_char_escape_shift == 64

(* The null string_ref: no byte is -1. *)
Null == <<-1>>

EscapeByte(c) ==
    IF c >= special_char_noescape_min
    THEN <<c>>
    ELSE <<special_char_escape_prefix, c + special_char_escape_shift>>

(* What a loop has written that appends piece[i] in its i-th turn. *)
Written(piece) ==
    LET wrote[i \in 0 .. Len(piece)] == IF i = 0 THEN <<>> ELSE wrote[i - 1] \o piece[i]
    IN  wrote

(* Mutant: control bytes from the newline on are taken for text. *)
escape_string_MissesNewline(value) ==
    Written([i \in 1 .. Len(value) |->
                IF value[i] >= NL THEN <<value[i]>> ELSE EscapeByte(value[i])])[Len(value)]

escape_string(value) ==
    Written([i \in 1 .. Len(value) |-> EscapeByte(value[i])])[Len(value)]

(* What the next byte c does: an escaped byte takes two of them. *)
UnescapeByte(acc, c) ==
    CASE acc.next = "any" /\ c = special_char_escape_prefix ->
             [wrote |-> acc.wrote, next |-> "escaped"]
      [] acc.next = "any" /\ c # special_char_escape_prefix ->
             [wrote |-> Append(acc.wrote, c), next |-> "any"]
      [] acc.next = "escaped" /\ c >= special_char_escape_shift ->
             [wrote |-> Append(acc.wrote, c - special_char_escape_shift), next |-> "any"]
      [] OTHER -> [wrote |-> acc.wrote, next |-> "none"]

(* It stops at the first bad escape, with what it wrote until then. *)
unescape_string(bytes) ==
    LET acc[i \in 0 .. Len(bytes)] ==
          IF i = 0 THEN [wrote |-> <<>>, next |-> "any"] ELSE UnescapeByte(acc[i - 1], bytes[i])
    IN  acc[Len(bytes)].wrote

append_delim_value(value) ==
    IF value = Null THEN <<TAB, 0>> ELSE <<TAB>> \o escape_string(value)

append_delim_values(values) ==
    Written([i \in 1 .. Len(values) |-> append_delim_value(values[i])])[Len(values)]

is_null_expression(bytes) == bytes = <<0>>

(* Where the token that starts at `start' ends: at a tab or at the end. *)
read_token(line, start) ==
    CHOOSE p \in start .. Len(line) + 1 :
        /\ p <= Len(line) => line[p] = TAB
        /\ \A q \in start .. p - 1 : line[q] # TAB

skip_one(line, start) == IF start <= Len(line) THEN start + 1 ELSE start

(* One turn of the loop of get_next_row over the fields of one row. *)
Field(line, acc) ==
    LET fld_begin == skip_one(line, acc.start)
        fld_end == read_token(line, fld_begin)
        token == SubSeq(line, fld_begin, fld_end - 1)
        fld == IF is_null_expression(token) THEN Null ELSE unescape_string(token)
    IN  [start |-> fld_end, flds |-> Append(acc.flds, fld)]

fields(line, num_flds) ==
    LET acc[i \in 0 .. num_flds] ==
          IF i = 0 THEN [start |-> 1, flds |-> <<>>] ELSE Field(line, acc[i - 1])
    IN  acc[num_flds].flds

(* External: std::to_string and std::stoi, for what is not negative. *)
to_string(n) ==
    LET digits[m \in 0 .. n] ==
          IF m < 10 THEN <<48 + m>> ELSE Append(digits[m \div 10], 48 + (m % 10))
    IN  digits[n]
stoi(bytes) ==
    LET x[i \in 0 .. Len(bytes)] == IF i = 0 THEN 0 ELSE 10 * x[i - 1] + (bytes[i] - 48)
    IN  x[Len(bytes)]
=============================================================================
