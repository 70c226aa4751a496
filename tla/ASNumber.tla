------------------------------ MODULE ASNumber ------------------------------
(***************************************************************************)
(* AS numbers of the BGP configuration                                     *)
(* (src/pkg/apis/metal/asnumber.go): a uint32, written as an integer, as a *)
(* quoted decimal or in quoted dotted notation "high.low".                 *)
(*                                                                         *)
(* A text is the sequence of the numerals between its dots, Invalid for    *)
(* what is no decimal numeral.  Half is the number of values of a half     *)
(* (2^16), so that an AS number is below Half * Half.                      *)
(***************************************************************************)
EXTENDS Integers, Sequences

CONSTANT Half

ASSUME HalfAssumption == Half \in Nat \ {0}

Invalid == -1

ASNumbers == 0..(Half * Half - 1)

Texts == Seq(Nat \cup {Invalid}) \ {<<>>}

\* The JSON values an asNumber can be given as: an integer (negative or too
\* large ones included), an unquoted decimal fraction, a quoted text, null,
\* anything else.
JSONValues ==
    [kind : {"integer"}, number : Int] \cup [kind : {"string"}, text : Texts]
    \cup [kind : {"fraction", "null", "other"}]

JSONInteger(n) == [kind |-> "integer", number |-> n]
JSONString(s) == [kind |-> "string", text |-> s]

\* strconv.ParseUint, for a number below the limit.
ParseUint(numeral, limit) == IF numeral \in 0..(limit - 1) THEN numeral ELSE Invalid

\* Mutant: the halves may have as many bits as the number.
ASNumberFromAnyString(s) ==
    IF Len(s) = 1 THEN ParseUint(s[1], Half * Half)
    ELSE IF Len(s) = 2 /\ s[1] # Invalid /\ s[2] # Invalid
         THEN (s[1] * Half + s[2]) % (Half * Half)
         ELSE Invalid

ASNumberFromString(s) ==
    LET plain == ParseUint(s[1], Half * Half)
        high  == ParseUint(s[1], Half)
        low   == ParseUint(s[2], Half)
    IN  IF Len(s) = 1 THEN plain
        ELSE IF Len(s) # 2 \/ high = Invalid \/ low = Invalid THEN Invalid
        ELSE (high * Half + low) % (Half * Half)

\* What is stored where `before` was: null leaves it alone.
UnmarshalJSON(json, before) ==
    CASE json.kind = "integer" -> ParseUint(json.number, Half * Half)
      [] json.kind = "null"    -> before
      [] json.kind = "string"  -> ASNumberFromString(json.text)
      [] OTHER                 -> Invalid

ToUint32(a) == a
String(a) == <<ToUint32(a)>>
MarshalJSON(a) == JSONInteger(ToUint32(a))
=============================================================================
