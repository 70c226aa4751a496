--------------------------- MODULE ASNumberProofs ---------------------------
(***************************************************************************)
(* AS numbers of any width: what is accepted fits, nothing is cut off, and *)
(* what is written is read again.                                          *)
(***************************************************************************)
EXTENDS ASNumber, TLAPS

\* Two halves never exceed the width of a number.
LEMMA HalvesFit ==
    ASSUME NEW high \in 0..(Half - 1), NEW low \in 0..(Half - 1)
    PROVE  /\ high * Half + low \in ASNumbers
           /\ (high * Half + low) % (Half * Half) = high * Half + low
<1>1. Half \in Nat /\ Half >= 1
  BY HalfAssumption DEF HalfAssumption
<1>2. high * Half <= (Half - 1) * Half
  <2>1. \A n, m, k \in Nat : n <= m => n * k <= m * k
    OBVIOUS
  <2> QED  BY <1>1, <2>1
<1>3. (Half - 1) * Half = Half * Half - Half
  BY <1>1
<1>4. high * Half \in Nat /\ Half * Half \in Nat
  BY <1>1
<1>5. high * Half + low \in ASNumbers
  BY <1>1, <1>2, <1>3, <1>4 DEF ASNumbers
<1>6. \A n, d \in Nat : n < d => n % d = n
  OBVIOUS
<1> QED  BY <1>4, <1>5, <1>6 DEF ASNumbers

\* A number that is accepted from a text fits, whichever the notation.
THEOREM StringsInRange ==
    ASSUME NEW s \in Texts
    PROVE  ASNumberFromString(s) \in ASNumbers \cup {Invalid}
<1>1. CASE Len(s) = 1
  BY <1>1 DEF ASNumberFromString, ParseUint, ASNumbers
<1>2. CASE Len(s) # 1
  BY <1>2, HalvesFit DEF ASNumberFromString, ParseUint, Invalid
<1> QED  BY <1>1, <1>2

\* A dotted text is accepted exactly if both halves fit, and stands for the
\* number that has these halves: nothing wraps around.
THEOREM DottedExact ==
    ASSUME NEW high \in Nat \cup {Invalid}, NEW low \in Nat \cup {Invalid}
    PROVE  ASNumberFromString(<<high, low>>) =
              IF high \in 0..(Half - 1) /\ low \in 0..(Half - 1) THEN high * Half + low ELSE Invalid
  BY HalvesFit DEF ASNumberFromString, ParseUint, Invalid

\* Two dotted texts for the same number are the same text.
THEOREM DottedInjective ==
    ASSUME NEW h1 \in 0..(Half - 1), NEW l1 \in 0..(Half - 1),
           NEW h2 \in 0..(Half - 1), NEW l2 \in 0..(Half - 1),
           ASNumberFromString(<<h1, l1>>) = ASNumberFromString(<<h2, l2>>)
    PROVE  h1 = h2 /\ l1 = l2
<1>1. Half \in Nat /\ Half >= 1 /\ h1 * Half + l1 = h2 * Half + l2
  BY DottedExact, HalfAssumption DEF HalfAssumption
<1>2. ASSUME NEW a \in Nat, NEW b \in Nat, a < b  PROVE a * Half + Half <= b * Half
  <2>1. \A n, m, k \in Nat : n <= m => n * k <= m * k
    OBVIOUS
  <2>2. (a + 1) * Half <= b * Half
    BY <1>1, <1>2, <2>1
  <2>3. (a + 1) * Half = a * Half + Half
    BY <1>1
  <2> QED  BY <2>2, <2>3
<1>3. ~ (h1 < h2)
  <2>1. h1 < h2 => h1 * Half + Half <= h2 * Half
    BY <1>1, <1>2
  <2>2. h1 * Half \in Nat /\ h2 * Half \in Nat
    BY <1>1
  <2> QED  BY <1>1, <2>1, <2>2
<1>4. ~ (h2 < h1)
  <2>1. h2 < h1 => h2 * Half + Half <= h1 * Half
    BY <1>1, <1>2
  <2>2. h1 * Half \in Nat /\ h2 * Half \in Nat
    BY <1>1
  <2> QED  BY <1>1, <2>1, <2>2
<1>5. h1 = h2
  BY <1>1, <1>3, <1>4
<1> QED  BY <1>1, <1>5

\* A number that is marshalled, or written as a string, is read as itself,
\* whatever was stored where it is read to.
THEOREM RoundTrip ==
    ASSUME NEW a \in ASNumbers, NEW before
    PROVE  /\ UnmarshalJSON(MarshalJSON(a), before) = a
           /\ ASNumberFromString(String(a)) = a
  BY DEF UnmarshalJSON, MarshalJSON, JSONInteger, ASNumberFromString, String, ToUint32, ParseUint, ASNumbers
=============================================================================
