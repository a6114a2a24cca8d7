--------------------------- MODULE ReadingLemmas ---------------------------
(***************************************************************************)
(* How what arrives is read: the integers of replies (SignedInteger) and   *)
(* the numbers in texts (NumericText), for integers of every width, and    *)
(* the loops of the decoders (CmdReply), for replies of any length.        *)
(***************************************************************************)
EXTENDS CmdReply, NumericText, WellFoundedInduction, TLAPS

\* A number of digits, of either sign, is an integer.
LEMMA NumberIsInt ==
    ASSUME NEW s \in Texts, s.digits # NoDigits, NEW signs
    PROVE  Number(signs, s) \in Int
<1>1. PICK n \in Nat : s.digits = <<n>>
  BY DEF Texts, NoDigits
<1>2. s.digits[1] = n
  BY <1>1
<1>. QED
  BY <1>2 DEF Number

\* What fits in a type fits in the widest one of the same signedness, so the
\* first of the two comparisons never rejects what the second would take.
LEMMA NarrowerFits ==
    ASSUME NEW T \in IntegerTypes, NEW n \in Int, InType(T, n)
    PROVE  InType(parsed_type(T), n)
<1>1. T.half \in Int /\ T.half <= WIDEST /\ T.signed \in BOOLEAN
  BY DEF IntegerTypes
<1>2. parsed_type(T).half = WIDEST /\ parsed_type(T).signed = T.signed
  BY DEF parsed_type
<1>3. WIDEST \in Int
  BY WidestAssumption
<1>4. CASE T.signed
  <2>1. -T.half <= n /\ n <= T.half - 1
    BY <1>4 DEF InType, lowest, max
  <2>. QED
    BY <2>1, <1>1, <1>2, <1>3, <1>4 DEF InType, lowest, max
<1>5. CASE ~T.signed
  <2>1. 0 <= n /\ n <= 2 * T.half - 1
    BY <1>5 DEF InType, lowest, max
  <2>. QED
    BY <2>1, <1>1, <1>2, <1>3, <1>5 DEF InType, lowest, max
<1>. QED
  BY <1>4, <1>5

\* The code and the rules agree on which texts are numbers: what from_chars is
\* given after a plus has been taken off has no sign of its own.
LEMMA SignsAgree ==
    ASSUME NEW T \in IntegerTypes, NEW s \in Texts
    PROVE  from_string(T, s) =
             IF IsNumeral(T, s) THEN ReadFrom(T, IF s.signs = <<"-">> THEN <<"-">> ELSE <<>>, s)
             ELSE Fails("invalid_argument")
<1>1. CASE s.signs = <<>>
  BY <1>1 DEF from_string, IsNumeral, ReadFrom, Parses, EmptyText, NoDigits
<1>2. CASE s.signs # <<>> /\ s.signs[1] # "+"
  <2>1. s.signs # <<"+">>
    BY <1>2
  <2>2. from_string(T, s) = ReadFrom(T, s.signs, s)
    BY <1>2 DEF from_string, EmptyText
  <2>. QED
    BY <1>2, <2>1, <2>2 DEF IsNumeral, ReadFrom, Parses
<1>3. CASE s.signs = <<"+">>
  <2>1. s.signs # <<>> /\ s.signs[1] = "+" /\ s.signs # <<"-">>
    BY <1>3
  <2>2. from_string(T, s) = ReadFrom(T, <<>>, s)
    BY <1>3, <2>1 DEF from_string, EmptyText
  <2>. QED
    BY <1>3, <2>1, <2>2 DEF IsNumeral, ReadFrom, Parses
<1>4. CASE s.signs # <<>> /\ s.signs[1] = "+" /\ s.signs # <<"+">>
  <2>1. s.signs # <<"-">>
    BY <1>4
  <2>. QED
    BY <1>4, <2>1 DEF from_string, EmptyText, IsNumeral
<1>. QED
  BY <1>1, <1>2, <1>3, <1>4

\* from_string gives the number a text denotes, invalid_argument for a text that
\* denotes none, and out_of_range for a number that is not in the type: for
\* every integer type and every text.
THEOREM FromStringMeans ==
    ASSUME NEW T \in IntegerTypes, NEW s \in Texts
    PROVE  from_string(T, s) = MeansOf(T, s)
<1>1. CASE ~IsNumeral(T, s)
  BY <1>1, SignsAgree DEF MeansOf
<1>2. CASE IsNumeral(T, s)
  <2> DEFINE signs == IF s.signs = <<"-">> THEN <<"-">> ELSE <<>>
             n == Number(signs, s)
  <2>1. from_string(T, s) = ReadFrom(T, signs, s)
    BY <1>2, SignsAgree
  <2>2. s.digits # NoDigits /\ ~s.trailing
    BY <1>2 DEF IsNumeral
  <2>3. Parses(T, signs, s)
    BY <1>2 DEF IsNumeral, Parses
  <2>4. n \in Int
    BY <2>2, NumberIsInt
  <2>5. n = Denotes(s)
    <3>1. <<"-">> # <<>>
      OBVIOUS
    <3>. QED
      BY <3>1 DEF Number, Denotes
  <2>6. InType(T, n) => InType(parsed_type(T), n)
    BY <2>4, NarrowerFits
  <2>7. ReadFrom(T, signs, s) =
            IF ~InType(T, n) THEN Fails("out_of_range") ELSE Read(n)
    BY <2>2, <2>3, <2>6 DEF ReadFrom
  <2>. QED
    BY <1>2, <2>1, <2>5, <2>7 DEF MeansOf
<1>. QED
  BY <1>1, <1>2

\* What to_string writes, from_string reads back: a cursor, an index or a value
\* of any integer type survives its text.
THEOREM NumberRoundTrip ==
    ASSUME NEW T \in IntegerTypes, NEW n \in Int, InType(T, n)
    PROVE  from_string(T, to_string(n)) = Read(n)
<1> DEFINE s == to_string(n)
<1>1. T.signed \in BOOLEAN
  BY DEF IntegerTypes
<1>2. ~s.trailing
  BY DEF to_string
<1>3. CASE n < 0
  <2>1. s.signs = <<"-">> /\ s.digits = <<-n>> /\ -n \in Nat
    BY <1>3 DEF to_string
  <2>2. T.signed
    BY <1>1, <1>3 DEF InType, lowest
  <2>3. <<"-">> \in Seq({"+", "-"})
    OBVIOUS
  <2>4. s = [signs |-> <<"-">>, digits |-> <<-n>>, trailing |-> FALSE]
    BY <1>3 DEF to_string
  <2>5. s \in Texts
    BY <2>1, <2>3, <2>4 DEF Texts
  <2>6. s.digits # NoDigits /\ s.digits[1] = -n
    BY <2>1 DEF NoDigits
  <2>7. IsNumeral(T, s)
    BY <1>2, <2>1, <2>2, <2>6 DEF IsNumeral
  <2>8. Denotes(s) = n
    BY <2>1, <2>6 DEF Denotes
  <2>9. MeansOf(T, s) = Read(n)
    BY <2>7, <2>8 DEF MeansOf
  <2>. QED
    BY <2>5, <2>9, FromStringMeans
<1>4. CASE ~(n < 0)
  <2>1. s.signs = <<>> /\ s.digits = <<n>> /\ n \in Nat
    BY <1>4 DEF to_string
  <2>2. <<>> \in Seq({"+", "-"})
    OBVIOUS
  <2>3. s = [signs |-> <<>>, digits |-> <<n>>, trailing |-> FALSE]
    BY <1>4 DEF to_string
  <2>4. s \in Texts
    BY <2>1, <2>2, <2>3 DEF Texts
  <2>5. s.digits # NoDigits /\ s.digits[1] = n /\ s.signs # <<"-">>
    BY <2>1 DEF NoDigits
  <2>6. IsNumeral(T, s)
    BY <1>2, <2>1, <2>5 DEF IsNumeral
  <2>7. Denotes(s) = n
    BY <2>5 DEF Denotes
  <2>8. MeansOf(T, s) = Read(n)
    BY <2>6, <2>7 DEF MeansOf
  <2>. QED
    BY <2>4, <2>8, FromStringMeans
<1>. QED
  BY <1>3, <1>4
-----------------------------------------------------------------------------
(* The integers of replies.                                                 *)

\* Conversion to unsigned keeps what fits and wraps what is negative.
LEMMA UnsignedView ==
    \A n \in Int64 :
        make_signed_integer(n) = IF n >= 0 THEN n ELSE n + 2 * HALF
<1> SUFFICES ASSUME NEW n \in Int64
             PROVE  make_signed_integer(n) = IF n >= 0 THEN n ELSE n + 2 * HALF
  OBVIOUS
<1>1. HALF \in Nat \ {0} /\ n \in Int /\ -HALF <= n /\ n < HALF
  BY HalfAssumption DEF Int64, INT64_MAX
<1>2. CASE n >= 0
  BY <1>1, <1>2 DEF make_signed_integer
<1>3. CASE n < 0
  BY <1>1, <1>3 DEF make_signed_integer
<1> QED BY <1>1, <1>2, <1>3

\* Every signed integer is read back as it was stored, at the limits too.
THEOREM SignedRoundTrip ==
    \A n \in Int64 : get_signed_integer(make_signed_integer(n)) = n
<1> SUFFICES ASSUME NEW n \in Int64
             PROVE  get_signed_integer(make_signed_integer(n)) = n
  OBVIOUS
<1>1. HALF \in Nat \ {0} /\ n \in Int /\ -HALF <= n /\ n < HALF
  BY HalfAssumption DEF Int64, INT64_MAX
<1> QED BY <1>1, UnsignedView
        DEF get_signed_integer, CastToSigned, INT64_MAX, UINT64_MAX

\* The value that get_signed_integer casts fits in a signed integer, so the
\* cast is the same on every platform, and so does the result.
THEOREM SignedInRange ==
    \A u \in UInt64 : /\ CastToSigned(u) \in 0 .. INT64_MAX
                      /\ get_signed_integer(u) \in Int64
BY HalfAssumption
   DEF UInt64, Int64, CastToSigned, get_signed_integer, INT64_MAX, UINT64_MAX
-----------------------------------------------------------------------------
(* Elements that are read one by one.                                       *)

\* What a step gives is a value or an exception, never both.
LEMMA Outcomes ==
    \A v, e : /\ Val(v).ok /\ Val(v).value = v
              /\ ~Throw(e).ok /\ Throw(e).error = e
BY DEF Val, Throw

LEMMA LeastOf ==
    ASSUME NEW S, S \subseteq Nat, S # {}
    PROVE  \E i \in S : \A j \in S : i <= j
<1>1. PICK i \in S : \A j \in S : <<j, i>> \notin OpToRel(<, Nat)
  BY NatLessThanWellFounded, WFMin
<1>2. \A j \in S : ~(j < i)
  BY <1>1 DEF OpToRel
<1>. QED
  BY <1>2

\* A loop gives the values of all its steps, or the exception of one of them.
LEMMA CollectedResult ==
    ASSUME NEW n \in Nat, NEW results, DOMAIN results = 1 .. n
    PROVE  \/ /\ \A i \in 1 .. n : results[i].ok
              /\ Collected(results) = Val([i \in 1 .. n |-> results[i].value])
           \/ \E i \in 1 .. n : ~results[i].ok /\ Collected(results) = results[i]
<1>. DEFINE failed == {i \in DOMAIN results : ~results[i].ok}
<1>1. CASE failed = {}
  BY <1>1 DEF Collected
<1>2. CASE failed # {}
  <2>1. failed \subseteq Nat
    OBVIOUS
  <2>2. \E i \in failed : \A j \in failed : i <= j
    BY <1>2, <2>1, LeastOf
  <2>. QED
    BY <2>2, <1>2 DEF Collected
<1>. QED
  BY <1>1, <1>2

\* So it does if all the exceptions are the same.
LEMMA CollectedOr ==
    ASSUME NEW n \in Nat, NEW results, DOMAIN results = 1 .. n, NEW e,
           \A i \in 1 .. n : (\E v : results[i] = Val(v)) \/ results[i] = Throw(e)
    PROVE  \/ /\ \A i \in 1 .. n : results[i] = Val(results[i].value)
              /\ Collected(results) = Val([i \in 1 .. n |-> results[i].value])
           \/ Collected(results) = Throw(e)
<1>1. CASE /\ \A i \in 1 .. n : results[i].ok
           /\ Collected(results) = Val([i \in 1 .. n |-> results[i].value])
  <2>1. \A i \in 1 .. n : results[i] = Val(results[i].value)
    BY <1>1, Outcomes
  <2>. QED
    BY <1>1, <2>1
<1>2. ASSUME NEW i \in 1 .. n, ~results[i].ok, Collected(results) = results[i]
      PROVE  Collected(results) = Throw(e)
  BY <1>2, Outcomes
<1>. QED
  BY <1>1, <1>2, CollectedResult

\* A loop whose steps give what they should, or all throw the same.
EachGives(results, n, given, bad, e) ==
    /\ DOMAIN results = 1 .. n
    /\ \A i \in 1 .. n : results[i] = IF i \in bad THEN Throw(e) ELSE Val(given[i])

LEMMA CollectedAll ==
    ASSUME NEW n \in Nat, NEW results, NEW given, NEW bad, NEW e,
           EachGives(results, n, given, bad, e)
    PROVE  Collected(results) = IF bad \cap (1 .. n) = {} THEN Val([i \in 1 .. n |-> given[i]])
                                ELSE Throw(e)
<1>. USE DEF EachGives
<1>1. CASE /\ \A i \in 1 .. n : results[i].ok
           /\ Collected(results) = Val([i \in 1 .. n |-> results[i].value])
  <2>1. \A i \in 1 .. n : i \notin bad /\ results[i].value = given[i]
    BY <1>1, Outcomes
  <2>2. [i \in 1 .. n |-> results[i].value] = [i \in 1 .. n |-> given[i]]
    BY <2>1
  <2>3. bad \cap (1 .. n) = {}
    BY <2>1
  <2>. QED
    BY <1>1, <2>2, <2>3
<1>2. ASSUME NEW i \in 1 .. n, ~results[i].ok, Collected(results) = results[i]
      PROVE  Collected(results) = Throw(e) /\ bad \cap (1 .. n) # {}
  BY <1>2, Outcomes
<1>. QED
  BY <1>1, <1>2, CollectedResult
=============================================================================
