---------------------------- MODULE NumericText ----------------------------
(***************************************************************************)
(* string_serializable for integers (serialization.hpp): the text of a     *)
(* number, and the number in a text.  It reads what the program stores,    *)
(* and the cursors and scores in replies.                                  *)
(*                                                                         *)
(* A text is split into the signs it begins with, the digits that follow,  *)
(* and whether anything follows those; white space is such a rest.         *)
(*                                                                         *)
(* A type of C++ has a width, of which half is the number of its           *)
(* non-negative values when signed.  Every text is first read as a long    *)
(* long or an unsigned long long, whose half is WIDEST, and then compared  *)
(* with the limits of the type.                                            *)
(***************************************************************************)
EXTENDS Integers, Sequences

CONSTANT WIDEST         \* 2^63 in the code

ASSUME WidestAssumption == WIDEST \in Nat \ {0}

IntegerTypes == [signed : BOOLEAN, half : 1 .. WIDEST]

lowest(T) == IF T.signed THEN -T.half ELSE 0
max(T) == IF T.signed THEN T.half - 1 ELSE 2 * T.half - 1

parsed_type(T) == [signed |-> T.signed, half |-> WIDEST]

InType(T, n) == lowest(T) <= n /\ n <= max(T)

NoDigits == <<>>
Texts == [signs : Seq({"+", "-"}), digits : {NoDigits} \cup [{1} -> Nat],
          trailing : BOOLEAN]

EmptyText(s) == s.signs = <<>> /\ s.digits = NoDigits /\ ~s.trailing

Read(n) == [ok |-> TRUE, value |-> n]
Fails(e) == [ok |-> FALSE, error |-> e]

to_string(n) ==
    [signs |-> IF n < 0 THEN <<"-">> ELSE <<>>,
     digits |-> <<IF n < 0 THEN -n ELSE n>>, trailing |-> FALSE]

\* std::from_chars, with the rest of the text: an integer of type T begins with
\* its digits, or with one minus if T is signed.
Parses(T, signs, s) ==
    /\ s.digits # NoDigits
    /\ signs = <<>> \/ (T.signed /\ signs = <<"-">>)

Number(signs, s) == IF signs = <<>> THEN s.digits[1] ELSE -s.digits[1]

\* Mutant: the limits of the type are not looked at.
ReadUnchecked(T, signs, s) ==
    IF ~Parses(T, signs, s) \/ s.trailing THEN Fails("invalid_argument")
    ELSE IF ~InType(parsed_type(T), Number(signs, s)) THEN Fails("out_of_range")
    ELSE Read(Number(signs, s))

ReadFrom(T, signs, s) ==
    IF ~Parses(T, signs, s) \/ s.trailing THEN Fails("invalid_argument")
    ELSE IF ~InType(parsed_type(T), Number(signs, s)) THEN Fails("out_of_range")
    ELSE IF ~InType(T, Number(signs, s)) THEN Fails("out_of_range")
    ELSE Read(Number(signs, s))

\* One plus is taken off first, if it is not followed by another sign.
from_string(T, s) ==
    IF EmptyText(s) THEN Fails("invalid_argument")
    ELSE IF s.signs = <<>> \/ s.signs[1] # "+" THEN ReadFrom(T, s.signs, s)
    ELSE IF s.signs # <<"+">> THEN Fails("invalid_argument")
    ELSE ReadFrom(T, <<>>, s)
-----------------------------------------------------------------------------
(* The texts that are numbers, by the rules the README states: one sign at  *)
(* most, a minus only for signed types, digits, and nothing more.           *)

IsNumeral(T, s) ==
    /\ s.digits # NoDigits
    /\ ~s.trailing
    /\ \/ s.signs \in {<<>>, <<"+">>}
       \/ T.signed /\ s.signs = <<"-">>

Denotes(s) == IF s.signs = <<"-">> THEN -s.digits[1] ELSE s.digits[1]

MeansOf(T, s) ==
    IF ~IsNumeral(T, s) THEN Fails("invalid_argument")
    ELSE IF ~InType(T, Denotes(s)) THEN Fails("out_of_range")
    ELSE Read(Denotes(s))
=============================================================================
