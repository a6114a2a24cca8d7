---------------------------- MODULE SignedInteger ----------------------------
(***************************************************************************)
(* The two views of an integer reply.  cmd_reply keeps a uint64_t; a Redis *)
(* integer is an int64_t, stored by make_signed_integer and read back by   *)
(* get_signed_integer (common.hpp), which avoids every conversion whose    *)
(* result the language leaves open.  HALF is 2^63 in the code; TLC uses a  *)
(* smaller one.                                                            *)
(***************************************************************************)
EXTENDS Integers

CONSTANT HALF

ASSUME HalfAssumption == HALF \in Nat \ {0}

INT64_MAX == HALF - 1
UINT64_MAX == 2 * HALF - 1

Int64 == -HALF .. INT64_MAX
UInt64 == 0 .. UINT64_MAX

\* A signed value converted to unsigned is taken modulo 2^64.
make_signed_integer(value) == value % (2 * HALF)

\* What is cast to int64_t, and must fit in it.
CastToSigned(int_value) ==
    IF int_value <= INT64_MAX THEN int_value ELSE UINT64_MAX - int_value

\* Mutant: the complement is off by one.
SignedOffByOne(int_value) ==
    IF int_value <= INT64_MAX THEN int_value ELSE 0 - CastToSigned(int_value)

get_signed_integer(int_value) ==
    IF int_value <= INT64_MAX THEN int_value ELSE -1 - CastToSigned(int_value)
=============================================================================
