----------------------------- MODULE NumberText -----------------------------
(***************************************************************************)
(* Numbers as the text that {S}, {Sn} and {Si} put into a query (mym.cpp,  *)
(* serializeString, 1644-1701).                                            *)
(*                                                                         *)
(* The value of an argument is given in quarters, so that halves and ties  *)
(* occur; integers have IntBits bits where the code's have 32, and half as *)
(* many where they have 8.                                                 *)
(***************************************************************************)
EXTENDS Integers

CONSTANT IntBits

Unit == 4

IntRange == -(2^(IntBits - 1)) .. 2^(IntBits - 1) - 1

Row == [class |-> "char", shape |-> "row", complex |-> FALSE, val |-> 0]
NoText == [neg |-> FALSE, coeff |-> 0, decimals |-> -1]

Abs(v) == IF v < 0 THEN -v ELSE v
Stands(t) == IF t.neg THEN -t.coeff ELSE t.coeff

\* The values that an argument of a class may have, in quarters.
Values(class) ==
    LET n(bits) == {Unit * k : k \in 0 .. 2^bits - 1}
        z(bits) == {Unit * k : k \in -(2^(bits - 1)) .. 2^(bits - 1) - 1}
    IN  CASE class = "int8" -> z(IntBits \div 2)
          [] class = "uint8" -> n(IntBits \div 2)
          [] class = "int32" -> z(IntBits)
          [] class = "uint32" -> n(IntBits)
          [] class = "logical" -> {0, Unit}
          [] OTHER -> -(Unit * 2^(IntBits - 1) + 3) .. Unit * 2^IntBits

Floats == {"double", "single"}
Classes == Floats \cup {"int8", "uint8", "int32", "uint32", "logical"}

-----------------------------------------------------------------------------
\* Only the first two dimensions are asked: a page of numbers (1 x 1 x n)
\* passes for its first one.
Printable(arg) ==
    /\ arg.class \in Classes
    /\ arg.shape \in {"scalar", "page"}
    /\ ~ arg.complex

\* *rpArg=='i': rpArg is what follows the first letter of the placeholder,
\* which is the S itself if there is a u before it.
AsksInteger(fmt) == fmt.i /\ ~ fmt.u

AsInteger(arg, fmt) == arg.class \notin Floats \/ AsksInteger(fmt)

\* n of {Sn}; behind a u it is not found.
Decimals(fmt) == IF fmt.u \/ fmt.i \/ fmt.n <= 0 THEN 6 ELSE fmt.n

InInt(arg) == arg.val \div Unit \in IntRange

Decimal(v, d) == [neg |-> v < 0, coeff |-> Abs(v), decimals |-> d]

\* Faulty variant: the fraction is cut off, also below zero.
ToIntegerCut(arg) ==
    {Decimal(IF arg.val < 0 THEN -(Abs(arg.val) \div Unit) ELSE arg.val \div Unit, 0)}

\* (int)value: outside of int the cast may give anything.
ToInteger(arg) ==
    IF InInt(arg) THEN {Decimal(arg.val \div Unit, 0)}
    ELSE {Decimal(k, 0) : k \in IntRange}

\* %.nf: the nearest number with d decimals, the even one of two.
ToDecimals(arg, d) ==
    LET scaled == Abs(arg.val) * 10^d
        down == scaled \div Unit
        rest == 2 * (scaled % Unit)
        up == rest > Unit \/ (rest = Unit /\ down % 2 = 1)
    IN  {[neg |-> arg.val < 0, coeff |-> IF up THEN down + 1 ELSE down,
          decimals |-> d]}

Printed(arg, fmt) ==
    IF AsInteger(arg, fmt) THEN ToInteger(arg)
    ELSE ToDecimals(arg, Decimals(fmt))
=============================================================================
