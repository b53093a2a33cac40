------------------------------ MODULE MCNumbers ------------------------------
(***************************************************************************)
(* An instance of the numbers for TLC: four bytes a load for eight, two    *)
(* decimal places, and limits of the integers as far from the powers of    *)
(* ten as those of the code: a number is one digit more than a load (two   *)
(* in the code), a decimal's mantissa more than one load.  The texts are   *)
(* all strings of a few bytes that matter, among them ones that are digits *)
(* but for the upmost bit.                                                 *)
(***************************************************************************)
EXTENDS Numbers

UintsOf == 0 .. 110 \union 990 .. 1010 \union 9990 .. 10010 \union 42900 .. 42949
IntsOf  ==
    -110 .. 110 \union -1010 .. -990 \union 990 .. 1010
    \union {-21475, -21474, -10000, -9999, 9999, 10000, 21473, 21474}
DecimalsOf ==
    -330 .. 330 \union -1010 .. -990 \union 990 .. 1010
    \union {s * n : s \in {-1, 1}, n \in {9999, 10000, 99999, 100000, 131071}}

Strings(alphabet, lengths) == UNION {[1 .. n -> alphabet] : n \in lengths}
TextsOf ==
    [type : {"uint32", "int32", "decimal"},
     text : Strings({Zero, Zero + 7, Hyphen, Dot, 58, 179}, 0 .. 4)
            \union Strings({Zero + 1, Hyphen}, 5 .. 6)
            \union Strings({Zero + 4, Zero + 2}, {5})]
    \union [type : {"decimal"}, text : Strings({Zero + 8, Zero, Hyphen, Dot}, 5 .. 6)
                                     \union Strings({Zero + 8, Hyphen, Dot}, {7})
                                     \union Strings({Zero + 1}, {8})]
=============================================================================
