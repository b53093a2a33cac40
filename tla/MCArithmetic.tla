---------------------------- MODULE MCArithmetic ----------------------------
(***************************************************************************)
(* An instance of the arithmetic for TLC: ten bits for 64, one decimal     *)
(* place for eight, which keeps the order of the limits in the code: the   *)
(* limit of the short product is a few units, the long product overflows.  *)
(***************************************************************************)
EXTENDS Arithmetic

OperandsOf == -26 .. 26 \union {-Largest, -240, -52, -51, -50, 50, 51, 52, 240, Largest}
=============================================================================
