------------------------------- MODULE Scans -------------------------------
(***************************************************************************)
(* The code finds things by scanning forward and stopping at the first     *)
(* match: the lowest index of the matches.                                 *)
(***************************************************************************)
EXTENDS Naturals

Least(S) == CHOOSE x \in S : \A y \in S : x <= y
=============================================================================
