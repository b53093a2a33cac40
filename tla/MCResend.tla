------------------------------ MODULE MCResend ------------------------------
(***************************************************************************)
(* An instance of one call on a fresh decoder for TLC, made by the resend   *)
(* encoder: whole messages of a counterparty's and of the library's own    *)
(* encoder with every alignment of their fields, and damaged ones.         *)
(***************************************************************************)
EXTENDS Resend, MCPayload

Now == <<50, 48>> \o Rep(51, 19)
=============================================================================
