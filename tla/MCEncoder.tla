----------------------------- MODULE MCEncoder -----------------------------
(***************************************************************************)
(* An instance of the encoder for TLC.  Lanes of the checksum wrap after   *)
(* two or three blocks, as they do after 4112 bytes in the code.           *)
(***************************************************************************)
EXTENDS Encoder

Rep(byte, n) == [i \in 1 .. n |-> byte]

BeginOf  == <<70, 73, 88, 84, 46, 49, 46, 49>>     \* "FIXT.1.1"
SenderOf == <<66, 85>>
TargetOf == <<83>>
TypesOf  == {68}
HeadersOf  == {[number |-> 12, time |-> Rep(57, 21)]}
TextsOf    == {F(58, <<>>)}
NumbersOf  == {[tag |-> 44, number |-> -120]}
PayloadsOf == {[lengthTag |-> 212, tag |-> 213, value |-> <<1, 61, 0>> \o Rep(255, 20)]}
=============================================================================
