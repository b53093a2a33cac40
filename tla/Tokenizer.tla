----------------------------- MODULE Tokenizer ------------------------------
(***************************************************************************)
(* What a payload decoder promises its caller, without saying how: every   *)
(* buffer it is asked about gets, in one step, one of the answers allowed  *)
(* for that buffer, whatever it was asked before.                          *)
(***************************************************************************)
EXTENDS TokenizerAnswer

CONSTANT
    Answers(_)  \* the answers a buffer may get

VARIABLES request, answer

tokenizerVars == <<request, answer>>

Init == request = <<>> /\ answer = Nothing

\* Any buffer may be presented; one that needs no scan is answered at once.
Ask ==
    /\ answer # Pending
    /\ answer' \in Answers(request') \union {Pending}

Reply ==
    /\ answer = Pending
    /\ answer' \in Answers(request)
    /\ UNCHANGED request

Next == Reply \/ Ask

Safety == Init /\ [][Next]_tokenizerVars

Spec == Safety /\ WF_tokenizerVars(Reply)
=============================================================================
