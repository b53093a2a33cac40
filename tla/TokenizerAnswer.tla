-------------------------- MODULE TokenizerAnswer --------------------------
(***************************************************************************)
(* The answers of a tokenizer, as Tokenizer and its implementation both    *)
(* name them.  Of a rejection only that it is one is kept.                 *)
(***************************************************************************)
Answer(status, processed, tokens) ==
    [status |-> status, processed |-> processed, tokens |-> tokens]

Nothing   == Answer("nothing asked", 0, <<>>)
Pending   == Answer("pending", 0, <<>>)
Rejection == Answer("rejected", 0, <<>>)
=============================================================================
