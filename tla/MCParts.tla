------------------------------ MODULE MCParts ------------------------------
(***************************************************************************)
(* Four parts that share no state in one run, each for itself while the    *)
(* others rest: the timestamps of a session, the numbers in fields, what   *)
(* is calculated with them, and the generator's data model.                *)
(***************************************************************************)
EXTENDS MCTimestamps, MCNumbers, MCArithmetic, MCSchema

VARIABLE part

Nowhere == [types |-> <<>>, records |-> <<>>]
NoSchema ==
    /\ specs = [session |-> Nowhere, application |-> Nowhere] /\ todo = <<>>
    /\ types = <<>> /\ enums = <<>> /\ byType = <<>> /\ listed = <<>>
    /\ outcome = "running"

PartsInit ==
    /\ part \in {"times", "numbers", "calculations", "schema"}
    /\ Init /\ (part # "times" => start.days = 0)
    /\ NumbersInit
    /\ CalculationInit
    /\ part # "calculations" => decimal = 0 /\ optional = 0 /\ ~signed
    /\ IF part = "schema" THEN SchemaInit ELSE NoSchema

PartsNext ==
    /\ UNCHANGED part
    /\ \/ part = "times" /\ Next /\ UNCHANGED <<numbers, calculations, schema>>
       \/ part = "numbers" /\ NumbersNext /\ UNCHANGED <<vars, calculations, schema>>
       \/ part = "calculations" /\ CalculationNext /\ UNCHANGED <<vars, numbers, schema>>
       \/ part = "schema" /\ SchemaNext /\ UNCHANGED <<vars, numbers, calculations>>

PartsSpec == PartsInit /\ [][PartsNext]_<<part, vars, numbers, calculations, schema>>
=============================================================================
