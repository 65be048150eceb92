---------------------------- MODULE BatchWriter ----------------------------
(***************************************************************************)
(* What EsImp and EsDel promise about the lines of a file, without reading *)
(* it, retrying or reporting: the items are taken in order, BatchSize at a *)
(* time, and each batch as a whole is either answered or given up before   *)
(* any later item has an outcome.  A batch with a malformed item is never  *)
(* answered.  It does not promise that the last item is reached.           *)
(***************************************************************************)
EXTENDS Integers, FiniteSets

CONSTANT BatchSize

VARIABLES
    items,              \* the positions of the items in the file
    bad,                \* the malformed ones
    answered,           \* items of batches the server answered
    givenUp             \* items of batches that were abandoned

vars == <<items, bad, answered, givenUp>>

Left == items \ (answered \cup givenUp)

\* The first BatchSize items without an outcome, or all that are left.
NextBatch == {i \in Left : Cardinality({k \in Left : k < i}) < BatchSize}

Init ==
    /\ bad \subseteq items
    /\ answered = {}
    /\ givenUp = {}

Answer ==
    /\ NextBatch \cap bad = {}
    /\ answered' = answered \cup NextBatch
    /\ UNCHANGED <<items, bad, givenUp>>

GiveUp ==
    /\ givenUp' = givenUp \cup NextBatch
    /\ UNCHANGED <<items, bad, answered>>

Next == Answer \/ GiveUp

Spec == Init /\ [][Next]_vars
=============================================================================
