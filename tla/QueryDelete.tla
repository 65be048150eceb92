---------------------------- MODULE QueryDelete ----------------------------
(***************************************************************************)
(* What "delete from ... where ..." promises, without its files, pages,    *)
(* batches and retries.  The documents the query matches are determined    *)
(* once, at one moment, and are then read; the documents to remove are     *)
(* chosen once, when the task goes ahead.  If reading went through without *)
(* a gap they are the documents matched; if something of the result was    *)
(* lost they are some of them, for a gap does not keep the task from going *)
(* ahead.  An exception does: the task aborts and removes nothing.  It     *)
(* does not promise to remove all that it chose, nor to spare one that     *)
(* another client creates again while the task is under way.               *)
(***************************************************************************)
CONSTANT Docs           \* the documents that satisfy the condition

VARIABLES
    index,              \* the documents Elasticsearch holds
    matched,            \* the documents the query matched
    gap,                \* whether a part of the result may have been lost
    chosen,             \* the documents to remove
    phase

vars == <<index, matched, gap, chosen, phase>>

Init ==
    /\ index \in SUBSET Docs
    /\ matched = {}
    /\ gap = FALSE
    /\ chosen = {}
    /\ phase = "selecting"

Snapshot ==
    /\ phase = "selecting"
    /\ matched = {}
    /\ matched' = index
    /\ UNCHANGED <<index, gap, chosen, phase>>

\* A call that reads the result is answered by an error, or a write of what
\* was read is lost.
Gap ==
    /\ phase = "selecting"
    /\ gap' = TRUE
    /\ UNCHANGED <<index, matched, chosen, phase>>

GoAhead ==
    /\ phase = "selecting"
    /\ \E S \in SUBSET matched : /\ gap \/ S = matched
                                 /\ chosen' = S
    /\ phase' = "deleting"
    /\ UNCHANGED <<index, matched, gap>>

Abort ==
    /\ phase = "selecting"
    /\ phase' = "aborted"
    /\ UNCHANGED <<index, matched, gap, chosen>>

\* Also when the task is over: Elasticsearch may be slow to apply a request
\* the task gave up on.
Remove ==
    /\ phase \in {"deleting", "over"}
    /\ \E S \in SUBSET chosen : index' = index \ S
    /\ UNCHANGED <<matched, gap, chosen, phase>>

Finish ==
    /\ phase = "deleting"
    /\ phase' = "over"
    /\ UNCHANGED <<index, matched, gap, chosen>>

\* Another client stores documents.
Create ==
    /\ \E d \in Docs : index' = index \cup {d}
    /\ UNCHANGED <<matched, gap, chosen, phase>>

Next == Snapshot \/ Gap \/ GoAhead \/ Abort \/ Remove \/ Finish \/ Create

Spec == Init /\ [][Next]_vars /\ WF_vars(GoAhead \/ Abort) /\ WF_vars(Finish)
=============================================================================
