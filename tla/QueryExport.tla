---------------------------- MODULE QueryExport ----------------------------
(***************************************************************************)
(* What an export promises about its files, without scrolls, answers and   *)
(* the tab: the queries are exported one after the other, each from a      *)
(* snapshot of its own, a page at a time, and once the export has failed   *)
(* nothing is written.  A query is left with a short file only when        *)
(* something of it was lost (an error status, a failed write) or when the  *)
(* running count happens to meet its total.                                *)
(***************************************************************************)
EXTENDS Integers, Sequences

CONSTANTS PageSize, NDays, Totals

VARIABLES
    query,              \* the query at work
    hits,               \* the hits of each query, 0 before its snapshot
    files,              \* the hits in each file, up to its first lost write
    count,              \* the hits processed in all queries
    lost,               \* queries of which something was lost
    state               \* "running", "returned" or "failed"

vars == <<query, hits, files, count, lost, state>>

Queries == 1 .. NDays
Snapshot(n) == [i \in 1 .. n |-> i]

Init ==
    /\ query = 1
    /\ hits = [q \in Queries |-> 0]
    /\ files = [q \in Queries |-> <<>>]
    /\ count = 0
    /\ lost = {}
    /\ state = "running"

TakeSnapshot ==
    /\ state = "running"
    /\ files[query] = <<>> /\ hits[query] = 0
    /\ \E n \in Totals : hits' = [hits EXCEPT ![query] = n]
    /\ UNCHANGED <<query, files, count, lost, state>>

\* A whole page, or the rest of the snapshot.
AppendPage ==
    /\ state = "running"
    /\ query \notin lost
    /\ LET written == Len(files[query])
           next == IF written + PageSize < hits[query]
                   THEN written + PageSize ELSE hits[query]
       IN  /\ next > written
           /\ files' = [files EXCEPT ![query] = Snapshot(next)]
           /\ count' = count + (next - written)
    /\ UNCHANGED <<query, hits, lost, state>>

\* A page that does not reach the file is counted like any other.
LosePage ==
    /\ state = "running"
    /\ lost' = lost \cup {query}
    /\ \E n \in 1 .. PageSize : count' = count + n
    /\ UNCHANGED <<query, hits, files, state>>

\* Elasticsearch answers with an error status.
Refuse ==
    /\ state = "running"
    /\ lost' = lost \cup {query}
    /\ UNCHANGED <<query, hits, files, count, state>>

Done ==
    \/ files[query] = Snapshot(hits[query])
    \/ query \in lost
    \/ count = hits[query]

NextQuery ==
    /\ state = "running"
    /\ Done
    /\ query < NDays
    /\ query' = query + 1
    /\ UNCHANGED <<hits, files, count, lost, state>>

Return ==
    /\ state = "running"
    /\ Done
    /\ query = NDays
    /\ state' = "returned"
    /\ UNCHANGED <<query, hits, files, count, lost>>

\* The exception of a hit without a file comes after it was counted.
Fail ==
    /\ state = "running"
    /\ state' = "failed"
    /\ count' \in {count, count + 1}
    /\ UNCHANGED <<query, hits, files, lost>>

Next ==
    \/ TakeSnapshot \/ AppendPage \/ LosePage \/ Refuse
    \/ NextQuery \/ Return \/ Fail

Spec == Init /\ [][Next]_vars
=============================================================================
