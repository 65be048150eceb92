----------------------------- MODULE DeleteTask -----------------------------
(***************************************************************************)
(* The "deleteSql" task of EsToolWebSocketServer.onMessage: export the     *)
(* documents of a query to a temporary file (EsExport, one query, file     *)
(* named by fileSavePath), send a bulk delete for every line of the file   *)
(* (EsBulk), delete the file, tell the tab and close its connection.       *)
(*                                                                         *)
(* Docs are the documents that satisfy the condition of the task.  Other   *)
(* clients of Elasticsearch may store any of them, again or for the first  *)
(* time, while the task runs.                                              *)
(***************************************************************************)
EXTENDS Integers, Sequences, SequencesExt, FiniteSets

CONSTANTS Docs, PageSize, LogEvery, BatchSize, MaxTries

ASSUME TaskAssumption ==
    /\ IsFiniteSet(Docs)
    /\ {PageSize, LogEvery, BatchSize, MaxTries} \subseteq Nat \ {0}

VARIABLES
    taskPc,         \* where onMessage is
    conn,           \* the connection, shared by all parts
    tempFile,       \* "absent" or "present"
    index,          \* the Docs Elasticsearch holds
    snap,           \* the snapshot of the query: its hits in scroll order
    docOf           \* the document each line of the file names

VARIABLES           \* of the export
    exportPc, day, allCount, reqCount, page, pageTotal, writer, rows, ids,
    toClear, total, live, over, refused, damaged

VARIABLES           \* of the bulk delete
    bulkPc, file, pos, count, contentList, tryCount, last, told, sent,
    pending, applied, acked, dropped

X == INSTANCE EsExport WITH pc <- exportPc, NDays <- 1, NamedByIndex <- FALSE,
                            Totals <- 0 .. Cardinality(Docs)

B == INSTANCE EsBulk WITH pc <- bulkPc, Files <- {}

own == <<taskPc, tempFile, index, snap, docOf>>
exported == <<exportPc, day, allCount, reqCount, page, pageTotal, writer, rows,
              ids, toClear, total, live, over, refused, damaged>>
deletion == <<bulkPc, file, pos, count, contentList, tryCount, last, told, sent,
              pending, applied, acked, dropped>>
vars == <<own, conn, exported, deletion>>

DocsOf(S) == {docOf[l] : l \in S}
-----------------------------------------------------------------------------
Init ==
    /\ taskPc = "export"
    /\ conn = "open"
    /\ tempFile = "absent"
    /\ index \in SUBSET Docs
    /\ snap = <<>>
    /\ docOf = <<>>
    /\ file = <<>>
    /\ X!Start
    /\ B!Start(file)

\* util.dataExport(handler).  init() creates the temporary file.
Export ==
    /\ taskPc = "export"
    /\ X!Work
    /\ tempFile' = IF writer' = "open" THEN "present" ELSE tempFile
    /\ UNCHANGED <<taskPc, index, snap, docOf, deletion>>

\* Its search opens the scroll: the documents to delete are those of now.
ExportSnapshot ==
    /\ taskPc = "export"
    /\ X!SearchOk(Cardinality(index))
    /\ snap' = SetToSeq(index)
    /\ UNCHANGED <<taskPc, tempFile, index, docOf, deletion>>

\* dataExport throws: nothing after it runs, the file and the connection stay.
ExportThrew ==
    /\ taskPc = "export"
    /\ exportPc = "threw"
    /\ taskPc' = "aborted"
    /\ UNCHANGED <<conn, tempFile, index, snap, docOf, exported, deletion>>

\* What is in the file of the export, as lines and the documents they name.
\* A file that missed a write is any mixture of whole and broken lines.
FileContents ==
    IF damaged = {}
    THEN {[lines |-> [l \in DOMAIN rows[1] |-> "doc"],
           docs  |-> [l \in DOMAIN rows[1] |-> snap[rows[1][l]]]]}
    ELSE UNION {[lines : [1 .. n -> {"doc", "bad"}], docs : [1 .. n -> X!Range(snap)]]
                : n \in 0 .. Len(snap)}

GoesOnAfterThrow ==                     \* mutant: the exception is swallowed
    /\ taskPc = "export"
    /\ exportPc \in {"returned", "threw"}
    /\ taskPc' = "delete"
    /\ \E c \in FileContents :
          /\ file' = c.lines
          /\ docOf' = c.docs
    /\ sent' = [l \in DOMAIN file' |-> 0]
    /\ pending' = sent'
    /\ applied' = sent'
    /\ UNCHANGED <<conn, tempFile, index, snap, exported, bulkPc, pos, count,
                   contentList, tryCount, last, told, acked, dropped>>

\* EsDel.deleteByExportFile is called with the file the export has left; the
\* rest of its state is as Init left it.
StartDelete ==
    /\ taskPc = "export"
    /\ exportPc = "returned"
    /\ taskPc' = "delete"
    /\ \E c \in FileContents :
          /\ file' = c.lines
          /\ docOf' = c.docs
    /\ sent' = [l \in DOMAIN file' |-> 0]
    /\ pending' = sent'
    /\ applied' = sent'
    /\ UNCHANGED <<conn, tempFile, index, snap, exported, bulkPc, pos, count,
                   contentList, tryCount, last, told, acked, dropped>>

\* Everything EsDel does but an answered request.  A file that is not there
\* cannot be opened.
Delete ==
    /\ taskPc = "delete"
    /\ \/ B!Open /\ (bulkPc' = "read" => tempFile = "present")
       \/ B!ReadFails \/ B!SkipBlank \/ B!AddLine \/ B!EndOfFile
       \/ B!ParseFails \/ B!RequestThrows \/ B!GiveUp
       \/ B!ReportCount \/ B!ReportOver \/ B!Caught
    /\ UNCHANGED <<own, exported>>

\* A bulk request is answered; Elasticsearch has deleted the documents of S.
DeleteAnswered ==
    /\ taskPc = "delete"
    /\ \E S \in SUBSET contentList :
          /\ B!Answered(S)
          /\ index' = index \ DocsOf(S)
    /\ UNCHANGED <<taskPc, tempFile, snap, docOf, exported>>

\* FileUtils.forceDelete, whatever became of the deletion.  It throws when
\* the file is not there or cannot be removed.
RemoveTempFile ==
    /\ taskPc = "delete"
    /\ bulkPc = "done"
    /\ \/ /\ tempFile = "present"
          /\ tempFile' = "absent"
          /\ taskPc' = "log"
       \/ /\ taskPc' = "failed"
          /\ UNCHANGED tempFile
    /\ UNCHANGED <<conn, index, snap, docOf, exported, deletion>>

\* logger(conn, startTime): "TaskExecutionOver."
LogOver ==
    /\ taskPc = "log"
    /\ \/ X!SendReturns /\ taskPc' = "close"
       \/ X!Raced /\ taskPc' = "failed"
    /\ UNCHANGED <<tempFile, index, snap, docOf, exported, deletion>>

CloseConn ==
    /\ taskPc = "close"
    /\ conn' = "closed"
    /\ taskPc' = "end"
    /\ UNCHANGED <<tempFile, index, snap, docOf, exported, deletion>>
-----------------------------------------------------------------------------
(* The environment *)

\* A delete request that timed out is applied after all.
DeleteLate ==
    /\ \E l \in B!Lines :
          /\ B!ApplyLate(l)
          /\ index' = index \ {docOf[l]}
    /\ UNCHANGED <<taskPc, tempFile, snap, docOf, exported>>

\* Another client stores a document that satisfies the condition.
Create ==
    /\ \E d \in Docs \ index : index' = index \cup {d}
    /\ UNCHANGED <<taskPc, conn, tempFile, snap, docOf, exported, deletion>>

Leaves == X!ClientLeaves /\ UNCHANGED <<own, exported, deletion>>
-----------------------------------------------------------------------------
Thread ==
    \/ Export \/ ExportSnapshot \/ ExportThrew
    \/ StartDelete \/ Delete \/ DeleteAnswered
    \/ RemoveTempFile \/ LogOver \/ CloseConn

Next == Thread \/ DeleteLate \/ Create \/ Leaves

Spec == Init /\ [][Next]_vars /\ WF_vars(Thread)
-----------------------------------------------------------------------------
TypeOK ==
    /\ taskPc \in {"export", "delete", "log", "close", "end", "failed", "aborted"}
    /\ tempFile \in {"absent", "present"}
    /\ index \subseteq Docs
    /\ snap \in Seq(Docs)
    /\ docOf \in [B!Lines -> Docs]
    /\ X!TypeOK
    /\ B!TypeOK

\* The task as a deletion of the documents found at one moment.
Phase ==
    CASE exportPc = "threw" -> "aborted"
      [] exportPc # "threw" /\ taskPc = "export" -> "selecting"
      [] exportPc # "threw" /\ taskPc = "delete" -> "deleting"
      [] OTHER -> "over"

\* Something of the result may be missing from the file: a call was answered
\* by an error status, which dataExport does not take for a failure, or a
\* write was lost.
Gap == refused # {} \/ damaged # {}

Abstract == INSTANCE QueryDelete WITH matched <- X!Range(snap), gap <- Gap,
                                      chosen <- DocsOf(B!Lines), phase <- Phase

\* deleteSql only deletes documents its query matched when it was made, none
\* before its export has returned, and none when the export threw.  What it
\* goes ahead with is the whole result if every call of the export was
\* answered and no write lost; an export whose search or scroll was refused
\* returns as if it had come to the end, and the part it has read is deleted.
ImplementsQueryDelete == Abstract!Spec

\* A document that is stored again after its delete was answered or given up
\* survives, unless a request for it timed out and is still on its way.
RecreatedSurvives ==
    [][\A d \in index \ index' :
          \E l \in B!Lines : /\ docOf[l] = d
                             /\ l \in acked \cup dropped => pending[l] > 0]_vars

\* When the task ran to its end, Elasticsearch answered every search and the
\* file lost no write, then every matched document was in a delete request
\* that was answered or in a batch given up: none is lost between the parts.
EndCoversMatched ==
    (taskPc = "end" /\ last /\ refused = {} /\ damaged = {}) =>
        DocsOf(acked \cup dropped) = X!Range(snap)

\* A task that ended leaves no scroll open, no file and no open connection.
EndLeavesNothing ==
    taskPc = "end" =>
        /\ refused = {} => live = {}
        /\ tempFile = "absent"
        /\ conn = "closed"

\* "After the deletion has succeeded, the temporary file is deleted".
TempRemovedOnlyAfterSuccess ==
    taskPc \in {"log", "close", "end"} => last /\ dropped = {}

\* How far the task is from its end.
TaskStage ==
    CASE taskPc = "export" -> 4
      [] taskPc = "delete" -> 3
      [] taskPc = "log" -> 2
      [] taskPc = "close" -> 1
      [] OTHER -> 0

NearerEnd ==
    \/ TaskStage' < TaskStage
    \/ taskPc = "export" /\ taskPc' = "export" /\ X!Nearer
    \/ taskPc = "delete" /\ taskPc' = "delete" /\ B!StepsLeft' < B!StepsLeft

\* Each step of the worker brings the task nearer to its end, through both of
\* its parts, and nothing that the tab, a late answer or another client does
\* meanwhile takes it back: the worker is not held for ever by one message.
EveryStepNearsEnd ==
    [][/\ Thread => NearerEnd
       /\ ~Thread => UNCHANGED <<taskPc, exported, B!StepsLeft>>]_vars

=============================================================================
