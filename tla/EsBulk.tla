------------------------------- MODULE EsBulk -------------------------------
(***************************************************************************)
(* EsImp.dataImport and EsDel.deleteByExportFile: the lines of a file are  *)
(* sent to the _bulk endpoint of Elasticsearch in batches, each batch      *)
(* retried by a recursive send2es.  The two classes have the same control; *)
(* they differ in the text of an item (index or delete), which this module *)
(* does not look at.                                                       *)
(*                                                                         *)
(* A line is known by its position in the file.  "blank" lines are         *)
(* skipped, "bad" ones are not JSON: JsonUtil.readTree throws on them      *)
(* before the request is made.                                             *)
(*                                                                         *)
(* Elasticsearch is an environment.  A request that gets an HTTP answer of *)
(* any status counts as sent (HttpClient does not throw on 4xx and 5xx),   *)
(* though the server may have applied none or only some of its items.  A   *)
(* request that throws (refused, reset, timed out) may have reached the    *)
(* server all the same and may be applied at any later moment.             *)
(***************************************************************************)
EXTENDS Integers, Sequences, FiniteSets, WebSocketUtil

CONSTANTS
    BatchSize,      \* 200 in the code
    MaxTries,       \* 10 in the code
    Files           \* the files that may be given to the task

Kinds == {"doc", "blank", "bad"}

ASSUME BulkAssumption ==
    /\ BatchSize \in Nat \ {0}
    /\ MaxTries \in Nat \ {0}
    /\ Files \subseteq Seq(Kinds)

VARIABLES
    file,           \* the lines of dataFilePath
    pos,            \* lines the LineIterator has handed out
    count,          \* non-empty lines read so far
    contentList,    \* the batch being collected or sent
    tryCount,       \* depth of the recursive send2es
    last,           \* TRUE once the loop is left: this is the final send2es
    pc,             \* where the thread is
    told,           \* the last "Put count" / "Delete count" the tab received
    \* The following are not in the code; they record what happened to a line.
    sent,           \* requests that carried the line
    pending,        \* of these, the ones that threw and may still be applied
    applied,        \* times Elasticsearch applied the item of the line
    acked,          \* lines of batches that got an HTTP answer
    dropped         \* lines of batches given up

batch == <<contentList, tryCount>>
ghosts == <<sent, pending, applied, acked, dropped>>
own == <<file, pos, count, batch, last, pc, told, ghosts>>
vars == <<own, conn>>

Lines == 1 .. Len(file)
NonBlank(n) == {l \in 1 .. n : file[l] # "blank"}

\* f, one higher on the lines of S.
Bump(f, S) == [l \in DOMAIN f |-> IF l \in S THEN f[l] + 1 ELSE f[l]]
-----------------------------------------------------------------------------
Start(lines) ==
    /\ pos = 0
    /\ count = 0
    /\ contentList = {}
    /\ tryCount = 0
    /\ last = FALSE
    /\ pc = "open"
    /\ told = 0
    /\ sent = [l \in 1 .. Len(lines) |-> 0]
    /\ pending = [l \in 1 .. Len(lines) |-> 0]
    /\ applied = [l \in 1 .. Len(lines) |-> 0]
    /\ acked = {}
    /\ dropped = {}

Init ==
    /\ file \in Files
    /\ Start(file)
    /\ conn \in ConnStates

\* FileUtils.lineIterator, which throws when the file cannot be opened.
Open ==
    /\ pc = "open"
    /\ pc' \in {"read", "caught"}
    /\ UNCHANGED <<file, pos, count, batch, last, told, ghosts, conn>>

\* hasNext() wraps an IOException in an IllegalStateException.
ReadFails ==
    /\ pc = "read"
    /\ pc' = "caught"
    /\ UNCHANGED <<file, pos, count, batch, last, told, ghosts, conn>>

CountsBlank ==                          \* mutant: count++ before the test
    /\ pc = "read"
    /\ pos < Len(file)
    /\ file[pos + 1] = "blank"
    /\ pos' = pos + 1
    /\ count' = count + 1
    /\ UNCHANGED <<file, batch, last, pc, told, ghosts, conn>>

SkipBlank ==
    /\ pc = "read"
    /\ pos < Len(file)
    /\ file[pos + 1] = "blank"
    /\ pos' = pos + 1
    /\ UNCHANGED <<file, count, batch, last, pc, told, ghosts, conn>>

BatchFullEarly(n) == (n - 1) % BatchSize = 0    \* mutant: the old count
BatchFull(n) == n % BatchSize = 0

AddLine ==
    /\ pc = "read"
    /\ pos < Len(file)
    /\ file[pos + 1] # "blank"
    /\ pos' = pos + 1
    /\ count' = count + 1
    /\ contentList' = contentList \cup {pos + 1}
    /\ tryCount' = 0
    /\ pc' = IF BatchFull(count') THEN "send" ELSE "read"
    /\ UNCHANGED <<file, last, told, ghosts, conn>>

NoFinalSend ==                          \* mutant: without line 66
    /\ pc = "read"
    /\ pos = Len(file)
    /\ last' = TRUE
    /\ tryCount' = 0
    /\ pc' = "report"
    /\ UNCHANGED <<file, pos, count, contentList, told, ghosts, conn>>

\* The loop ends; what is left is sent, even when nothing is left.
EndOfFile ==
    /\ pc = "read"
    /\ pos = Len(file)
    /\ last' = TRUE
    /\ tryCount' = 0
    /\ pc' = "send"
    /\ UNCHANGED <<file, pos, count, contentList, told, ghosts, conn>>
-----------------------------------------------------------------------------
(* send2es *)

ExhaustedLate == tryCount > MaxTries    \* mutant
Exhausted == tryCount >= MaxTries

SameTry == 0                            \* mutant: send2es(..., 0)
NextTry == tryCount + 1

NotCleared == contentList               \* mutant: clear() is missing
Cleared == {}

Poisoned == \E l \in contentList : file[l] = "bad"

ParseFailsForever ==                    \* mutant: send2es(..., tryCount)
    /\ pc = "send"
    /\ ~Exhausted
    /\ Poisoned
    /\ UNCHANGED vars

\* readTree throws: no request is made and the same batch is tried again.
ParseFails ==
    /\ pc = "send"
    /\ ~Exhausted
    /\ Poisoned
    /\ tryCount' = NextTry
    /\ UNCHANGED <<file, pos, count, contentList, last, pc, told, ghosts, conn>>

\* The PUT throws: tried again, and whatever the server got stays pending.
RequestThrows ==
    /\ pc = "send"
    /\ ~Exhausted
    /\ ~Poisoned
    /\ sent' = Bump(sent, contentList)
    /\ pending' = Bump(pending, contentList)
    /\ tryCount' = NextTry
    /\ UNCHANGED <<file, pos, count, contentList, last, pc, told,
                   applied, acked, dropped, conn>>

\* The PUT is answered, with any status; the server applied the items of S.
Answered(S) ==
    /\ pc = "send"
    /\ ~Exhausted
    /\ ~Poisoned
    /\ sent' = Bump(sent, contentList)
    /\ applied' = Bump(applied, S)
    /\ acked' = acked \cup contentList
    /\ contentList' = Cleared
    /\ pc' = "report"
    /\ UNCHANGED <<file, pos, count, tryCount, last, told, pending, dropped, conn>>

\* tryCount >= 10: the batch is cleared and send2es returns normally.
GiveUp ==
    /\ pc = "send"
    /\ Exhausted
    /\ dropped' = dropped \cup contentList
    /\ contentList' = Cleared
    /\ pc' = "report"
    /\ UNCHANGED <<file, pos, count, tryCount, last, told,
                   sent, pending, applied, acked, conn>>

\* Elasticsearch gets to an item of a request the tool saw fail.
ApplyLate(l) ==
    /\ pending[l] > 0
    /\ pending' = [pending EXCEPT ![l] = @ - 1]
    /\ applied' = [applied EXCEPT ![l] = @ + 1]
    /\ UNCHANGED <<file, pos, count, batch, last, pc, told,
                   sent, acked, dropped, conn>>
-----------------------------------------------------------------------------
(* The messages to the tab *)

\* "Put count:" / "Delete count:" after a batch.
ReportCount ==
    /\ pc = "report"
    /\ \/ /\ SendReturns
          /\ told' = IF Delivered THEN count ELSE told
          /\ pc' = IF last THEN "over" ELSE "read"
       \/ /\ Raced
          /\ pc' = "caught"
          /\ UNCHANGED told
    /\ UNCHANGED <<file, pos, count, batch, last, ghosts>>

\* "Import over." / "Delete over."
ReportOver ==
    /\ pc = "over"
    /\ \/ SendReturns /\ pc' = "done"
       \/ Raced /\ pc' = "caught"
    /\ UNCHANGED <<file, pos, count, batch, last, told, ghosts>>

\* The catch block sends the stack trace, whose own failure is swallowed.
Caught ==
    /\ pc = "caught"
    /\ SendSwallows
    /\ pc' = "done"
    /\ UNCHANGED <<file, pos, count, batch, last, told, ghosts>>

Leaves == ClientLeaves /\ UNCHANGED own
-----------------------------------------------------------------------------
Thread ==
    \/ Open \/ ReadFails \/ SkipBlank \/ AddLine \/ EndOfFile
    \/ ParseFails \/ RequestThrows \/ GiveUp
    \/ \E S \in SUBSET contentList : Answered(S)
    \/ ReportCount \/ ReportOver \/ Caught

Environment ==
    \/ \E l \in Lines : ApplyLate(l)
    \/ Leaves

Next == Thread \/ Environment

\* The thread runs on: every HTTP call has a connect and a read timeout.
Spec == Init /\ [][Next]_vars /\ WF_vars(Thread)
-----------------------------------------------------------------------------
TypeOK ==
    /\ file \in Seq(Kinds)
    /\ pos \in 0 .. Len(file)
    /\ count \in Nat
    /\ contentList \subseteq Lines
    /\ tryCount \in 0 .. MaxTries
    /\ last \in BOOLEAN
    /\ pc \in {"open", "read", "send", "report", "over", "caught", "done"}
    /\ told \in Nat
    /\ sent \in [Lines -> Nat]
    /\ pending \in [Lines -> Nat]
    /\ applied \in [Lines -> Nat]
    /\ acked \subseteq Lines
    /\ dropped \subseteq Lines
    /\ conn \in ConnStates

\* Every non-empty line read so far is in exactly one place: in the batch at
\* hand, in a batch that was answered, or in a batch that was given up.  No
\* line is forgotten when the list is cleared (also by every level of the
\* recursion that unwinds), and none is in two batches.
Accounted ==
    /\ contentList \cup acked \cup dropped = NonBlank(pos)
    /\ contentList \cap acked = {}
    /\ contentList \cap dropped = {}
    /\ acked \cap dropped = {}

\* When the loop has ended, all non-empty lines have had their outcome: the
\* final partial batch is not lost, whatever became of the earlier ones.
EndsWithEveryLine ==
    (last /\ pc \in {"report", "over", "done"}) =>
        acked \cup dropped = NonBlank(Len(file))

\* A line is in at most MaxTries requests, and the server applies it at most
\* once per request: duplicates of an import come from retries only.
AttemptsBounded ==
    \A l \in Lines : applied[l] + pending[l] <= sent[l] /\ sent[l] <= MaxTries

\* The batch a line belongs to, computed from the file alone: the non-empty
\* lines in order, BatchSize at a time.
BatchOf(l) == (Cardinality(NonBlank(l)) - 1) \div BatchSize

\* What happens to a line is decided by its own batch only: a batch holding a
\* malformed line is dropped whole without ever reaching the server, a batch
\* without one is dropped only after MaxTries requests, and the lines of one
\* batch share one outcome.
OutcomePerBatch ==
    \A l \in acked \cup dropped :
        LET mates == {k \in NonBlank(Len(file)) : BatchOf(k) = BatchOf(l)}
            poisoned == \E k \in mates : file[k] = "bad"
        IN  /\ mates \subseteq acked \/ mates \subseteq dropped
            /\ poisoned => l \in dropped /\ sent[l] = 0
            /\ ~poisoned /\ l \in dropped => sent[l] = MaxTries

\* The count shown in the tab never runs ahead of the batches that are over.
ToldIsHandled == told <= Cardinality(acked \cup dropped)

\* A line is never put into a request again once its batch was answered or
\* given up: the list is empty when the next batch starts to fill.
NoResendAfterOutcome ==
    [][\A l \in Lines : sent'[l] # sent[l] => l \notin acked \cup dropped]_vars

\* The file as items that wait for their outcome.
Batches == INSTANCE BatchWriter
    WITH items <- NonBlank(Len(file)),
         bad <- {l \in Lines : file[l] = "bad"},
         answered <- acked,
         givenUp <- dropped

\* Reading, collecting, the retries and the final send2es come down to this:
\* the lines have their outcomes in the order of the file, BatchSize at a time,
\* and no batch is begun before the one ahead of it is over.
ImplementsBatchWriter == Batches!Spec

\* The most steps the thread may still take: n lines to read, each of them a
\* batch of its own at worst, which is tried MaxTries times, given up and
\* reported; the final send2es, its report and "over"; or the catch block.
ToRead(n) == n * (MaxTries + 3) + MaxTries + 5
ToReport == IF last THEN 3 ELSE ToRead(Len(file) - pos) + 1
StepsLeft ==
    CASE pc = "open" -> ToRead(Len(file) - pos) + 1
      [] pc = "read" -> ToRead(Len(file) - pos)
      [] pc = "send" -> (MaxTries - tryCount) + 1 + ToReport
      [] pc = "report" -> ToReport
      [] pc = "over" -> 2
      [] pc = "caught" -> 1
      [] pc = "done" -> 0

\* Each step of the thread, whatever fails in it, uses up one of a number that
\* the length of the file and MaxTries fix in advance, and nothing the server
\* or the tab does gives it more to do: no retry begins from the start.
EveryStepCounts ==
    [][/\ StepsLeft' \in Nat
       /\ IF Thread THEN StepsLeft' < StepsLeft ELSE StepsLeft' = StepsLeft]_vars

\* The task ends, whatever the server does and whether or not the tab stays.
Terminates == <>(pc = "done")
=============================================================================
