------------------------------ MODULE EsExport ------------------------------
(***************************************************************************)
(* EsExportUtil.dataExport and dataExportByDay with a handler that writes  *)
(* a text file (backup, data or log): the hits of a query are read page by *)
(* page from a scroll of Elasticsearch and written to a file, one file for *)
(* the whole query or one for each day of its time range.                  *)
(*                                                                         *)
(* A hit is known by its position in the snapshot that its query opened.   *)
(* Elasticsearch is an environment: every call may be answered, be         *)
(* answered with an error status (HttpClient returns the error body like   *)
(* any other, which has no hits, no scroll id and no total) or throw.      *)
(***************************************************************************)
EXTENDS Integers, Sequences, FiniteSets, SequencesExt, WebSocketUtil

CONSTANTS
    PageSize,       \* 100 in the code ("size=100" in the search URL)
    LogEvery,       \* 10 in the code
    NDays,          \* queries of the export: 1, or the days of the range
    Totals,         \* how many hits a query may have
    NamedByIndex    \* FALSE when fileSavePath names the file (deleteSql)

ASSUME ExportAssumption ==
    /\ PageSize \in Nat \ {0}
    /\ LogEvery \in Nat \ {0}
    /\ NDays \in Nat \ {0}
    /\ Totals \subseteq Nat
    /\ NamedByIndex \in BOOLEAN

VARIABLES
    pc,             \* where the thread is
    day,            \* the query at work
    allCount,       \* EsExportHandler.allCount: hits processed by the handler
    reqCount,       \* pages processed by this dataExport
    page,           \* the hits in the last answer (root)
    pageTotal,      \* hits.total of the last answer
    writer,         \* "open", or "null" when the file could not be opened
    rows,           \* the hits in each file
    ids,            \* scrollIdSet in its insertion order; 0 is the empty id
    toClear,        \* what the loop over scrollIdSet has still to delete
    \* The following are not in the code.
    total,          \* hits in the snapshot of each query
    live,           \* scroll contexts opened and not yet deleted
    over,           \* queries that logged "ExportOver"
    refused,        \* queries that got an error status from Elasticsearch
    damaged         \* files whose writer swallowed an IOException

handler == <<allCount, writer, rows, damaged>>
loop == <<reqCount, page, pageTotal, ids, toClear>>
server == <<total, live, refused>>
own == <<pc, day, handler, loop, server, over>>
vars == <<own, conn>>

Days == 1 .. NDays
NoHits == <<>>

\* The page of the snapshot of n hits that begins with the given one.
PageFrom(first, n) ==
    LET left == n - first + 1
    IN  [i \in 1 .. (IF left < PageSize THEN left ELSE PageSize) |-> first + i - 1]

OneFile(d) == 1                         \* mutant: without the day key

\* getFileName: the day key is part of the name, fileSavePath is used as is.
FileOf(d) == d
-----------------------------------------------------------------------------
Start ==
    /\ pc = "init"
    /\ day = 1
    /\ allCount = 0
    /\ reqCount = 0
    /\ page = NoHits
    /\ pageTotal = 0
    /\ writer = "null"
    /\ rows = [d \in Days |-> <<>>]
    /\ ids = <<>>
    /\ toClear = <<>>
    /\ total = [d \in Days |-> 0]
    /\ live = {}
    /\ over = {}
    /\ refused = {}
    /\ damaged = {}

Init == Start /\ conn \in ConnStates

\* handler.init(): a new FileWriteUtil truncates the file (append is false);
\* it swallows the IOException when the file cannot be opened.
InitHandler ==
    /\ pc = "init"
    /\ pc' = "search"
    /\ reqCount' = 0
    /\ \/ /\ writer' = "open"
          /\ rows' = [rows EXCEPT ![FileOf(day)] = <<>>]
       \/ /\ writer' = "null"
          /\ UNCHANGED rows
    /\ UNCHANGED <<day, allCount, page, pageTotal, ids, toClear, server, over,
                   damaged, conn>>

\* The SQL has no " from x ", so getEsIndexName throws, outside the try block;
\* or parseSqlPerDay cannot read its dates.  No file was opened.
InitThrows ==
    /\ pc = "init"
    /\ NamedByIndex
    /\ day = 1
    /\ pc' = "threw"
    /\ UNCHANGED <<day, handler, loop, server, over, conn>>

\* The search is answered with n hits and the id of a scroll.
SearchOk(n) ==
    /\ pc = "search"
    /\ total' = [total EXCEPT ![day] = n]
    /\ page' = PageFrom(1, n)
    /\ pageTotal' = n
    /\ ids' = <<1>>
    /\ live' = live \cup {<<day, 1>>}
    /\ pc' = "loop"
    /\ UNCHANGED <<day, handler, reqCount, toClear, over, refused, conn>>

\* An error status of the search, or of _sql/_explain whose body is then
\* used as the query: no hits and an empty scroll id.
SearchRefused ==
    /\ pc = "search"
    /\ page' = NoHits
    /\ pageTotal' = 0
    /\ ids' = <<0>>
    /\ refused' = refused \cup {day}
    /\ pc' = "loop"
    /\ UNCHANGED <<day, handler, reqCount, toClear, total, live, over, conn>>

SearchThrows ==
    /\ pc = "search"
    /\ pc' = "caught"
    /\ UNCHANGED <<day, handler, loop, server, over, conn>>
-----------------------------------------------------------------------------
(* dataListProcess: the handler writes a page and flushes *)

\* What reaches the file once its writer swallowed an IOException is unknown.
WritePage ==
    /\ pc = "loop"
    /\ page # NoHits
    /\ writer = "open"
    /\ reqCount' = reqCount + 1
    /\ allCount' = allCount + Len(page)
    /\ \/ /\ FileOf(day) \notin damaged
          /\ rows' = [rows EXCEPT ![FileOf(day)] = @ \o page]
          /\ UNCHANGED damaged
       \/ /\ damaged' = damaged \cup {FileOf(day)}
          /\ UNCHANGED rows
    /\ pc' = "fetch"
    /\ UNCHANGED <<day, writer, page, pageTotal, ids, toClear, server, over, conn>>

\* The first append throws a NullPointerException, after the hit was counted.
WriteThrows ==
    /\ pc = "loop"
    /\ page # NoHits
    /\ writer = "null"
    /\ reqCount' = reqCount + 1
    /\ allCount' = allCount + 1
    /\ pc' = "caught"
    /\ UNCHANGED <<day, writer, rows, damaged, page, pageTotal, ids, toClear,
                   server, over, conn>>

LastIdOnly == <<Last(ids)>>             \* mutant: one id instead of a set
ToDelete == ids

LoopEndsOnEmptyId ==                    \* mutant: the condition in line 97
    /\ pc = "loop"
    /\ Last(ids) = 0
    /\ toClear' = ToDelete
    /\ pc' = "clear"
    /\ UNCHANGED <<day, handler, reqCount, page, pageTotal, ids, server, over, conn>>

\* The last answer had no hits.
LoopEnds ==
    /\ pc = "loop"
    /\ page = NoHits
    /\ toClear' = ToDelete
    /\ pc' = "clear"
    /\ UNCHANGED <<day, handler, reqCount, page, pageTotal, ids, server, over, conn>>
-----------------------------------------------------------------------------
(* The next page *)

AfterFetch == IF reqCount % LogEvery = 0 THEN "progress" ELSE "test"

\* "_scroll_id" may be the same as before or a new one.
FetchOk ==
    /\ pc = "fetch"
    /\ page' = PageFrom(Last(page) + 1, total[day])
    /\ pageTotal' = total[day]
    /\ \/ UNCHANGED <<ids, live>>
       \/ /\ ids' = Append(ids, Len(ids) + 1)
          /\ live' = live \cup {<<day, Len(ids) + 1>>}
    /\ pc' = AfterFetch
    /\ UNCHANGED <<day, handler, reqCount, toClear, total, over, refused, conn>>

\* An error status, as when the scroll has expired.
FetchRefused ==
    /\ pc = "fetch"
    /\ page' = NoHits
    /\ pageTotal' = 0
    /\ ids' = Append(ids, 0)
    /\ refused' = refused \cup {day}
    /\ pc' = AfterFetch
    /\ UNCHANGED <<day, handler, reqCount, toClear, total, live, over, conn>>

FetchRetries ==                         \* mutant: goes round the loop again
    /\ pc = "fetch"
    /\ pc' = "loop"
    /\ UNCHANGED <<day, handler, loop, server, over, conn>>

FetchThrows ==
    /\ pc = "fetch"
    /\ pc' = "caught"
    /\ UNCHANGED <<day, handler, loop, server, over, conn>>

\* logger(handler, "Exporting", ...) on every LogEvery-th request.
LogProgress ==
    /\ pc = "progress"
    /\ \/ SendReturns /\ pc' = "test"
       \/ Raced /\ pc' = "caught"
    /\ UNCHANGED <<day, handler, loop, server, over>>

OnePageEarly == allCount + PageSize >= pageTotal    \* mutant
AllQueried == allCount = pageTotal

NotYetAll ==
    /\ pc = "test"
    /\ ~AllQueried
    /\ pc' = "loop"
    /\ UNCHANGED <<day, handler, loop, server, over, conn>>

\* getAllCount() == total: log "ExportOver" and break.
ExportOver ==
    /\ pc = "test"
    /\ AllQueried
    /\ over' = over \cup {day}
    /\ toClear' = ToDelete
    /\ \/ SendReturns /\ pc' = "clear"
       \/ Raced /\ pc' = "caught"
    /\ UNCHANGED <<day, handler, reqCount, page, pageTotal, ids, server>>
-----------------------------------------------------------------------------
(* The end of dataExport *)

ClearScroll ==
    /\ pc = "clear"
    /\ toClear # <<>>
    /\ \/ live' = live \ {<<day, Head(toClear)>>} /\ UNCHANGED refused
       \/ refused' = refused \cup {day} /\ UNCHANGED live
    /\ toClear' = Tail(toClear)
    /\ UNCHANGED <<pc, day, handler, reqCount, page, pageTotal, ids, total, over, conn>>

ClearThrows ==
    /\ pc = "clear"
    /\ toClear # <<>>
    /\ pc' = "caught"
    /\ UNCHANGED <<day, handler, loop, server, over, conn>>

\* "ExportStartTime=..." once every scroll was deleted.
LogTimes ==
    /\ pc = "clear"
    /\ toClear = <<>>
    /\ \/ SendReturns /\ pc' = "close"
       \/ Raced /\ pc' = "caught"
    /\ UNCHANGED <<day, handler, loop, server, over>>

\* The catch block: handler.logger(e) swallows its own exceptions.
Caught ==
    /\ pc = "caught"
    /\ SendSwallows
    /\ pc' = "abort"
    /\ UNCHANGED <<day, handler, loop, server, over>>

\* The finally block closes the file and logs its path; dataExportByDay goes
\* on to the next day only when dataExport has returned.  Its local variables
\* are gone.
Close ==
    /\ pc \in {"close", "abort"}
    /\ reqCount' = 0
    /\ page' = NoHits
    /\ pageTotal' = 0
    /\ ids' = <<>>
    /\ toClear' = <<>>
    /\ \/ Raced /\ pc' = "threw" /\ UNCHANGED day
       \/ /\ SendReturns
          /\ IF pc = "abort" THEN pc' = "threw" /\ UNCHANGED day
             ELSE IF day = NDays THEN pc' = "returned" /\ UNCHANGED day
             ELSE pc' = "init" /\ day' = day + 1
    /\ UNCHANGED <<handler, server, over>>

Leaves == ClientLeaves /\ UNCHANGED own
-----------------------------------------------------------------------------
\* Every step of the thread but the one that takes the snapshot.
Work ==
    \/ InitHandler \/ InitThrows
    \/ SearchRefused \/ SearchThrows
    \/ WritePage \/ WriteThrows \/ LoopEnds
    \/ FetchOk \/ FetchRefused \/ FetchThrows
    \/ LogProgress \/ NotYetAll \/ ExportOver
    \/ ClearScroll \/ ClearThrows \/ LogTimes
    \/ Caught \/ Close

Thread == Work \/ \E n \in Totals : SearchOk(n)

Next == Thread \/ Leaves

\* Every HTTP call has a connect and a read timeout, so the thread runs on.
Spec == Init /\ [][Next]_vars /\ WF_vars(Thread)
-----------------------------------------------------------------------------
TypeOK ==
    /\ pc \in {"init", "search", "loop", "fetch", "progress", "test", "clear",
               "close", "caught", "abort", "returned", "threw"}
    /\ day \in Days
    /\ allCount \in Nat
    /\ reqCount \in Nat
    /\ page \in Seq(Nat)
    /\ pageTotal \in Nat
    /\ writer \in {"open", "null"}
    /\ rows \in [Days -> Seq(Nat)]
    /\ ids \in Seq(Nat)
    /\ toClear \in Seq(Nat)
    /\ total \in [Days -> Nat]
    /\ live \subseteq Days \X Nat
    /\ over \subseteq Days
    /\ refused \subseteq Days
    /\ damaged \subseteq Days
    /\ conn \in ConnStates

Finished == IF pc = "returned" THEN Days ELSE 1 .. day - 1

\* The lines in the files of the first d queries, and how many they are.
LinesUpTo(d) == UNION {{e} \X DOMAIN rows[FileOf(e)] : e \in 1 .. d}
RowsUpTo(d) == Cardinality(LinesUpTo(d))

\* The file of a query holds a beginning of its snapshot: no hit is skipped,
\* repeated or taken from another day's answer.
RowsArePrefix ==
    \A d \in Days \ damaged :
        /\ rows[d] = [i \in 1 .. Len(rows[d]) |-> i]
        /\ Len(rows[d]) <= total[d]

\* An export that returned wrote every hit of every query that Elasticsearch
\* answered without an error status.
ReturnedComplete ==
    \A d \in Finished \ (refused \cup damaged) : Len(rows[d]) = total[d]

\* "ExportOver" is logged, and the loop left, when all data has been queried.
ExportOverMeansAll ==
    \A d \in over \ damaged : Len(rows[d]) = total[d]

\* A query of an export by day is cut short only when the hits of the days
\* before it and of its own first pages happen to add up to its total: the
\* handler's count runs on from day to day.  The first query is never cut.
ShortOnlyByCoincidence ==
    \A d \in Finished \ refused :
        damaged = {} /\ Len(rows[d]) < total[d] => RowsUpTo(d) = total[d]

\* The count a returned export reports is the number of lines it wrote.
CountIsRows ==
    pc = "returned" /\ damaged = {} => allCount = RowsUpTo(NDays)

\* An export that returned has deleted every scroll it opened.
ScrollsReleased ==
    pc = "returned" /\ refused = {} => live = {}

\* The file of a finished day is not touched again, whatever happens later.
FinishedDayFrozen == [][\A d \in 1 .. day - 1 : rows'[d] = rows[d]]_vars

State ==
    CASE pc = "returned" -> "returned"
      [] pc \in {"caught", "abort", "threw"} -> "failed"
      [] OTHER -> "running"

Abstract ==
    INSTANCE QueryExport WITH
        query <- day, hits <- total, files <- rows, count <- allCount,
        lost <- refused \cup damaged, state <- State

\* An export, by day or not, grows its files page by page in the order of its
\* queries, never goes back to one, and leaves one short only for a reason:
\* QueryExport has the reasons.
ImplementsQueryExport == Abstract!Spec

\* How far a query is from its end: the stage of dataExport it is in, the hits
\* from the page at hand on, and what its stage has yet to do.
Reading == pc \in {"loop", "fetch", "progress", "test"}
Stage ==
    CASE pc = "init" -> 7
      [] pc = "search" -> 6
      [] Reading -> 5
      [] pc = "clear" -> 4
      [] pc = "close" -> 3
      [] pc = "caught" -> 2
      [] pc = "abort" -> 1
      [] pc \in {"returned", "threw"} -> 0
HitsLeft == IF Reading /\ page # NoHits THEN total[day] - Head(page) + 1 ELSE 0
InStage ==
    CASE pc = "progress" -> 3
      [] pc = "test" -> 2
      [] pc = "loop" -> 1
      [] pc = "clear" -> Len(toClear)
      [] OTHER -> 0

Nearer ==
    \/ day' > day
    \/ /\ day' = day
       /\ \/ Stage' < Stage
          \/ /\ Stage' = Stage
             /\ \/ HitsLeft' < HitsLeft
                \/ HitsLeft' = HitsLeft /\ InStage' < InStage

\* No query, page or scroll id is gone through twice: each step of the thread,
\* whatever Elasticsearch answers, leaves fewer of them, and there is an end to
\* each.  The while of the paging is bounded by what the server answers only.
EveryStepGetsNearer ==
    [][Thread => Nearer /\ {Stage', HitsLeft', InStage'} \subseteq Nat]_vars

\* The export ends, by returning or by throwing.
Terminates == <>(pc \in {"returned", "threw"})
=============================================================================
