# EsTool: models, checks and proofs

EsTool is a desktop tool for Elasticsearch. A small hand-written HTTP server
(port 8076) serves one page and answers its requests, a WebSocket server runs the
long tasks (export, import, delete by query, directory listing) and reports their
progress to the browser tab that started them, and everything is forwarded to an
Elasticsearch cluster over plain HTTP. Nothing is stored but the files a task
writes and one configuration file.

This directory holds TLA+ models of that program, the TLC runs that model-check
them on small instances, and TLAPS proofs of what holds for every instance. Java
paths below are relative to `src/src/main/java/com/xiaojin/estool/`, abbreviated
to the class where it is unique.

## 1. Inventory

| Component | State it keeps | Operations | Interacts with |
|---|---|---|---|
| Bulk import and delete (`tool/EsImp`, `tool/EsDel`) | the list of lines being collected, the count of lines, the depth of the recursive retry | `dataImport`, `deleteByExportFile`, `send2es` | reads a file, `HttpClient` to `_bulk`, `WebSocketUtil` |
| Scroll export (`util/es/EsExportUtil`) | the last answer, the set of scroll ids, the request counter | `dataExport`, `dataExportByDay`, `parseSqlPerDay` | a handler, `HttpClient` to `_search`, `_search/scroll`, `_sql/_explain` |
| Text handlers (`util/es/export/export/*`) | `allCount`, the day key, the open writer, the path | `init`, `dataListProcess`, `logger`, `close` | called by the export; write a file; `WebSocketUtil` |
| Excel handlers | a workbook, a row number | the same | Apache POI |
| Task server (`controller/EsToolWebSocketServer`) | none of its own; one task per message, on a worker thread of the library | `onMessage` with its four branches | all of the above |
| `WebSocketUtil` | none; the state of the connection | `send` | the WebSocket library |
| Directory browser (`getDirFile`, `entity/FileVo`) | none | listing and order | file system |
| Configuration (`cache/ConfigCache`) | a static `HashMap` and the file `config` beside the jar | `loadConfig`, `put`, `get` | called from every HTTP handler thread |
| HTTP server (`http/server/*`) | the accept loop, a pool of at most 100 threads without a queue | `start`, `SocketHandler.run`, `Request`, `Response` | request reader, dispatcher |
| Request reader (`util/io/IOUtil`) | a buffer and the bytes in it | `readByteFromSocket`, `checkReadOver` | the socket |
| Dispatcher, controller | none | one method per URL; most forward one request | `ConfigCache`, `HttpClient`, `EsUtil` |
| Result tables (`util/es/EsUtil`) | none (pure) | flattening of hits and aggregations | controller |
| HTTP client (`util/http/HttpClient`) | none | `doRequest` with connect and read timeouts | Elasticsearch |
| File writer (`util/FileWriteUtil`) | a buffered writer, or null | open, `append`, `flush`, `close` | handlers, configuration |
| Browser socket (`BaseWebsocket.js`) | one shared object: the pending message and the retry count | `send`, retry timer, callbacks | task server |

### Hard behaviours

*Two-step sends.* A task tests the ready state of its connection and then sends;
a tab that leaves in between makes the send throw into the task, wherever it is.

*Retry against an unreachable or slow server.* `send2es` calls itself up to ten
times. A request that timed out may have been applied, or may be applied later,
even after the batch was sent again, was answered, or was given up.

*Partial failures that do not look like failures.* `HttpClient` returns the body
of an error status like any other. The file writer swallows its `IOException`s.
`EsImp` and `EsDel` catch everything and return normally.

*State shared over several queries.* One handler, with one count and one day key,
serves every day of an export by day.

*Composition over time.* Delete by query selects documents first, writes them to a
file, and deletes them from the file later, while other clients write.

*Threads.* A `HashMap` and a file are written by up to 100 handlers at a time; two
exports of one index write to one path; `kill -9` in `service.sh` may hit a file
between its truncation and its flush.

*Timers.* All sockets of the page share one pending message, one count of tries and
the timers of every earlier click.

*Clients that wait.* No socket of the HTTP server has a timeout: a client that does not
send the rest of its request, or does not read a response larger than the buffers of its
connection, keeps one of the 100 workers for as long as it is there.

*Input in pieces.* A request arrives in any number of reads; the end of its header,
of its body, of a read and of the 2048-byte buffer may fall together.

`PROJECT.json` lists each of these hazards at its line with the properties that
cover it.

### What makes each component correct

- *Import and delete*: every non-empty line of the file ends in exactly one batch,
  which was answered or given up after the allowed number of tries; no line is
  sent again afterwards; a bad line costs its own batch and no other; the progress
  shown is never ahead of the work; the task ends.
- *Export*: a file is a beginning of the snapshot of its query, and all of it when
  every call was answered properly; files of days that are done stay as they are;
  every scroll is released; the reported count is the number of lines written.
- *Delete by query*: only documents that matched at one moment are removed, none
  before the export has returned, none when it threw, and none that someone stored again
  after the task was done with it (but for requests still on their way); nothing is left
  behind. A refused search or scroll is not an exception: the part of the result that was
  read is deleted.
- *Configuration*: a put that runs alone leaves a file that loads as the map, whatever
  happened before; a kill then costs the entry being put at most, or the file while it
  is rewritten. Puts that overlap give no such guarantee (finding 3).
- *HTTP server and reader*: a request is dispatched whole, however it was cut; a
  connection the server closes was answered, but for the exceptions below; a handler
  waits for its own client only, to send or to read; the accept loop goes on when the
  pool is full.
- *Task server*: a message is handled on the connection it was sent on; a connection
  stays open only after a task that threw; every click comes to some end.
- *Day split*: the day queries partition the time range of the original query, and a
  file has the documents of its day.
- *Tables*: one row per innermost bucket, with the columns of the buckets around it, and of none beside them.
- *Browser socket*: a message goes out on the socket made for it, and how often.

## 2. What is modelled

| Module | Models | Extends / instantiates |
|---|---|---|
| `WebSocketUtil` | `WebSocketUtil.send` and the connection of a task | |
| `BatchWriter` | abstract: the order in which an import or deletion settles its lines | |
| `EsBulk` | `EsImp` and `EsDel`, whose control is the same | `WebSocketUtil`, `BatchWriter` |
| `EsBulkProofs` | theorems about `EsBulk` | `EsBulk` |
| `EsExport` | `dataExport`, `dataExportByDay`, the text handlers, the file writer as they use it | `WebSocketUtil`, `QueryExport` |
| `SnapshotPages` | the arithmetic of the pages of a snapshot, with its lemmas | |
| `EsExportProofs` | theorems about `EsExport` | `EsExport`, `SnapshotPages` |
| `QueryExport` | abstract: what an export promises about its files | |
| `QueryDelete` | abstract: what delete by query promises | |
| `DeleteTask` | the `deleteSql` branch of `onMessage` | `EsExport`, `EsBulk`, `QueryDelete` |
| `DeleteTaskProofs` | theorems about `DeleteTask`, its refinement of `QueryDelete` | `DeleteTask`, `SnapshotPages` |
| `ConfigCache` | `ConfigCache`, the rewriting of its file, kill and restart | |
| `ConfigCacheProofs` | theorems about `ConfigCache` | `ConfigCache` |
| `HttpServer` | `HttpServer.await`, its pool, `SocketHandler.run`, `readByteFromSocket` | |
| `HttpServerProofs` | theorems about `HttpServer` | `HttpServer` |
| `BrowserSocket` | `BaseWebsocket.js` and the clicks of the page | |
| `TaskServer` | `EsToolWebSocketServer.onMessage` on the library's workers, with the page | `BrowserSocket` |
| `TaskServerProofs` | theorems about the page and the server | `TaskServer` |
| `DaySplit` | `EsExportUtil.parseSqlPerDay` | |
| `DaySplitProofs` | theorems about `DaySplit` | `DaySplit` |
| `ResultTable` | `EsUtil.processAggData` and `processBuckets` | |
| `MCEsBulk`, `MCEsExport`, `MCDeleteTask`, `MCConfigCache`, `MCHttpServer`, `MCTaskServer`, `MCPure` | finite constants for TLC | |

### WebSocketUtil

`conn` is the connection as the task sees it. `Delivered` and `Ignored` are the two
branches of the test; `Raced` is the send that throws because the connection was
closed after the test. `SendSwallows` is a send inside a `try` whose `catch` does
nothing (`EsImp`'s last resort, `handler.logger(e)`). `ClientLeaves` is the tab.

### EsBulk

A line is its position, and `file` says of each whether it is a document, blank or
not JSON. `pos` is the `LineIterator`; `count`, `contentList` and `tryCount` are the
variables of the code, where the recursion of `send2es` is the value of `tryCount`
(nothing but `clear()` on an empty list and the return happens when it unwinds).
`pc` moves as follows:

    open -> read -> send -> report -> read ... send -> report -> over -> done
    any of open, read, report, over -> caught -> done

`Answered(S)` is an HTTP answer of any status with the items of `S` applied: the code
does not look at it. `RequestThrows` leaves the lines `pending`, and `ApplyLate`
applies them at any later moment or never. The variables `sent`, `pending`, `applied`,
`acked` and `dropped` are not in the code; they record what became of a line so that
the properties can speak of it.

`BatchWriter` is the same component without a position, a list, tries, requests or reports: it
has the items of the file and those of them with an outcome, and its two steps answer or give up
the first `BatchSize` items that have none. The mapping takes `acked` and `dropped` for the outcomes and the
non-empty lines for the items, so that everything but `Answered` and `GiveUp` stutters.

### EsExport

A hit is its position in the snapshot of its query, so that a correct file is
`<<1, 2, ..., n>>`. Every call to Elasticsearch has three outcomes: answered, an error
status (whose body has no hits, no id and no total), thrown. An expired scroll is the
second. `allCount` belongs to the handler and is never reset, `reqCount`, `page`,
`pageTotal`, `ids` and `toClear` are locals of `dataExport`, which `Close` resets to
keep the state small. `writer` is null when the file could not be opened;
`damaged` files are those of which a write failed silently, and nothing is said
about what they hold. `rows` ignores the buffer of the writer: `dataListProcess`
flushes after each page. What a line looks like, the title line of a log file and the
numbers in a log message are left out.

`QueryExport` keeps the files, the running count, the queries of which something was lost and
whether the export is running, returned or failed. Its steps take a snapshot, append a whole page or the rest,
lose one, are refused, go on to the next query, return or fail. It goes on or returns only when the file of the
query is complete, something of it was lost, or the count equals its total, which is finding 1 as part of the
specification. The mapping takes `lost` to be `refused \cup damaged`.

`parseSqlPerDay` is here only the number `NDays` of its queries, each with a total of its
own (`DaySplit` has the queries). The finally block's message may throw too, and then replaces a normal return;
`Close` has this outcome.

### DeleteTask

`X` is an `EsExport` of one query, `B` an `EsBulk` whose file is what the export
left, `conn` is shared by both. `index` is the part of Elasticsearch that satisfies the
condition of the query: `ExportSnapshot` takes `snap` from it, `DeleteAnswered` and
`DeleteLate` remove documents, `Create` is any other client. `docOf` is the document
a line names. A damaged file may hold any mixture of whole and broken lines.
`tempFile` follows the file: created by the handler's `init`, removed by
`forceDelete`. An exception of the export ends the task at once (`aborted`); one of
`forceDelete` or of the last message ends it before the connection is closed
(`failed`).

`QueryDelete` promises less than one would like: it neither removes every matched
document (batches are given up silently) nor spares one that was stored again
before its delete went out. The documents to remove are `chosen` once, when the task goes
ahead: all that matched or, after a `gap` in reading them, some. A gap does not keep the task from going
ahead: an error status (an expired scroll, a search the server rejects) ends the loop of
`dataExport` like the last page, it returns normally, and the deletion works on the part that was
read. Only an exception aborts. The mapping takes `matched` to be the range of `snap`, `chosen` the
documents of the lines of the file, `gap` to hold once a call was refused or a write lost, and `phase` from
`taskPc` and from whether the export threw.

### ConfigCache

`config` is the `HashMap`, `file` the lines of the file, and every thread runs

    idle -> put -> putting -> open -> lines -> idle

for `put` with a new value: `config.put` (begun and ended, so that two of them can
overlap), the truncating open, one line per entry, flush and close. `raced` marks a
`config.put` that an insertion overlapped: its entry may be lost. `modified` marks an
iterator behind which something was inserted: its next step throws and nothing is
flushed. A line is its entry and the bytes it takes in the file. The writers hold their lines in a
buffer until the flush, which writes from the beginning of the file over what another writer has left there
(`Overwrite`, as the file does it: the text, and what stood behind its end; an empty text, or one that is the beginning of
what is there, changes nothing). `LostAt` is how many bytes of a line lie under the one before it, and
`KeyIn`, a constant, what `loadConfig` makes of what is left of a line from each byte on: the key of the client, that of another
client whose address is the tail of this one's, one of no client, or no key and value at all (`KeyAt`). `Restart` is `kill -9`
followed by `main`, whose first act is `loadConfig`; a line without a key and a value
makes it throw and ends the start (`up = "failed"`). `alone` and `whole` are history:
whether a put had company, and whether the last change of the file was made by one
that had none. Lines are read with `Reload`, which stands for the cut at a second `=`.
Left out: values with line breaks or made of `=` alone, configurations above the 8 KB
of the writer's buffer, and other effects of stores that are not visible to other threads.

### HttpServer

A connection goes through

    none -> queued -> reading -> dispatch -> write -> close -> closed
                   -> leaked                 write -> blocked -> close

`Accept` hands it to an idle worker, or to a new one while there are less than
`MaxThreads`; else `execute` throws and the socket is `leaked`: open, and nobody's. A worker
that is done (`returning`) has to poll again before the `SynchronousQueue` gives it another
connection, which is why the pool may reject one though a worker has just finished. A
request is the length of its header and of its body. `Arrive` delivers any further part
of it, `Read` takes any part of what has arrived up to the buffer's size; `LoopEnds` is
the condition of the loop, `ReadOver` is `checkReadOver`. `Leave` is a client that closes
(`eof`) or breaks off (`reset`) at any moment, the second also after the first. A response that fits in the
buffers of the connection is written in one step (`Write`); any other waits (`WriteBlocks`) until the client has read
it (`Receive`) or breaks off (`WriteFails`), perhaps for ever. The dispatcher is one step: a response, or the
exception of `ConfigCache.put`, which stands before its `try`. `ClosedMeansAnswered` counts a
response as written also when the client has closed its own side.

### BrowserSocket and TaskServer

`_websocket`, `_message`, `tryCount` are the fields of `BaseWebSocketOption`; `timers` counts
the timeouts that are running, each of which runs `sendTimeout` on whatever the fields
hold by then. A click makes a socket (`ClickWaits`), as it is never open at once; the
file window sends again on its own (`ClickSends`, or `ClickWaits` when the connection was
lost). `wire` is what was sent and not taken yet. `credit` and `fate` are history:
how often a message may still go out, and what became of it.

`TaskServer` adds the connections' workers (`workerOf`: the library gives a connection to
one, for good), the message each works on and, for exports, the pages written to the
one file they share. A page goes behind the last page of its writer whatever others have
written or truncated since, so that a hole (`None`) may open. `Finishes` closes the connection, `Throws`
does not. After a close by the server the library may still hand over or drop later
messages: both happen in the model. `whole` is history: the export that has the file to
itself.

### DaySplit

A query is the sequence of its conditions; `spaced` is whether a space stands before the
operator, since the name the code looks for ends where the operator begins, and
`startsWith` then finds other conditions too. The loop is the code's: `begin`, `middle` and
`count` are its variables, `result` the map of the days. A query with no second comparison
of one name is exported whole; a range without both bounds, or whose bounds are no dates in
quotes, throws. Instants are numbers and every day has `DayLength` of them: the change to
or from summer time is not modelled.

### ResultTable

`processBuckets` is the recursion of the code over buckets given as sequences of fields (their
order matters: a metric behind an inner aggregation is not in the rows of that one). The
reference reads each row from the path to its innermost bucket. `RECURSIVE` operators: no
proofs here.

## 3. Runs

| Run | Instance | What it shows |
|---|---|---|
| `es_bulk` | all 364 files of up to 5 lines, batches of 2, 2 tries | accounting, bounded retries, one outcome per batch, honest progress, implements `BatchWriter`, every step counts, termination |
| `es_export` | 1 query, 0 to 6 hits, pages of 2 | prefix, completeness on return, scrolls released, termination |
| `es_export_by_day` | 2 queries, 0 to 3 hits each, pages of 1 | implements `QueryExport`, the only reason a day can be short, every step gets nearer to the end |
| `export_over` | the same | finding 1 |
| `delete_task` | 2 documents, batches of 1, 2 tries | documents stored again survive, nothing matched is lost between the parts, nothing is left behind, every step nears the end |
| `delete_task_abstract` | 2 documents, batches of 1, 1 try | implements `QueryDelete` with its liveness: what is deleted, also after a refused call, and that the deletion is over or was aborted |
| `temp_removed` | as `delete_task` | finding 2 |
| `config_cache` | 3 threads, 2 clients, 3 values of which one is cut at load, every byte of the file, failing writes, kills | a put on its own repairs the file; what a kill can cost |
| `config_file` | the same with a disk that never fails | finding 3 |
| `http_server` | 2 connections, 1 worker, buffer of 2 bytes, requests of 1 to 3 bytes | whole requests, reading in vain only at a full buffer, answered before closed; every handler closes or waits for its own client; acceptance |
| `task_server` | 2 exports of 2 pages, 2 messages of the file window (3 of the 4 clicked), 2 workers, 2 tries | where messages go and how often, one file for two exports, connections left open, every click settles |
| `pure` | ranges over instants 0 to 7 in days of 2, with another condition before or behind; answers of two levels of up to two buckets | partition by days, files of their day, one row per bucket |

**Bounds.** `BatchSize` (200), `MaxTries` (10), `PageSize` (100) and `LogEvery` (10) are
constants; the runs make them 1 or 2. Five lines with batches of two give an empty
file, a partial first batch, exactly one and two full batches (with an empty final
send) and a partial last batch, with blank and malformed lines in every place of each; two
tries give a first attempt, a retry and giving up. Six hits in pages of two give no
hit, a partial page, exactly one, two and three pages, and the progress message on the second. Two days are
enough for the count of one day to meet the total of the other. Two documents with
batches of one give two batches, one of which may be late while the other
is sent. Three threads are needed for a put that overlaps two others one after the other, two clients for
an insertion behind an iterator; the address of one is the tail of the other's, and one value is longer than the others, so
that a flush over another text leaves nothing, whole lines, the tail of a line, another client's line or an empty one. With a buffer of two bytes
the requests `1+0`, `2+0`, `1+1` and `2+1` (header + body) end in a short read, with a full buffer, and
with a short read after a full one; one worker is a full pool as soon as one handler runs.
Three clicks are two tasks and a further message in any order; `MaxClicks` is the only bound of the page that its code
does not have (`MaxTries` is 5 there, the number of pages is given by the data). Days of two instants
have a midnight and an instant that is none, eight of them make ranges of one to four days,
empty and inverted ranges included. The proofs below do not use these bounds. Symmetry of the threads is used in
`config_cache` only, which has no liveness property; lines and hits are ordered, and the documents of
`DeleteTask` are taken in an order.

**Deadlock** is not checked: each of these programs ends, and its last state has no
successor once the tab has left. `Terminates` says that it only stops at its end. In `http_server` and
`task_server` connections and clicks are used once and then nothing is left to do; `Served`, `AcceptGoesOn` and
`EveryClickSettles` say what must happen before. `pure` ends with its input. `config_cache` checks deadlock.

**Fairness.** Weak fairness of the thread's own steps and nothing else. The task runs
on a worker thread that waits only in HTTP calls, each of which has a connect and
a read timeout (`HttpClient.doRequest`), and in file operations. Nothing is assumed of
Elasticsearch (it may answer, refuse or fail every time, and need never apply a late request), of the tab
or of other clients. `HttpServer` assumes that the accept loop and every running handler go on: `accept` takes
some waiting connection, and a read or a write that can return does. Nothing is assumed of a
client, and there is no timeout: a handler waits without end for a client that does not send (`reading`) or does not read
(`blocked`), as `Receive` is not fair. `Served` starts where the client has sent everything or left and ends in a close or
in one of two ways to wait: at a full buffer, or for that client to read; it starts again once a client that was waited for has broken off. `TaskServer` assumes that timers fire and that a worker with
something to do goes on, which rests on the tasks coming to their end; a socket need never open.
`ConfigCache` has safety properties only.

`EveryStepCounts`, `EveryStepGetsNearer` and `EveryStepNearsEnd` are what termination rests on besides fairness: every
step of the thread leaves less to do, in an order without infinite descent, whatever the server, other clients and the tab do. They are safety
properties, so that they can be proved for every instance, where `Terminates` is checked on the small ones. The mutants
tell what they are about: a retry that begins again with the count it had, and a page that is asked for again after an error, for ever.

**Mutants.** For every property of a passing run `PROJECT.json` names a change of the
model, as a slip in the code would make it (a batch not cleared, a try not counted, a missing
final send, a day key not used, one scroll id kept instead of a set ...), under
which TLC finds the property violated. The mutated definitions stand before
the originals, marked as such, and are used nowhere else.

### Findings

1. *Export by day loses hits* (`EsExportUtil.java:116`). The loop is left when the
   handler's count equals the total, "all data has been queried". The count runs on
   over the days while the total is that of the day. `export_over` finds it with
   1 and 2 hits and pages of 1. With the code's pages of 100 it happens whenever the second
   day has exactly 100 (or 200, ...) hits more than the first: after 1 and then 101 hits the count is
   101 at the first page of the second day, and its last hit is missing; after 100 and 200, a hundred are. The export
   returns normally. `ShortOnlyByCoincidence` shows that this is the only way a day that was answered without
   an error status can be short.
2. *The temporary file is removed although the deletion failed*
   (`EsToolWebSocketServer.java:89-90`). The comment says "after the deletion has
   succeeded"; `EsDel` swallows its exceptions and gives up batches silently, so the file,
   the only list of what was to be deleted, goes in every case.

3. *Overlapping puts leave another configuration in the file than in the map*
   (`ConfigCache.java:28-41`). "The value has changed: update the map and write it to the file", without a
   lock, on up to 100 threads. In the shortest trace, without any failed
   write, one client sends two addresses at once. One thread has its line in its writer when the other puts the longer address,
   truncates, writes and closes the file; then the first flushes its shorter text over the beginning. The file has
   the older address, and behind it the end of the longer line, an empty line, at which the next `loadConfig` throws. (A shorter list of lines
   over a longer one that begins with the same lines does no harm.) The damage lasts until the next put that changes a value and runs alone (`AloneIsDurable`);
   a start before that loads what is there, or fails on a torn line.

Not findings, as no text of the repository says otherwise, but visible in the models: a request whose last read
fills the buffer is not answered until its client closes (`VainOnlyAtFullBuffer`, `Served`); a client that does not read its response holds a worker (`AwaitsReader`); a rejected connection is never closed (`leaked`);
delete by query goes on with what was read before a search or scroll was refused (`ImplementsQueryDelete`);
an exception in the loop of an export leaves its scrolls open, and a task that throws its connection;
a message may be replaced by a later click or sent twice (`Replaced`, `OncePerChain`); a range within one day loses
the strictness of its lower bound (`AtLostBound`); conditions whose text begins like the range's name are dropped from
the days (`IsRange` excludes them).

## 4. Proofs

`EsBulkProofs`, for every `BatchSize`, `MaxTries` and set of files:

- `TypeCorrect`: types, and at most `MaxTries` retries.
- `EveryLineAccounted`, `EndCoversFile`: `Accounted` and `EndsWithEveryLine`.
- `BatchesShareOutcome`: `OutcomePerBatch`.
- `RetriesBounded`: a line is in at most `MaxTries` requests and applied at most once for each.
- `ProgressIsHonest`: `ToldIsHandled`.
- `OutcomeIsFinal`: no line is sent again after its outcome.
- `StepsAreBounded`: `EveryStepCounts`. `StepsLeft` weighs a line with `MaxTries + 3`, enough to read it, to try it `MaxTries` times as a batch of its own,
  and to drop and report it (`LineCosts`); it is at most `ToRead(Len(file)) + 1` at the start, which bounds the steps, and with them the requests, of a whole import.
- `RefinesBatchWriter`: `ImplementsBatchWriter`, all of it, as `BatchWriter` has no fairness.

The properties are not inductive by themselves. `AttemptsBounded` needs to know how often the lines
of the *current* batch were sent (`Unsent`: not at all while it is collected, at most
`tryCount` times while it is sent) and that a batch at hand has no line with an outcome
(`Accounted`). `ToldIsHandled` needs that `count` is the number of non-empty lines
read (`Counted`) and that the list is empty whenever a count is reported (`Phases`), so that
`Accounted` makes this number the cardinality of the lines with an outcome. `IInv` is their conjunction.

`OutcomePerBatch` computes a line's batch from the file alone, by a division, while the code keeps a list and a
count. `BatchInv` joins the two: the lines at hand are all of the current batch, those with an outcome of earlier ones, no batch has
lines answered and lines dropped, and a dropped line was sent `MaxTries` times, or never when its batch has a malformed line. `BatchStep` and `BatchOfLines` say
when the next line begins a batch; they rest on the division lemmas `Div` and `DivUnique`.

For the refinement, the list at a send must be the first `BatchSize` lines without an outcome (`ListIsNextBatch`). `ListLength`, one more
invariant, says that the list is never longer than `BatchSize`, and has that length at a send, unless it is the last; the rest is
about sets of numbers: the lines without an outcome are those of the list and later ones, and the members of such a set that are
below a line of the list are in the list (`FirstOnes`).

`EsExportProofs`, for every page size, interval of messages and number of days:

- `TypeCorrect`, with `PageToFetch`: a page is fetched only after one with hits.
- `FilesArePrefixes`: `RowsArePrefix`. The invariant `PageFollowsFile` says how the page at
  hand relates to the file: before it is written it starts after the last line,
  then it ends with it. `PageHits` and `AppendPage` are the arithmetic of pages, from `SnapshotPages`.
- `FinishedFilesFrozen`: `FinishedDayFrozen`, that the file of a day that is done is not touched again.
- `SingleExportComplete` and `SingleExportOver`, for `NDays = 1`: an export that is not by day and
  returns is complete, and "ExportOver" is true. `FirstQuery` ties the count to
  the file, which is what fails on the second day (finding 1).
- `ScrollsAreReleased`: `ScrollsReleased`. While no call got an error status, every open scroll is one the export
  will still clear (`ScrollsHeld`).
- `ShortByCoincidence` and `CountIsLinesWritten`, for any number of days: `ShortOnlyByCoincidence` and
  `CountIsRows`, that the count an undamaged export reports is the number of its lines.
  `CountInv` says that the handler's count is the number of lines in all files up to the current day, which page is at hand,
  and that a day done without an error status is complete or stopped at its own total. The lines of several files are counted as the
  cardinality of a set of pairs of a day and a place (`LinesUpTo`), to which a page adds its length (`LinesAdd`).

- `RefinesQueryExport`: `ImplementsQueryExport`, all of it. `QueryInv` adds what the steps of the abstract export ask for: no snapshot was taken of a query to come,
  and a loop that was left has its file complete, something lost, or the count at the total; `PageLength` says that a page that is appended is a whole one or the rest.
- `ExportGetsNearer`: `EveryStepGetsNearer`. Within the loop the measure is the number of hits from the page at hand on; it falls at a fetch
  because the page at hand is not empty (`PageToFetch`) and lies within the snapshot (`PageInSnapshot`), so that the next one, if
  it has hits, begins behind it (`PageEnds`, `FetchedPage`).

`DeleteTaskProofs`, for every finite set of documents, page size, interval of messages, batch size and number of tries:

- `Invariance`: `IInv` is the conjunction of `ExportInv`, `BulkInv` and `TaskInv`. The first two repeat, for
  the instances `X` and `B`, what the task needs of the export and of the deletion; the theorems of `EsExportProofs` and `EsBulkProofs` cannot be
  cited through an instance. `TaskInv` joins them: while the export runs the deletion is as `Init` left it; afterwards the
  lines of its file name documents of the snapshot, and all of them when no search was refused and no write damaged.
- `RefinesQueryDelete`: `Abstract!Init` holds initially and every step is a step of `QueryDelete` or leaves its variables as
  they are. `ChosenWhole` says that the file of an export without a gap names every document of the snapshot. This is `ImplementsQueryDelete` without its fairness, which `delete_task_abstract` checks.
- `TaskNearsEnd`: `EveryStepNearsEnd`. The measures of the two parts, repeated for the instances (`ExportNearer`, `BulkCounts`), follow one another: the stage of the
  task falls between them, and while one works the other stands still.
- `RecreatedDocsSurvive`, `EndCovers`, `EndIsClean`: `RecreatedSurvives`, `EndCoversMatched`, `EndLeavesNothing`.

`ConfigCacheProofs`, for any threads, clients and values, any order of the map, any lengths and texts of the lines (`KeyIn`) and any `Reload` that changes nothing the second time:

- `TypesHold`: types. What a flush leaves in a file are lines (`Overwritten`), and the iterator returns
  entries that are in the map (`NextIsThere`), as the map only grows between two starts.
- `PutAloneIsDurable`, `KillIsBounded`: `AloneIsDurable` and `KillLosesAtMost`. Neither is inductive. `AloneInv` follows a put that
  runs alone: no other runs, it met no insertion, the file is empty while it collects its lines, and these are the entries of the map
  before the iterator (`Lists`, kept by `EntryFromIs`). At the flush the iterator is at the end, the text meets an empty file, its lines join without a gap or an overlap, so that each
  is read under its own key (`Joined`, `JoinedKeys`), and a start that reads these lines finds the map (`ListIsHeld`). `WholeInv` says what the file holds meanwhile: the map, or the
  map but for the entry of the one put that has changed the map and not yet opened the file. `LoadedIs` covers the
  start itself: a map that was loaded is saved and loaded again unchanged.

`HttpServerProofs`, for every finite set of connections, size of pool and buffer, and every request:

- `TypeCorrect`: types, and never more workers than `MaxThreads`. This needs how a step changes the set of
  running handlers (`RunningStep`), of which only the cardinality counts.
- `RequestIsWhole`, `VainReadsAreFull`, `ClosedIsAnswered`. The invariant says that a handler has read a part of what
  arrived and no more than the request (`ReadIsPrefix`), that one which goes on after the last byte has a full
  buffer behind it (`ReadingHasReason`), and that a close has an answer or an exception before it (`AnsweredBefore`).
  `WholeIsOver` is the arithmetic: `checkReadOver` holds of the whole request and of no shorter part.

`TaskServerProofs`, for any messages, sockets, workers, tries, clicks and pages:

- `PendingMessagesKept`, `SentOncePerChain`: by `PageInv`, where the shared socket is that of the shared message
  (`SharedMatches`) and a timer has a message to send.
- `FilesOfOneExport`, `OpenAfterFailure`: a worker handles messages of its own connections only
  (`OwnConnections`), a task that returned left a closed connection (`OverIsClosed`), and while `whole` names an export
  its writer is the only one and at the end of the file (`WholeIsWritten`).
- `TypesHold`: `TypeOK`, whose bound on the timers is not one of types: no more run than messages were clicked
  (`Bounds`), as a click starts one timer at most and a timer starts none beside itself.

`DaySplitProofs`, for every length of a day, every set of queries and documents over all integers:

- `DaysPartitionTheRange`, `FilesHoldTheirDay`. `RangeParts` takes a range apart into its two bounds and
  the rest; `Midnights` and `DayBounds` are the calendar. The invariant is that of the loop: before a day, `begin` is its first
  instant (`AtHead`), the days before it have their queries and end before the upper bound
  (`Earlier`). `DayMatches` then says which documents each day has.

Assumptions: the named `ASSUME`s of the modules (positive sizes, finite sets, types of the constants), which the
code's constants satisfy and TLC evaluates in the runs.

**Only model-checked**: liveness (`Terminates`, `Served`, `AcceptGoesOn`, `EveryClickSettles` and the fairness of
`QueryDelete` in `ImplementsQueryDelete`), which is beyond the provers used here: the step from a measure that falls (`StepsAreBounded`,
`ExportGetsNearer`, `TaskNearsEnd`) to termination needs `ENABLED` and fairness. So is `OneRowPerBucket`, which is about
recursive operators and needs induction over the answer. Every other invariant and action property of a passing run is a theorem. `FinishedDayFrozen`,
`CountIsRows` and the types of `EsExport` are only proved: the first two are seen in the run of `QueryExport`, which they follow from. The violated properties of the
findings have no proofs; where a part of one holds it is proved (`SingleExportOver`, `ShortByCoincidence`, `PutAloneIsDurable`).

## 5. What is not modelled

- The Excel handlers: the `template.xlsx` they are opened with is not in the repository, so this
  export ends in a `NullPointerException` first (one of the tasks that throw in `TaskServer`).
- The text of lines and messages, HTML and date formatting, JSON wrappers, the parsing of request lines, and the
  controller's methods, each of which forwards one request and keeps nothing.
- The listing of a directory (`getDirFile`, `FileVo.compareTo`): a sort of what the file system says.
- The table of hits and the column types of `EsUtil`.
- The page's form handling, rendering and cookies, and the third-party scripts it loads: jQuery,
  jquery-editable-select and CodeMirror, by far most of the JavaScript in the repository. They are editors
  and widgets used as they come, with nothing of this program in them.

Elasticsearch, the WebSocket library, the file system and the network are environments that do whatever the
code has to expect of them.

## 6. Plan

Every component with state is modelled. What would come next:

1. Proofs: what is left is beyond the provers (section 4). Stronger statements worth stating first: what two puts that overlap without an insertion leave in the file.
2. `DaySplit` and `EsExport` composed: the documents of an index, split and exported, so that finding 1 speaks of documents.
3. Days of unequal lengths in `DaySplit`, for summer time.
4. `DeleteTask` beside the exports of `TaskServer`, instead of as one step.
