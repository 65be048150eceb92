----------------------------- MODULE TaskServer -----------------------------
(***************************************************************************)
(* The page of BrowserSocket and EsToolWebSocketServer: the library gives  *)
(* each connection to one of its worker threads, which handle the messages *)
(* of their connections one after the other, a whole task at a time.  What *)
(* the tasks do with Elasticsearch is in EsBulk, EsExport and DeleteTask;  *)
(* here an import or a deletion is one step, and an export writes its file *)
(* page by page, so that exports of two workers meet in a file.            *)
(***************************************************************************)
EXTENDS BrowserSocket

CONSTANTS
    Workers,        \* the library's worker threads, one per processor
    Kind,           \* "browseFile", "export", "import" or "deleteSql"
    Pages           \* the pages every export writes

ASSUME KindType == Kind \in [Messages -> {"browseFile", "export", "import", "deleteSql"}]
ASSUME PagesPositive == Pages \in Nat \ {0}

VARIABLES
    workerOf,       \* the worker of a connection
    current,        \* the message a worker handles, or None
    page,           \* pages written by its export, -1 before the file is open
    file,           \* the export each page of the common file comes from
    failed          \* messages whose task threw

VARIABLES           \* for the properties only
    over,           \* messages whose handling has returned
    whole           \* the export the file is wholly of, None: there is none

server == <<workerOf, current, page, file, failed, over, whole>>
vars == <<browser, server>>

ConnOf(w) == SocketOf[current[w]]
Exporting(w) == current[w] # None /\ Kind[current[w]] = "export"
Writers == {w \in Workers : Exporting(w) /\ page[w] >= 0}
-----------------------------------------------------------------------------
Init ==
    /\ InitBrowser
    /\ workerOf = [s \in Sockets |-> None]
    /\ current = [w \in Workers |-> None]
    /\ page = [w \in Workers |-> -1]
    /\ file = <<>>
    /\ failed = {}
    /\ over = {}
    /\ whole = None

\* The handshake is done; the library picks a worker.
Opens(s) ==
    /\ state[s] = "connecting"
    /\ state' = [state EXCEPT ![s] = "open"]
    /\ \E w \in Workers : workerOf' = [workerOf EXCEPT ![s] = w]
    /\ UNCHANGED <<option, wire, history, current, page, file, failed, over, whole>>

\* A worker takes the next message of one of its connections, in any order:
\* the network decides which arrives first.
Takes(w, s) ==
    /\ workerOf[s] = w
    /\ current[w] = None
    /\ wire[s] # <<>>
    /\ wire' = [wire EXCEPT ![s] = Tail(@)]
    /\ current' = [current EXCEPT ![w] = Head(wire[s])]
    /\ UNCHANGED <<state, option, history, workerOf, page, file, failed, over, whole>>

\* What has not arrived when a connection breaks does not arrive any more, and
\* the library may drop what comes after a close.
Drops(s) ==
    /\ state[s] = "closed"
    /\ wire[s] # <<>>
    /\ wire' = [wire EXCEPT ![s] = Tail(@)]
    /\ UNCHANGED <<state, option, history, server>>

Returns(w) ==
    /\ current' = [current EXCEPT ![w] = None]
    /\ page' = [page EXCEPT ![w] = -1]
    /\ over' = over \cup {current[w]}

\* browseFile: the answer is sent, or, above the root, there is none.
Browses(w) ==
    /\ current[w] # None
    /\ Kind[current[w]] = "browseFile"
    /\ Returns(w)
    /\ UNCHANGED <<browser, workerOf, file, failed, whole>>

LeavesConnOpen(w) == UNCHANGED state    \* mutant: conn.close() is left out
ClosesConn(w) == state' = [state EXCEPT ![ConnOf(w)] = "closed"]

\* An import, a deletion or an export has returned: conn.close().
Finishes(w) ==
    /\ current[w] # None
    /\ \/ Kind[current[w]] \in {"import", "deleteSql"}
       \/ Exporting(w) /\ page[w] = Pages
    /\ ClosesConn(w)
    /\ Returns(w)
    /\ UNCHANGED <<option, wire, history, workerOf, file, failed, whole>>

\* catch (Throwable e): the connection stays open and nobody is told.
Throws(w) ==
    /\ current[w] # None
    /\ failed' = failed \cup {current[w]}
    /\ Returns(w)
    /\ UNCHANGED <<browser, workerOf, file, whole>>

AppendsToFile(w) ==                     \* mutant: the file is opened to append
    /\ Exporting(w)
    /\ page[w] = -1
    /\ page' = [page EXCEPT ![w] = 0]
    /\ whole' = IF Writers = {} THEN current[w] ELSE None
    /\ UNCHANGED <<browser, workerOf, current, file, failed, over>>

\* handler.init: the file of the index is truncated.
OpensFile(w) ==
    /\ Exporting(w)
    /\ page[w] = -1
    /\ page' = [page EXCEPT ![w] = 0]
    /\ file' = <<>>
    /\ whole' = IF Writers = {} THEN current[w] ELSE None
    /\ UNCHANGED <<browser, workerOf, current, failed, over>>

OnePageMore(w) == page[w] \in 0 .. Pages                \* mutant
PageLeft(w) == page[w] \in 0 .. Pages - 1

\* A page is written behind the last one of this writer; what lies between the
\* end of the file and there becomes zeros.
WritesPage(w) ==
    /\ Exporting(w)
    /\ PageLeft(w)
    /\ page' = [page EXCEPT ![w] = @ + 1]
    /\ LET end == IF Len(file) > page[w] THEN Len(file) ELSE page[w] + 1
       IN  file' = [i \in 1 .. end |-> IF i = page[w] + 1 THEN current[w]
                                       ELSE IF i <= Len(file) THEN file[i] ELSE None]
    /\ UNCHANGED <<browser, workerOf, current, failed, over, whole>>

Works(w) ==
    \/ \E s \in Sockets : Takes(w, s)
    \/ Browses(w) \/ Finishes(w) \/ Throws(w)
    \/ OpensFile(w) \/ WritesPage(w)

Page ==
    /\ \/ \E m \in Messages : Click(m)
       \/ Timer
       \/ \E s \in Sockets : Lost(s)
    /\ UNCHANGED server

Next ==
    \/ Page
    \/ \E s \in Sockets : Opens(s) \/ Drops(s)
    \/ \E w \in Workers : Works(w)

\* Timers fire, what was sent on an open connection arrives, and tasks end (Terminates
\* of EsBulk and EsExport, DeleteTask!EveryStepNearsEnd); users and connections may do nothing.
Spec ==
    /\ Init /\ [][Next]_vars
    /\ WF_vars(Timer /\ UNCHANGED server)
    /\ \A w \in Workers : WF_vars(Works(w))
-----------------------------------------------------------------------------
TypeOK ==
    /\ BrowserTypeOK
    /\ workerOf \in [Sockets -> Workers \cup {None}]
    /\ current \in [Workers -> Messages \cup {None}]
    /\ page \in [Workers -> -1 .. Pages]
    /\ file \in Seq(Messages \cup {None}) /\ Len(file) <= Pages
    /\ failed \subseteq over /\ over \subseteq Messages
    /\ whole \in Messages \cup {None}

\* EsExportToFileHandler.init (line 36) and exports by two workers: when the
\* last export to open the file opened it while no other was writing, and none
\* was opened since, the file holds its pages and nothing else, as far as it got.
FileOfOneExport ==
    whole # None =>
        /\ \A i \in DOMAIN file : file[i] = whole
        /\ whole \in over \ failed /\ (\A w \in Workers : current[w] # whole)
              => Len(file) = Pages

\* A connection of a task that the server has not closed, though all that was
\* sent on it is over, had a task that threw (EsToolWebSocketServer.java:153):
\* only then does the page wait for ever.
OpenOnlyAfterFailure ==
    \A s \in Sockets :
        LET tasks == {m \in Messages : SocketOf[m] = s}
        IN  (state[s] = "open" /\ tasks # {} /\ tasks \subseteq over
             /\ \A m \in tasks : Kind[m] # "browseFile")
                => tasks \cap failed # {}

\* Every click comes to an end: the task is over, or its message was replaced
\* by a later one, given up after the tries, or lost with its connection.
EveryClickSettles ==
    \A m \in Messages :
        fate[m] # "new" ~> \/ m \in over
                           \/ fate[m] \in {"replaced", "abandoned"}
                           \/ state[SocketOf[m]] = "closed"
=============================================================================
