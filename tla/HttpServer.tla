----------------------------- MODULE HttpServer -----------------------------
(***************************************************************************)
(* The HTTP side of the tool: HttpServer.await accepts connections and     *)
(* gives each to a pool of at most MaxThreads workers without a queue;     *)
(* SocketHandler.run reads the request (Request, IOUtil), asks the         *)
(* dispatcher for the response, writes it and closes the socket.           *)
(*                                                                         *)
(* A request is the number of bytes of its header, the blank line          *)
(* included, and of its body (Content-Length, 0 when there is none).  The  *)
(* client sends nothing after it: browsers do not pipeline.  No socket     *)
(* has a timeout: a handler waits without end for a client that does not   *)
(* send the rest of its request, or does not read the response.            *)
(***************************************************************************)
EXTENDS Integers, FiniteSets

CONSTANTS
    Conns,          \* the connections
    MaxThreads,     \* the size of the pool, 100
    BufSize,        \* buffSize of readByteFromSocket, 2048
    Backlog,        \* connections the listening socket holds, of ServerSocket
    Requests        \* the requests clients send

ASSUME ConnsFinite == IsFiniteSet(Conns)
ASSUME PoolSize == MaxThreads \in Nat \ {0}
ASSUME BufferSize == BufSize \in Nat \ {0}
ASSUME BacklogType == Backlog \in Nat \ {0}
ASSUME RequestsType == Requests \subseteq [head : Nat \ {0}, body : Nat]

VARIABLES
    pc,             \* where the connection is
    request,        \* what its client sends
    arrived,        \* bytes that have reached the socket
    ended,          \* "open", "eof": the client closed, "reset": it broke off
    got,            \* inputByte.length
    last,           \* readLen, the size of the last read
    answered,       \* the response was written to a client that was there
    putThrew,       \* ConfigCache.put threw out of the dispatcher
    returning,      \* workers between the end of a handler and the next poll
    idle            \* workers that wait for a handler

conn == <<request, arrived, ended>>
handler == <<got, last, answered, putThrew>>
pool == <<returning, idle>>
vars == <<pc, conn, handler, pool>>

Size(c) == request[c].head + request[c].body
Running == {c \in Conns : pc[c] \in {"reading", "dispatch", "write", "blocked", "close"}}
Workers == Cardinality(Running) + returning + idle
Smaller(a, b) == IF a < b THEN a ELSE b
-----------------------------------------------------------------------------
Init ==
    /\ pc = [c \in Conns |-> "none"]
    /\ request \in [Conns -> Requests]
    /\ arrived = [c \in Conns |-> 0]
    /\ ended = [c \in Conns |-> "open"]
    /\ got = [c \in Conns |-> 0]
    /\ last = [c \in Conns |-> 0]
    /\ answered = [c \in Conns |-> FALSE]
    /\ putThrew = [c \in Conns |-> FALSE]
    /\ returning = 0
    /\ idle = 0
-----------------------------------------------------------------------------
(* Clients and their network *)

Connect(c) ==
    /\ pc[c] = "none"
    /\ Cardinality({d \in Conns : pc[d] = "queued"}) < Backlog
    /\ pc' = [pc EXCEPT ![c] = "queued"]
    /\ UNCHANGED <<conn, handler, pool>>

\* TCP delivers the request in pieces of any size.
Arrive(c) ==
    /\ pc[c] \in {"queued", "reading"}
    /\ ended[c] = "open"
    /\ \E n \in arrived[c] + 1 .. Size(c) : arrived' = [arrived EXCEPT ![c] = n]
    /\ UNCHANGED <<pc, request, ended, handler, pool>>

\* The client closes its side, after its request or in the midst of it, or
\* breaks off, then or later.
Leave(c) ==
    /\ pc[c] \in {"queued", "reading", "dispatch", "write", "blocked"}
    /\ ended[c] # "reset"
    /\ \E e \in {"eof", "reset"} \ {ended[c]} : ended' = [ended EXCEPT ![c] = e]
    /\ UNCHANGED <<pc, request, arrived, handler, pool>>

\* The client reads the response: the write that waited for it returns.
Receive(c) ==
    /\ pc[c] = "blocked"
    /\ ended[c] # "reset"
    /\ pc' = [pc EXCEPT ![c] = "close"]
    /\ answered' = [answered EXCEPT ![c] = TRUE]
    /\ UNCHANGED <<conn, got, last, putThrew, pool>>
-----------------------------------------------------------------------------
(* The pool and the accept loop *)

WaitsForWorker(c) ==                    \* mutant: execute waits for a worker
    /\ pc[c] = "queued"
    /\ idle > 0 \/ Workers < MaxThreads
    /\ pc' = [pc EXCEPT ![c] = "reading"]
    /\ idle' = IF idle > 0 THEN idle - 1 ELSE idle
    /\ UNCHANGED <<conn, handler, returning>>

OneTooMany(c) ==                        \* mutant: <= for <
    /\ pc[c] = "queued"
    /\ \/ /\ idle > 0 \/ Workers <= MaxThreads
          /\ pc' = [pc EXCEPT ![c] = "reading"]
       \/ /\ idle = 0 /\ Workers > MaxThreads
          /\ pc' = [pc EXCEPT ![c] = "leaked"]
    /\ idle' = IF idle > 0 THEN idle - 1 ELSE idle
    /\ UNCHANGED <<conn, handler, returning>>

\* accept() and execute(): an idle worker takes the handler, or a new one is
\* made; else RejectedExecutionException is logged and the socket stays open
\* with nobody to serve it.
Accept(c) ==
    /\ pc[c] = "queued"
    /\ \/ /\ idle > 0 \/ Workers < MaxThreads
          /\ pc' = [pc EXCEPT ![c] = "reading"]
       \/ /\ idle = 0 /\ Workers = MaxThreads
          /\ pc' = [pc EXCEPT ![c] = "leaked"]
    /\ idle' = IF idle > 0 THEN idle - 1 ELSE idle
    /\ UNCHANGED <<conn, handler, returning>>

\* A worker that has finished a handler polls for the next one ...
Poll ==
    /\ returning > 0
    /\ returning' = returning - 1
    /\ idle' = idle + 1
    /\ UNCHANGED <<pc, conn, handler>>

\* ... and ends after 60 s without one.
WorkerEnds ==
    /\ idle > 0
    /\ idle' = idle - 1
    /\ UNCHANGED <<pc, conn, handler, returning>>
-----------------------------------------------------------------------------
(* The handler *)

HeaderOnly(c, n) == n >= request[c].head                \* mutant: no body
BodyTooLong(c, n) ==                                    \* mutant: > for ==
    n >= request[c].head /\ (request[c].body > 0 => n - request[c].head > request[c].body)

\* checkReadOver of the first n bytes of the request.
ReadOver(c, n) ==
    /\ n >= request[c].head
    /\ request[c].body > 0 => n - request[c].head = request[c].body

\* The loop goes on after a read that filled the buffer, whatever it holds.
LoopEnds(c, n, size) == size # BufSize /\ ReadOver(c, n)

Read(c) ==
    /\ pc[c] = "reading"
    /\ arrived[c] > got[c]
    /\ ended[c] # "reset"
    /\ \E n \in 1 .. Smaller(BufSize, arrived[c] - got[c]) :
          /\ got' = [got EXCEPT ![c] = @ + n]
          /\ last' = [last EXCEPT ![c] = n]
          /\ pc' = [pc EXCEPT ![c] = IF LoopEnds(c, got[c] + n, n) THEN "dispatch" ELSE @]
    /\ UNCHANGED <<conn, answered, putThrew, pool>>

EofIgnored(c) ==                        \* mutant: only an exception ends the loop
    /\ pc[c] = "reading"
    /\ ended[c] = "reset"
    /\ pc' = [pc EXCEPT ![c] = "dispatch"]
    /\ UNCHANGED <<conn, handler, pool>>

\* read returns -1 (the bytes so far are the request), or throws (there is no
\* request: Request.parse logs it).  Both go on to the dispatcher.
ReadEnds(c) ==
    /\ pc[c] = "reading"
    /\ \/ ended[c] = "eof" /\ arrived[c] = got[c]
       \/ ended[c] = "reset"
    /\ pc' = [pc EXCEPT ![c] = "dispatch"]
    /\ UNCHANGED <<conn, handler, pool>>

\* EsToolDispatcher.getResponse: whatever a controller throws, NOT_FOUND ...
Dispatch(c) ==
    /\ pc[c] = "dispatch"
    /\ pc' = [pc EXCEPT ![c] = "write"]
    /\ UNCHANGED <<conn, handler, pool>>

\* ... but ConfigCache.put is called outside its try: run logs the exception.
DispatchThrows(c) ==
    /\ pc[c] = "dispatch"
    /\ got[c] > 0
    /\ pc' = [pc EXCEPT ![c] = "close"]
    /\ putThrew' = [putThrew EXCEPT ![c] = TRUE]
    /\ UNCHANGED <<conn, got, last, answered, pool>>

\* The response fits in the buffers of the connection, or the write throws; the
\* exception is logged.
Write(c) ==
    /\ pc[c] = "write"
    /\ pc' = [pc EXCEPT ![c] = "close"]
    /\ answered' = [answered EXCEPT ![c] = ended[c] # "reset"]
    /\ UNCHANGED <<conn, got, last, putThrew, pool>>

\* os.write waits for room in the buffers, which only the client makes.
WriteBlocks(c) ==
    /\ pc[c] = "write"
    /\ ended[c] # "reset"
    /\ pc' = [pc EXCEPT ![c] = "blocked"]
    /\ UNCHANGED <<conn, handler, pool>>

\* A client that breaks off makes the waiting write throw.
WriteFails(c) ==
    /\ pc[c] = "blocked"
    /\ ended[c] = "reset"
    /\ pc' = [pc EXCEPT ![c] = "close"]
    /\ UNCHANGED <<conn, handler, pool>>

CloseWithoutAnswer(c) ==                \* mutant: closed by the reader
    /\ pc[c] \in {"dispatch", "close"}
    /\ pc' = [pc EXCEPT ![c] = "closed"]
    /\ returning' = returning + 1
    /\ UNCHANGED <<conn, handler, idle>>

\* socket.close() in the finally block; run returns to the worker.
Close(c) ==
    /\ pc[c] = "close"
    /\ pc' = [pc EXCEPT ![c] = "closed"]
    /\ returning' = returning + 1
    /\ UNCHANGED <<conn, handler, idle>>
-----------------------------------------------------------------------------
Handle(c) ==
    \/ Read(c) \/ ReadEnds(c)
    \/ Dispatch(c) \/ DispatchThrows(c)
    \/ Write(c) \/ WriteBlocks(c) \/ WriteFails(c)
    \/ Close(c)

Client(c) == Connect(c) \/ Arrive(c) \/ Leave(c) \/ Receive(c)

Next ==
    \/ \E c \in Conns : Client(c) \/ Accept(c) \/ Handle(c)
    \/ Poll \/ WorkerEnds

\* The accept loop and the workers run; a client may do nothing for ever, and a
\* read or a write that waits for it waits as long.
Spec ==
    /\ Init /\ [][Next]_vars
    /\ WF_vars(\E c \in Conns : Accept(c))
    /\ \A c \in Conns : WF_vars(Handle(c))
-----------------------------------------------------------------------------
TypeOK ==
    /\ pc \in [Conns -> {"none", "queued", "reading", "dispatch", "write", "blocked",
                         "close", "closed", "leaked"}]
    /\ request \in [Conns -> Requests]
    /\ arrived \in [Conns -> Nat]
    /\ ended \in [Conns -> {"open", "eof", "reset"}]
    /\ got \in [Conns -> Nat]
    /\ last \in [Conns -> 0 .. BufSize]
    /\ answered \in [Conns -> BOOLEAN]
    /\ putThrew \in [Conns -> BOOLEAN]
    /\ returning \in Nat
    /\ idle \in Nat
    /\ Workers <= MaxThreads

\* readByteFromSocket: however TCP cuts a request, the dispatcher sees all of
\* it, or its client has closed or broken off the connection.
DispatchesWhole ==
    \A c \in Conns :
        pc[c] \in {"dispatch", "write", "blocked", "close"} =>
            got[c] = Size(c) \/ ended[c] # "open"

\* The loop of readByteFromSocket waits for bytes that never come, the whole
\* request being there, only when the last read filled the buffer exactly.
WaitsInVain(c) == pc[c] = "reading" /\ got[c] = Size(c) /\ ended[c] = "open"
VainOnlyAtFullBuffer == \A c \in Conns : WaitsInVain(c) => last[c] = BufSize

\* SocketHandler.run: a connection the server closed was answered, unless its
\* client broke off or ConfigCache.put threw.
ClosedMeansAnswered ==
    \A c \in Conns :
        pc[c] = "closed" => answered[c] \/ ended[c] = "reset" \/ putThrew[c]

\* Response.write waits for a client that does not read, for as long as it is
\* there.
AwaitsReader(c) == pc[c] = "blocked" /\ ended[c] # "reset"

\* Nothing that the handler does next depends on its client.
Owed(c) ==
    \/ pc[c] = "reading" /\ (arrived[c] = Size(c) \/ ended[c] # "open")
    \/ pc[c] \in {"dispatch", "write", "close"}
    \/ pc[c] = "blocked" /\ ended[c] = "reset"

\* A handler whose client has sent everything or left closes its connection,
\* unless it comes to wait: at a full buffer, or for its client to read the
\* response.  It waits for its own client only, never for another connection,
\* and once that client has read or broken off it closes after all.
Served ==
    \A c \in Conns : Owed(c) ~> (pc[c] = "closed" \/ WaitsInVain(c) \/ AwaitsReader(c))

\* The accept loop takes every connection, also when all workers are busy or
\* wait in vain: a new connection is served or rejected, never kept waiting.
AcceptGoesOn == \A c \in Conns : pc[c] = "queued" ~> pc[c] # "queued"
=============================================================================
