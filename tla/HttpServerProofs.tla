-------------------------- MODULE HttpServerProofs --------------------------
(***************************************************************************)
(* What HttpServer guarantees for every number of connections, every size  *)
(* of the pool and of the buffer, and every request.                       *)
(***************************************************************************)
EXTENDS HttpServer, FiniteSetTheorems, TLAPS

\* TypeOK without the bound of the pool.
Types ==
    /\ pc \in [Conns -> {"none", "queued", "reading", "dispatch", "write", "blocked",
                         "close", "closed", "leaked"}]
    /\ request \in [Conns -> Requests]
    /\ arrived \in [Conns -> Nat]
    /\ ended \in [Conns -> {"open", "eof", "reset"}]
    /\ got \in [Conns -> Nat]
    /\ last \in [Conns -> 0 .. BufSize]
    /\ answered \in [Conns -> BOOLEAN]
    /\ putThrew \in [Conns -> BOOLEAN]
    /\ returning \in Nat
    /\ idle \in Nat

\* The handler has read what arrived, at most the request.
ReadIsPrefix == \A c \in Conns : got[c] <= arrived[c] /\ arrived[c] <= Size(c)

\* A handler that goes on reading after its last byte has a full buffer behind it.
ReadingHasReason ==
    \A c \in Conns : pc[c] = "reading" /\ got[c] = Size(c) => last[c] = BufSize

\* Nothing is read before the handler runs.
UnreadBefore == \A c \in Conns : pc[c] \in {"none", "queued", "leaked"} => got[c] = 0

\* The response was written, or the dispatcher threw, before the socket is closed.
AnsweredBefore ==
    \A c \in Conns :
        pc[c] \in {"close", "closed"} => answered[c] \/ ended[c] = "reset" \/ putThrew[c]

IInv == Types /\ ReadIsPrefix /\ ReadingHasReason /\ UnreadBefore /\ DispatchesWhole /\ AnsweredBefore

\* The last byte of a request is the end of its header or of its body.
LEMMA WholeIsOver ==
    ASSUME Types, NEW c \in Conns
    PROVE  /\ Size(c) \in Nat \ {0}
           /\ ReadOver(c, Size(c))
           /\ \A n \in Nat : n <= Size(c) /\ ReadOver(c, n) => n = Size(c)
<1>1. request[c].head \in Nat \ {0} /\ request[c].body \in Nat
  BY RequestsType DEF Types
<1> QED
  BY <1>1 DEF Size, ReadOver

\* The invariant holds at the start.
LEMMA InitIInv == Init => IInv
<1> SUFFICES ASSUME Init PROVE IInv
  OBVIOUS
<1>1. Types
  BY BufferSize DEF Init, Types
<1>2. \A c \in Conns : Size(c) \in Nat \ {0}
  BY <1>1, WholeIsOver
<1> QED
  BY <1>1, <1>2 DEF Init, IInv, ReadIsPrefix, ReadingHasReason, UnreadBefore, DispatchesWhole, AnsweredBefore

\* Every step keeps the invariant.
LEMMA NextIInv == IInv /\ [Next]_vars => IInv'
<1> SUFFICES ASSUME IInv, [Next]_vars PROVE IInv'
  OBVIOUS
<1> USE DEF IInv
<1>s. ASSUME UNCHANGED request PROVE \A c \in Conns : Size(c)' = Size(c)
  BY <1>s DEF Size
<1>z. \A c \in Conns : Size(c) \in Nat \ {0}
  BY WholeIsOver
<1>1. CASE UNCHANGED vars
  BY <1>1, <1>s DEF vars, conn, handler, pool, Types, ReadIsPrefix, ReadingHasReason, UnreadBefore,
     DispatchesWhole, AnsweredBefore
<1>2. ASSUME NEW c \in Conns, Connect(c) PROVE IInv'
  BY <1>2, <1>s DEF Connect, conn, handler, pool, Types, ReadIsPrefix, ReadingHasReason, UnreadBefore,
     DispatchesWhole, AnsweredBefore
<1>3. ASSUME NEW c \in Conns, Arrive(c) PROVE IInv'
  <2>1. UNCHANGED request
    BY <1>3 DEF Arrive
  <2> QED
  BY <1>3, <1>s, <1>z, <2>1 DEF Arrive, handler, pool, Types, ReadIsPrefix, ReadingHasReason, UnreadBefore,
     DispatchesWhole, AnsweredBefore
<1>4. ASSUME NEW c \in Conns, Leave(c) PROVE IInv'
  BY <1>4, <1>s DEF Leave, handler, pool, Types, ReadIsPrefix, ReadingHasReason, UnreadBefore,
     DispatchesWhole, AnsweredBefore
<1>5. ASSUME NEW c \in Conns, Accept(c) PROVE IInv'
  BY <1>5, <1>s, <1>z DEF Accept, conn, handler, Types, ReadIsPrefix, ReadingHasReason, UnreadBefore,
     DispatchesWhole, AnsweredBefore
<1>6. ASSUME NEW c \in Conns, Read(c) PROVE IInv'
  <2> PICK n \in 1 .. Smaller(BufSize, arrived[c] - got[c]) :
          /\ got' = [got EXCEPT ![c] = @ + n]
          /\ last' = [last EXCEPT ![c] = n]
          /\ pc' = [pc EXCEPT ![c] = IF LoopEnds(c, got[c] + n, n) THEN "dispatch" ELSE @]
    BY <1>6 DEF Read
  <2>1. /\ n \in Nat /\ n <= BufSize /\ n <= arrived[c] - got[c]
        /\ got[c] \in Nat /\ arrived[c] \in Nat /\ arrived[c] <= Size(c) /\ Size(c) \in Nat
    BY <1>z, BufferSize DEF Smaller, Types, ReadIsPrefix
  <2>2. got[c] + n <= Size(c) /\ got[c] + n \in Nat
    BY <2>1
  <2>3. ASSUME LoopEnds(c, got[c] + n, n) PROVE got[c] + n = Size(c)
    BY <2>2, <2>3, WholeIsOver DEF LoopEnds
  <2>4. ASSUME ~LoopEnds(c, got[c] + n, n), got[c] + n = Size(c) PROVE n = BufSize
    BY <2>4, WholeIsOver DEF LoopEnds
  <2>5. UNCHANGED <<request, arrived, ended, answered, putThrew, returning, idle>> /\ pc[c] = "reading"
    BY <1>6 DEF Read, conn, pool
  <2>6. \A d \in Conns : Size(d)' = Size(d)
    BY <2>5, <1>s
  <2>7. Types'
    BY <2>1, <2>5, BufferSize DEF Types
  <2>8. ReadIsPrefix' /\ UnreadBefore'
    BY <2>1, <2>5, <2>6 DEF Types, ReadIsPrefix, UnreadBefore
  <2>9. ReadingHasReason'
    BY <2>1, <2>4, <2>5, <2>6 DEF Types, ReadingHasReason
  <2>10. DispatchesWhole'
    BY <2>1, <2>3, <2>5, <2>6 DEF Types, DispatchesWhole
  <2>11. AnsweredBefore'
    BY <2>5 DEF Types, AnsweredBefore
  <2> QED
    BY <2>7, <2>8, <2>9, <2>10, <2>11
<1>7. ASSUME NEW c \in Conns, ReadEnds(c) PROVE IInv'
  BY <1>7, <1>s DEF ReadEnds, conn, handler, pool, Types, ReadIsPrefix, ReadingHasReason, UnreadBefore,
     DispatchesWhole, AnsweredBefore
<1>8. ASSUME NEW c \in Conns, Dispatch(c) PROVE IInv'
  BY <1>8, <1>s DEF Dispatch, conn, handler, pool, Types, ReadIsPrefix, ReadingHasReason, UnreadBefore,
     DispatchesWhole, AnsweredBefore
<1>9. ASSUME NEW c \in Conns, DispatchThrows(c) PROVE IInv'
  <2>1. /\ pc[c] = "dispatch" /\ pc' = [pc EXCEPT ![c] = "close"]
        /\ putThrew' = [putThrew EXCEPT ![c] = TRUE]
        /\ UNCHANGED <<request, arrived, ended, got, last, answered, returning, idle>>
    BY <1>9 DEF DispatchThrows, conn, pool
  <2>2. \A d \in Conns : Size(d)' = Size(d)
    BY <2>1, <1>s
  <2>3. Types'
    BY <2>1 DEF Types
  <2>4. ReadIsPrefix' /\ ReadingHasReason' /\ UnreadBefore'
    BY <2>1, <2>2 DEF Types, ReadIsPrefix, ReadingHasReason, UnreadBefore
  <2>5. DispatchesWhole'
    BY <2>1, <2>2 DEF Types, DispatchesWhole
  <2>6. AnsweredBefore'
    BY <2>1 DEF Types, AnsweredBefore
  <2> QED
    BY <2>3, <2>4, <2>5, <2>6
<1>10. ASSUME NEW c \in Conns, Write(c) PROVE IInv'
  BY <1>10, <1>s DEF Write, conn, pool, Types, ReadIsPrefix, ReadingHasReason, UnreadBefore,
     DispatchesWhole, AnsweredBefore
<1>11. ASSUME NEW c \in Conns, Close(c) PROVE IInv'
  BY <1>11, <1>s DEF Close, conn, handler, Types, ReadIsPrefix, ReadingHasReason, UnreadBefore,
     DispatchesWhole, AnsweredBefore
<1>12. ASSUME NEW c \in Conns, Receive(c) \/ WriteBlocks(c) \/ WriteFails(c) PROVE IInv'
  BY <1>12, <1>s DEF Receive, WriteBlocks, WriteFails, conn, handler, pool, Types, ReadIsPrefix,
     ReadingHasReason, UnreadBefore, DispatchesWhole, AnsweredBefore
<1>13. CASE Poll \/ WorkerEnds
  BY <1>13, <1>s DEF Poll, WorkerEnds, conn, handler, Types, ReadIsPrefix, ReadingHasReason, UnreadBefore,
     DispatchesWhole, AnsweredBefore
<1> QED
  BY <1>1, <1>2, <1>3, <1>4, <1>5, <1>6, <1>7, <1>8, <1>9, <1>10, <1>11, <1>12, <1>13
  DEF Next, Client, Handle

\* Every reachable state satisfies the invariant.
THEOREM Invariance == Spec => []IInv
  BY InitIInv, NextIInv, PTL DEF Spec
-----------------------------------------------------------------------------
(* The pool *)

\* The handlers that run are a finite number.
LEMMA RunningFinite == IsFiniteSet(Running) /\ Cardinality(Running) \in Nat
<1>1. Running \in SUBSET Conns
  BY DEF Running
<1> QED
  BY <1>1, ConnsFinite, FS_Subset, FS_CardinalityType

\* A step of one connection changes the set of running handlers by it at most.
LEMMA RunningStep ==
    ASSUME Types, NEW c \in Conns, NEW p, pc' = [pc EXCEPT ![c] = p]
    PROVE  /\ c \in Running /\ p \in {"reading", "dispatch", "write", "blocked", "close"}
              => Cardinality(Running') = Cardinality(Running)
           /\ c \notin Running /\ p \in {"none", "queued", "leaked"}
              => Cardinality(Running') = Cardinality(Running)
           /\ c \notin Running /\ p = "reading" => Cardinality(Running') = Cardinality(Running) + 1
           /\ c \in Running /\ p = "closed" => Cardinality(Running') = Cardinality(Running) - 1
<1> DEFINE Busy == {"reading", "dispatch", "write", "blocked", "close"}
<1>1. \A d \in Conns : d # c => (d \in Running' <=> d \in Running)
  BY DEF Types, Running
<1>2. c \in Running' <=> p \in Busy
  BY DEF Types, Running
<1>3. Running \subseteq Conns /\ Running' \subseteq Conns
  BY DEF Running
<1>4. c \notin Running /\ p = "reading" => Running' = Running \cup {c}
  BY <1>1, <1>2, <1>3
<1>5. c \in Running /\ p = "closed" => Running' = Running \ {c}
  BY <1>1, <1>2, <1>3
<1>6. (c \in Running <=> c \in Running') => Cardinality(Running') = Cardinality(Running)
  <2> SUFFICES (c \in Running <=> c \in Running') => Running' = Running
    OBVIOUS
  <2> QED
    BY <1>1, <1>3
<1>7. c \notin Running => Cardinality(Running \cup {c}) = Cardinality(Running) + 1
  BY RunningFinite, FS_AddElement
<1>8. c \in Running => Cardinality(Running \ {c}) = Cardinality(Running) - 1
  BY RunningFinite, FS_RemoveElement
<1> QED
  BY <1>2, <1>4, <1>5, <1>6, <1>7, <1>8

\* Every step keeps the bound of the pool.
LEMMA PoolNext == IInv /\ Workers <= MaxThreads /\ [Next]_vars => Workers' <= MaxThreads
<1> SUFFICES ASSUME IInv, Workers <= MaxThreads, [Next]_vars PROVE Workers' <= MaxThreads
  OBVIOUS
<1>t. Types /\ returning \in Nat /\ idle \in Nat /\ MaxThreads \in Nat
  BY PoolSize DEF IInv, Types
<1>r. Cardinality(Running) \in Nat
  BY RunningFinite
<1>w. Workers = Cardinality(Running) + returning + idle /\ Workers' = Cardinality(Running') + returning' + idle'
  BY DEF Workers
<1>u. ASSUME Cardinality(Running') = Cardinality(Running),
             returning' \in Nat, idle' \in Nat, returning' + idle' <= returning + idle
      PROVE  Workers' <= MaxThreads
  <2>1. Workers' = Cardinality(Running) + returning' + idle'
    BY <1>w, <1>u
  <2>2. \A n, r, i, s, j, m \in Nat : n + r + i <= m /\ s + j <= r + i => n + s + j <= m
    OBVIOUS
  <2>3. Cardinality(Running) + returning' + idle' <= MaxThreads
    BY <2>2, <1>w, <1>t, <1>r, <1>u
  <2> QED
    BY <2>1, <2>3
<1>1. ASSUME UNCHANGED pc, returning' \in Nat, idle' \in Nat, returning' + idle' <= returning + idle
      PROVE  Workers' <= MaxThreads
  <2>1. Running' = Running
    BY <1>1 DEF Running
  <2>2. Cardinality(Running') = Cardinality(Running)
    BY <2>1
  <2> QED
    BY <2>2, <1>1, <1>u
<1>2. ASSUME NEW c \in Conns, Client(c) PROVE Workers' <= MaxThreads
  <2>1. CASE Connect(c)
    BY <2>1, <1>t, <1>u, RunningStep DEF Connect, pool, Running
  <2>2. CASE Arrive(c) \/ Leave(c)
    BY <2>2, <1>t, <1>1 DEF Arrive, Leave, pool
  <2>3. CASE Receive(c)
    BY <2>3, <1>t, <1>u, RunningStep DEF Receive, pool, Running
  <2> QED
    BY <1>2, <2>1, <2>2, <2>3 DEF Client
<1>3. ASSUME NEW c \in Conns, Accept(c) PROVE Workers' <= MaxThreads
  <2>1. pc[c] = "queued" /\ c \notin Running /\ returning' = returning
    BY <1>3 DEF Accept, Running
  <2>2. CASE pc' = [pc EXCEPT ![c] = "reading"] /\ (idle > 0 \/ Workers < MaxThreads)
    <3>1. Cardinality(Running') = Cardinality(Running) + 1
      BY <2>1, <2>2, <1>t, RunningStep
    <3> QED
      BY <3>1, <2>1, <2>2, <1>t, <1>r, <1>3 DEF Accept, Workers
  <2>3. CASE pc' = [pc EXCEPT ![c] = "leaked"] /\ idle = 0
    <3>1. Cardinality(Running') = Cardinality(Running)
      BY <2>1, <2>3, <1>t, RunningStep
    <3> QED
      BY <3>1, <2>1, <2>3, <1>t, <1>u, <1>3 DEF Accept
  <2> QED
    BY <1>3, <2>2, <2>3 DEF Accept
<1>4. ASSUME NEW c \in Conns, Handle(c) PROVE Workers' <= MaxThreads
  <2>1. CASE Close(c)
    <3>1. Cardinality(Running') = Cardinality(Running) - 1
      BY <2>1, <1>t, RunningStep DEF Close, Running
    <3> QED
      BY <3>1, <2>1, <1>t, <1>r DEF Close, Workers
  <2>2. CASE ~Close(c)
    <3>1. \E p \in {"reading", "dispatch", "write", "blocked", "close"} : pc' = [pc EXCEPT ![c] = p]
      BY <2>2, <1>4, <1>t DEF Handle, Read, ReadEnds, Dispatch, DispatchThrows, Write, WriteBlocks, WriteFails, Types
    <3>2. c \in Running /\ UNCHANGED <<returning, idle>>
      BY <2>2, <1>4 DEF Handle, Read, ReadEnds, Dispatch, DispatchThrows, Write, WriteBlocks, WriteFails,
         Running, pool
    <3>3. Cardinality(Running') = Cardinality(Running)
      BY <3>1, <3>2, <1>t, RunningStep
    <3> QED
      BY <3>2, <3>3, <1>t, <1>u
  <2> QED
    BY <2>1, <2>2
<1>5. CASE Poll \/ WorkerEnds
  BY <1>5, <1>t, <1>1 DEF Poll, WorkerEnds
<1>6. CASE UNCHANGED vars
  BY <1>6, <1>t, <1>1 DEF vars, pool
<1> QED
  BY <1>2, <1>3, <1>4, <1>5, <1>6 DEF Next
-----------------------------------------------------------------------------
(* Theorems *)

\* Types, and HttpServer.cachedThreadPool: never more workers than its maximum,
\* whatever handlers end and connections arrive.
THEOREM TypeCorrect == Spec => []TypeOK
<1>1. Init => IInv /\ Workers <= MaxThreads
  <2> SUFFICES ASSUME Init PROVE Workers <= MaxThreads
    BY InitIInv
  <2>1. Running = {} /\ returning = 0 /\ idle = 0
    BY DEF Init, Running
  <2> QED
    BY <2>1, FS_EmptySet, PoolSize DEF Workers
<1>2. (IInv /\ Workers <= MaxThreads) /\ [Next]_vars => (IInv /\ Workers <= MaxThreads)'
  BY NextIInv, PoolNext
<1>3. IInv /\ Workers <= MaxThreads => TypeOK
  BY DEF IInv, Types, TypeOK
<1> QED
  BY <1>1, <1>2, <1>3, PTL DEF Spec

\* readByteFromSocket: however the request is cut and whatever the buffer's
\* size, the dispatcher sees all of it or its client has left.
THEOREM RequestIsWhole == Spec => []DispatchesWhole
<1>1. IInv => DispatchesWhole
  BY DEF IInv
<1> QED
  BY <1>1, Invariance, PTL

\* The reading loop waits in vain only behind a last read that filled the buffer.
THEOREM VainReadsAreFull == Spec => []VainOnlyAtFullBuffer
<1>1. IInv => VainOnlyAtFullBuffer
  BY DEF IInv, ReadingHasReason, VainOnlyAtFullBuffer, WaitsInVain
<1> QED
  BY <1>1, Invariance, PTL

\* SocketHandler.run: what the server closes it has answered, but for clients
\* that broke off and exceptions of ConfigCache.put.
THEOREM ClosedIsAnswered == Spec => []ClosedMeansAnswered
<1>1. IInv => ClosedMeansAnswered
  BY DEF IInv, AnsweredBefore, ClosedMeansAnswered
<1> QED
  BY <1>1, Invariance, PTL
=============================================================================
