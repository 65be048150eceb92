-------------------------- MODULE TaskServerProofs --------------------------
(***************************************************************************)
(* What the page and the task server guarantee for every set of messages,  *)
(* sockets and workers, every number of tries and of pages.                *)
(***************************************************************************)
EXTENDS TaskServer, SequenceTheorems, FiniteSetTheorems, TLAPS

MessagesOf(s) == {m \in Messages : SocketOf[m] = s}
-----------------------------------------------------------------------------
(* The page *)

PageTypes ==
    /\ state \in [Sockets -> {"none", "connecting", "open", "closed"}]
    /\ _websocket \in Sockets \cup {None}
    /\ _message \in Messages \cup {None}
    /\ timers \in Nat
    /\ wire \in [Sockets -> Seq(Messages)]
    /\ credit \in [Messages -> Int]
    /\ fate \in [Messages -> {"new", "pending", "sent", "replaced", "abandoned"}]

\* The shared object holds a message together with its socket.
SharedMatches ==
    /\ _message # None => _websocket = SocketOf[_message]
    /\ timers > 0 => _message # None

WireOwn == \A s \in Sockets : wire[s] \in Seq(MessagesOf(s))

PendingHasTimer == \A m \in Messages : fate[m] = "pending" => timers > 0 /\ _message = m

PageInv == PageTypes /\ SharedMatches /\ WireOwn /\ PendingHasTimer /\ OncePerChain

\* Clicks, timers and lost connections keep the invariant of the page.
LEMMA PageStep == PageInv /\ Page => PageInv'
<1> SUFFICES ASSUME PageInv, Page PROVE PageInv'
  OBVIOUS
<1>t. /\ PageTypes /\ SharedMatches /\ WireOwn /\ PendingHasTimer /\ OncePerChain
      /\ SocketOf \in [Messages -> Sockets] /\ None \notin Messages
  BY SocketOfType, NoneIsNone DEF PageInv
<1>a. ASSUME NEW s \in Sockets, NEW m \in Messages, SocketOf[m] = s, NEW a \in Int, SendsOn(s, m, a)
      PROVE  wire' \in [Sockets -> Seq(Messages)] /\ WireOwn' /\ credit' \in [Messages -> Int]
  <2>1. wire' = [wire EXCEPT ![s] = Append(wire[s], m)] /\ credit' = [credit EXCEPT ![m] = a - 1]
    BY <1>a DEF SendsOn
  <2>2. Append(wire[s], m) \in Seq(Messages)
    BY <1>t, AppendProperties DEF PageTypes
  <2>3. m \in MessagesOf(s)
    BY <1>a DEF MessagesOf
  <2>4. Append(wire[s], m) \in Seq(MessagesOf(s))
    BY <1>t, <2>3, AppendProperties DEF WireOwn
  <2> QED
    BY <2>1, <2>2, <2>4, <1>t DEF PageTypes, WireOwn, MessagesOf
<1>1. ASSUME NEW m \in Messages, ClickWaits(m) PROVE PageInv'
  <2>1. /\ _websocket' = SocketOf[m] /\ _message' = m /\ timers' = timers + 1
        /\ credit' = [credit EXCEPT ![m] = timers + 1] /\ UNCHANGED wire
        /\ fate' = [Replaced(fate) EXCEPT ![m] = "pending"]
        /\ \/ UNCHANGED state
           \/ state' = [state EXCEPT ![SocketOf[m]] = "connecting"]
    BY <1>1 DEF ClickWaits, Assigns
  <2>2. PageTypes'
    BY <2>1, <1>t DEF PageTypes, Replaced
  <2>3. SharedMatches'
    BY <2>1, <1>t DEF PageTypes, SharedMatches
  <2>6. WireOwn'
    <3>1. wire' = wire
      BY <2>1
    <3> QED
      BY <3>1, <1>t DEF WireOwn, MessagesOf
  <2>4. PendingHasTimer'
    <3>1. \A n \in Messages : n # m => Replaced(fate)[n] # "pending"
      BY <1>t DEF PageTypes, Replaced
    <3>2. \A n \in Messages : n # m => fate'[n] = Replaced(fate)[n]
      BY <2>1 DEF Replaced
    <3> QED
      BY <2>1, <3>1, <3>2, <1>t DEF PageTypes, PendingHasTimer
  <2>5. OncePerChain'
    BY <2>1, <1>t DEF PageTypes, OncePerChain
  <2> QED
    BY <2>2, <2>3, <2>4, <2>5, <2>6 DEF PageInv
<1>2. ASSUME NEW m \in Messages, ClickSends(m) PROVE PageInv'
  <2>1. /\ _websocket' = SocketOf[m] /\ _message' = m /\ UNCHANGED <<state, timers>>
        /\ SendsOn(SocketOf[m], m, timers + 1) /\ fate' = [Replaced(fate) EXCEPT ![m] = "sent"]
    BY <1>2 DEF ClickSends, Assigns
  <2>2. wire' \in [Sockets -> Seq(Messages)] /\ WireOwn' /\ credit' \in [Messages -> Int]
    BY <2>1, <1>a, <1>t DEF PageTypes
  <2>3. PageTypes'
    BY <2>1, <2>2, <1>t DEF PageTypes, Replaced
  <2>4. SharedMatches' /\ PendingHasTimer'
    BY <2>1, <1>t DEF PageTypes, SharedMatches, PendingHasTimer, Replaced
  <2>5. OncePerChain'
    BY <2>1, <1>t DEF PageTypes, OncePerChain, SendsOn
  <2> QED
    BY <2>2, <2>3, <2>4, <2>5 DEF PageInv
<1>3. CASE TimerSends
  <2>1. /\ timers > 0 /\ timers' = timers - 1 /\ fate' = [fate EXCEPT ![_message] = "sent"]
        /\ SendsOn(_websocket, _message, credit[_message])
        /\ UNCHANGED <<state, _websocket, _message>>
    BY <1>3 DEF TimerSends
  <2>2. _message \in Messages /\ _websocket = SocketOf[_message] /\ _websocket \in Sockets
    BY <2>1, <1>t DEF PageTypes, SharedMatches
  <2>3. wire' \in [Sockets -> Seq(Messages)] /\ WireOwn' /\ credit' \in [Messages -> Int]
    BY <2>1, <2>2, <1>a, <1>t DEF PageTypes
  <2>4. PageTypes'
    BY <2>1, <2>2, <2>3, <1>t DEF PageTypes
  <2>5. SharedMatches' /\ PendingHasTimer'
    BY <2>1, <2>2, <1>t DEF PageTypes, SharedMatches, PendingHasTimer
  <2>6. OncePerChain'
    BY <2>1, <2>2, <1>t DEF PageTypes, OncePerChain, SendsOn
  <2> QED
    BY <2>3, <2>4, <2>5, <2>6 DEF PageInv
<1>4. CASE TimerRetries
  BY <1>4, <1>t DEF TimerRetries, history, PageInv, PageTypes, SharedMatches, WireOwn, PendingHasTimer,
     OncePerChain, MessagesOf
<1>5. CASE TimerGivesUp
  <2>1. /\ timers > 0 /\ timers' = timers - 1 /\ UNCHANGED <<state, _websocket, _message, wire, credit>>
        /\ fate' = IF timers = 1 /\ fate[_message] = "pending"
                   THEN [fate EXCEPT ![_message] = "abandoned"] ELSE fate
    BY <1>5 DEF TimerGivesUp
  <2>2. PageTypes' /\ SharedMatches' /\ WireOwn'
    BY <2>1, <1>t DEF PageTypes, SharedMatches, WireOwn, MessagesOf
  <2>3. PendingHasTimer'
    BY <2>1, <1>t DEF PageTypes, PendingHasTimer
  <2>4. OncePerChain'
    BY <2>1, <1>t DEF PageTypes, OncePerChain
  <2> QED
    BY <2>2, <2>3, <2>4 DEF PageInv
<1>6. ASSUME NEW s \in Sockets, Lost(s) PROVE PageInv'
  BY <1>6, <1>t DEF Lost, option, history, PageInv, PageTypes, SharedMatches, WireOwn, PendingHasTimer,
     OncePerChain, MessagesOf
<1> QED
  BY <1>1, <1>2, <1>3, <1>4, <1>5, <1>6 DEF Page, Click, Timer

\* What the server does to the page: a connection opens or closes, and a message
\* leaves the head of its socket.
LEMMA ServerStep ==
    ASSUME PageInv, UNCHANGED <<option, history>>,
           state' \in [Sockets -> {"none", "connecting", "open", "closed"}],
           \/ UNCHANGED wire
           \/ \E s \in Sockets : wire[s] # <<>> /\ wire' = [wire EXCEPT ![s] = Tail(@)]
    PROVE  PageInv'
<1>t. PageTypes /\ SharedMatches /\ WireOwn /\ PendingHasTimer /\ OncePerChain
  BY DEF PageInv
<1>1. wire' \in [Sockets -> Seq(Messages)]
  <2>1. ASSUME NEW s \in Sockets, wire[s] # <<>> PROVE Tail(wire[s]) \in Seq(Messages)
    BY <2>1, <1>t, HeadTailProperties DEF PageTypes
  <2> QED
    BY <2>1, <1>t DEF PageTypes
<1>2. WireOwn'
  <2>1. ASSUME NEW s \in Sockets, wire[s] # <<>> PROVE Tail(wire[s]) \in Seq(MessagesOf(s))
    BY <2>1, <1>t, HeadTailProperties DEF WireOwn
  <2> QED
    BY <2>1, <1>t DEF PageTypes, WireOwn, MessagesOf
<1>3. PageTypes' /\ SharedMatches' /\ PendingHasTimer' /\ OncePerChain'
  BY <1>1, <1>t DEF PageTypes, SharedMatches, PendingHasTimer, OncePerChain, option, history
<1> QED
  BY <1>2, <1>3 DEF PageInv
-----------------------------------------------------------------------------
(* The server *)

ServerTypes ==
    /\ workerOf \in [Sockets -> Workers \cup {None}]
    /\ current \in [Workers -> Messages \cup {None}]
    /\ page \in [Workers -> -1 .. Pages]
    /\ file \in Seq(Messages \cup {None})
    /\ failed \subseteq Messages /\ over \subseteq Messages
    /\ whole \in Messages \cup {None}

\* Nothing is on a socket before it is open; a worker handles messages of its
\* own connections only, and writes pages of exports only.
OwnConnections ==
    /\ \A s \in Sockets : state[s] \in {"none", "connecting"} => wire[s] = <<>>
    /\ \A w \in Workers :
          current[w] # None => /\ workerOf[ConnOf(w)] = w
                               /\ state[ConnOf(w)] \notin {"none", "connecting"}
    /\ \A w \in Workers : page[w] >= 0 => Exporting(w)

\* The server closes the connection of a task that returned.
OverIsClosed ==
    \A m \in over \ failed : Kind[m] # "browseFile" => state[SocketOf[m]] = "closed"

\* While the last file opened is of one export, its writer is the only one and
\* at the end of the file; without a writer it is complete or of a failed task.
WholeIsWritten ==
    whole # None =>
        /\ \A i \in DOMAIN file : file[i] = whole
        /\ \A w \in Writers : current[w] = whole /\ Len(file) = page[w]
        /\ Writers = {} => whole \in failed \/ Len(file) = Pages

ServerInv == ServerTypes /\ OwnConnections /\ OverIsClosed /\ WholeIsWritten
IInv == PageInv /\ ServerInv

\* The page leaves the server's part alone.
LEMMA PageKeepsServer == IInv /\ Page => ServerInv'
<1> SUFFICES ASSUME IInv, Page PROVE ServerInv'
  OBVIOUS
<1>t. /\ PageTypes /\ SharedMatches /\ ServerTypes /\ OwnConnections /\ OverIsClosed /\ WholeIsWritten
      /\ SocketOf \in [Messages -> Sockets] /\ None \notin Messages
  BY SocketOfType, NoneIsNone DEF IInv, PageInv, ServerInv
<1>u. UNCHANGED <<workerOf, current, page, file, failed, over, whole>>
  BY DEF Page, server
<1>1. ServerTypes'
  BY <1>t, <1>u DEF ServerTypes
<1>2. WholeIsWritten'
  <2>1. Writers' = Writers
    BY <1>u DEF Writers, Exporting
  <2> QED
    BY <1>t, <1>u, <2>1 DEF WholeIsWritten
<1>s. ASSUME \A s \in Sockets : /\ state[s] = "closed" => state'[s] = "closed"
                                /\ state[s] \notin {"none", "connecting"}
                                      => state'[s] \notin {"none", "connecting"}
                                /\ state'[s] \in {"none", "connecting"} => wire'[s] = <<>>
      PROVE  ServerInv'
  <2>1. OwnConnections'
    BY <1>s, <1>t, <1>u DEF OwnConnections, ServerTypes, ConnOf, Exporting
  <2>2. OverIsClosed'
    BY <1>s, <1>t, <1>u DEF OverIsClosed, ServerTypes
  <2> QED
    BY <1>1, <1>2, <2>1, <2>2 DEF ServerInv
<1>3. ASSUME NEW m \in Messages, ClickWaits(m) PROVE ServerInv'
  <2>1. SocketOf[m] \in Sockets /\ state[SocketOf[m]] # "open" /\ wire' = wire
    BY <1>3, <1>t DEF ClickWaits
  <2>2. m \in Further => state' = state
    BY <1>3 DEF ClickWaits
  <2>3. m \notin Further => state[SocketOf[m]] = "none" /\ state' = [state EXCEPT ![SocketOf[m]] = "connecting"]
    BY <1>3 DEF ClickWaits, Clicked
  <2> QED
    BY <2>1, <2>2, <2>3, <1>t, <1>s DEF PageTypes, OwnConnections
<1>4. ASSUME NEW s \in Sockets, NEW m, NEW a, state[s] = "open", SendsOn(s, m, a), UNCHANGED state
      PROVE  ServerInv'
  <2>1. wire' = [wire EXCEPT ![s] = Append(wire[s], m)]
    BY <1>4 DEF SendsOn
  <2>2. \A r \in Sockets : r # s => wire'[r] = wire[r]
    BY <2>1, <1>t DEF PageTypes
  <2> QED
    BY <2>2, <1>4, <1>t, <1>s DEF OwnConnections
<1>5. ASSUME NEW m \in Messages, ClickSends(m) PROVE ServerInv'
  BY <1>4, <1>5, <1>t DEF ClickSends
<1>6. CASE TimerSends
  BY <1>4, <1>6, <1>t DEF TimerSends, PageTypes, SharedMatches
<1>7. CASE TimerRetries \/ TimerGivesUp
  BY <1>7, <1>t, <1>s DEF TimerRetries, TimerGivesUp, OwnConnections
<1>8. ASSUME NEW s \in Sockets, Lost(s) PROVE ServerInv'
  BY <1>8, <1>t, <1>s DEF Lost, OwnConnections, PageTypes
<1> QED
  BY <1>3, <1>5, <1>6, <1>7, <1>8 DEF Page, Click, Timer

\* The library and the workers keep both parts.
LEMMA WorkStep ==
    ASSUME IInv, (\E s \in Sockets : Opens(s) \/ Drops(s)) \/ (\E w \in Workers : Works(w))
    PROVE  IInv'
<1>t. /\ PageInv /\ PageTypes /\ ServerTypes /\ OwnConnections /\ OverIsClosed /\ WholeIsWritten
      /\ SocketOf \in [Messages -> Sockets] /\ None \notin Messages /\ Pages \in Nat \ {0}
  BY SocketOfType, NoneIsNone, PagesPositive DEF IInv, PageInv, ServerInv
<1>1. ASSUME NEW s \in Sockets, Opens(s) PROVE IInv'
  <2>1. /\ state[s] = "connecting" /\ state' = [state EXCEPT ![s] = "open"]
        /\ UNCHANGED <<option, wire, history, current, page, file, failed, over, whole>>
        /\ \E w \in Workers : workerOf' = [workerOf EXCEPT ![s] = w]
    BY <1>1 DEF Opens
  <2>2. PageInv'
    BY <2>1, <1>t, ServerStep DEF PageTypes
  <2>3. ServerTypes'
    BY <2>1, <1>t DEF ServerTypes
  <2>4. OwnConnections'
    BY <2>1, <1>t DEF OwnConnections, PageTypes, ServerTypes, ConnOf, Exporting
  <2>5. OverIsClosed'
    BY <2>1, <1>t DEF OverIsClosed, PageTypes, ServerTypes
  <2>6. WholeIsWritten'
    BY <2>1, <1>t DEF WholeIsWritten, Writers, Exporting
  <2> QED
    BY <2>2, <2>3, <2>4, <2>5, <2>6 DEF IInv, ServerInv
<1>2. ASSUME NEW s \in Sockets, Drops(s) PROVE IInv'
  <2>1. /\ state[s] = "closed" /\ wire[s] # <<>> /\ wire' = [wire EXCEPT ![s] = Tail(@)]
        /\ UNCHANGED <<state, option, history>>
        /\ UNCHANGED <<workerOf, current, page, file, failed, over, whole>>
    BY <1>2 DEF Drops, server
  <2>2. PageInv'
    BY <2>1, <1>t, ServerStep DEF PageTypes
  <2>3. ServerTypes' /\ OverIsClosed'
    BY <2>1, <1>t DEF ServerTypes, OverIsClosed
  <2>4. OwnConnections'
    BY <2>1, <1>t DEF OwnConnections, PageTypes, ConnOf, Exporting
  <2>5. WholeIsWritten'
    BY <2>1, <1>t DEF WholeIsWritten, Writers, Exporting
  <2> QED
    BY <2>2, <2>3, <2>4, <2>5 DEF IInv, ServerInv
<1>3. ASSUME NEW w \in Workers, NEW s \in Sockets, Takes(w, s) PROVE IInv'
  <2>1. /\ workerOf[s] = w /\ current[w] = None /\ wire[s] # <<>>
        /\ wire' = [wire EXCEPT ![s] = Tail(@)]
        /\ current' = [current EXCEPT ![w] = Head(wire[s])]
        /\ UNCHANGED <<state, option, history, workerOf, page, file, failed, over, whole>>
    BY <1>3 DEF Takes
  <2>2. PageInv'
    BY <2>1, <1>t, ServerStep DEF PageTypes
  <2>3. Head(wire[s]) \in MessagesOf(s)
    BY <2>1, <1>t, HeadTailProperties DEF PageInv, WireOwn
  <2>4. Head(wire[s]) \in Messages /\ SocketOf[Head(wire[s])] = s
    BY <2>3 DEF MessagesOf
  <2>5. page[w] = -1
    BY <2>1, <1>t DEF OwnConnections, Exporting, ServerTypes
  <2>6. ServerTypes'
    BY <2>1, <2>4, <1>t DEF ServerTypes
  <2>7. state[s] \notin {"none", "connecting"}
    BY <2>1, <1>t DEF OwnConnections
  <2>8. OwnConnections'
    <3>1. \A r \in Sockets : state'[r] \in {"none", "connecting"} => wire'[r] = <<>>
      BY <2>1, <2>7, <1>t DEF OwnConnections, PageTypes
    <3>2. \A v \in Workers : v # w => current'[v] = current[v]
      BY <2>1, <1>t DEF ServerTypes
    <3>3. current'[w] = Head(wire[s])
      BY <2>1, <1>t DEF ServerTypes
    <3> QED
      BY <2>1, <2>4, <2>5, <2>7, <3>1, <3>2, <3>3, <1>t DEF OwnConnections, ConnOf, Exporting
  <2>9. OverIsClosed'
    BY <2>1, <1>t DEF OverIsClosed
  <2>10. WholeIsWritten'
    <3>1. Writers' = Writers
      BY <2>1, <2>5, <1>t DEF Writers, Exporting, ServerTypes
    <3>2. \A v \in Writers : current'[v] = current[v]
      BY <2>1, <2>5, <1>t DEF Writers, Exporting, ServerTypes
    <3> QED
      BY <2>1, <3>1, <3>2, <1>t DEF WholeIsWritten
  <2> QED
    BY <2>2, <2>6, <2>8, <2>9, <2>10 DEF IInv, ServerInv
<1>r. ASSUME NEW w \in Workers, current[w] # None, Returns(w),
             UNCHANGED <<option, wire, history, workerOf, file, whole>>,
             state' \in {state, [state EXCEPT ![ConnOf(w)] = "closed"]},
             failed' \subseteq Messages, failed \subseteq failed',
             current[w] \in failed' \/ Kind[current[w]] = "browseFile"
                 \/ state' = [state EXCEPT ![ConnOf(w)] = "closed"],
             w \in Writers => current[w] \in failed' \/ page[w] = Pages
      PROVE  IInv'
  <2>1. /\ current' = [current EXCEPT ![w] = None] /\ page' = [page EXCEPT ![w] = -1]
        /\ over' = over \cup {current[w]}
    BY <1>r DEF Returns
  <2>2. current[w] \in Messages /\ ConnOf(w) \in Sockets
    BY <1>r, <1>t DEF ServerTypes, ConnOf
  <2>3. PageInv'
    BY <1>r, <2>2, <1>t, ServerStep DEF PageTypes
  <2>4. ServerTypes'
    BY <1>r, <2>1, <2>2, <1>t DEF ServerTypes
  <2>5. \A s \in Sockets : state'[s] = state[s] \/ (s = ConnOf(w) /\ state'[s] = "closed")
    BY <1>r, <1>t DEF PageTypes
  <2>6. OwnConnections'
    <3>1. \A s \in Sockets : state'[s] \in {"none", "connecting"} => wire'[s] = <<>>
      BY <1>r, <2>5, <1>t DEF OwnConnections
    <3>2. \A v \in Workers : v # w => current'[v] = current[v] /\ page'[v] = page[v]
      BY <2>1, <1>t DEF ServerTypes
    <3>3. current'[w] = None /\ page'[w] = -1
      BY <2>1, <1>t DEF ServerTypes
    <3>4. \A v \in Workers : current[v] # None => ConnOf(v) \in Sockets
      BY <1>t DEF ServerTypes, ConnOf
    <3> QED
      BY <1>r, <2>5, <3>1, <3>2, <3>3, <3>4, <1>t DEF OwnConnections, ConnOf, Exporting
  <2>7. OverIsClosed'
    <3> SUFFICES ASSUME NEW m \in over', m \notin failed', Kind[m] # "browseFile"
                 PROVE  state'[SocketOf[m]] = "closed"
      BY DEF OverIsClosed
    <3>1. CASE m = current[w]
      BY <3>1, <1>r, <2>2, <1>t DEF ConnOf, PageTypes
    <3>2. CASE m # current[w]
      <4>1. m \in over \ failed /\ SocketOf[m] \in Sockets
        BY <3>2, <1>r, <2>1, <1>t DEF ServerTypes
      <4> QED
        BY <4>1, <2>5, <1>t DEF OverIsClosed
    <3> QED
      BY <3>1, <3>2
  <2>8. WholeIsWritten'
    <3> SUFFICES ASSUME whole # None
                 PROVE  /\ \A i \in DOMAIN file : file[i] = whole
                        /\ \A v \in Writers' : current'[v] = whole /\ Len(file) = page'[v]
                        /\ Writers' = {} => whole \in failed' \/ Len(file) = Pages
      BY <1>r DEF WholeIsWritten
    <3>1. Writers' = Writers \ {w}
      BY <2>1, <1>t DEF Writers, Exporting, ServerTypes
    <3>2. \A v \in Writers' : current'[v] = current[v] /\ page'[v] = page[v]
      BY <3>1, <2>1, <1>t DEF Writers, ServerTypes
    <3>3. CASE w \notin Writers
      <4>1. Writers' = Writers
        BY <3>1, <3>3
      <4> QED
        BY <4>1, <3>2, <1>r, <1>t DEF WholeIsWritten
    <3>4. CASE w \in Writers
      <4>1. current[w] = whole /\ Len(file) = page[w]
        BY <3>4, <1>t DEF WholeIsWritten
      <4>2. whole \in failed' \/ Len(file) = Pages
        BY <3>4, <4>1, <1>r
      <4> QED
        BY <4>2, <3>1, <3>2, <1>t DEF WholeIsWritten
    <3> QED
      BY <3>3, <3>4
  <2> QED
    BY <2>3, <2>4, <2>6, <2>7, <2>8 DEF IInv, ServerInv
<1>4. ASSUME NEW w \in Workers, Browses(w) PROVE IInv'
  <2>1. w \notin Writers
    BY <1>4 DEF Browses, Writers, Exporting
  <2> QED
    BY <1>4, <1>r, <2>1, <1>t DEF Browses, browser, ServerTypes
<1>5. ASSUME NEW w \in Workers, Finishes(w) PROVE IInv'
  <2>1. w \in Writers => page[w] = Pages
    BY <1>5 DEF Finishes, Writers, Exporting
  <2> QED
    BY <1>5, <1>r, <2>1, <1>t DEF Finishes, ClosesConn, ServerTypes
<1>6. ASSUME NEW w \in Workers, Throws(w) PROVE IInv'
  <2>1. current[w] \in Messages
    BY <1>6, <1>t DEF Throws, ServerTypes
  <2> QED
    BY <1>6, <1>r, <2>1, <1>t DEF Throws, browser, ServerTypes
<1>7. ASSUME NEW w \in Workers, OpensFile(w) PROVE IInv'
  <2>1. /\ Exporting(w) /\ page[w] = -1 /\ page' = [page EXCEPT ![w] = 0] /\ file' = <<>>
        /\ whole' = IF Writers = {} THEN current[w] ELSE None
        /\ UNCHANGED <<state, option, wire, history, workerOf, current, failed, over>>
    BY <1>7 DEF OpensFile, browser
  <2>2. current[w] \in Messages
    BY <2>1, <1>t DEF Exporting, ServerTypes
  <2>3. PageInv'
    BY <2>1, <1>t, ServerStep DEF PageTypes
  <2>4. ServerTypes'
    BY <2>1, <2>2, <1>t DEF ServerTypes
  <2>5. OwnConnections'
    BY <2>1, <1>t DEF OwnConnections, ConnOf, Exporting, ServerTypes
  <2>6. OverIsClosed'
    BY <2>1, <1>t DEF OverIsClosed
  <2>7. WholeIsWritten'
    <3> SUFFICES ASSUME whole' # None
                 PROVE  /\ \A i \in DOMAIN file' : file'[i] = whole'
                        /\ \A v \in Writers' : current'[v] = whole' /\ Len(file') = page'[v]
                        /\ Writers' # {}
      BY DEF WholeIsWritten
    <3>1. Writers = {} /\ whole' = current[w]
      BY <2>1
    <3>2. Writers' = {w}
      BY <2>1, <3>1, <1>t DEF Writers, Exporting, ServerTypes
    <3>3. page'[w] = 0
      BY <2>1, <1>t DEF ServerTypes
    <3> QED
      BY <2>1, <3>1, <3>2, <3>3
  <2> QED
    BY <2>3, <2>4, <2>5, <2>6, <2>7 DEF IInv, ServerInv
<1>8. ASSUME NEW w \in Workers, WritesPage(w) PROVE IInv'
  <2> DEFINE end == IF Len(file) > page[w] THEN Len(file) ELSE page[w] + 1
  <2>1. /\ Exporting(w) /\ page[w] \in 0 .. Pages - 1 /\ page' = [page EXCEPT ![w] = @ + 1]
        /\ file' = [i \in 1 .. end |-> IF i = page[w] + 1 THEN current[w]
                                       ELSE IF i <= Len(file) THEN file[i] ELSE None]
        /\ UNCHANGED <<state, option, wire, history, workerOf, current, failed, over, whole>>
    BY <1>8 DEF WritesPage, PageLeft, browser
  <2>2. current[w] \in Messages /\ Len(file) \in Nat /\ end \in Nat
    BY <2>1, <1>t DEF Exporting, ServerTypes
  <2>3. PageInv'
    BY <2>1, <1>t, ServerStep DEF PageTypes
  <2>4. file' \in Seq(Messages \cup {None}) /\ Len(file') = end /\ DOMAIN file' = 1 .. end
    <3>1. \A i \in 1 .. Len(file) : file[i] \in Messages \cup {None}
      BY <1>t DEF ServerTypes
    <3>2. file' \in [1 .. end -> Messages \cup {None}]
      BY <2>1, <2>2, <3>1
    <3> QED
      BY <2>2, <3>2, SeqDef, LenProperties
  <2>5. ServerTypes'
    BY <2>1, <2>2, <2>4, <1>t DEF ServerTypes
  <2>6. OwnConnections'
    BY <2>1, <1>t DEF OwnConnections, ConnOf, Exporting, ServerTypes
  <2>7. OverIsClosed'
    BY <2>1, <1>t DEF OverIsClosed
  <2>8. WholeIsWritten'
    <3> SUFFICES ASSUME whole # None
                 PROVE  /\ \A i \in DOMAIN file' : file'[i] = whole
                        /\ \A v \in Writers' : current'[v] = whole /\ Len(file') = page'[v]
                        /\ Writers' # {}
      BY <2>1 DEF WholeIsWritten
    <3>1. w \in Writers /\ Writers' = Writers
      BY <2>1, <1>t DEF Writers, Exporting, ServerTypes
    <3>2. current[w] = whole /\ Len(file) = page[w]
      BY <3>1, <1>t DEF WholeIsWritten
    <3>3. \A v \in Writers : v = w
      BY <3>1, <3>2, <2>2, <1>t DEF Writers, WholeIsWritten, OwnConnections, ConnOf
    <3>4. end = page[w] + 1 /\ page'[w] = page[w] + 1
      BY <2>1, <3>2, <1>t DEF ServerTypes
    <3>5. \A i \in 1 .. Len(file) : file[i] = whole
      BY <1>t DEF WholeIsWritten, ServerTypes
    <3>6. \A i \in 1 .. end : file'[i] = whole
      BY <2>1, <2>2, <3>2, <3>4, <3>5
    <3> QED
      BY <2>1, <2>4, <3>1, <3>2, <3>3, <3>4, <3>6
  <2> QED
    BY <2>3, <2>5, <2>6, <2>7, <2>8 DEF IInv, ServerInv
<1> QED
  BY <1>1, <1>2, <1>3, <1>4, <1>5, <1>6, <1>7, <1>8 DEF Works
-----------------------------------------------------------------------------
(* Bounds *)

ClickedIn(f) == {m \in Messages : f[m] # "new"}

\* A click starts one timer at most, and no more messages are clicked than there
\* are clicks; the shared message was clicked; an export's page ends within the pages an export has.
Bounds ==
    /\ IsFiniteSet(ClickedIn(fate))
    /\ timers <= Cardinality(ClickedIn(fate))
    /\ Cardinality(ClickedIn(fate)) <= MaxClicks
    /\ _message # None => fate[_message] # "new"
    /\ tryCount \in 0 .. MaxTries
    /\ failed \subseteq over
    /\ Len(file) <= Pages

\* Clicks, timers and lost connections keep the bounds.
LEMMA PageBounds == IInv /\ Bounds /\ Page => Bounds'
<1> SUFFICES ASSUME IInv, Bounds, Page PROVE Bounds'
  OBVIOUS
<1>t. /\ PageTypes /\ SharedMatches /\ MaxTries \in Nat \ {0} /\ MaxClicks \in Nat
      /\ IsFiniteSet(ClickedIn(fate)) /\ Cardinality(ClickedIn(fate)) \in Nat
  BY TriesPositive, ClicksNat, FS_CardinalityType DEF IInv, PageInv, Bounds
<1>u. UNCHANGED <<failed, over, file>>
  BY DEF Page, server
<1>1. ASSUME ClickedIn(fate') = ClickedIn(fate), timers' <= timers, tryCount' \in 0 .. MaxTries,
             _message' # None => fate'[_message'] # "new"
      PROVE  Bounds'
  <2>1. timers' \in Int
    BY <1>t DEF Page, Click, Timer, ClickWaits, ClickSends, TimerSends, TimerRetries, TimerGivesUp, Lost,
       option, PageTypes
  <2> QED
    BY <1>1, <2>1, <1>t, <1>u DEF Bounds, PageTypes
<1>2. ASSUME NEW m \in Messages, Click(m) PROVE Bounds'
  <2>1. \E p \in {"pending", "sent"} : fate' = [Replaced(fate) EXCEPT ![m] = p]
    BY <1>2 DEF Click, ClickWaits, ClickSends
  <2>2. fate[m] = "new" /\ Cardinality(ClickedIn(fate)) < MaxClicks
    BY <1>2 DEF Click, ClickWaits, ClickSends, Clicked, ClickedIn
  <2>3. fate'[m] # "new" /\ \A n \in Messages : n # m => (fate'[n] = "new" <=> fate[n] = "new")
    BY <2>1, <1>t DEF Replaced, PageTypes
  <2>4. ClickedIn(fate') = ClickedIn(fate) \cup {m} /\ m \notin ClickedIn(fate)
    BY <2>2, <2>3 DEF ClickedIn
  <2>5. /\ IsFiniteSet(ClickedIn(fate) \cup {m})
        /\ Cardinality(ClickedIn(fate) \cup {m}) = Cardinality(ClickedIn(fate)) + 1
    BY <1>t, <2>4, FS_AddElement
  <2>6. /\ timers' <= timers + 1 /\ timers' \in Nat /\ tryCount' \in 0 .. MaxTries
        /\ _message' = m
    BY <1>2, <1>t DEF Click, ClickWaits, ClickSends, Assigns, PageTypes, Bounds
  <2>7. /\ IsFiniteSet(ClickedIn(fate')) /\ timers' <= Cardinality(ClickedIn(fate'))
        /\ Cardinality(ClickedIn(fate')) <= MaxClicks
    BY <2>2, <2>4, <2>5, <2>6, <1>t DEF Bounds, PageTypes
  <2> QED
    BY <2>3, <2>6, <2>7, <1>u DEF Bounds
<1>3. CASE TimerSends
  <2>1. /\ timers > 0 /\ timers' = timers - 1 /\ UNCHANGED <<_message, tryCount>>
        /\ fate' = [fate EXCEPT ![_message] = "sent"]
    BY <1>3 DEF TimerSends
  <2>2. _message \in Messages /\ fate[_message] # "new"
    BY <2>1, <1>t DEF SharedMatches, PageTypes, Bounds
  <2>3. \A n \in Messages : fate'[n] = "new" <=> fate[n] = "new"
    BY <2>1, <2>2, <1>t DEF PageTypes
  <2>4. ClickedIn(fate') = ClickedIn(fate)
    BY <2>3 DEF ClickedIn
  <2> QED
    BY <1>1, <2>1, <2>2, <2>3, <2>4, <1>t DEF Bounds, PageTypes
<1>4. CASE TimerRetries
  BY <1>1, <1>4, <1>t DEF TimerRetries, Bounds, history, PageTypes
<1>5. CASE TimerGivesUp
  <2>1. \A n \in Messages : fate'[n] = "new" <=> fate[n] = "new"
    BY <1>5, <1>t DEF TimerGivesUp, PageTypes
  <2>2. ClickedIn(fate') = ClickedIn(fate)
    BY <2>1 DEF ClickedIn
  <2> QED
    BY <1>1, <1>5, <2>2, <1>t DEF TimerGivesUp, Bounds, PageTypes
<1>6. ASSUME NEW s \in Sockets, Lost(s) PROVE Bounds'
  BY <1>1, <1>6, <1>t DEF Lost, Bounds, option, history, PageTypes
<1> QED
  BY <1>2, <1>3, <1>4, <1>5, <1>6 DEF Page, Timer

\* The library and the workers keep the bounds.
LEMMA WorkBounds ==
    ASSUME IInv, Bounds, (\E s \in Sockets : Opens(s) \/ Drops(s)) \/ (\E w \in Workers : Works(w))
    PROVE  Bounds'
<1>t. /\ ServerTypes /\ Pages \in Nat \ {0} /\ failed \subseteq over /\ Len(file) <= Pages
  BY PagesPositive DEF IInv, ServerInv, Bounds
<1>1. UNCHANGED <<option, history>>
  BY DEF Opens, Drops, Works, Takes, Browses, Finishes, Throws, OpensFile, WritesPage, browser
<1>2. failed' \subseteq over'
  BY <1>t DEF Opens, Drops, Works, Takes, Browses, Finishes, Throws, OpensFile, WritesPage, server, Returns
<1>3. Len(file') <= Pages
  <2>1. ASSUME NEW w \in Workers, WritesPage(w) PROVE Len(file') <= Pages
    <3> DEFINE end == IF Len(file) > page[w] THEN Len(file) ELSE page[w] + 1
    <3>1. /\ page[w] \in 0 .. Pages - 1
          /\ file' = [i \in 1 .. end |-> IF i = page[w] + 1 THEN current[w]
                                         ELSE IF i <= Len(file) THEN file[i] ELSE None]
      BY <2>1 DEF WritesPage, PageLeft
    <3>2. end \in Nat /\ end <= Pages
      BY <3>1, <1>t, LenProperties DEF ServerTypes
    <3>3. DOMAIN file' = 1 .. end
      BY <3>1
    <3>4. Len(file') = end
      BY <3>1, <3>2
    <3> QED
      BY <3>2, <3>4
  <2>2. ASSUME NEW w \in Workers, OpensFile(w) PROVE Len(file') <= Pages
    BY <2>2, <1>t DEF OpensFile
  <2>3. file' = file \/ \E w \in Workers : OpensFile(w) \/ WritesPage(w)
    BY DEF Opens, Drops, Works, Takes, Browses, Finishes, Throws, server
  <2> QED
    BY <2>1, <2>2, <2>3, <1>t
<1> QED
  BY <1>1, <1>2, <1>3 DEF Bounds, option, history
-----------------------------------------------------------------------------
(* Theorems *)

\* Every reachable state satisfies the invariant.
THEOREM Invariance == Spec => []IInv
<1>1. Init => IInv
  <2> SUFFICES ASSUME Init PROVE IInv
    OBVIOUS
  <2>1. PageInv
    BY NoneIsNone DEF Init, InitBrowser, PageInv, PageTypes, SharedMatches, WireOwn, PendingHasTimer, OncePerChain
  <2>2. Writers = {}
    BY DEF Init, Writers, Exporting
  <2>3. ServerInv
    BY <2>2, PagesPositive DEF Init, InitBrowser, ServerInv, ServerTypes, OwnConnections, OverIsClosed, WholeIsWritten,
       Exporting
  <2> QED
    BY <2>1, <2>3 DEF IInv
<1>2. IInv /\ [Next]_vars => IInv'
  <2> SUFFICES ASSUME IInv, [Next]_vars PROVE IInv'
    OBVIOUS
  <2>1. CASE UNCHANGED vars
    <3>1. UNCHANGED <<browser, server>>
      BY <2>1 DEF vars
    <3> QED
      BY <3>1 DEF browser, option, history, server, IInv, PageInv, PageTypes, SharedMatches, WireOwn,
         PendingHasTimer, OncePerChain, ServerInv, ServerTypes, OwnConnections, OverIsClosed, WholeIsWritten,
         Writers, Exporting, ConnOf
  <2>2. CASE Page
    BY <2>2, PageStep, PageKeepsServer DEF IInv
  <2>3. CASE (\E s \in Sockets : Opens(s) \/ Drops(s)) \/ (\E w \in Workers : Works(w))
    BY <2>3, WorkStep
  <2> QED
    BY <2>1, <2>2, <2>3 DEF Next
<1> QED
  BY <1>1, <1>2, PTL DEF Spec

\* BaseWebSocketOption: a message only goes out on its own socket, and one that
\* waits has a timer, however clicks, timers and connections interleave.
THEOREM PendingMessagesKept == Spec => []PendingIsKept
<1>1. IInv => PendingIsKept
  <2> SUFFICES ASSUME IInv PROVE PendingIsKept
    OBVIOUS
  <2>1. WireOwn /\ PendingHasTimer
    BY DEF IInv, PageInv
  <2>2. ASSUME NEW s \in Sockets, NEW i \in DOMAIN wire[s] PROVE SocketOf[wire[s][i]] = s
    <3>1. wire[s] \in Seq(MessagesOf(s))
      BY <2>1 DEF WireOwn
    <3>2. wire[s][i] \in MessagesOf(s)
      BY <3>1, <2>2, ElementOfSeq, LenProperties
    <3> QED
      BY <3>2 DEF MessagesOf
  <2> QED
    BY <2>1, <2>2 DEF PendingIsKept, PendingHasTimer
<1> QED
  BY <1>1, Invariance, PTL

\* A task is sent once, and once more for every chain of timers that was
\* running when it was clicked.
THEOREM SentOncePerChain == Spec => []OncePerChain
<1>1. IInv => OncePerChain
  BY DEF IInv, PageInv
<1> QED
  BY <1>1, Invariance, PTL

\* Exports of one index by several workers: a file whose last opener was alone
\* has the pages of that export only, and all of them when it returned.
THEOREM FilesOfOneExport == Spec => []FileOfOneExport
<1>1. IInv => FileOfOneExport
  BY NoneIsNone DEF IInv, ServerInv, WholeIsWritten, FileOfOneExport, Writers, Exporting
<1> QED
  BY <1>1, Invariance, PTL

\* onMessage: a connection whose tasks are over stays open only after a task threw.
THEOREM OpenAfterFailure == Spec => []OpenOnlyAfterFailure
<1>1. IInv => OpenOnlyAfterFailure
  BY DEF IInv, ServerInv, OverIsClosed, OpenOnlyAfterFailure
<1> QED
  BY <1>1, Invariance, PTL

\* The page and the server keep their types: no more timers run than there were
\* clicks, no failed task is still running, no file outgrows an export.
THEOREM TypesHold == Spec => []TypeOK
<1>1. Init => Bounds
  <2> SUFFICES ASSUME Init PROVE Bounds
    OBVIOUS
  <2>1. ClickedIn(fate) = {}
    BY DEF Init, InitBrowser, ClickedIn
  <2>2. IsFiniteSet(ClickedIn(fate)) /\ Cardinality(ClickedIn(fate)) = 0
    BY <2>1, FS_EmptySet
  <2> QED
    BY <2>2, ClicksNat, TriesPositive, PagesPositive DEF Init, InitBrowser, Bounds
<1>2. IInv /\ Bounds /\ [Next]_vars => Bounds'
  <2> SUFFICES ASSUME IInv, Bounds, [Next]_vars PROVE Bounds'
    OBVIOUS
  <2>1. CASE UNCHANGED vars
    BY <2>1 DEF vars, browser, server, option, history, Bounds
  <2>2. CASE Next
    BY <2>2, PageBounds, WorkBounds DEF Next
  <2> QED
    BY <2>1, <2>2
<1>3. IInv /\ Bounds => TypeOK
  <2> SUFFICES ASSUME IInv, Bounds PROVE TypeOK
    OBVIOUS
  <2>1. timers \in 0 .. MaxClicks
    BY ClicksNat, FS_CardinalityType DEF IInv, PageInv, PageTypes, Bounds
  <2> QED
    BY <2>1 DEF IInv, PageInv, PageTypes, ServerInv, ServerTypes, Bounds, TypeOK, BrowserTypeOK
<1> QED
  BY <1>1, <1>2, <1>3, Invariance, PTL DEF Spec
=============================================================================
