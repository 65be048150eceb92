-------------------------- MODULE ConfigCacheProofs --------------------------
(***************************************************************************)
(* What the configuration cache guarantees for every set of threads and    *)
(* clients, every value they send and every order of the map.              *)
(***************************************************************************)
EXTENDS ConfigCache, SequenceTheorems, WellFoundedInduction, TLAPS

\* A start that reads these lines finds the entries of the clients S as they are
\* in the map m.
Holds(lines, m, S) ==
    /\ ~Unloadable(lines)
    /\ \A c \in S : Loaded(lines)[c] = Reloaded(m)[c]

\* Where the iterator stands when c comes next, Nobody: at the end.
Passed(c) ==
    {j \in DOMAIN Clients : c # Nobody => \E k \in DOMAIN Clients : Clients[k] = c /\ j < k}

\* No line lies under another: each begins where the one before it ends.
Joined(lines) == \A i \in DOMAIN lines : i > 1 => lines[i].from = lines[i - 1].to

\* The lines are the entries of the map m that come before c, each whole.
Lists(lines, m, c) ==
    /\ Joined(lines)
    /\ \A i \in DOMAIN lines : lines[i].value = m[lines[i].client]
    /\ \A j \in Passed(c) :
          m[Clients[j]] # NoValue => \E i \in DOMAIN lines : lines[i].client = Clients[j]

Running(t) == pc[t] # "idle"

\* A running put has a request, and what it has of a map put or of the writer it
\* got at that step.
Locals ==
    \A t \in Threads :
        /\ Running(t) => req[t].client \in Keys /\ req[t].value \in Values
        /\ pc[t] \in {"idle", "put"} => ~raced[t]
        /\ pc[t] # "lines" => ~modified[t] /\ buf[t] = <<>> /\ next[t] = Nobody

\* What the iterator returns next is in the map.
NextIsThere == \A t \in Threads : next[t] # Nobody => config[next[t]] # NoValue

\* While a put is alone no other runs; it met no insertion, and its lines are
\* those of the map, in a file nobody else has written.
AloneInv ==
    \A t \in Threads : Running(t) /\ alone[t] =>
        /\ \A u \in Threads : u # t => ~Running(u)
        /\ ~raced[t] /\ ~modified[t]
        /\ pc[t] = "lines" => file = <<>> /\ Lists(buf[t], config, next[t])

\* While puts do not overlap the file holds the map, but for the entry that
\* is put between the put in the map and the truncation of the file.
WholeInv ==
    whole =>
        /\ \A t \in Threads : Running(t) => alone[t]
        /\ (\A t \in Threads : pc[t] \in {"idle", "put", "putting"}) => Holds(file, config, Keys)
        /\ \A t \in Threads : pc[t] = "open" => Holds(file, config, Keys \ {req[t].client})

IInv == TypeOK /\ Locals /\ NextIsThere /\ AloneInv /\ WholeInv
-----------------------------------------------------------------------------
(* Lines *)

\* Sets of places have a first one, and a last one.
LEMMA Least ==
    ASSUME NEW S \in SUBSET Nat, S # {}
    PROVE  \E i \in S : \A j \in S : i <= j
<1> DEFINE Rel == {p \in Nat \X Nat : p[1] < p[2]}
<1>1. IsWellFoundedOn(Rel, Nat)
  BY NatLessThanWellFounded, Zenon DEF OpToRel
<1>2. PICK i \in S : \A j \in S : ~(<<j, i>> \in Rel)
  <2> HIDE DEF Rel
  <2> QED
    BY <1>1, WFMin
<1>3. \A j \in S : ~(j < i)
  BY <1>2
<1> QED
  BY <1>3

LEMMA Greatest ==
    ASSUME NEW n \in Nat, NEW S \in SUBSET (1 .. n), S # {}
    PROVE  \E i \in S : \A j \in S : j <= i
<1> DEFINE Left == {n - i : i \in S}
<1>1. PICK k \in Left : \A l \in Left : k <= l
  <2>1. \A i \in S : n - i \in Nat
    OBVIOUS
  <2>2. Left \in SUBSET Nat /\ Left # {}
    BY <2>1
  <2> HIDE DEF Left
  <2> QED
    BY <2>2, Least
<1>2. PICK i \in S : k = n - i
  BY <1>1
<1>3. ASSUME NEW j \in S PROVE j <= i
  <2>1. n - i <= n - j
    BY <1>1, <1>2
  <2>2. i \in 1 .. n /\ j \in 1 .. n
    OBVIOUS
  <2> QED
    BY <2>1, <2>2
<1> QED
  BY <1>3

\* What a start finds of a client is the value of a line that is read as the
\* client's.
LEMMA LastLineIs ==
    ASSUME NEW lines \in Seq(Lines), NEW c
    PROVE  \/ LastLine(lines, c) = NoValue /\ \A i \in DOMAIN lines : KeyAt(lines, i) # c
           \/ \E i \in DOMAIN lines :
                 KeyAt(lines, i) = c /\ LastLine(lines, c) = Reload[lines[i].value]
<1> DEFINE at == {i \in DOMAIN lines : KeyAt(lines, i) = c}
<1>1. CASE at = {}
  BY <1>1 DEF LastLine
<1>2. CASE at # {}
  <2>1. at \in SUBSET (1 .. Len(lines)) /\ Len(lines) \in Nat
    BY LenProperties
  <2>2. \E i \in at : \A j \in at : j <= i
    <3> HIDE DEF at
    <3> QED
      BY <1>2, <2>1, Greatest
  <2>3. (CHOOSE i \in at : \A j \in at : j <= i) \in at
    BY <2>2
  <2> DEFINE i == CHOOSE i \in at : \A j \in at : j <= i
  <2>4. LastLine(lines, c) = Reload[lines[i].value]
    BY <1>2 DEF LastLine
  <2>5. i \in DOMAIN lines /\ KeyAt(lines, i) = c
    BY <2>3
  <2> QED
    BY <2>4, <2>5
<1> QED
  BY <1>1, <1>2

\* A line that no other lies over is read as its client's.
LEMMA JoinedKeys ==
    ASSUME NEW lines \in Seq(Lines), Joined(lines), NEW i \in DOMAIN lines
    PROVE  KeyAt(lines, i) = lines[i].client /\ lines[i] \in Lines
<1>1. DOMAIN lines = 1 .. Len(lines) /\ Len(lines) \in Nat
  BY LenProperties
<1>2. \A j \in DOMAIN lines : lines[j] \in Lines
  BY <1>1, ElementOfSeq
<1>3. LostAt(lines, i) = 0
  <2>1. CASE i > 1
    <3>1. lines[i].from = lines[i - 1].to /\ lines[i].from \in Nat
      BY <1>2, <2>1 DEF Joined, Lines
    <3> QED
      BY <3>1 DEF LostAt
  <2>2. CASE ~(i > 1)
    BY <2>2 DEF LostAt
  <2> QED
    BY <2>1, <2>2
<1>4. KeyIn[lines[i].client][lines[i].value][1] = lines[i].client
  BY <1>2, KeyInType DEF Lines
<1> QED
  BY <1>2, <1>3, <1>4 DEF KeyAt

\* Where a text ends.
LEMMA EndOfIs ==
    ASSUME NEW text \in Seq(Lines)
    PROVE  /\ EndOf(text) \in Nat
           /\ text # <<>> => EndOf(text) = text[Len(text)].to
<1>1. CASE text = <<>>
  BY <1>1 DEF EndOf
<1>2. CASE text # <<>>
  <2>1. Len(text) \in 1 .. Len(text)
    BY <1>2, LenProperties
  <2>2. text[Len(text)] \in Lines
    BY <2>1, ElementOfSeq
  <2> QED
    BY <1>2, <2>2 DEF EndOf, Last, Lines
<1> QED
  BY <1>1, <1>2

\* A value that a start has read reads the same at the next one.
LEMMA ReloadIs ==
    ASSUME NEW v \in Values
    PROVE  Reload[v] \in Values /\ Reload[Reload[v]] = Reload[v] /\ v # NoValue
<1>1. PICK c \in Keys : v \in Sends[c]
  BY DEF Values
<1> QED
  BY <1>1, ReloadType, Markers DEF Values

\* The map a start builds; starting again changes nothing.
LEMMA LoadedIs ==
    ASSUME NEW lines \in Seq(Lines), ~Unloadable(lines)
    PROVE  /\ Loaded(lines) \in [Keys -> Values \cup {NoValue}]
           /\ \A c \in Keys : Loaded(lines)[c] = Reloaded(Loaded(lines))[c]
<1>1. \A i \in DOMAIN lines : lines[i] \in Lines
  BY ElementOfSeq, LenProperties
<1>2. ASSUME NEW c \in Keys
      PROVE  \/ LastLine(lines, c) = NoValue
             \/ LastLine(lines, c) \in Values /\ Reload[LastLine(lines, c)] = LastLine(lines, c)
  <2>1. CASE LastLine(lines, c) = NoValue
    BY <2>1
  <2>2. ASSUME NEW i \in DOMAIN lines, LastLine(lines, c) = Reload[lines[i].value]
        PROVE  LastLine(lines, c) \in Values /\ Reload[LastLine(lines, c)] = LastLine(lines, c)
    <3>1. lines[i].value \in Values
      BY <1>1, <2>2 DEF Lines
    <3> QED
      BY <2>2, <3>1, ReloadIs
  <2> QED
    BY <2>1, <2>2, LastLineIs
<1> QED
  BY <1>2 DEF Loaded, Reloaded

\* A text written over another leaves lines, and the text alone in an empty file.
LEMMA Overwritten ==
    ASSUME NEW text \in Seq(Lines), NEW old \in Seq(Lines)
    PROVE  /\ Overwrite(text, old) \in Seq(Lines)
           /\ old = <<>> => Overwrite(text, old) = text
<1> DEFINE behind == {i \in DOMAIN old : old[i].to > EndOf(text)}
           first == CHOOSE i \in behind : \A j \in behind : i <= j
<1>1. DOMAIN old = 1 .. Len(old) /\ Len(old) \in Nat
  BY LenProperties
<1>2. CASE behind = {}
  BY <1>2 DEF Overwrite
<1>3. CASE behind # {}
  <2>1. behind \in SUBSET Nat
    BY <1>1
  <2>2. \E i \in behind : \A j \in behind : i <= j
    <3> HIDE DEF behind
    <3> QED
      BY <1>3, <2>1, Least
  <2>3. first \in behind
    BY <2>2
  <2>4. first \in 1 .. Len(old)
    BY <1>1, <2>3
  <2>5. Overwrite(text, old) = text \o SubSeq(old, first, Len(old))
    BY <1>3 DEF Overwrite
  <2> HIDE DEF first, behind
  <2>6. SubSeq(old, first, Len(old)) \in Seq(Lines)
    BY <1>1, <2>4, SubSeqProperties
  <2>7. old # <<>>
    BY <1>1, <2>4
  <2> QED
    BY <2>5, <2>6, <2>7, ConcatProperties
<1> QED
  BY <1>2, <1>3

\* A start that reads all entries of the map finds the map.
LEMMA ListIsHeld ==
    ASSUME NEW lines \in Seq(Lines), NEW m \in [Keys -> Values \cup {NoValue}],
           Lists(lines, m, Nobody)
    PROVE  Holds(lines, m, Keys)
<1>1. \A i \in DOMAIN lines : lines[i] \in Lines /\ KeyAt(lines, i) = lines[i].client
  BY JoinedKeys DEF Lists
<1>2. ~Unloadable(lines)
  BY <1>1, Markers DEF Unloadable, Lines
<1>3. ASSUME NEW c \in Keys PROVE LastLine(lines, c) = Reloaded(m)[c]
  <2>1. CASE m[c] = NoValue
    <3>1. \A i \in DOMAIN lines : lines[i].client # c
      BY <1>1, <2>1, Markers DEF Lists, Lines
    <3> QED
      BY <1>1, <2>1, <3>1, LastLineIs DEF Reloaded
  <2>2. CASE m[c] # NoValue
    <3>1. PICK j \in DOMAIN Clients : Clients[j] = c
      BY DEF Keys, ToSet
    <3>2. j \in Passed(Nobody)
      BY DEF Passed
    <3>3. \E i \in DOMAIN lines : lines[i].client = c
      BY <2>2, <3>1, <3>2 DEF Lists
    <3>4. \A i \in DOMAIN lines : lines[i].client = c => lines[i].value = m[c]
      BY DEF Lists
    <3> QED
      BY <1>1, <2>2, <3>3, <3>4, LastLineIs DEF Reloaded
  <2> QED
    BY <2>1, <2>2
<1> QED
  BY <1>2, <1>3 DEF Holds, Loaded

\* The iterator skips the clients that are not in the map.
LEMMA EntryFromIs ==
    ASSUME NEW i \in Nat \ {0}
    PROVE  \/ /\ EntryFrom(i) = Nobody
              /\ \A j \in i .. Len(Clients) : config[Clients[j]] = NoValue
           \/ \E j \in i .. Len(Clients) :
                 /\ EntryFrom(i) = Clients[j]
                 /\ config[Clients[j]] # NoValue
                 /\ \A k \in i .. j - 1 : config[Clients[k]] = NoValue
<1> DEFINE places == {j \in i .. Len(Clients) : config[Clients[j]] # NoValue}
<1>1. CASE places = {}
  BY <1>1 DEF EntryFrom
<1>2. CASE places # {}
  <2>1. places \in SUBSET Nat /\ Len(Clients) \in Nat
    BY ClientsType, LenProperties
  <2>2. \E j \in places : \A k \in places : j <= k
    <3> HIDE DEF places
    <3> QED
      BY <1>2, <2>1, Least
  <2> DEFINE j == CHOOSE j \in places : \A k \in places : j <= k
  <2>3. j \in places /\ \A k \in places : j <= k
    <3> HIDE DEF places
    <3> QED
      BY <2>2
  <2>4. EntryFrom(i) = Clients[j]
    BY <1>2 DEF EntryFrom
  <2>5. \A k \in i .. j - 1 : config[Clients[k]] = NoValue
    <3> HIDE DEF j
    <3> QED
      BY <2>1, <2>3
  <2> HIDE DEF j
  <2> QED
    BY <2>3, <2>4, <2>5
<1> QED
  BY <1>1, <1>2
-----------------------------------------------------------------------------
(* Steps *)

Types ==
    /\ config \in [Keys -> Values \cup {NoValue}]
    /\ file \in Seq(Lines)
    /\ pc \in [Threads -> {"idle", "put", "putting", "open", "lines"}]
    /\ req \in [Threads -> [client : Keys \cup {Nobody}, value : Values \cup {NoValue}]]
    /\ raced \in [Threads -> BOOLEAN]
    /\ buf \in [Threads -> Seq(Lines)]
    /\ next \in [Threads -> Keys \cup {Nobody}]
    /\ modified \in [Threads -> BOOLEAN]

\* A put that ends leaves its locals clean; it makes the file whole only when
\* it ran alone and the file holds the map.
LEMMA PutEnds ==
    ASSUME IInv, NEW t \in Threads, Running(t), EndsPut(t), UNCHANGED <<up, config, alone>>,
           file' \in Seq(Lines), whole' \in BOOLEAN,
           whole' => alone[t] /\ Holds(file', config, Keys)
    PROVE  IInv'
<1>t. TypeOK /\ Types /\ Locals /\ NextIsThere /\ AloneInv
  BY DEF IInv, TypeOK, Types
<1>1. /\ pc' = [pc EXCEPT ![t] = "idle"]
      /\ req' = [req EXCEPT ![t] = [client |-> Nobody, value |-> NoValue]]
      /\ raced' = [raced EXCEPT ![t] = FALSE]
      /\ buf' = [buf EXCEPT ![t] = <<>>]
      /\ next' = [next EXCEPT ![t] = Nobody]
      /\ modified' = [modified EXCEPT ![t] = FALSE]
  BY DEF EndsPut
<1>2. TypeOK'
  <2>1. <<>> \in Seq(Lines)
    OBVIOUS
  <2> QED
    BY <1>1, <1>t, <2>1 DEF TypeOK
<1>3. \A u \in Threads : u # t => /\ pc'[u] = pc[u] /\ req'[u] = req[u] /\ raced'[u] = raced[u]
                                  /\ buf'[u] = buf[u] /\ next'[u] = next[u] /\ modified'[u] = modified[u]
  BY <1>1, <1>t DEF Types
<1>4. pc'[t] = "idle" /\ ~raced'[t] /\ ~modified'[t] /\ buf'[t] = <<>> /\ next'[t] = Nobody
  BY <1>1, <1>t DEF Types
<1>5. Locals'
  BY <1>3, <1>4, <1>t DEF Locals, Running
<1>6. NextIsThere'
  BY <1>3, <1>4, <1>t DEF NextIsThere
<1>7. AloneInv'
  BY <1>3, <1>4, <1>t DEF AloneInv, Running
<1>8. WholeInv'
  <2> SUFFICES ASSUME whole' PROVE /\ \A u \in Threads : pc'[u] = "idle"
                                   /\ Holds(file', config', Keys)
    BY DEF WholeInv, Running
  <2> QED
    BY <1>3, <1>4, <1>t DEF AloneInv, Running
<1> QED
  BY <1>2, <1>5, <1>6, <1>7, <1>8 DEF IInv

\* The step of a thread that goes on with its put.
LEMMA PutGoesOn ==
    ASSUME IInv, NEW t \in Threads,
           \/ BeginsMapPut(t) \/ EndsMapPut(t)
           \/ OpensWriter(t) \/ AppendsLine(t)
    PROVE  IInv'
<1>t. TypeOK /\ Types /\ Locals /\ NextIsThere /\ AloneInv /\ WholeInv
  BY DEF IInv, TypeOK, Types
<1>a. Running(t) /\ \A u \in Threads : u # t => ~(Running(u) /\ alone[u])
  BY <1>t DEF BeginsMapPut, EndsMapPut, OpensWriter, AppendsLine, Running, AloneInv
<1>w. whole => alone[t] /\ \A u \in Threads : u # t => pc[u] = "idle"
  BY <1>a, <1>t DEF AloneInv, WholeInv, Running
<1>1. CASE BeginsMapPut(t)
  <2> DEFINE others == {u \in Threads \ {t} : pc[u] = "putting"}
  <2>1. /\ pc[t] = "put" /\ pc' = [pc EXCEPT ![t] = "putting"]
        /\ raced' = [u \in Threads |->
                        \/ raced[u]
                        \/ u = t /\ \E w \in others : Inserts(w) \/ Inserts(t)
                        \/ u \in others /\ (Inserts(u) \/ Inserts(t))]
        /\ UNCHANGED <<up, config, file, req, buf, next, modified, alone, whole>>
    BY <1>1 DEF BeginsMapPut, shared, ghosts
  <2>2. raced' \in [Threads -> BOOLEAN]
    BY <2>1, <1>t DEF Types
  <2>3. TypeOK'
    BY <2>1, <2>2, <1>t DEF TypeOK
  <2>4. pc'[t] = "putting" /\ \A u \in Threads : u # t => pc'[u] = pc[u]
    BY <2>1, <1>t DEF Types
  <2>5. \A u \in Threads : pc'[u] \in {"idle", "put"} => ~raced'[u]
    <3>1. ASSUME NEW u \in Threads, pc'[u] \in {"idle", "put"} PROVE ~raced'[u]
      <4>1. u # t /\ u \notin others /\ ~raced[u]
        BY <2>4, <3>1, <1>t DEF Locals
      <4> QED
        BY <2>1, <4>1
    <3> QED
      BY <3>1
  <2>6. Locals'
    BY <2>1, <2>4, <2>5, <1>t DEF Locals, Running
  <2>7. NextIsThere'
    BY <2>1, <1>t DEF NextIsThere
  <2>8. AloneInv'
    <3> SUFFICES ASSUME NEW u \in Threads, Running(u)', alone[u]
                 PROVE  /\ \A v \in Threads : v # u => pc'[v] = "idle"
                        /\ ~raced'[u] /\ ~modified[u] /\ pc'[u] # "lines"
      BY <2>1 DEF AloneInv, Running
    <3>1. u = t
      BY <2>4, <1>a DEF Running
    <3>2. others = {} /\ ~raced[t] /\ ~modified[t]
      BY <3>1, <1>a, <1>t DEF AloneInv, Running
    <3>3. ~raced'[t]
      BY <2>1, <3>2
    <3> QED
      BY <2>4, <3>1, <3>2, <3>3, <1>a, <1>t DEF AloneInv, Running
  <2>9. WholeInv'
    <3> SUFFICES ASSUME whole
                 PROVE  /\ \A u \in Threads : pc'[u] # "idle" => alone[u]
                        /\ Holds(file, config, Keys)
                        /\ \A u \in Threads : pc'[u] # "open"
      BY <2>1 DEF WholeInv, Running
    <3>1. Holds(file, config, Keys)
      BY <2>1, <1>w, <1>t DEF WholeInv
    <3> QED
      BY <2>4, <3>1, <1>w
  <2> QED
    BY <2>3, <2>6, <2>7, <2>8, <2>9 DEF IInv
<1>2. CASE EndsMapPut(t)
  <2>1. /\ pc[t] = "putting" /\ pc' = [pc EXCEPT ![t] = "open"]
        /\ \/ config' = [config EXCEPT ![req[t].client] = req[t].value]
           \/ raced[t] /\ UNCHANGED config
        /\ modified' = [u \in Threads |-> modified[u] \/ (Inserts(t) /\ pc[u] = "lines")]
        /\ UNCHANGED <<up, file, req, raced, buf, next, alone, whole>>
    BY <1>2 DEF EndsMapPut, ghosts
  <2>2. req[t].client \in Keys /\ req[t].value \in Values /\ req[t].value # NoValue
    BY <2>1, <1>t, Markers DEF Locals, Running
  <2>3. modified' \in [Threads -> BOOLEAN]
    BY <2>1, <1>t DEF Types
  <2>4. config' \in [Keys -> Values \cup {NoValue}]
    BY <2>1, <2>2, <1>t DEF Types
  <2>5. TypeOK'
    BY <2>1, <2>3, <2>4, <1>t DEF TypeOK
  <2>6. pc'[t] = "open" /\ \A u \in Threads : u # t => pc'[u] = pc[u]
    BY <2>1, <1>t DEF Types
  <2>7. Locals'
    <3>1. \A u \in Threads : pc'[u] # "lines" => ~modified'[u]
      BY <2>1, <2>6, <1>t DEF Locals
    <3> QED
      BY <2>1, <2>6, <3>1, <1>t DEF Locals, Running
  <2>8. NextIsThere'
    <3>1. \A c \in Keys : config[c] # NoValue => config'[c] # NoValue
      BY <2>1, <2>2, <1>t DEF Types
    <3> QED
      BY <2>1, <3>1, <1>t DEF NextIsThere, Types
  <2>9. AloneInv'
    <3> SUFFICES ASSUME NEW u \in Threads, Running(u)', alone[u]
                 PROVE  /\ \A v \in Threads : v # u => pc'[v] = "idle"
                        /\ ~raced[u] /\ ~modified'[u] /\ pc'[u] # "lines"
      BY <2>1 DEF AloneInv, Running
    <3>1. u = t
      BY <2>6, <1>a DEF Running
    <3> QED
      BY <2>1, <2>6, <3>1, <1>a, <1>t DEF AloneInv, Running
  <2>10. WholeInv'
    <3> SUFFICES ASSUME whole
                 PROVE  /\ \A u \in Threads : pc'[u] # "idle" => alone[u]
                        /\ \A u \in Threads : pc'[u] = "open" => Holds(file, config', Keys \ {req[u].client})
      BY <2>1, <2>6 DEF WholeInv, Running
    <3>1. Holds(file, config, Keys)
      BY <2>1, <1>w, <1>t DEF WholeInv
    <3>2. config' = [config EXCEPT ![req[t].client] = req[t].value]
      BY <2>1, <1>w, <1>a, <1>t DEF AloneInv
    <3>3. \A c \in Keys \ {req[t].client} : Reloaded(config')[c] = Reloaded(config)[c]
      BY <3>2, <1>t DEF Reloaded, Types
    <3>4. Holds(file, config', Keys \ {req[t].client})
      BY <3>1, <3>3 DEF Holds
    <3> QED
      BY <2>6, <3>4, <1>w
  <2> QED
    BY <2>5, <2>7, <2>8, <2>9, <2>10 DEF IInv
<1>3. CASE OpensWriter(t)
  <2>1. /\ pc[t] = "open" /\ pc' = [pc EXCEPT ![t] = "lines"] /\ file' = <<>>
        /\ next' = [next EXCEPT ![t] = EntryFrom(1)]
        /\ UNCHANGED <<up, config, req, raced, buf, modified, alone, whole>>
    BY <1>3 DEF OpensWriter, FromStart, ghosts
  <2>2. \/ /\ EntryFrom(1) = Nobody
           /\ \A j \in 1 .. Len(Clients) : config[Clients[j]] = NoValue
        \/ \E j \in 1 .. Len(Clients) :
              /\ EntryFrom(1) = Clients[j]
              /\ config[Clients[j]] # NoValue
              /\ \A k \in 1 .. j - 1 : config[Clients[k]] = NoValue
    BY EntryFromIs
  <2>3. /\ EntryFrom(1) \in Keys \cup {Nobody}
        /\ EntryFrom(1) # Nobody => config[EntryFrom(1)] # NoValue
    BY <2>2, ClientsType, ElementOfSeq
  <2>4. TypeOK'
    BY <2>1, <2>3, <1>t DEF TypeOK
  <2>5. /\ pc'[t] = "lines" /\ next'[t] = EntryFrom(1) /\ buf[t] = <<>>
        /\ \A u \in Threads : u # t => pc'[u] = pc[u] /\ next'[u] = next[u]
    BY <2>1, <1>t DEF Types, Locals
  <2>6. Locals' /\ NextIsThere'
    BY <2>1, <2>3, <2>5, <1>t DEF Locals, NextIsThere, Running
  <2>7. AloneInv'
    <3> SUFFICES ASSUME NEW u \in Threads, Running(u)', alone[u]
                 PROVE  /\ \A v \in Threads : v # u => pc'[v] = "idle"
                        /\ ~raced[u] /\ ~modified[u] /\ Lists(buf[u], config, next'[u])
      BY <2>1 DEF AloneInv, Running
    <3>1. u = t
      BY <2>5, <1>a DEF Running
    <3>2. \A j \in Passed(EntryFrom(1)) : config[Clients[j]] = NoValue
      <4> SUFFICES ASSUME NEW j \in Passed(EntryFrom(1)) PROVE config[Clients[j]] = NoValue
        OBVIOUS
      <4>1. j \in 1 .. Len(Clients)
        BY ClientsType, LenProperties DEF Passed
      <4>2. CASE EntryFrom(1) = Nobody
        BY <2>2, <4>1, <4>2, ClientsType, ElementOfSeq, Markers
      <4>3. CASE EntryFrom(1) # Nobody
        <5>1. PICK k \in 1 .. Len(Clients) : EntryFrom(1) = Clients[k]
                                             /\ \A i \in 1 .. k - 1 : config[Clients[i]] = NoValue
          BY <2>2, <4>3
        <5>2. j < k
          BY <4>3, <5>1, ClientsType, OneAddressEach, LenProperties DEF Passed
        <5> QED
          BY <4>1, <5>1, <5>2, ClientsType, LenProperties
      <4> QED
        BY <4>2, <4>3
    <3>3. Lists(buf[t], config, EntryFrom(1))
      BY <2>5, <3>2 DEF Lists, Joined
    <3> QED
      BY <2>1, <2>5, <3>1, <3>3, <1>a, <1>t DEF AloneInv, Running
  <2>8. WholeInv'
    BY <2>1, <2>5, <1>w, <1>t DEF WholeInv, Running
  <2> QED
    BY <2>4, <2>6, <2>7, <2>8 DEF IInv
<1>4. CASE AppendsLine(t)
  <2> DEFINE c == next[t]
             line == LineOf(t, c)
  <2>1. /\ pc[t] = "lines" /\ c # Nobody
        /\ buf' = [buf EXCEPT ![t] = Append(@, line)] /\ next' = [next EXCEPT ![t] = After(c)]
        /\ UNCHANGED <<up, config, file, pc, req, raced, modified, alone, whole>>
    BY <1>4 DEF AppendsLine, shared, ghosts
  <2>2. /\ c \in Keys /\ line \in Lines /\ buf[t] \in Seq(Lines)
        /\ line.client = c /\ line.value = config[c] /\ line.from = EndOf(buf[t])
    <3>1. c \in Keys /\ buf[t] \in Seq(Lines) /\ config[c] \in Values
      BY <2>1, <1>t DEF Types, NextIsThere
    <3>2. EndOf(buf[t]) \in Nat
      BY <3>1, EndOfIs
    <3>3. Len(KeyIn[c][config[c]]) \in Nat
      BY <3>1, KeyInType, LenProperties
    <3> QED
      BY <3>1, <3>2, <3>3 DEF LineOf, Lines
  <2> HIDE DEF line
  <2>3. PICK n \in DOMAIN Clients : Clients[n] = c /\ After(c) = EntryFrom(1 + n)
    <3>1. \E i \in DOMAIN Clients : Clients[i] = c
      BY <2>2 DEF Keys, ToSet
    <3> QED
      BY <3>1 DEF After
  <2>4. n \in 1 .. Len(Clients) /\ DOMAIN Clients = 1 .. Len(Clients) /\ Len(Clients) \in Nat
    BY ClientsType, LenProperties
  <2>5. \/ /\ After(c) = Nobody
           /\ \A j \in 1 + n .. Len(Clients) : config[Clients[j]] = NoValue
        \/ \E j \in 1 + n .. Len(Clients) :
              /\ After(c) = Clients[j]
              /\ config[Clients[j]] # NoValue
              /\ \A k \in 1 + n .. j - 1 : config[Clients[k]] = NoValue
    <3>1. 1 + n \in Nat \ {0}
      BY <2>4
    <3> QED
      BY <2>3, <3>1, EntryFromIs
  <2>6. /\ After(c) \in Keys \cup {Nobody}
        /\ After(c) # Nobody => config[After(c)] # NoValue
    BY <2>4, <2>5, ClientsType, ElementOfSeq
  <2>7. Append(buf[t], line) \in Seq(Lines)
    BY <2>2, AppendProperties
  <2>8. TypeOK'
    BY <2>1, <2>6, <2>7, <1>t DEF TypeOK
  <2>9. /\ buf'[t] = Append(buf[t], line) /\ next'[t] = After(c)
        /\ \A u \in Threads : u # t => buf'[u] = buf[u] /\ next'[u] = next[u]
    BY <2>1, <1>t DEF Types
  <2>10. Locals' /\ NextIsThere'
    BY <2>1, <2>6, <2>9, <1>t DEF Locals, NextIsThere, Running
  <2>11. AloneInv'
    <3> SUFFICES ASSUME NEW u \in Threads, Running(u)', alone[u]
                 PROVE  /\ \A v \in Threads : v # u => ~Running(v)
                        /\ ~raced[u] /\ ~modified[u] /\ file = <<>> /\ Lists(buf'[u], config, next'[u])
      BY <2>1 DEF AloneInv, Running
    <3>1. u = t
      BY <2>1, <1>a DEF Running
    <3>2. Lists(buf[t], config, c)
      BY <2>1, <3>1, <1>a, <1>t DEF AloneInv
    <3> DEFINE new == Append(buf[t], line)
    <3>3. /\ DOMAIN new = 1 .. Len(buf[t]) + 1 /\ DOMAIN buf[t] = 1 .. Len(buf[t]) /\ Len(buf[t]) \in Nat
          /\ new[Len(buf[t]) + 1] = line
          /\ \A i \in DOMAIN buf[t] : new[i] = buf[t][i]
      BY <2>2, AppendProperties, LenProperties
    <3>4. \A i \in DOMAIN new : new[i].value = config[new[i].client]
      <4> SUFFICES ASSUME NEW i \in DOMAIN new PROVE new[i].value = config[new[i].client]
        OBVIOUS
      <4>1. CASE i \in DOMAIN buf[t]
        BY <4>1, <3>2, <3>3 DEF Lists
      <4>2. CASE i = Len(buf[t]) + 1
        BY <4>2, <2>2, <3>3
      <4> QED
        BY <3>3, <4>1, <4>2
    <3>j. Joined(new)
      <4> SUFFICES ASSUME NEW i \in DOMAIN new, i > 1 PROVE new[i].from = new[i - 1].to
        BY DEF Joined
      <4>1. CASE i \in DOMAIN buf[t]
        BY <4>1, <3>2, <3>3 DEF Lists, Joined
      <4>2. CASE i = Len(buf[t]) + 1
        <5>1. buf[t] # <<>> /\ i - 1 = Len(buf[t]) /\ i - 1 \in DOMAIN buf[t]
          BY <3>3, <4>2
        <5>2. line.from = buf[t][i - 1].to
          BY <2>2, <5>1, EndOfIs
        <5> QED
          BY <3>3, <4>2, <5>1, <5>2
      <4> QED
        BY <3>3, <4>1, <4>2
    <3>5. ASSUME NEW j \in Passed(After(c)), config[Clients[j]] # NoValue
          PROVE  \E i \in DOMAIN new : new[i].client = Clients[j]
      <4>1. j \in 1 .. Len(Clients)
        BY <2>4 DEF Passed
      <4>2. j <= n
        <5>1. CASE After(c) = Nobody
          BY <2>4, <2>5, <3>5, <4>1, <5>1, ClientsType, ElementOfSeq, Markers
        <5>2. CASE After(c) # Nobody
          <6>1. PICK k \in 1 + n .. Len(Clients) : After(c) = Clients[k]
                                              /\ \A i \in 1 + n .. k - 1 : config[Clients[i]] = NoValue
            BY <2>5, <5>2
          <6>2. j < k
            BY <2>4, <5>2, <6>1, OneAddressEach DEF Passed
          <6> QED
            BY <2>4, <3>5, <4>1, <6>1, <6>2
        <5> QED
          BY <5>1, <5>2
      <4>3. CASE j = n
        BY <2>2, <2>3, <3>3, <4>3
      <4>4. CASE j < n
        <5>1. j \in Passed(c)
          BY <2>3, <2>4, <4>1, <4>4 DEF Passed
        <5>2. PICK i \in DOMAIN buf[t] : buf[t][i].client = Clients[j]
          BY <3>2, <3>5, <5>1 DEF Lists
        <5> QED
          BY <3>3, <5>2
      <4> QED
        BY <2>4, <4>1, <4>2, <4>3, <4>4
    <3>6. Lists(new, config, After(c))
      BY <3>4, <3>5, <3>j DEF Lists
    <3> QED
      BY <2>1, <2>9, <3>1, <3>6, <1>a, <1>t DEF AloneInv, Running
  <2>12. WholeInv'
    BY <2>1, <1>t DEF WholeInv, Running
  <2> QED
    BY <2>8, <2>10, <2>11, <2>12 DEF IInv
<1> QED
  BY <1>1, <1>2, <1>3, <1>4
\* A put that begins is alone when no other runs, and no other is alone any more.
LEMMA PutBegins ==
    ASSUME IInv, NEW t \in Threads, NEW c \in Keys, NEW v \in Sends[c], Differs(t, c, v)
    PROVE  IInv'
<1>t. TypeOK /\ Types /\ Locals /\ NextIsThere /\ AloneInv /\ WholeInv
  BY DEF IInv, TypeOK, Types
<1>1. /\ pc[t] = "idle" /\ pc' = [pc EXCEPT ![t] = "put"]
      /\ req' = [req EXCEPT ![t] = [client |-> c, value |-> v]]
      /\ alone' = [u \in Threads |-> IF u = t THEN Idle = Threads ELSE alone[u] /\ pc[u] = "idle"]
      /\ whole' = (whole /\ Idle = Threads)
      /\ UNCHANGED <<up, config, file, raced, buf, next, modified>>
  BY DEF Differs, shared
<1>2. v \in Values
  BY SendsType
<1>3. alone' \in [Threads -> BOOLEAN] /\ whole' \in BOOLEAN
  BY <1>1, <1>t DEF TypeOK
<1>4. TypeOK'
  BY <1>1, <1>2, <1>3, <1>t DEF TypeOK
<1>5. /\ pc'[t] = "put" /\ req'[t] = [client |-> c, value |-> v]
      /\ \A u \in Threads : u # t => pc'[u] = pc[u] /\ req'[u] = req[u]
  BY <1>1, <1>t DEF Types
<1>6. Locals' /\ NextIsThere'
  BY <1>1, <1>2, <1>5, <1>t DEF Locals, NextIsThere, Running
<1>7. AloneInv'
  <2> SUFFICES ASSUME NEW u \in Threads, Running(u)', alone'[u]
               PROVE  /\ \A w \in Threads : w # u => pc'[w] = "idle"
                      /\ ~raced[u] /\ ~modified[u] /\ pc'[u] # "lines"
    BY <1>1 DEF AloneInv, Running
  <2>1. u = t /\ Idle = Threads
    BY <1>1, <1>5 DEF Running
  <2>2. \A w \in Threads : pc[w] = "idle"
    BY <2>1 DEF Idle
  <2> QED
    BY <1>1, <1>5, <2>1, <2>2, <1>t DEF Locals
<1>8. WholeInv'
  <2> SUFFICES ASSUME whole, Idle = Threads
               PROVE  /\ \A u \in Threads : pc'[u] # "idle" => alone'[u]
                      /\ Holds(file, config, Keys)
                      /\ \A u \in Threads : pc'[u] # "open"
    BY <1>1 DEF WholeInv, Running
  <2>1. \A u \in Threads : pc[u] = "idle"
    BY DEF Idle
  <2>2. Holds(file, config, Keys)
    BY <2>1, <1>t DEF WholeInv
  <2>3. alone'[t]
    BY <1>1
  <2> QED
    BY <1>5, <2>1, <2>2, <2>3
<1> QED
  BY <1>4, <1>6, <1>7, <1>8 DEF IInv

\* Every step of a put keeps the invariant, the overlapping ones too.
LEMMA ThreadStep ==
    ASSUME IInv, NEW t \in Threads, Thread(t)
    PROVE  IInv'
<1>t. TypeOK /\ Types /\ Locals /\ NextIsThere /\ AloneInv /\ WholeInv
  BY DEF IInv, TypeOK, Types
<1>1. CASE \E c \in Keys : \E v \in Sends[c] : Differs(t, c, v)
  BY <1>1, PutBegins
<1>2. CASE BeginsMapPut(t) \/ EndsMapPut(t) \/ OpensWriter(t) \/ AppendsLine(t)
  BY <1>2, PutGoesOn
<1>3. CASE OpenFails(t) \/ FlushFails(t)
  <2>1. Running(t) /\ EndsPut(t) /\ UNCHANGED <<up, config, file, alone>> /\ whole' = FALSE
    BY <1>3 DEF OpenFails, FlushFails, shared, Running
  <2>2. ~whole' /\ whole' \in BOOLEAN /\ file' \in Seq(Lines)
    BY <2>1, <1>t DEF Types
  <2> QED
    BY <2>1, <2>2, PutEnds
<1>4. CASE IteratorThrows(t)
  <2>1. Running(t) /\ modified[t] /\ EndsPut(t) /\ UNCHANGED <<up, config, file, alone, whole>>
    BY <1>4 DEF IteratorThrows, shared, ghosts, Running
  <2>2. ~whole
    BY <2>1, <1>t DEF AloneInv, WholeInv
  <2>3. ~whole' /\ whole' \in BOOLEAN /\ file' \in Seq(Lines)
    BY <2>1, <2>2, <1>t DEF TypeOK
  <2> QED
    BY <2>1, <2>3, PutEnds
<1>5. CASE Flushes(t)
  <2>1. /\ pc[t] = "lines" /\ next[t] = Nobody /\ file' = Overwrite(buf[t], file)
        /\ whole' = alone[t] /\ EndsPut(t) /\ UNCHANGED <<up, config, alone>>
    BY <1>5 DEF Flushes
  <2>2. Running(t) /\ buf[t] \in Seq(Lines) /\ whole' \in BOOLEAN
    BY <2>1, <1>t DEF Running, Types, TypeOK
  <2>3. file' \in Seq(Lines)
    BY <2>1, <2>2, Overwritten, <1>t DEF Types
  <2>4. ASSUME alone[t] PROVE Holds(file', config, Keys)
    <3>1. file = <<>> /\ Lists(buf[t], config, Nobody)
      BY <2>1, <2>2, <2>4, <1>t DEF AloneInv
    <3>2. file' = buf[t]
      BY <2>1, <2>2, <3>1, Overwritten, <1>t DEF Types
    <3> QED
      BY <2>2, <3>1, <3>2, ListIsHeld, <1>t DEF Types
  <2> QED
    BY <2>1, <2>2, <2>3, <2>4, PutEnds
<1> QED
  BY <1>1, <1>2, <1>3, <1>4, <1>5 DEF Thread

\* A start reads the file, and the map is what it has read.
LEMMA RestartStep == IInv /\ Restart => IInv'
<1> SUFFICES ASSUME IInv, Restart PROVE IInv'
  OBVIOUS
<1>t. TypeOK /\ Types
  BY DEF IInv, TypeOK, Types
<1>1. /\ \A t \in Threads : /\ pc'[t] = "idle" /\ next'[t] = Nobody /\ buf'[t] = <<>>
                            /\ ~raced'[t] /\ ~modified'[t]
      /\ file' = file /\ whole' = ~Unloadable(file)
  BY DEF Restart, IdlePc
<1>2. /\ up' \in {"up", "failed"} /\ config' \in [Keys -> Values \cup {NoValue}]
      /\ ~Unloadable(file) => config' = Loaded(file)
  <2>1. CASE Unloadable(file)
    BY <2>1 DEF Restart, Empty
  <2>2. CASE ~Unloadable(file)
    BY <2>2, LoadedIs, <1>t DEF Restart, Types
  <2> QED
    BY <2>1, <2>2
<1>3. TypeOK'
  <2>1. <<>> \in Seq(Lines)
    OBVIOUS
  <2>2. whole' \in BOOLEAN
    BY DEF Restart
  <2> QED
    BY <1>2, <2>1, <2>2, <1>t DEF TypeOK, Restart, IdlePc
<1>4. Locals' /\ NextIsThere' /\ AloneInv'
  BY <1>1 DEF Locals, NextIsThere, AloneInv, Running
<1>5. WholeInv'
  <2> SUFFICES ASSUME ~Unloadable(file) PROVE Holds(file, config', Keys)
    BY <1>1 DEF WholeInv, Running
  <2> QED
    BY <1>2, LoadedIs, <1>t DEF Holds, Types
<1> QED
  BY <1>3, <1>4, <1>5 DEF IInv
-----------------------------------------------------------------------------
(* Theorems *)

\* Every reachable state satisfies the invariant.
THEOREM Invariance == Spec => []IInv
<1>1. Init => IInv
  <2> SUFFICES ASSUME Init PROVE IInv
    OBVIOUS
  <2>1. TypeOK
    BY DEF Init, TypeOK, Empty, IdlePc
  <2>2. /\ file = <<>> /\ config = Empty /\ \A t \in Threads : pc[t] = "idle" /\ next[t] = Nobody
        /\ \A t \in Threads : ~raced[t] /\ ~modified[t] /\ buf[t] = <<>>
    BY DEF Init, IdlePc
  <2>3. Holds(<<>>, Empty, Keys)
    BY DEF Holds, Unloadable, Loaded, LastLine, Reloaded, Empty
  <2> QED
    BY <2>1, <2>2, <2>3 DEF IInv, Locals, NextIsThere, AloneInv, WholeInv, Running
<1>2. IInv /\ [Next]_vars => IInv'
  <2> SUFFICES ASSUME IInv, [Next]_vars PROVE IInv'
    OBVIOUS
  <2>1. CASE UNCHANGED vars
    BY <2>1 DEF vars, IInv, TypeOK, Locals, NextIsThere, AloneInv, WholeInv, Running
  <2>2. CASE Next
    BY <2>2, ThreadStep, RestartStep DEF Next
  <2> QED
    BY <2>1, <2>2
<1> QED
  BY <1>1, <1>2, PTL DEF Spec

\* The map, the file and the locals of every put keep their types, whatever puts,
\* failures and restarts interleave.
THEOREM TypesHold == Spec => []TypeOK
<1>1. IInv => TypeOK
  BY DEF IInv
<1> QED
  BY <1>1, Invariance, PTL

\* ConfigCache.put: one put that runs alone makes the file load as the map,
\* whatever overlapping puts and failed writes have left in it.
THEOREM PutAloneIsDurable == Spec => []AloneIsDurable
<1>1. IInv => AloneIsDurable
  <2> SUFFICES ASSUME IInv, whole, Idle = Threads
               PROVE  ~Unloadable(file) /\ Loaded(file) = Reloaded(config)
    BY DEF AloneIsDurable
  <2>1. \A t \in Threads : pc[t] = "idle"
    BY DEF Idle
  <2>2. Holds(file, config, Keys)
    BY <2>1 DEF IInv, WholeInv
  <2> QED
    BY <2>2 DEF Holds, Loaded, Reloaded
<1> QED
  BY <1>1, Invariance, PTL

\* kill -9 in the middle of a put that runs alone costs the entry that is put,
\* or, once the file is truncated, all of them, and never the start.
THEOREM KillIsBounded == Spec => KillLosesAtMost
<1> DEFINE Lost ==
    /\ up' = "up"
    /\ \/ config' = Reloaded(config)
       \/ \E t \in Threads \ Idle :
             \/ config' = Empty
             \/ \A c \in Keys \ {req[t].client} : config'[c] = Reloaded(config)[c]
<1>1. ASSUME IInv, Restart, whole PROVE Lost
  <2>t. Types /\ AloneInv /\ WholeInv
    BY <1>1 DEF IInv, TypeOK, Types
  <2>1. CASE \A t \in Threads : pc[t] \in {"idle", "put", "putting"}
    <3>1. Holds(file, config, Keys)
      BY <1>1, <2>1, <2>t DEF WholeInv
    <3>2. up' = "up" /\ config' = Loaded(file)
      BY <1>1, <3>1 DEF Holds, Restart
    <3>3. Loaded(file) = Reloaded(config)
      BY <3>1 DEF Holds, Loaded, Reloaded
    <3> QED
      BY <3>2, <3>3
  <2>2. ASSUME NEW t \in Threads, pc[t] = "open" PROVE Lost
    <3>1. Holds(file, config, Keys \ {req[t].client})
      BY <1>1, <2>2, <2>t DEF WholeInv
    <3>2. up' = "up" /\ config' = Loaded(file)
      BY <1>1, <3>1 DEF Holds, Restart
    <3>3. t \in Threads \ Idle
      BY <2>2 DEF Idle
    <3> QED
      BY <3>1, <3>2, <3>3 DEF Holds
  <2>3. ASSUME NEW t \in Threads, pc[t] = "lines" PROVE Lost
    <3>1. file = <<>>
      BY <1>1, <2>3, <2>t DEF AloneInv, WholeInv, Running
    <3>2. ~Unloadable(<<>>) /\ Loaded(<<>>) = Empty
      BY DEF Unloadable, Loaded, LastLine, Empty
    <3>3. up' = "up" /\ config' = Empty
      BY <1>1, <3>1, <3>2 DEF Restart
    <3>4. t \in Threads \ Idle
      BY <2>3 DEF Idle
    <3> QED
      BY <3>3, <3>4
  <2> QED
    BY <2>1, <2>2, <2>3, <2>t DEF Types
<1>2. IInv /\ [Next]_vars => [(Restart /\ up = "up" /\ whole) => Lost]_vars
  BY <1>1
<1> QED
  BY <1>2, Invariance, PTL DEF Spec, KillLosesAtMost
=============================================================================
