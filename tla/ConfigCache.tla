----------------------------- MODULE ConfigCache ----------------------------
(***************************************************************************)
(* ConfigCache: the Elasticsearch address each client used last, in a      *)
(* static HashMap that every handler thread reads and writes without a     *)
(* lock, and in the file "config", which each change rewrites through a    *)
(* writer of its own (FileWriteUtil) and the next start reads back.        *)
(*                                                                         *)
(* A line is the entry it was written for and the bytes it takes, from and *)
(* to, so that a text written over the beginning of a longer one leaves    *)
(* the end of that one as it does in the file.  The configuration fits in  *)
(* the writer's 8 KB buffer, so that a rewriting writes once, at its       *)
(* flush.  A store of one thread is seen by the others at once, but for    *)
(* what a HashMap loses when an insertion overlaps another put.            *)
(***************************************************************************)
EXTENDS Integers, Sequences, SequencesExt

CONSTANTS
    Threads,        \* the handler threads
    Clients,        \* the client addresses, in the order the map lists them
    Sends,          \* Sends[c]: the values client c may send
    Reload,         \* Reload[v]: what loadConfig makes of the line of value v
    KeyIn,          \* KeyIn[c][v]: what the line "c=v" is read as, see below
    NoValue,        \* no entry
    Cut,            \* text that loadConfig cannot split in two
    Nobody,         \* no client
    WritesFail      \* whether opening and writing the file may fail

Keys == ToSet(Clients)
Values == UNION {Sends[c] : c \in Keys}
Lines == [client : Keys, value : Values, from : Nat, to : Nat]

ASSUME ClientsType == Clients \in Seq(Keys)
ASSUME OneAddressEach == \A i, j \in DOMAIN Clients : Clients[i] = Clients[j] => i = j
ASSUME SendsType == Sends \in [Keys -> SUBSET Values]
\* A value is cut at its first '='.  Cutting it again changes nothing.
ASSUME ReloadType ==
    \A c \in Keys : \A v \in Sends[c] : Reload[v] \in Sends[c] /\ Reload[Reload[v]] = Reload[v]
\* KeyIn[c][v] has an element for each byte of the line, its end of line
\* included: the key of what is left of the line from that byte on.  That is
\* the client at first, then perhaps another client, whose address is the tail
\* of this one's, or Nobody, and Cut where no key and value are left.
ASSUME KeyInType ==
    \A c \in Keys : \A v \in Values :
        /\ KeyIn[c][v] \in Seq(Keys \cup {Nobody, Cut})
        /\ KeyIn[c][v] # <<>>
        /\ KeyIn[c][v][1] = c
ASSUME WritesFail \in BOOLEAN
ASSUME Markers == NoValue \notin Values /\ {Nobody, Cut} \cap Keys = {}

VARIABLES
    up,             \* "up", or "failed": the last start ended in an exception
    config,         \* the HashMap: config[c] is a value or NoValue
    file,           \* the lines of the file
    pc,             \* where put is, per thread
    req,            \* the client and the value of the put, per thread
    raced,          \* an insertion overlapped the thread's config.put
    buf,            \* the lines in the thread's writer
    next,           \* the entry the thread's iterator returns next, or Nobody
    modified        \* an insertion since the iterator was made

VARIABLES           \* for the properties only
    alone,          \* no other put was running during the thread's put
    whole           \* the last change of the file was a put on its own

vars == <<up, config, file, pc, req, raced, buf, next, modified, alone, whole>>
shared == <<up, config, file>>
local == <<req, raced, buf, next, modified>>
ghosts == <<alone, whole>>

Empty == [c \in Keys |-> NoValue]
Idle == {t \in Threads : pc[t] = "idle"}
IdlePc == [t \in Threads |-> "idle"]
-----------------------------------------------------------------------------
(* The map *)

\* The first entry of the map in its order at place i or later.
EntryFrom(i) ==
    LET places == {j \in i .. Len(Clients) : config[Clients[j]] # NoValue}
    IN  IF places = {} THEN Nobody
        ELSE Clients[CHOOSE j \in places : \A k \in places : j <= k]

FromStart == EntryFrom(1)
After(c) == EntryFrom(1 + CHOOSE i \in DOMAIN Clients : Clients[i] = c)

Inserts(t) == config[req[t].client] = NoValue

\* Where a text ends.
EndOf(text) == IF text = <<>> THEN 0 ELSE Last(text).to

\* entry.getKey() + "=" + entry.getValue(), with the value of this moment, as
\* the next line of the thread's buffer.
LineOf(t, c) ==
    LET start == EndOf(buf[t])
    IN  [client |-> c, value |-> config[c],
         from |-> start, to |-> start + Len(KeyIn[c][config[c]])]
-----------------------------------------------------------------------------
(* The file *)

\* A text written from the start of a file: what lies behind its end stays,
\* its first line perhaps only in part.  An empty text changes nothing.
Overwrite(text, old) ==
    LET behind == {i \in DOMAIN old : old[i].to > EndOf(text)}
    IN  IF behind = {} THEN text
        ELSE text \o SubSeq(old, CHOOSE i \in behind : \A j \in behind : i <= j, Len(old))

\* How many bytes of line i lie under the line before it.
LostAt(lines, i) ==
    IF i > 1 /\ lines[i - 1].to > lines[i].from THEN lines[i - 1].to - lines[i].from ELSE 0

\* values[0] of line i.
KeyAt(lines, i) == KeyIn[lines[i].client][lines[i].value][1 + LostAt(lines, i)]

LastLine(lines, c) ==
    LET at == {i \in DOMAIN lines : KeyAt(lines, i) = c}
    IN  IF at = {} THEN NoValue
        ELSE Reload[lines[CHOOSE i \in at : \A j \in at : j <= i].value]

LoadedKeys(lines) ==                    \* mutant: values[0] for values[1]
    [c \in Keys |-> IF LastLine(lines, c) = NoValue THEN NoValue ELSE c]

LoadedAllButLast(lines) ==              \* mutant: the last line is not read
    [c \in Keys |-> LastLine(SubSeq(lines, 1, Len(lines) - 1), c)]

\* The map after config.put of every line.
Loaded(lines) == [c \in Keys |-> LastLine(lines, c)]

\* values[1] is out of bounds: the exception leaves loadConfig and main.
Unloadable(lines) ==
    \E i \in DOMAIN lines : KeyAt(lines, i) = Cut
-----------------------------------------------------------------------------
Init ==
    /\ up = "up"
    /\ config = Empty
    /\ file = <<>>
    /\ pc = IdlePc
    /\ req \in [Threads -> [client : {Nobody}, value : {NoValue}]]
    /\ raced = [t \in Threads |-> FALSE]
    /\ buf = [t \in Threads |-> <<>>]
    /\ next = [t \in Threads |-> Nobody]
    /\ modified = [t \in Threads |-> FALSE]
    /\ alone = [t \in Threads |-> TRUE]
    /\ whole = TRUE

\* The put is over: the thread's locals are gone.
EndsPut(t) ==
    /\ pc' = [pc EXCEPT ![t] = "idle"]
    /\ req' = [req EXCEPT ![t] = [client |-> Nobody, value |-> NoValue]]
    /\ raced' = [raced EXCEPT ![t] = FALSE]
    /\ buf' = [buf EXCEPT ![t] = <<>>]
    /\ next' = [next EXCEPT ![t] = Nobody]
    /\ modified' = [modified EXCEPT ![t] = FALSE]

\* A request of client c with value v reaches put; the value is not the one in
\* the map.  (With the one in the map put does nothing.)
Differs(t, c, v) ==
    /\ up = "up"
    /\ pc[t] = "idle"
    /\ v # config[c]
    /\ pc' = [pc EXCEPT ![t] = "put"]
    /\ req' = [req EXCEPT ![t] = [client |-> c, value |-> v]]
    /\ alone' = [u \in Threads |-> IF u = t THEN Idle = Threads
                                   ELSE alone[u] /\ pc[u] = "idle"]
    /\ whole' = (whole /\ Idle = Threads)
    /\ UNCHANGED <<shared, raced, buf, next, modified>>

\* config.put begins: it overlaps every other config.put that has begun.
BeginsMapPut(t) ==
    /\ pc[t] = "put"
    /\ pc' = [pc EXCEPT ![t] = "putting"]
    /\ LET others == {u \in Threads \ {t} : pc[u] = "putting"}
       IN  raced' = [u \in Threads |->
                        \/ raced[u]
                        \/ u = t /\ \E w \in others : Inserts(w) \/ Inserts(t)
                        \/ u \in others /\ (Inserts(u) \/ Inserts(t))]
    /\ UNCHANGED <<shared, req, buf, next, modified, ghosts>>

\* config.put ends.  An insertion invalidates every iterator; a put that
\* overlapped an insertion may be lost.
EndsMapPut(t) ==
    /\ pc[t] = "putting"
    /\ pc' = [pc EXCEPT ![t] = "open"]
    /\ \/ config' = [config EXCEPT ![req[t].client] = req[t].value]
       \/ raced[t] /\ UNCHANGED config
    /\ modified' = [u \in Threads |-> modified[u] \/ (Inserts(t) /\ pc[u] = "lines")]
    /\ UNCHANGED <<up, file, req, raced, buf, next, ghosts>>

\* new FileWriteUtil truncates the file; config.entrySet().iterator().
OpensWriter(t) ==
    /\ pc[t] = "open"
    /\ pc' = [pc EXCEPT ![t] = "lines"]
    /\ file' = <<>>
    /\ next' = [next EXCEPT ![t] = FromStart]
    /\ UNCHANGED <<up, config, req, raced, buf, modified, ghosts>>

\* The file cannot be opened: the writer stays null and the first line throws
\* a NullPointerException, or there is no line and put returns.
OpenFails(t) ==
    /\ WritesFail
    /\ pc[t] = "open"
    /\ whole' = FALSE
    /\ EndsPut(t)
    /\ UNCHANGED <<shared, alone>>

AppendsLine(t) ==
    /\ pc[t] = "lines"
    /\ next[t] # Nobody
    /\ ~modified[t]
    /\ buf' = [buf EXCEPT ![t] = Append(@, LineOf(t, next[t]))]
    /\ next' = [next EXCEPT ![t] = After(next[t])]
    /\ UNCHANGED <<shared, pc, req, raced, modified, ghosts>>

\* The iterator throws a ConcurrentModificationException: nothing is flushed.
IteratorThrows(t) ==
    /\ pc[t] = "lines"
    /\ next[t] # Nobody
    /\ modified[t]
    /\ EndsPut(t)
    /\ UNCHANGED <<shared, ghosts>>

NeverFlushes(t) ==                      \* mutant: the buffer is dropped
    /\ pc[t] = "lines"
    /\ next[t] = Nobody
    /\ whole' = alone[t]
    /\ EndsPut(t)
    /\ UNCHANGED <<shared, alone>>

\* flush() and close().  The writer writes from the start of the file.
Flushes(t) ==
    /\ pc[t] = "lines"
    /\ next[t] = Nobody
    /\ file' = Overwrite(buf[t], file)
    /\ whole' = alone[t]
    /\ EndsPut(t)
    /\ UNCHANGED <<up, config, alone>>

\* An IOException of the flush is logged and put returns.
FlushFails(t) ==
    /\ WritesFail
    /\ pc[t] = "lines"
    /\ next[t] = Nobody
    /\ whole' = FALSE
    /\ EndsPut(t)
    /\ UNCHANGED <<shared, alone>>

Thread(t) ==
    \/ \E c \in Keys : \E v \in Sends[c] : Differs(t, c, v)
    \/ BeginsMapPut(t) \/ EndsMapPut(t)
    \/ OpensWriter(t) \/ OpenFails(t)
    \/ AppendsLine(t) \/ IteratorThrows(t)
    \/ Flushes(t) \/ FlushFails(t)

\* service.sh restart: kill -9 at any moment, then main, loadConfig first.
Restart ==
    /\ IF Unloadable(file)
       THEN up' = "failed" /\ config' = Empty
       ELSE up' = "up" /\ config' = Loaded(file)
    /\ pc' = IdlePc
    /\ req' = [t \in Threads |-> [client |-> Nobody, value |-> NoValue]]
    /\ raced' = [t \in Threads |-> FALSE]
    /\ buf' = [t \in Threads |-> <<>>]
    /\ next' = [t \in Threads |-> Nobody]
    /\ modified' = [t \in Threads |-> FALSE]
    /\ whole' = ~Unloadable(file)
    /\ UNCHANGED <<file, alone>>

Next == Restart \/ \E t \in Threads : Thread(t)

Spec == Init /\ [][Next]_vars
-----------------------------------------------------------------------------
TypeOK ==
    /\ up \in {"up", "failed"}
    /\ config \in [Keys -> Values \cup {NoValue}]
    /\ file \in Seq(Lines)
    /\ pc \in [Threads -> {"idle", "put", "putting", "open", "lines"}]
    /\ req \in [Threads -> [client : Keys \cup {Nobody}, value : Values \cup {NoValue}]]
    /\ raced \in [Threads -> BOOLEAN]
    /\ buf \in [Threads -> Seq(Lines)]
    /\ next \in [Threads -> Keys \cup {Nobody}]
    /\ modified \in [Threads -> BOOLEAN]
    /\ alone \in [Threads -> BOOLEAN]
    /\ whole \in BOOLEAN

\* What a start would read of a value that is in the map.
Reloaded(m) == [c \in Keys |-> IF m[c] = NoValue THEN NoValue ELSE Reload[m[c]]]

\* put on its own (ConfigCache.java:28 to 41): whatever overlapping puts and
\* failed writes have left before, one put that runs alone and changes a value
\* makes the file load as the map again, and it stays so until puts overlap.
AloneIsDurable ==
    (up = "up" /\ whole /\ Idle = Threads) =>
        ~Unloadable(file) /\ Loaded(file) = Reloaded(config)

\* kill -9 while puts do not overlap (service.sh, ConfigCache.java:35): the next
\* start works, and finds every entry, or every entry but the one being put,
\* or, when a put had truncated the file, nothing.
KillLosesAtMost ==
    [][(Restart /\ up = "up" /\ whole) =>
          /\ up' = "up"
          /\ \/ config' = Reloaded(config)
             \/ \E t \in Threads \ Idle :
                   \/ config' = Empty
                   \/ \A c \in Keys \ {req[t].client} : config'[c] = Reloaded(config)[c]]_vars

\* "The value has changed: update the map and write it to the file"
\* (ConfigCache.java:28): when no put is running, the file holds what the map
\* holds.  Meant for a disk without failures.
FileFollowsMap ==
    (up = "up" /\ Idle = Threads) =>
        ~Unloadable(file) /\ Loaded(file) = Reloaded(config)
=============================================================================
