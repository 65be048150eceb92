---------------------------- MODULE BrowserSocket ---------------------------
(***************************************************************************)
(* BaseWebsocket.js: how the page sends its tasks.  Every click on delete, *)
(* export, import or browse makes a WebSocket and sends one message on it; *)
(* the file window sends further messages on its socket.  A new socket is  *)
(* never open yet, so that the message goes to BaseWebSocketOption, which  *)
(* all sockets share: it holds one socket, one message and one count of    *)
(* tries, and starts a chain of timers.                                    *)
(***************************************************************************)
EXTENDS Integers, Sequences, FiniteSets

CONSTANTS
    Messages,       \* what the user sends, each once
    Sockets,
    SocketOf,       \* the socket of a message
    Further,        \* the messages the file window sends on its socket
    MaxTries,       \* 5
    Lossy,          \* the sockets whose connection may be lost
    MaxClicks,      \* the bound of the model: how many of them are sent
    None            \* the initial null

ASSUME SocketOfType == SocketOf \in [Messages -> Sockets]
ASSUME TriesPositive == MaxTries \in Nat \ {0}
ASSUME FurtherType == Further \subseteq Messages
ASSUME LossyType == Lossy \subseteq Sockets
ASSUME ClicksNat == MaxClicks \in Nat
ASSUME NoneIsNone == None \notin Messages \cup Sockets

VARIABLES
    state,          \* readyState of a socket, "none" before it is made
    _websocket,     \* the fields of BaseWebSocketOption
    _message,
    tryCount,
    timers,         \* the number of timers running, all of sendTimeout
    wire            \* what was sent on a socket and is not handled yet

VARIABLES           \* for the properties only
    credit,         \* how often a message may be sent yet: once, and once for
                    \* each timer that was running when it was clicked
    fate            \* "new", "pending", "sent", "replaced" or "abandoned"

option == <<_websocket, _message, tryCount, timers>>
history == <<credit, fate>>
browser == <<state, option, wire, history>>
-----------------------------------------------------------------------------
InitBrowser ==
    /\ state = [s \in Sockets |-> "none"]
    /\ _websocket = None
    /\ _message = None
    /\ tryCount = 0
    /\ timers = 0
    /\ wire = [s \in Sockets |-> <<>>]
    /\ credit = [m \in Messages |-> 0]
    /\ fate = [m \in Messages |-> "new"]

\* WebSocket.send of message m.
SendsOn(s, m, allowed) ==
    /\ wire' = [wire EXCEPT ![s] = Append(@, m)]
    /\ credit' = [credit EXCEPT ![m] = allowed - 1]

Clicked(m) ==
    /\ fate[m] = "new"
    /\ m \in Further <=> state[SocketOf[m]] # "none"
    /\ Cardinality({n \in Messages : fate[n] # "new"}) < MaxClicks

\* The message that was waiting is forgotten: its timers send the new one.
Replaced(f) == [m \in Messages |-> IF f[m] = "pending" THEN "replaced" ELSE f[m]]

KeepsSocket(m) ==                       \* mutant: _websocket is set only once
    /\ _websocket' = IF _websocket = None THEN SocketOf[m] ELSE _websocket
    /\ _message' = m

\* this._websocket = websocket; this._message = message
Assigns(m) ==
    /\ _websocket' = SocketOf[m]
    /\ _message' = m

\* send on a socket that is not open: a new one, or that of the file window
\* when it was lost.  sendTimeout finds it not open and sets the first timer.
ClickWaits(m) ==
    LET s == SocketOf[m] IN
    /\ Clicked(m)
    /\ state[s] # "open"
    /\ state' = IF m \in Further THEN state ELSE [state EXCEPT ![s] = "connecting"]
    /\ Assigns(m)
    /\ tryCount' = 1
    /\ timers' = timers + 1
    /\ credit' = [credit EXCEPT ![m] = timers + 1]
    /\ fate' = [Replaced(fate) EXCEPT ![m] = "pending"]
    /\ UNCHANGED wire

\* send on the open socket of the file window.
ClickSends(m) ==
    /\ Clicked(m)
    /\ state[SocketOf[m]] = "open"
    /\ Assigns(m)
    /\ SendsOn(SocketOf[m], m, timers + 1)
    /\ fate' = [Replaced(fate) EXCEPT ![m] = "sent"]
    /\ UNCHANGED <<state, tryCount, timers>>

SendsAndRearms ==                       \* mutant: a timer is left after sending
    /\ timers > 0
    /\ state[_websocket] = "open"
    /\ SendsOn(_websocket, _message, credit[_message])
    /\ fate' = [fate EXCEPT ![_message] = "sent"]
    /\ UNCHANGED <<state, _websocket, _message, tryCount, timers>>

\* sendTimeout when the socket is open ...
TimerSends ==
    /\ timers > 0
    /\ state[_websocket] = "open"
    /\ SendsOn(_websocket, _message, credit[_message])
    /\ timers' = timers - 1
    /\ fate' = [fate EXCEPT ![_message] = "sent"]
    /\ UNCHANGED <<state, _websocket, _message, tryCount>>

NoMoreTimer ==                          \* mutant: setTimeout is left out
    /\ timers > 0
    /\ state[_websocket] # "open"
    /\ tryCount < MaxTries
    /\ tryCount' = tryCount + 1
    /\ timers' = timers - 1
    /\ UNCHANGED <<state, _websocket, _message, wire, history>>

\* ... when it is not and there are tries left ...
TimerRetries ==
    /\ timers > 0
    /\ state[_websocket] # "open"
    /\ tryCount < MaxTries
    /\ tryCount' = tryCount + 1
    /\ UNCHANGED <<state, _websocket, _message, timers, wire, history>>

\* ... and when there are none: nobody is told.
TimerGivesUp ==
    /\ timers > 0
    /\ state[_websocket] # "open"
    /\ tryCount >= MaxTries
    /\ timers' = timers - 1
    /\ fate' = IF timers = 1 /\ fate[_message] = "pending"
               THEN [fate EXCEPT ![_message] = "abandoned"] ELSE fate
    /\ UNCHANGED <<state, _websocket, _message, tryCount, wire, credit>>

\* The connection is lost or refused, or the file window is closed.
Lost(s) ==
    /\ s \in Lossy
    /\ state[s] \in {"connecting", "open"}
    /\ state' = [state EXCEPT ![s] = "closed"]
    /\ UNCHANGED <<option, wire, history>>

Click(m) == ClickWaits(m) \/ ClickSends(m)
Timer == TimerSends \/ TimerRetries \/ TimerGivesUp
-----------------------------------------------------------------------------
BrowserTypeOK ==
    /\ state \in [Sockets -> {"none", "connecting", "open", "closed"}]
    /\ _websocket \in Sockets \cup {None}
    /\ _message \in Messages \cup {None}
    /\ tryCount \in 0 .. MaxTries
    /\ timers \in 0 .. MaxClicks
    /\ wire \in [Sockets -> Seq(Messages)]
    /\ credit \in [Messages -> Int]
    /\ fate \in [Messages -> {"new", "pending", "sent", "replaced", "abandoned"}]

\* BaseWebSocketOption (BaseWebsocket.js:8 to 30): a message only goes out on
\* the socket made for it, and a message that waits is the shared one and has
\* a timer: without a second click none is dropped before the tries are over.
PendingIsKept ==
    /\ \A s \in Sockets : \A i \in DOMAIN wire[s] : SocketOf[wire[s][i]] = s
    /\ \A m \in Messages : fate[m] = "pending" => timers > 0 /\ _message = m

\* A task is sent at most once, and once more for every chain of timers of
\* earlier messages that was still running when it was clicked.
OncePerChain ==
    \A m \in Messages : credit[m] >= (IF m = _message THEN timers ELSE 0)
=============================================================================
