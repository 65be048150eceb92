--------------------------- MODULE WebSocketUtil ---------------------------
(***************************************************************************)
(* How a task talks to its browser tab.  send() tests getReadyState() ==   *)
(* OPEN and then calls conn.send(); between the two the selector thread of *)
(* the WebSocket library may close the connection, and conn.send() then    *)
(* throws WebsocketNotConnectedException into the task.  A connection that *)
(* is found closed is only logged.                                         *)
(***************************************************************************)
VARIABLE conn                   \* the connection the task was started from

ConnStates == {"open", "closed"}

Delivered == conn = "open"   /\ UNCHANGED conn   \* the text goes out
Ignored   == conn = "closed" /\ UNCHANGED conn   \* logged, the task goes on
Raced     == conn = "open"   /\ conn' = "closed" \* closed after the test: throws

\* A send that returns, and a send whose exception the caller swallows.
SendReturns  == Delivered \/ Ignored
SendSwallows == SendReturns \/ Raced

\* The tab is closed or the network drops, at any moment.
ClientLeaves == conn = "open" /\ conn' = "closed"
=============================================================================
