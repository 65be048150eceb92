---------------------------- MODULE MCHttpServer ----------------------------
\* HttpServer for TLC: two connections for one worker, a buffer of two bytes,
\* and requests without and with a body, of one, two and three bytes: a whole
\* request in one read, a full buffer at its end, and one in its midst.
EXTENDS HttpServer

MCRequests == {[head |-> 1, body |-> 0], [head |-> 2, body |-> 0],
               [head |-> 1, body |-> 1], [head |-> 2, body |-> 1]}
=============================================================================
