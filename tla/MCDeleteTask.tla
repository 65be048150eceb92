---------------------------- MODULE MCDeleteTask ----------------------------
\* DeleteTask for TLC: the documents are numbers.
EXTENDS DeleteTask

CONSTANT MaxDocs

MCDocs == 1 .. MaxDocs
=============================================================================
