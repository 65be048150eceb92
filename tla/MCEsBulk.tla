------------------------------ MODULE MCEsBulk ------------------------------
\* EsBulk for TLC: batches of 2, 2 tries, and every file of up to MaxLines
\* lines: files of one, two and three batches, full and partial last batches,
\* malformed lines in each place.
EXTENDS EsBulk

CONSTANT MaxLines

MCFiles == UNION {[1 .. n -> Kinds] : n \in 0 .. MaxLines}
=============================================================================
