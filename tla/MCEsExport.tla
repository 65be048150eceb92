----------------------------- MODULE MCEsExport -----------------------------
\* EsExport for TLC, with the number of hits of a query bounded.
EXTENDS EsExport

CONSTANT MaxTotal

MCTotals == 0 .. MaxTotal
=============================================================================
