---------------------------- MODULE MCTaskServer ----------------------------
\* TaskServer for TLC: two exports, each from a click of its own, and the file
\* window with two messages on its socket; two workers; two tries.
EXTENDS TaskServer, TLC

CONSTANTS exportA, exportB, browse, sort, sA, sB, sFiles

MCMessages == {exportA, exportB, browse, sort}
MCSockets == {sA, sB, sFiles}
MCSocketOf == exportA :> sA @@ exportB :> sB @@ browse :> sFiles @@ sort :> sFiles
MCKind == exportA :> "export" @@ exportB :> "export"
          @@ browse :> "browseFile" @@ sort :> "browseFile"
=============================================================================
