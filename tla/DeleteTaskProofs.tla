-------------------------- MODULE DeleteTaskProofs --------------------------
(***************************************************************************)
(* Theorems about DeleteTask, for every set of documents, every page and   *)
(* batch size and every number of tries.  The invariants of the export and *)
(* of the deletion are those of EsExportProofs and EsBulkProofs, as far as *)
(* the task relies on them.  They are proved again here because TLAPS      *)
(* cannot cite the theorems of a module that is instantiated.              *)
(***************************************************************************)
EXTENDS DeleteTask, SnapshotPages, FiniteSetTheorems, TLAPS

USE DEF X!Days, X!NoHits, X!FileOf, X!handler, X!loop, X!server, X!own,
        X!ToDelete, X!AfterFetch, X!AllQueried

(***************************************************************************)
(* The export, as far as the task relies on it: its one query is written   *)
(* hit by hit (as EsExportProofs shows for any number of queries), and the *)
(* scrolls that are open are those the loop has still to delete.           *)
(***************************************************************************)
ExportType ==
    /\ day = 1
    /\ exportPc \in {"init", "search", "loop", "fetch", "progress", "test", "clear",
                     "close", "caught", "abort", "returned", "threw"}
    /\ allCount \in Nat
    /\ page \in Seq(Nat)
    /\ rows \in [{1} -> Seq(Nat)]
    /\ ids \in Seq(Nat)
    /\ toClear \in Seq(Nat)
    /\ total \in [{1} -> Nat]
    /\ live \subseteq {1} \X Nat
    /\ damaged \subseteq {1}

Reading == exportPc \in {"loop", "fetch", "progress", "test"}

ExportFile ==
    /\ exportPc \in {"init", "search"} => rows[1] = <<>> /\ allCount = 0
    /\ exportPc = "fetch" => page # <<>>
    /\ damaged = {} =>
          /\ rows[1] = UpTo(Len(rows[1])) /\ Len(rows[1]) <= total[1]
          /\ Reading => allCount = Len(rows[1])
          /\ exportPc \in {"loop", "progress", "test"} /\ page # <<>> =>
                page = X!PageFrom(Len(rows[1]) + 1, total[1])
          /\ exportPc = "fetch" => Last(page) = Len(rows[1])

ExportWhole ==
    refused = {} /\ damaged = {} =>
        /\ exportPc \in {"loop", "progress", "test"} /\ page = <<>> =>
              Len(rows[1]) = total[1]
        /\ exportPc \in {"progress", "test"} => pageTotal = total[1]
        /\ exportPc \in {"clear", "close", "returned"} => Len(rows[1]) = total[1]

ExportScrolls ==
    refused = {} =>
        /\ exportPc \in {"init", "search", "close", "returned"} => live = {}
        /\ Reading => \A s \in live : \E i \in DOMAIN ids : s[2] = ids[i]
        /\ exportPc = "clear" => \A s \in live : \E i \in DOMAIN toClear : s[2] = toClear[i]

ExportInv == ExportType /\ ExportFile /\ ExportWhole /\ ExportScrolls

(***************************************************************************)
(* The deletion, as far as the task relies on it (see EsBulkProofs).       *)
(***************************************************************************)
BulkInv ==
    /\ file \in Seq({"doc", "blank", "bad"})
    /\ pos \in 0 .. Len(file)
    /\ last \in BOOLEAN
    /\ pending \in [B!Lines -> Nat]
    /\ last => pos = Len(file)
    /\ last => bulkPc \in {"send", "report", "over", "caught", "done"}
    /\ last /\ bulkPc # "send" => contentList = {}
    /\ B!Accounted

Started == taskPc \notin {"export", "aborted"}

(***************************************************************************)
(* The task: what lies between its parts.                                  *)
(***************************************************************************)
TaskInv ==
    /\ taskPc \in {"export", "delete", "log", "close", "end", "failed", "aborted"}
    /\ index \subseteq Docs
    /\ snap \in Seq(Docs)
    /\ Len(snap) = total[1]
    /\ exportPc \in {"init", "search"} => snap = <<>>
    /\ taskPc = "aborted" => exportPc = "threw"
    /\ Started => exportPc = "returned"
    /\ ~Started => B!Start(file) /\ file = <<>>
    /\ \A l \in B!Lines : docOf[l] \in X!Range(snap)
    /\ Started /\ damaged = {} =>
          /\ Len(file) = Len(rows[1])
          /\ \A l \in B!Lines : file[l] = "doc" /\ docOf[l] = snap[l]
    /\ taskPc \in {"log", "close", "end"} => tempFile = "absent" /\ bulkPc = "done"
    /\ taskPc = "end" => conn = "closed"

IInv == ExportInv /\ BulkInv /\ TaskInv
-----------------------------------------------------------------------------
(* Lemmas *)

\* SetToSeq lists every element of a finite set, once.
LEMMA ListOfSet ==
    ASSUME NEW S, IsFiniteSet(S)
    PROVE  /\ SetToSeq(S) \in Seq(S)
           /\ Len(SetToSeq(S)) = Cardinality(S)
           /\ X!Range(SetToSeq(S)) = S
<1> DEFINE n == Cardinality(S)
           f == SetToSeq(S)
<1>1. n \in Nat /\ ExistsBijection(1 .. n, S)
  BY FS_CardinalityType
<1>2. \E g \in [1 .. n -> S] : IsInjective(g)
  BY <1>1 DEF ExistsBijection, Bijection, Injection, Surjection
<1>3. f \in [1 .. n -> S] /\ IsInjective(f)
  BY <1>2 DEF SetToSeq
<1> HIDE DEF f
<1>4. f \in Injection(1 .. n, S)
  BY <1>3 DEF Injection, IsInjective
<1>5. IsFiniteSet(1 .. n) /\ Cardinality(1 .. n) = n
  BY <1>1, FS_Interval
<1>6. f \in Surjection(1 .. n, S)
  BY <1>4, <1>5, FS_Injection
<1>7. X!Range(f) = S
  BY <1>3, <1>6 DEF X!Range, Surjection
<1>8. f \in Seq(S) /\ Len(f) = n
  BY <1>1, <1>3
<1> QED
  BY <1>7, <1>8 DEF f

\* The page that follows the first k hits of n, as in EsExportProofs.
LEMMA NextPage ==
    ASSUME NEW k \in Nat, NEW n \in Nat, k <= n
    PROVE  LET p == X!PageFrom(k + 1, n)
           IN  /\ p \in Seq(Nat) /\ Len(p) \in Nat
               /\ UpTo(k) \in Seq(Nat) /\ Len(UpTo(k)) = k
               /\ UpTo(k) \o p = UpTo(k + Len(p))
               /\ k + Len(p) <= n
               /\ p = <<>> => k = n
               /\ p # <<>> => Last(p) = k + Len(p) /\ Len(p) > 0
<1> DEFINE p == PageOf(PageSize, k + 1, n)
<1>1. PageSize \in Nat \ {0}
  BY TaskAssumption
<1>2. /\ p \in Seq(Nat)
      /\ \A i \in 1 .. Len(p) : p[i] = k + i
      /\ k + Len(p) <= n
      /\ p = <<>> <=> k = n
  BY <1>1, PageOfHits
<1>3. /\ UpTo(k) \in Seq(Nat) /\ Len(UpTo(k)) = k
      /\ UpTo(k) \o p = UpTo(k + Len(p))
  BY <1>1, AppendPageOf
<1>4. X!PageFrom(k + 1, n) = p
  BY DEF X!PageFrom, PageOf
<1> HIDE DEF p
<1>5. p # <<>> => Last(p) = k + Len(p) /\ Len(p) > 0
  BY <1>2 DEF Last
<1>6. Len(p) \in Nat
  BY <1>2
<1> QED
  BY <1>2, <1>3, <1>4, <1>5, <1>6
-----------------------------------------------------------------------------
(* The export *)

LEMMA ExportStep ==
    ASSUME ExportInv, X!Work \/ \E n \in Nat : X!SearchOk(n)
    PROVE  ExportInv'
<1>0. /\ day = 1 /\ allCount \in Nat /\ page \in Seq(Nat) /\ Len(page) \in Nat
      /\ rows \in [{1} -> Seq(Nat)] /\ rows[1] \in Seq(Nat) /\ Len(rows[1]) \in Nat
      /\ total \in [{1} -> Nat] /\ total[1] \in Nat
      /\ ids \in Seq(Nat) /\ toClear \in Seq(Nat)
      /\ live \subseteq {1} \X Nat /\ damaged \subseteq {1}
  BY DEF ExportInv, ExportType
<1> USE <1>0 DEF ExportInv, ExportType, ExportFile, ExportWhole, ExportScrolls, Reading
\* Steps after which the export is bound to throw.
<1>1. ASSUME exportPc' \in {"caught", "abort", "threw"},
             UNCHANGED <<day, rows, ids, total, live, damaged>>,
             allCount' \in Nat, page' \in Seq(Nat), toClear' \in Seq(Nat)
      PROVE  ExportInv'
  BY <1>1
<1>2. CASE X!InitHandler
  <2>1. rows' = rows
    <3>1. rows[1] = <<>>
      BY <1>2 DEF X!InitHandler
    <3>2. rows' = rows \/ rows' = [rows EXCEPT ![1] = <<>>]
      BY <1>2 DEF X!InitHandler
    <3>3. [rows EXCEPT ![1] = <<>>] = rows
      BY <3>1
    <3> QED
      BY <3>2, <3>3
  <2> QED
    BY <1>2, <2>1 DEF X!InitHandler
<1>3. CASE X!InitThrows
  BY <1>3 DEF X!InitThrows
<1>4. ASSUME NEW n \in Nat, X!SearchOk(n)
      PROVE  ExportInv'
  <2>1. /\ exportPc = "search" /\ exportPc' = "loop"
        /\ total' \in [{1} -> Nat] /\ total'[1] = n
        /\ page' = X!PageFrom(1, n) /\ pageTotal' = n
        /\ ids' = <<1>> /\ live' = live \cup {<<1, 1>>}
        /\ UNCHANGED <<day, allCount, rows, damaged, toClear, refused>>
    BY <1>4 DEF X!SearchOk
  <2>2. page' = X!PageFrom(0 + 1, n) /\ Len(rows[1]) = 0 /\ rows[1] = <<>>
    BY <2>1
  <2>3. page' \in Seq(Nat) /\ (page' = <<>> => n = 0)
    BY <2>2, NextPage
  <2>4. refused = {} => live' = {<<1, 1>>} /\ ids'[1] = 1 /\ 1 \in DOMAIN ids'
    BY <2>1
  <2>5. ExportType'
    BY <2>1, <2>3
  <2>6. ExportFile'
    BY <2>1, <2>2
  <2>7. ExportWhole'
    BY <2>1, <2>2, <2>3
  <2>8. ExportScrolls'
    BY <2>1, <2>4
  <2> QED
    BY <2>5, <2>6, <2>7, <2>8
<1>5. CASE X!SearchRefused
  <2>1. refused' # {}
    BY <1>5 DEF X!SearchRefused
  <2> QED
    BY <1>5, <2>1 DEF X!SearchRefused
<1>6. CASE X!SearchThrows \/ X!FetchThrows \/ X!ClearThrows \/ X!Caught
  BY <1>1, <1>6 DEF X!SearchThrows, X!FetchThrows, X!ClearThrows, X!Caught
<1>7. CASE X!WritePage
  <2>1. /\ exportPc = "loop" /\ exportPc' = "fetch" /\ page # <<>>
        /\ allCount' = allCount + Len(page)
        /\ \/ damaged = {} /\ damaged' = {} /\ rows' = [rows EXCEPT ![1] = @ \o page]
           \/ damaged' = {1} /\ UNCHANGED rows
        /\ UNCHANGED <<day, page, pageTotal, ids, toClear, total, live, refused>>
    BY <1>7 DEF X!WritePage
  <2>2. ASSUME damaged = {}, damaged' = {}, rows' = [rows EXCEPT ![1] = @ \o page]
        PROVE  /\ rows' \in [{1} -> Seq(Nat)]
               /\ rows'[1] = UpTo(Len(rows'[1])) /\ Len(rows'[1]) <= total[1]
               /\ allCount' = Len(rows'[1]) /\ Last(page) = Len(rows'[1])
    <3> DEFINE k == Len(rows[1])
    <3>1. /\ rows[1] = UpTo(k) /\ k <= total[1] /\ allCount = k
          /\ page = X!PageFrom(k + 1, total[1])
      BY <2>1, <2>2
    <3>2. /\ UpTo(k) \o page = UpTo(k + Len(page))
          /\ k + Len(page) <= total[1]
          /\ Last(page) = k + Len(page)
      BY <2>1, <3>1, NextPage
    <3>3. rows[1] \o page \in Seq(Nat) /\ Len(rows[1] \o page) = k + Len(page)
      BY ConcatProperties
    <3>4. rows'[1] = rows[1] \o page /\ rows' \in [{1} -> Seq(Nat)]
      BY <2>2, <3>3
    <3> QED
      BY <2>1, <3>1, <3>2, <3>3, <3>4
  <2>3. CASE damaged = {} /\ damaged' = {} /\ rows' = [rows EXCEPT ![1] = @ \o page]
    <3>1. /\ rows' \in [{1} -> Seq(Nat)]
          /\ rows'[1] = UpTo(Len(rows'[1])) /\ Len(rows'[1]) <= total[1]
          /\ allCount' = Len(rows'[1]) /\ Last(page) = Len(rows'[1])
      BY <2>2, <2>3
    <3>2. ExportType'
      BY <2>1, <3>1
    <3>3. ExportFile'
      BY <2>1, <3>1
    <3>4. ExportWhole' /\ ExportScrolls'
      BY <2>1
    <3> QED
      BY <3>2, <3>3, <3>4
  <2>4. CASE damaged' = {1} /\ UNCHANGED rows
    BY <2>1, <2>4
  <2> QED
    BY <2>1, <2>3, <2>4
<1>8. CASE X!WriteThrows
  BY <1>1, <1>8 DEF X!WriteThrows
<1>9. CASE X!LoopEnds
  BY <1>9 DEF X!LoopEnds
<1>10. CASE X!FetchOk
  <2>0. exportPc' \in {"progress", "test"}
    BY <1>10 DEF X!FetchOk
  <2>1. /\ exportPc = "fetch" /\ exportPc' \in {"progress", "test"}
        /\ page' = X!PageFrom(Last(page) + 1, total[1]) /\ pageTotal' = total[1]
        /\ \/ UNCHANGED <<ids, live>>
           \/ /\ ids' = Append(ids, Len(ids) + 1)
              /\ live' = live \cup {<<1, Len(ids) + 1>>}
        /\ UNCHANGED <<day, allCount, rows, damaged, total, refused, toClear>>
    <3>1. /\ exportPc = "fetch"
          /\ page' = X!PageFrom(Last(page) + 1, total[day]) /\ pageTotal' = total[day]
          /\ UNCHANGED <<day, allCount, rows, damaged, total, refused, toClear>>
      BY <1>10 DEF X!FetchOk, X!Last, Last
    <3>2. \/ UNCHANGED <<ids, live>>
          \/ /\ ids' = Append(ids, Len(ids) + 1)
             /\ live' = live \cup {<<day, Len(ids) + 1>>}
      BY <1>10 DEF X!FetchOk
    <3> QED
      BY <2>0, <3>1, <3>2
  <2>2. page' \in Seq(Nat)
    <3>1. Last(page) \in Nat
      BY <2>1 DEF Last
    <3>2. PageSize \in Nat \ {0}
      BY TaskAssumption
    <3>3. PageOf(PageSize, Last(page) + 1, total[1]) \in Seq(Nat)
      BY <3>1, <3>2, PageOfHits
    <3> QED
      BY <2>1, <3>3 DEF X!PageFrom, PageOf
  <2>3. damaged = {} => /\ page' = X!PageFrom(Len(rows[1]) + 1, total[1])
                        /\ page' = <<>> => Len(rows[1]) = total[1]
    <3> SUFFICES ASSUME damaged = {}
                 PROVE  /\ page' = X!PageFrom(Len(rows[1]) + 1, total[1])
                        /\ page' = <<>> => Len(rows[1]) = total[1]
      OBVIOUS
    <3>1. Last(page) = Len(rows[1]) /\ Len(rows[1]) <= total[1]
      BY <2>1
    <3>2. page' = X!PageFrom(Len(rows[1]) + 1, total[1])
      BY <2>1, <3>1
    <3>3. X!PageFrom(Len(rows[1]) + 1, total[1]) = <<>> => Len(rows[1]) = total[1]
      BY <3>1, NextPage
    <3> QED
      BY <3>2, <3>3
  <2>4. CASE UNCHANGED <<ids, live>>
    BY <2>1, <2>2, <2>3, <2>4
  <2>5. CASE /\ ids' = Append(ids, Len(ids) + 1)
             /\ live' = live \cup {<<1, Len(ids) + 1>>}
    <3>1. /\ ids' \in Seq(Nat)
          /\ \A i \in DOMAIN ids : i \in DOMAIN ids' /\ ids'[i] = ids[i]
          /\ Len(ids) + 1 \in DOMAIN ids' /\ ids'[Len(ids) + 1] = Len(ids) + 1
      BY <2>5, AppendProperties
    <3>2. ExportScrolls'
      BY <2>1, <2>5, <3>1
    <3>3. ExportType'
      BY <2>1, <2>2, <2>5, <3>1
    <3> QED
      BY <2>1, <2>3, <3>2, <3>3
  <2> QED
    BY <2>1, <2>4, <2>5
<1>11. CASE X!FetchRefused
  <2>1. refused' # {} /\ Append(ids, 0) \in Seq(Nat)
    BY <1>11 DEF X!FetchRefused
  <2> QED
    BY <1>11, <2>1 DEF X!FetchRefused
<1>12. CASE X!LogProgress
  BY <1>12 DEF X!LogProgress
<1>13. CASE X!NotYetAll
  BY <1>13 DEF X!NotYetAll
<1>14. CASE X!ExportOver
  BY <1>14 DEF X!ExportOver
<1>15. CASE X!ClearScroll
  <2>1. /\ exportPc = "clear" /\ exportPc' = "clear" /\ toClear # <<>>
        /\ toClear' = Tail(toClear)
        /\ \/ live' = live \ {<<1, Head(toClear)>>} /\ UNCHANGED refused
           \/ refused' # {} /\ UNCHANGED live
        /\ UNCHANGED <<day, allCount, page, pageTotal, rows, damaged, ids, total>>
    BY <1>15 DEF X!ClearScroll
  <2>2. toClear' \in Seq(Nat)
    BY <2>1, HeadTailProperties
  <2>3. ASSUME refused' = {}, NEW s \in live'
        PROVE  \E i \in DOMAIN toClear' : s[2] = toClear'[i]
    <3>1. refused = {} /\ s \in live /\ s # <<1, Head(toClear)>> /\ s = <<1, s[2]>>
      BY <2>1, <2>3
    <3>2. PICK i \in DOMAIN toClear : s[2] = toClear[i]
      BY <2>1, <3>1
    <3>3. i # 1
      BY <3>1, <3>2
    <3>4. i - 1 \in 1 .. Len(Tail(toClear)) /\ Tail(toClear)[i - 1] = toClear[i]
      BY <2>1, <3>2, <3>3
    <3> QED
      BY <2>1, <3>2, <3>4
  <2>4. refused' = {} => refused = {}
    BY <2>1
  <2> QED
    BY <2>1, <2>2, <2>3, <2>4
<1>16. CASE X!LogTimes
  <2>1. refused = {} => live = {}
    BY <1>16 DEF X!LogTimes
  <2> QED
    BY <1>16, <2>1 DEF X!LogTimes
<1>17. CASE X!Close
  <2>1. /\ \/ exportPc' = "threw"
           \/ exportPc = "close" /\ exportPc' = "returned"
        /\ day' = day /\ page' = <<>> /\ ids' = <<>> /\ toClear' = <<>>
        /\ UNCHANGED <<allCount, rows, damaged, total, live, refused>>
    BY <1>17 DEF X!Close
  <2> QED
    BY <2>1
<1> QED
  BY <1>2, <1>3, <1>4, <1>5, <1>6, <1>7, <1>8, <1>9, <1>10, <1>11, <1>12, <1>13,
     <1>14, <1>15, <1>16, <1>17 DEF X!Work
-----------------------------------------------------------------------------
(* The deletion *)

BulkSteps ==
    \/ B!Open \/ B!ReadFails \/ B!SkipBlank \/ B!AddLine \/ B!EndOfFile
    \/ B!ParseFails \/ B!RequestThrows \/ B!GiveUp
    \/ B!ReportCount \/ B!ReportOver \/ B!Caught
    \/ \E S \in SUBSET contentList : B!Answered(S)
    \/ \E l \in B!Lines : B!ApplyLate(l)

LEMMA BulkStep ==
    ASSUME BulkInv, BulkSteps
    PROVE  BulkInv' /\ UNCHANGED file
<1>0. /\ pos \in Nat /\ Len(file) \in Nat /\ pos <= Len(file)
      /\ file \in Seq({"doc", "blank", "bad"})
      /\ B!Lines = 1 .. Len(file)
      /\ pending \in [B!Lines -> Nat]
  BY DEF BulkInv, B!Lines
<1>f. UNCHANGED file
  BY DEF BulkSteps, B!Open, B!ReadFails, B!SkipBlank, B!AddLine, B!EndOfFile,
     B!ParseFails, B!RequestThrows, B!GiveUp, B!ReportCount, B!ReportOver,
     B!Caught, B!Answered, B!ApplyLate
<1> USE DEF BulkInv, B!Accounted, B!NonBlank, B!batch, B!ghosts, B!Cleared
<1>1. ASSUME UNCHANGED <<pos, contentList, pending, acked, dropped>>,
             last' \in BOOLEAN, last' => last \/ (pos = Len(file) /\ bulkPc' = "send"),
             last' /\ last => \/ bulkPc' = bulkPc
                              \/ bulkPc # "send" /\ bulkPc' \in {"over", "caught", "done"}
      PROVE  BulkInv'
  BY <1>0, <1>1, <1>f DEF B!Lines
<1>2. CASE B!Open \/ B!ReadFails
  BY <1>1, <1>2 DEF B!Open, B!ReadFails
<1>3. CASE B!SkipBlank
  <2>1. \A l \in 1 .. pos + 1 : file[l] # "blank" <=> l \in 1 .. pos /\ file[l] # "blank"
    BY <1>0, <1>3 DEF B!SkipBlank
  <2> QED
    BY <1>0, <1>3, <1>f, <2>1 DEF B!SkipBlank, B!Lines
<1>4. CASE B!AddLine
  <2>1. /\ pos' = pos + 1 /\ pos < Len(file) /\ file[pos + 1] # "blank" /\ bulkPc = "read"
        /\ contentList' = contentList \cup {pos + 1}
        /\ UNCHANGED <<last, pending, acked, dropped>>
    BY <1>4 DEF B!AddLine
  <2>2. ~last
    BY <2>1
  <2>3. B!NonBlank(pos)' = B!NonBlank(pos) \cup {pos + 1} /\ pos + 1 \notin B!NonBlank(pos)
    BY <1>0, <1>f, <2>1
  <2>4. B!Accounted'
    <3> HIDE DEF B!NonBlank
    <3> QED
      BY <2>1, <2>3
  <2> QED
    BY <1>0, <1>f, <2>1, <2>2, <2>4 DEF B!Lines
<1>5. CASE B!EndOfFile
  BY <1>0, <1>1, <1>5 DEF B!EndOfFile
<1>6. CASE B!ParseFails
  BY <1>1, <1>6 DEF B!ParseFails
<1>7. CASE B!RequestThrows
  <2>1. pending' \in [B!Lines -> Nat]
    BY <1>0, <1>7 DEF B!RequestThrows, B!Bump
  <2>2. UNCHANGED <<pos, contentList, acked, dropped, last, bulkPc>>
    BY <1>7 DEF B!RequestThrows
  <2>3. B!Lines' = B!Lines
    BY <1>f DEF B!Lines
  <2> QED
    BY <1>0, <1>f, <2>1, <2>2, <2>3
<1>8. CASE B!GiveUp
  BY <1>0, <1>f, <1>8 DEF B!GiveUp, B!Lines
<1>9. ASSUME NEW S \in SUBSET contentList, B!Answered(S)
      PROVE  BulkInv'
  BY <1>0, <1>f, <1>9 DEF B!Answered, B!Lines
<1>10. CASE B!ReportCount \/ B!ReportOver \/ B!Caught
  BY <1>1, <1>10 DEF B!ReportCount, B!ReportOver, B!Caught
<1>11. ASSUME NEW l \in B!Lines, B!ApplyLate(l)
       PROVE  BulkInv'
  <2>1. pending' \in [B!Lines -> Nat]
    <3>1. pending[l] - 1 \in Nat
      BY <1>0, <1>11 DEF B!ApplyLate
    <3>2. pending' = [pending EXCEPT ![l] = pending[l] - 1]
      BY <1>0, <1>11 DEF B!ApplyLate
    <3> QED
      BY <1>0, <3>1, <3>2
  <2>2. UNCHANGED <<pos, contentList, acked, dropped, last, bulkPc>>
    BY <1>11 DEF B!ApplyLate
  <2>3. B!Lines' = B!Lines
    BY <1>f DEF B!Lines
  <2> QED
    BY <1>0, <1>f, <2>1, <2>2, <2>3
<1> QED
  BY <1>f, <1>2, <1>3, <1>4, <1>5, <1>6, <1>7, <1>8, <1>9, <1>10, <1>11 DEF BulkSteps
-----------------------------------------------------------------------------
(* The task *)

LEMMA InitIInv == Init => IInv
<1> SUFFICES ASSUME Init PROVE IInv
  OBVIOUS
<1> USE DEF Init, X!Start, B!Start
<1>1. /\ rows \in [{1} -> Seq(Nat)] /\ rows[1] = <<>> /\ Len(rows[1]) = 0
      /\ total \in [{1} -> Nat] /\ total[1] = 0
      /\ UpTo(0) = <<>> /\ <<>> \in Seq(Nat)
  BY DEF UpTo
<1>2. ExportInv
  BY <1>1 DEF ExportInv, ExportType, ExportFile, ExportWhole, ExportScrolls, Reading
<1>3. B!Lines = {} /\ Len(file) = 0 /\ file \in Seq({"doc", "blank", "bad"})
  BY DEF B!Lines
<1>4. BulkInv
  <2>1. pos = 0 /\ contentList = {} /\ acked = {} /\ dropped = {} /\ last = FALSE
    OBVIOUS
  <2>2. B!NonBlank(pos) = {}
    BY <2>1 DEF B!NonBlank
  <2>3. pending \in [B!Lines -> Nat]
    BY DEF B!Lines
  <2>4. last \in BOOLEAN /\ ~last
    BY <2>1
  <2>5. B!Accounted
    BY <2>1, <2>2 DEF B!Accounted
  <2>6. pos \in 0 .. Len(file)
    BY <1>3, <2>1
  <2> QED
    BY <1>3, <2>3, <2>4, <2>5, <2>6 DEF BulkInv
<1>5. TaskInv
  BY <1>1, <1>3 DEF TaskInv, Started
<1> QED
  BY <1>2, <1>4, <1>5 DEF IInv

LEMMA NextIInv == IInv /\ [Next]_vars => IInv'
<1> SUFFICES ASSUME IInv, [Next]_vars PROVE IInv'
  OBVIOUS
<1>0. ExportInv /\ BulkInv /\ TaskInv
  BY DEF IInv
<1>c. ASSUME NEW S \in SUBSET Docs
      PROVE  IsFiniteSet(S) /\ Cardinality(S) \in Nat
  <2>1. IsFiniteSet(S)
    BY TaskAssumption, FS_Subset
  <2> QED
    BY <2>1, FS_CardinalityType
<1> USE <1>0
<1>1. ASSUME UNCHANGED exported PROVE ExportInv'
  BY <1>1 DEF exported, ExportInv, ExportType, ExportFile, ExportWhole, ExportScrolls,
     Reading, X!PageFrom
<1>2. ASSUME UNCHANGED deletion PROVE BulkInv'
  BY <1>2 DEF deletion, BulkInv, B!Lines, B!Accounted, B!NonBlank
<1>3. CASE Export
  <2>1. X!Work /\ taskPc = "export" /\ UNCHANGED <<taskPc, index, snap, docOf, deletion>>
    BY <1>3 DEF Export
  <2>2. UNCHANGED total /\ (exportPc' \in {"init", "search"} => exportPc \in {"init", "search"})
    BY <2>1 DEF ExportInv, ExportType, X!Work, X!InitHandler, X!InitThrows,
       X!SearchRefused, X!SearchThrows, X!WritePage, X!WriteThrows, X!LoopEnds,
       X!FetchOk, X!FetchRefused, X!FetchThrows, X!LogProgress, X!NotYetAll,
       X!ExportOver, X!ClearScroll, X!ClearThrows, X!LogTimes, X!Caught, X!Close
  <2>3. TaskInv'
    BY <2>1, <2>2 DEF TaskInv, Started, deletion, B!Start, B!Lines
  <2> QED
    BY <1>2, <2>1, <2>3, ExportStep DEF IInv
<1>4. CASE ExportSnapshot
  <2> DEFINE n == Cardinality(index)
  <2>1. /\ X!SearchOk(n) /\ taskPc = "export" /\ snap' = SetToSeq(index)
        /\ UNCHANGED <<taskPc, tempFile, index, docOf, deletion>>
    BY <1>4 DEF ExportSnapshot
  <2>2. n \in Nat /\ snap' \in Seq(index) /\ Len(snap') = n /\ index \subseteq Docs
    BY <1>c, <2>1, ListOfSet DEF TaskInv
  <2> HIDE DEF n
  <2>3. ExportInv'
    BY <2>1, <2>2, ExportStep
  <2>4. total'[1] = n /\ exportPc' = "loop"
    BY <2>1 DEF X!SearchOk, ExportInv, ExportType
  <2>5. snap' \in Seq(Docs)
    BY <2>2
  <2>6. B!Lines = {} /\ B!Lines' = {}
    BY <2>1 DEF TaskInv, Started, deletion, B!Lines
  <2>7. TaskInv'
    BY <2>1, <2>2, <2>4, <2>5, <2>6 DEF TaskInv, Started, deletion, B!Start
  <2> QED
    BY <1>2, <2>1, <2>3, <2>7 DEF IInv
<1>5. CASE ExportThrew
  <2>1. TaskInv'
    BY <1>5 DEF ExportThrew, TaskInv, Started, exported, deletion, B!Start, B!Lines, X!Range
  <2> QED
    BY <1>1, <1>2, <1>5, <2>1 DEF ExportThrew, IInv
<1>6. CASE StartDelete
  <2>1. PICK c \in FileContents : file' = c.lines /\ docOf' = c.docs
    BY <1>6 DEF StartDelete
  <2>2. /\ taskPc' = "delete" /\ exportPc = "returned"
        /\ pending' = [l \in DOMAIN file' |-> 0]
        /\ UNCHANGED <<conn, tempFile, index, snap, exported, bulkPc, pos, count,
                       contentList, last, acked, dropped>>
        /\ bulkPc = "open" /\ pos = 0 /\ contentList = {} /\ ~last
        /\ acked = {} /\ dropped = {} /\ last = FALSE
    BY <1>6 DEF StartDelete, TaskInv, Started, B!Start
  <2>3. ASSUME damaged = {}
        PROVE  /\ file' = [l \in 1 .. Len(rows[1]) |-> "doc"]
               /\ docOf' = [l \in 1 .. Len(rows[1]) |-> snap[l]]
               /\ Len(rows[1]) \in Nat /\ Len(rows[1]) <= Len(snap)
    <3>1. /\ rows[1] = UpTo(Len(rows[1])) /\ Len(rows[1]) <= Len(snap)
          /\ Len(rows[1]) \in Nat /\ DOMAIN rows[1] = 1 .. Len(rows[1])
      BY <2>3 DEF ExportInv, ExportType, ExportFile, TaskInv
    <3>2. \A l \in 1 .. Len(rows[1]) : rows[1][l] = l
      BY <3>1 DEF UpTo
    <3>3. /\ c.lines = [l \in DOMAIN rows[1] |-> "doc"]
          /\ c.docs = [l \in DOMAIN rows[1] |-> snap[rows[1][l]]]
      BY <2>1, <2>3 DEF FileContents
    <3> QED
      BY <2>1, <3>1, <3>2, <3>3
  <2>4. ASSUME damaged # {}
        PROVE  \E n \in Nat : file' \in [1 .. n -> {"doc", "bad"}]
                              /\ docOf' \in [1 .. n -> X!Range(snap)]
    <3>1. c \in UNION {[lines : [1 .. n -> {"doc", "bad"}], docs : [1 .. n -> X!Range(snap)]]
                        : n \in 0 .. Len(snap)}
      BY <2>1, <2>4 DEF FileContents
    <3>2. PICK n \in 0 .. Len(snap) :
             c \in [lines : [1 .. n -> {"doc", "bad"}], docs : [1 .. n -> X!Range(snap)]]
      BY <3>1
    <3>3. n \in Nat
      BY DEF TaskInv
    <3>4. c.lines \in [1 .. n -> {"doc", "bad"}] /\ c.docs \in [1 .. n -> X!Range(snap)]
      BY <3>2
    <3> QED
      BY <2>1, <3>3, <3>4
  <2>5. \E n \in Nat : file' \in [1 .. n -> {"doc", "bad"}]
                       /\ docOf' \in [1 .. n -> X!Range(snap)]
    <3>1. CASE damaged = {}
      <4>1. \A l \in 1 .. Len(rows[1]) : snap[l] \in X!Range(snap)
        BY <2>3, <3>1 DEF X!Range, TaskInv
      <4> QED
        BY <2>3, <3>1, <4>1
    <3> QED
      BY <2>4, <3>1
  <2>6. /\ file' \in Seq({"doc", "blank", "bad"})
        /\ DOMAIN file' = 1 .. Len(file') /\ Len(file') \in Nat
        /\ \A l \in 1 .. Len(file') : docOf'[l] \in X!Range(snap)
    BY <2>5
  <2>7. BulkInv'
    BY <2>2, <2>6 DEF BulkInv, B!Lines, B!Accounted, B!NonBlank
  <2>8. damaged = {} => /\ Len(file') = Len(rows[1])
                        /\ \A l \in 1 .. Len(file') : file'[l] = "doc" /\ docOf'[l] = snap[l]
    BY <2>3
  <2>9. TaskInv'
    BY <2>2, <2>6, <2>8 DEF TaskInv, Started, exported, B!Lines, X!Range
  <2> QED
    BY <1>1, <2>2, <2>7, <2>9 DEF IInv
<1>7. CASE Delete
  <2>1. taskPc = "delete" /\ BulkSteps /\ UNCHANGED <<own, exported>>
    BY <1>7 DEF Delete, BulkSteps
  <2>2. BulkInv' /\ UNCHANGED file
    BY <2>1, BulkStep
  <2>3. TaskInv'
    BY <2>1, <2>2 DEF TaskInv, Started, own, exported, B!Lines, X!Range
  <2> QED
    BY <1>1, <2>1, <2>2, <2>3 DEF IInv
<1>8. CASE DeleteAnswered
  <2>1. /\ taskPc = "delete" /\ BulkSteps /\ index' \subseteq index
        /\ UNCHANGED <<taskPc, tempFile, snap, docOf, exported>>
    BY <1>8 DEF DeleteAnswered, BulkSteps
  <2>2. BulkInv' /\ UNCHANGED file
    BY <2>1, BulkStep
  <2>3. TaskInv'
    BY <2>1, <2>2 DEF TaskInv, Started, exported, B!Lines, X!Range
  <2> QED
    BY <1>1, <2>1, <2>2, <2>3 DEF IInv
<1>9. CASE RemoveTempFile
  <2>1. TaskInv'
    BY <1>9 DEF RemoveTempFile, TaskInv, Started, exported, deletion, B!Lines, X!Range
  <2> QED
    BY <1>1, <1>2, <1>9, <2>1 DEF RemoveTempFile, IInv
<1>10. CASE LogOver
  <2>1. TaskInv'
    BY <1>10 DEF LogOver, TaskInv, Started, exported, deletion, B!Lines, X!Range
  <2> QED
    BY <1>1, <1>2, <1>10, <2>1 DEF LogOver, IInv
<1>11. CASE CloseConn
  <2>1. TaskInv'
    BY <1>11 DEF CloseConn, TaskInv, Started, exported, deletion, B!Lines, X!Range
  <2> QED
    BY <1>1, <1>2, <1>11, <2>1 DEF CloseConn, IInv
<1>12. CASE DeleteLate
  <2>1. PICK l \in B!Lines : B!ApplyLate(l) /\ index' = index \ {docOf[l]}
    BY <1>12 DEF DeleteLate
  <2>2. BulkInv' /\ UNCHANGED file
    BY <2>1, BulkStep DEF BulkSteps
  <2>3. /\ UNCHANGED <<taskPc, tempFile, snap, docOf, exported, bulkPc, conn>>
        /\ index' \subseteq index
    BY <1>12, <2>1 DEF DeleteLate, B!ApplyLate
  <2>4. Started
    BY <2>1 DEF TaskInv, B!Lines
  <2>5. TaskInv'
    BY <2>2, <2>3, <2>4 DEF TaskInv, Started, exported, B!Lines, X!Range
  <2> QED
    BY <1>1, <2>2, <2>3, <2>5 DEF IInv
<1>13. CASE Create
  <2>1. index' \subseteq Docs
    BY <1>13 DEF Create, TaskInv
  <2>2. TaskInv'
    BY <1>13, <2>1 DEF Create, TaskInv, Started, exported, deletion, B!Start, B!Lines, X!Range
  <2> QED
    BY <1>1, <1>2, <1>13, <2>2 DEF Create, IInv
<1>14. CASE Leaves \/ UNCHANGED vars
  <2>1. /\ UNCHANGED <<own, exported, deletion>>
        /\ conn' = conn \/ conn' = "closed"
    BY <1>14 DEF Leaves, X!ClientLeaves, vars
  <2>2. TaskInv'
    BY <2>1 DEF own, TaskInv, Started, exported, deletion, B!Start, B!Lines, X!Range
  <2> QED
    BY <1>1, <1>2, <2>1, <2>2 DEF IInv
<1> QED
  BY <1>3, <1>4, <1>5, <1>6, <1>7, <1>8, <1>9, <1>10, <1>11, <1>12, <1>13, <1>14
  DEF Next, Thread
THEOREM Invariance == Spec => []IInv
  BY InitIInv, NextIInv, PTL DEF Spec
-----------------------------------------------------------------------------
(* The task as a deletion of the documents found at one moment *)

\* The documents that are lines of the file are all those matched when the
\* deletion starts, unless something of the result was lost.
LEMMA ChosenWhole ==
    ASSUME IInv, StartDelete
    PROVE  /\ DocsOf(B!Lines)' \in SUBSET X!Range(snap)
           /\ Gap \/ DocsOf(B!Lines)' = X!Range(snap)
<1>1. StartDelete => [Next]_vars
  BY DEF Next, Thread
<1>2. ExportInv' /\ TaskInv'
  BY <1>1, NextIInv DEF IInv
<1>3. /\ taskPc' = "delete" /\ exportPc' = "returned"
      /\ UNCHANGED <<snap, rows, total, refused, damaged>>
  BY DEF StartDelete, exported
<1>4. DocsOf(B!Lines)' \in SUBSET X!Range(snap)
  BY <1>2, <1>3 DEF TaskInv, DocsOf, X!Range
<1>5. ASSUME ~Gap
      PROVE  DocsOf(B!Lines)' = X!Range(snap)
  <2>1. refused' = {} /\ damaged' = {}
    BY <1>3, <1>5 DEF Gap
  <2>2. Len(rows'[1]) = Len(snap')
    BY <1>2, <1>3, <2>1 DEF ExportInv, ExportWhole, TaskInv
  <2>3. B!Lines' = 1 .. Len(snap) /\ \A l \in B!Lines' : docOf'[l] = snap[l]
    BY <1>2, <1>3, <2>1, <2>2 DEF TaskInv, Started, B!Lines
  <2>4. DocsOf(B!Lines)' = {snap[l] : l \in 1 .. Len(snap)}
    BY <2>3 DEF DocsOf
  <2>5. DOMAIN snap = 1 .. Len(snap)
    BY <1>2, <1>3 DEF TaskInv
  <2> QED
    BY <2>4, <2>5 DEF X!Range
<1> QED
  BY <1>4, <1>5

\* A step of an action of QueryDelete.
LEMMA StepRefines == IInv /\ [Next]_vars => [Abstract!Next]_(Abstract!vars)
<1> SUFFICES ASSUME IInv, [Next]_vars PROVE [Abstract!Next]_(Abstract!vars)
  OBVIOUS
<1> USE DEF Abstract!Next, Abstract!vars, Abstract!Snapshot, Abstract!Gap,
            Abstract!GoAhead, Abstract!Abort, Abstract!Remove, Abstract!Finish,
            Abstract!Create
<1>0. ExportInv /\ BulkInv /\ TaskInv
  BY DEF IInv
\* The selection, once it was made, and what was lost of the result stay.
<1>s. ASSUME UNCHANGED <<docOf, file, snap, refused, damaged>>
      PROVE  /\ DocsOf(B!Lines)' = DocsOf(B!Lines)
             /\ X!Range(snap)' = X!Range(snap)
             /\ Gap' = Gap
  BY <1>s DEF DocsOf, B!Lines, X!Range, Gap
<1>1. ASSUME UNCHANGED <<taskPc, exportPc, index, docOf, file, snap, refused, damaged>>
      PROVE  UNCHANGED Abstract!vars
  BY <1>1, <1>s DEF Phase
<1>2. /\ taskPc = "export" /\ exportPc # "threw" <=> Phase = "selecting"
      /\ exportPc = "threw" <=> Phase = "aborted"
      /\ taskPc = "delete" <=> Phase = "deleting"
      /\ taskPc \in {"log", "close", "end", "failed"} <=> Phase = "over"
  BY <1>0 DEF Phase, TaskInv, Started
<1>3. CASE Export
  <2>1. /\ X!Work /\ taskPc = "export"
        /\ UNCHANGED <<taskPc, index, snap, docOf, file>>
    BY <1>3 DEF Export, deletion
  <2> USE DEF X!Work, X!InitHandler, X!InitThrows, X!SearchRefused, X!SearchThrows,
       X!WritePage, X!WriteThrows, X!LoopEnds, X!FetchOk, X!FetchRefused, X!FetchThrows,
       X!LogProgress, X!NotYetAll, X!ExportOver, X!ClearScroll, X!ClearThrows,
       X!LogTimes, X!Caught, X!Close
  <2>2. exportPc # "threw"
    BY <2>1
  <2>3. Phase = "selecting" /\ Phase' = IF exportPc' = "threw" THEN "aborted" ELSE "selecting"
    BY <2>1, <2>2 DEF Phase
  <2>4. /\ DocsOf(B!Lines)' = DocsOf(B!Lines)
        /\ X!Range(snap)' = X!Range(snap)
    BY <2>1 DEF DocsOf, B!Lines, X!Range
  <2>5. UNCHANGED <<refused, damaged>> \/ (Gap' /\ exportPc' # "threw")
    BY <2>1 DEF Gap
  <2> HIDE DEF X!Work, X!InitHandler, X!InitThrows, X!SearchRefused, X!SearchThrows,
       X!WritePage, X!WriteThrows, X!LoopEnds, X!FetchOk, X!FetchRefused, X!FetchThrows,
       X!LogProgress, X!NotYetAll, X!ExportOver, X!ClearScroll, X!ClearThrows,
       X!LogTimes, X!Caught, X!Close
  <2>6. CASE UNCHANGED <<refused, damaged>>
    <3>1. Gap' = Gap
      BY <2>6 DEF Gap
    <3> QED
      BY <2>1, <2>3, <2>4, <3>1
  <2>7. CASE Gap' /\ exportPc' # "threw"
    <3>1. Gap' = TRUE
      BY <2>7 DEF Gap
    <3>2. Abstract!Gap
      BY <2>1, <2>3, <2>4, <2>7, <3>1
    <3> QED
      BY <3>2
  <2> QED
    BY <2>5, <2>6, <2>7
<1>4. CASE ExportSnapshot
  <2>1. /\ exportPc = "search" /\ exportPc' = "loop" /\ taskPc = "export" /\ taskPc' = "export"
        /\ snap' = SetToSeq(index) /\ index' = index
        /\ UNCHANGED <<docOf, file, refused, damaged>>
    BY <1>4 DEF ExportSnapshot, X!SearchOk, deletion
  <2>2. X!Range(snap) = {}
    BY <1>0, <2>1 DEF TaskInv, X!Range
  <2>3. X!Range(snap)' = index
    <3>1. IsFiniteSet(index)
      BY <1>0, TaskAssumption, FS_Subset DEF TaskInv
    <3>2. X!Range(SetToSeq(index)) = index
      BY <3>1, ListOfSet
    <3> QED
      BY <2>1, <3>2 DEF X!Range
  <2>4. Phase = "selecting" /\ Phase' = "selecting"
    BY <2>1 DEF Phase
  <2>5. DocsOf(B!Lines)' = DocsOf(B!Lines) /\ Gap' = Gap
    BY <2>1 DEF DocsOf, B!Lines, Gap
  <2> QED
    BY <2>1, <2>2, <2>3, <2>4, <2>5
<1>5. CASE ExportThrew
  <2>1. Phase' = Phase /\ UNCHANGED <<index, docOf, file, snap, refused, damaged>>
    BY <1>5 DEF ExportThrew, exported, deletion, Phase
  <2> QED
    BY <1>s, <2>1
<1>6. CASE StartDelete
  <2>1. /\ taskPc = "export" /\ exportPc = "returned"
        /\ taskPc' = "delete" /\ exportPc' = "returned"
        /\ UNCHANGED <<index, snap, refused, damaged>>
    BY <1>6 DEF StartDelete, exported
  <2>2. Phase = "selecting" /\ Phase' = "deleting"
    BY <2>1 DEF Phase
  <2>3. X!Range(snap)' = X!Range(snap) /\ Gap' = Gap
    BY <2>1 DEF X!Range, Gap
  <2>4. /\ DocsOf(B!Lines)' \in SUBSET X!Range(snap)
        /\ Gap \/ DocsOf(B!Lines)' = X!Range(snap)
    BY <1>6, ChosenWhole
  <2>5. Abstract!GoAhead
    BY <2>1, <2>2, <2>3, <2>4
  <2> QED
    BY <2>5
<1>7. CASE Delete
  <2>1. UNCHANGED <<taskPc, exportPc, index, docOf, snap, refused, damaged>>
    BY <1>7 DEF Delete, own, exported
  <2>2. UNCHANGED file
    BY <1>0, <1>7, BulkStep DEF Delete, BulkSteps
  <2> QED
    BY <1>1, <2>1, <2>2
\* Removing the documents of some lines removes only documents chosen.
<1>8. ASSUME NEW S \in SUBSET B!Lines, index' = index \ DocsOf(S), Started,
             UNCHANGED <<taskPc, exportPc, docOf, file, snap, refused, damaged>>
      PROVE  Abstract!Remove
  <2>1. DocsOf(S) \in SUBSET DocsOf(B!Lines)
    BY DEF DocsOf
  <2>2. Phase' = Phase
    BY <1>8 DEF Phase
  <2>3. Phase \in {"deleting", "over"}
    BY <1>0, <1>2, <1>8 DEF Started, TaskInv
  <2>4. /\ DocsOf(B!Lines)' = DocsOf(B!Lines)
        /\ X!Range(snap)' = X!Range(snap)
        /\ Gap' = Gap
    BY <1>8, <1>s
  <2> QED
    BY <1>8, <2>1, <2>2, <2>3, <2>4
<1>9. CASE DeleteAnswered
  <2>1. PICK S \in SUBSET contentList : B!Answered(S) /\ index' = index \ DocsOf(S)
    BY <1>9 DEF DeleteAnswered
  <2>2. S \in SUBSET B!Lines
    BY <1>0 DEF BulkInv, B!Accounted, B!NonBlank, B!Lines
  <2>3. Started /\ UNCHANGED <<taskPc, exportPc, docOf, file, snap, refused, damaged>>
    BY <1>9, <2>1 DEF DeleteAnswered, B!Answered, Started, exported
  <2> QED
    BY <1>8, <2>1, <2>2, <2>3
<1>10. CASE RemoveTempFile
  <2>1. /\ taskPc = "delete" /\ taskPc' \in {"log", "failed"} /\ exportPc = "returned"
        /\ UNCHANGED <<index, exportPc, docOf, file, snap, refused, damaged>>
    BY <1>0, <1>10 DEF RemoveTempFile, exported, deletion, TaskInv, Started
  <2>2. Phase = "deleting" /\ Phase' = "over"
    BY <2>1 DEF Phase
  <2>3. Abstract!Finish
    BY <1>s, <2>1, <2>2
  <2> QED
    BY <2>3
<1>11. CASE LogOver \/ CloseConn
  <2>1. /\ taskPc \in {"log", "close"} /\ taskPc' \in {"failed", "close", "end"}
        /\ exportPc = "returned"
        /\ UNCHANGED <<index, exportPc, docOf, file, snap, refused, damaged>>
    BY <1>0, <1>11 DEF LogOver, CloseConn, exported, deletion, TaskInv, Started
  <2>2. Phase = "over" /\ Phase' = "over"
    BY <2>1 DEF Phase
  <2> QED
    BY <1>s, <2>1, <2>2
<1>12. CASE DeleteLate
  <2>1. PICK l \in B!Lines : B!ApplyLate(l) /\ index' = index \ {docOf[l]}
    BY <1>12 DEF DeleteLate
  <2>2. DocsOf({l}) = {docOf[l]}
    BY DEF DocsOf
  <2>3. Started
    BY <1>0, <2>1 DEF TaskInv, B!Lines
  <2>4. UNCHANGED <<taskPc, exportPc, docOf, file, snap, refused, damaged>>
    BY <1>12, <2>1 DEF DeleteLate, B!ApplyLate, exported
  <2> QED
    BY <1>8, <2>1, <2>2, <2>3, <2>4
<1>13. CASE Create
  <2>1. /\ UNCHANGED <<taskPc, exportPc, docOf, file, snap, refused, damaged>>
        /\ \E d \in Docs : index' = index \cup {d}
    BY <1>13 DEF Create, exported, deletion
  <2>2. Phase' = Phase
    BY <2>1 DEF Phase
  <2>3. Abstract!Create
    BY <1>s, <2>1, <2>2
  <2> QED
    BY <2>3
<1>14. CASE Leaves \/ UNCHANGED vars
  BY <1>1, <1>14 DEF Leaves, vars, own, exported, deletion
<1> QED
  BY <1>3, <1>4, <1>5, <1>6, <1>7, <1>9, <1>10, <1>11, <1>12, <1>13, <1>14
  DEF Next, Thread

\* The task implements the safety part of QueryDelete: it removes documents
\* its query matched and no others, none before its export has returned and
\* none when the export threw; what it goes ahead with is the whole result,
\* unless a call of the export was refused or a write of its file lost.
THEOREM RefinesQueryDelete ==
    Spec => Abstract!Init /\ [][Abstract!Next]_(Abstract!vars)
<1>1. Init => Abstract!Init
  BY DEF Init, X!Start, Abstract!Init, Phase, X!Range, Gap, DocsOf, B!Lines
<1> QED
  BY <1>1, StepRefines, Invariance, PTL DEF Spec
-----------------------------------------------------------------------------
(* The other theorems *)

\* A document stored again after its delete was answered or given up is not
\* removed any more, unless a request for it that timed out is on its way.
THEOREM RecreatedDocsSurvive == Spec => RecreatedSurvives
<1>1. ASSUME IInv, [Next]_vars, NEW d \in index \ index'
      PROVE  \E l \in B!Lines : /\ docOf[l] = d
                                /\ l \in acked \cup dropped => pending[l] > 0
  <2>0. B!Accounted
    BY <1>1 DEF IInv, BulkInv
  <2>1. CASE DeleteAnswered
    <3>1. PICK S \in SUBSET contentList : index' = index \ DocsOf(S)
      BY <2>1 DEF DeleteAnswered
    <3>2. PICK l \in S : docOf[l] = d
      BY <1>1, <3>1 DEF DocsOf
    <3>3. l \in B!Lines /\ l \notin acked \cup dropped
      BY <1>1, <2>0, <3>2 DEF IInv, BulkInv, B!Accounted, B!NonBlank, B!Lines
    <3> QED
      BY <3>2, <3>3
  <2>2. CASE DeleteLate
    BY <1>1, <2>2 DEF DeleteLate, B!ApplyLate
  <2>3. CASE index \subseteq index'
    BY <1>1, <2>3
  <2> QED
    BY <1>1, <2>1, <2>2, <2>3
    DEF Next, Thread, Export, ExportSnapshot, ExportThrew, StartDelete, Delete,
        RemoveTempFile, LogOver, CloseConn, Create, Leaves, own, vars
<1>2. IInv /\ [Next]_vars
      => [\A d \in index \ index' :
             \E l \in B!Lines : /\ docOf[l] = d
                                /\ l \in acked \cup dropped => pending[l] > 0]_vars
  BY <1>1
<1> QED
  BY <1>2, Invariance, PTL DEF Spec, RecreatedSurvives

\* No matched document is lost between the search, the file and the batches.
THEOREM EndCovers == Spec => []EndCoversMatched
<1>1. IInv => EndCoversMatched
  <2> SUFFICES ASSUME IInv, taskPc = "end", last, refused = {}, damaged = {}
               PROVE  DocsOf(acked \cup dropped) = X!Range(snap)
    BY DEF EndCoversMatched
  <2>0. ExportInv /\ BulkInv /\ TaskInv /\ Started
    BY DEF IInv, Started
  <2>1. exportPc = "returned" /\ bulkPc = "done"
    BY <2>0 DEF TaskInv
  <2>2. Len(file) = Len(snap) /\ \A l \in B!Lines : file[l] = "doc" /\ docOf[l] = snap[l]
    BY <2>0, <2>1 DEF TaskInv, ExportInv, ExportWhole
  <2>3. contentList = {} /\ pos = Len(file)
    BY <2>0, <2>1 DEF BulkInv
  <2>4. acked \cup dropped = B!Lines
    BY <2>0, <2>2, <2>3 DEF BulkInv, B!Accounted, B!NonBlank, B!Lines
  <2>5. B!Lines = DOMAIN snap
    BY <2>0, <2>2 DEF TaskInv, B!Lines
  <2> QED
    BY <2>2, <2>4, <2>5 DEF DocsOf, X!Range
<1> QED
  BY <1>1, Invariance, PTL

\* A task that ends leaves no scroll, no file and no connection behind.
THEOREM EndIsClean == Spec => []EndLeavesNothing
<1>1. IInv => EndLeavesNothing
  BY DEF IInv, TaskInv, Started, ExportInv, ExportScrolls, EndLeavesNothing
<1> QED
  BY <1>1, Invariance, PTL
-----------------------------------------------------------------------------
(* The task comes nearer to its end *)

\* What the measures rely on beyond IInv: a page at hand lies within the
\* snapshot, and the retries of a batch are counted from 0 to MaxTries.
PageInside ==
    X!Reading /\ page # <<>> =>
        /\ Head(page) \in 1 .. total[1]
        /\ Last(page) \in Head(page) .. total[1]

TriesInv ==
    /\ tryCount \in 0 .. MaxTries
    /\ bulkPc \in {"open", "read", "send", "report", "over", "caught", "done"}
    /\ bulkPc = "over" => last

\* Each line may take the steps of one batch.
LEMMA LineCosts ==
    ASSUME NEW n \in Nat
    PROVE  /\ B!ToRead(n) \in Nat
           /\ B!ToRead(n) >= MaxTries + 5
           /\ n > 0 => /\ B!ToRead(n - 1) \in Nat
                       /\ B!ToRead(n - 1) >= MaxTries + 5
                       /\ B!ToRead(n) = B!ToRead(n - 1) + MaxTries + 3
<1> DEFINE M == MaxTries + 3
<1>1. MaxTries \in Nat /\ M \in Nat /\ M = MaxTries + 3
  BY TaskAssumption
<1> HIDE DEF M
<1>2. ASSUME NEW k \in Nat PROVE B!ToRead(k) \in Nat /\ B!ToRead(k) >= MaxTries + 5
  <2>1. k * M \in Nat
    BY <1>1
  <2>2. B!ToRead(k) = k * M + MaxTries + 5
    BY <1>1 DEF B!ToRead, M
  <2> QED
    BY <1>1, <2>1, <2>2
<1>3. ASSUME n > 0 PROVE n - 1 \in Nat /\ B!ToRead(n) = B!ToRead(n - 1) + MaxTries + 3
  <2>1. n - 1 \in Nat
    BY <1>3
  <2>2. n * M = (n - 1) * M + M /\ n * M \in Nat /\ (n - 1) * M \in Nat
    BY <1>1, <2>1
  <2>3. B!ToRead(n) = n * M + MaxTries + 5 /\ B!ToRead(n - 1) = (n - 1) * M + MaxTries + 5
    BY <1>1 DEF B!ToRead, M
  <2> QED
    BY <1>1, <2>1, <2>2, <2>3
<1> QED
  BY <1>2, <1>3

\* Each step of the deletion, late answers aside, uses up some of its steps.
BulkWork ==
    \/ B!Open \/ B!ReadFails \/ B!SkipBlank \/ B!AddLine \/ B!EndOfFile
    \/ B!ParseFails \/ B!RequestThrows \/ B!GiveUp
    \/ B!ReportCount \/ B!ReportOver \/ B!Caught
    \/ \E S \in SUBSET contentList : B!Answered(S)

LEMMA BulkCounts ==
    ASSUME BulkInv, TriesInv, BulkWork
    PROVE  B!StepsLeft' < B!StepsLeft
<1> DEFINE Rest == B!ToRead(Len(file) - pos)
<1> USE DEF B!batch, B!ghosts, B!NextTry
<1>0. /\ pos \in 0 .. Len(file) /\ Len(file) \in Nat /\ MaxTries \in Nat
      /\ tryCount \in 0 .. MaxTries /\ last \in BOOLEAN
      /\ bulkPc \in {"open", "read", "send", "report", "over", "caught", "done"}
      /\ bulkPc = "over" => last
      /\ last => bulkPc \in {"send", "report", "over", "caught", "done"}
  BY TaskAssumption DEF BulkInv, TriesInv
<1>1. /\ Rest \in Nat /\ Rest >= MaxTries + 5
      /\ pos < Len(file) =>
            LET Less == B!ToRead(Len(file) - (pos + 1))
            IN  Less \in Nat /\ Less >= MaxTries + 5 /\ Rest = Less + MaxTries + 3
  <2>1. Len(file) - pos \in Nat /\ Len(file) - (pos + 1) = (Len(file) - pos) - 1
    BY <1>0
  <2>2. Rest \in Nat /\ Rest >= MaxTries + 5
    BY <2>1, LineCosts
  <2>3. ASSUME pos < Len(file)
        PROVE  LET Less == B!ToRead(Len(file) - (pos + 1))
               IN  Less \in Nat /\ Less >= MaxTries + 5 /\ Rest = Less + MaxTries + 3
    <3>1. Len(file) - pos > 0
      BY <1>0, <2>3
    <3> QED
      BY <2>1, <3>1, LineCosts
  <2> QED
    BY <2>2, <2>3
<1> HIDE DEF Rest
<1>2. /\ B!ToReport \in Nat /\ B!ToReport >= 3 /\ B!ToReport <= Rest + 1
      /\ B!ToReport = IF last THEN 3 ELSE Rest + 1
  BY <1>0, <1>1 DEF B!ToReport, Rest
<1>3. B!StepsLeft = CASE bulkPc = "open" -> Rest + 1
                    [] bulkPc = "read" -> Rest
                    [] bulkPc = "send" -> (MaxTries - tryCount) + 1 + B!ToReport
                    [] bulkPc = "report" -> B!ToReport
                    [] bulkPc = "over" -> 2
                    [] bulkPc = "caught" -> 1
                    [] bulkPc = "done" -> 0
  BY DEF B!StepsLeft, Rest
<1>4. /\ B!StepsLeft \in Nat
      /\ bulkPc = "open" => B!StepsLeft = Rest + 1
      /\ bulkPc = "read" => B!StepsLeft = Rest
      /\ bulkPc = "send" => B!StepsLeft = (MaxTries - tryCount) + 1 + B!ToReport
      /\ bulkPc = "report" => B!StepsLeft = B!ToReport
      /\ bulkPc = "over" => B!StepsLeft = 2
      /\ bulkPc = "caught" => B!StepsLeft = 1
      /\ bulkPc = "done" => B!StepsLeft = 0
  BY <1>0, <1>1, <1>2, <1>3
<1>5. ASSUME UNCHANGED <<file, pos, last>>
      PROVE  Rest' = Rest /\ B!ToReport' = B!ToReport
  BY <1>5 DEF Rest, B!ToReport
<1>6. /\ bulkPc' = "read" => B!StepsLeft' = Rest'
      /\ bulkPc' = "send" => B!StepsLeft' = (MaxTries - tryCount') + 1 + B!ToReport'
      /\ bulkPc' = "report" => B!StepsLeft' = B!ToReport'
      /\ bulkPc' = "over" => B!StepsLeft' = 2
      /\ bulkPc' = "caught" => B!StepsLeft' = 1
      /\ bulkPc' = "done" => B!StepsLeft' = 0
  BY DEF B!StepsLeft, Rest
<1> DEFINE Down == B!StepsLeft' \in Nat /\ B!StepsLeft' < B!StepsLeft
<1> HIDE DEF B!StepsLeft, Rest, B!ToReport
<1>7. CASE B!Open
  <2>1. bulkPc = "open" /\ bulkPc' \in {"read", "caught"} /\ UNCHANGED <<file, pos, last>>
    BY <1>7 DEF B!Open
  <2>2. Down
    BY <1>0, <1>1, <1>4, <1>5, <1>6, <2>1
  <2> QED
    BY <2>2
<1>8. CASE B!ReadFails
  <2>1. Down
    BY <1>0, <1>1, <1>4, <1>6, <1>8 DEF B!ReadFails
  <2> QED
    BY <2>1
<1>9. ASSUME bulkPc = "read", pos < Len(file), pos' = pos + 1, UNCHANGED <<file, last>>,
             \/ bulkPc' = "read"
             \/ bulkPc' = "send" /\ tryCount' = 0
      PROVE  Down
  <2>1. Rest' = B!ToRead(Len(file) - (pos + 1))
    BY <1>9 DEF Rest
  <2>2. Rest' \in Nat /\ Rest' >= MaxTries + 5 /\ Rest = Rest' + MaxTries + 3
    BY <1>1, <1>9, <2>1
  <2>3. ~last
    BY <1>0, <1>9
  <2>4. B!ToReport' = Rest' + 1
    BY <1>9, <2>3 DEF B!ToReport, Rest
  <2> QED
    BY <1>0, <1>4, <1>6, <1>9, <2>2, <2>4
<1>10. CASE B!SkipBlank
  <2>1. Down
    BY <1>9, <1>10 DEF B!SkipBlank
  <2> QED
    BY <2>1
<1>11. CASE B!AddLine
  <2>1. bulkPc' = "read" \/ (bulkPc' = "send" /\ tryCount' = 0)
    BY <1>11 DEF B!AddLine
  <2>2. Down
    BY <1>9, <1>11, <2>1 DEF B!AddLine
  <2> QED
    BY <2>2
<1>12. CASE B!EndOfFile
  <2>1. /\ bulkPc = "read" /\ bulkPc' = "send" /\ tryCount' = 0 /\ last'
    BY <1>12 DEF B!EndOfFile
  <2>2. B!ToReport' = 3
    BY <2>1 DEF B!ToReport
  <2>3. Down
    BY <1>0, <1>1, <1>4, <1>6, <2>1, <2>2
  <2> QED
    BY <2>3
<1>13. ASSUME bulkPc = "send", ~B!Exhausted, bulkPc' = bulkPc, tryCount' = tryCount + 1,
              UNCHANGED <<file, pos, last>>
       PROVE  Down
  <2>1. tryCount + 1 <= MaxTries
    BY <1>0, <1>13 DEF B!Exhausted
  <2>2. B!ToReport' = B!ToReport
    BY <1>5, <1>13
  <2> QED
    BY <1>0, <1>2, <1>4, <1>6, <1>13, <2>1, <2>2
<1>14. CASE B!ParseFails \/ B!RequestThrows
  <2>1. Down
    BY <1>13, <1>14 DEF B!ParseFails, B!RequestThrows
  <2> QED
    BY <2>1
<1>15. ASSUME bulkPc = "send", bulkPc' = "report", UNCHANGED <<file, pos, last>>
       PROVE  Down
  <2>1. B!ToReport' = B!ToReport
    BY <1>5, <1>15
  <2> QED
    BY <1>0, <1>2, <1>4, <1>6, <1>15, <2>1
<1>16. CASE B!GiveUp
  <2>1. Down
    BY <1>15, <1>16 DEF B!GiveUp
  <2> QED
    BY <2>1
<1>17. ASSUME NEW S \in SUBSET contentList, B!Answered(S)
       PROVE  Down
  <2>1. Down
    BY <1>15, <1>17 DEF B!Answered
  <2> QED
    BY <2>1
<1>18. CASE B!ReportCount
  <2>1. /\ bulkPc = "report" /\ UNCHANGED <<file, pos, last>>
        /\ bulkPc' \in {"read", "over", "caught"}
        /\ bulkPc' = "read" => ~last
    BY <1>18 DEF B!ReportCount
  <2>2. Rest' = Rest
    BY <1>5, <2>1
  <2>3. Down
    BY <1>0, <1>1, <1>2, <1>4, <1>6, <2>1, <2>2
  <2> QED
    BY <2>3
<1>19. CASE B!ReportOver
  <2>1. bulkPc = "over" /\ bulkPc' \in {"done", "caught"}
    BY <1>19 DEF B!ReportOver
  <2>2. Down
    BY <1>4, <1>6, <2>1
  <2> QED
    BY <2>2
<1>20. CASE B!Caught
  <2>1. Down
    BY <1>4, <1>6, <1>20 DEF B!Caught
  <2> QED
    BY <2>1
<1> QED
  BY <1>7, <1>8, <1>10, <1>11, <1>12, <1>14, <1>16, <1>17, <1>18, <1>19, <1>20
  DEF BulkWork

LEMMA BulkTries ==
    ASSUME BulkInv, TriesInv, BulkWork
    PROVE  TriesInv'
<1>0. MaxTries \in Nat
  BY TaskAssumption
<1>1. CASE B!AddLine
  <2>1. tryCount' = 0 /\ bulkPc' \in {"send", "read"}
    BY <1>1 DEF B!AddLine
  <2> QED
    BY <1>0, <2>1 DEF TriesInv
<1>2. CASE B!ParseFails \/ B!RequestThrows
  <2>1. tryCount' = tryCount + 1 /\ tryCount < MaxTries /\ bulkPc' = bulkPc /\ bulkPc = "send"
    BY <1>0, <1>2 DEF B!ParseFails, B!RequestThrows, B!Exhausted, B!NextTry, TriesInv
  <2> QED
    BY <1>0, <2>1 DEF TriesInv
<1>3. ASSUME NEW S \in SUBSET contentList, B!Answered(S)
      PROVE  TriesInv'
  BY <1>3 DEF B!Answered, TriesInv
<1>4. CASE B!EndOfFile
  BY <1>0, <1>4 DEF B!EndOfFile, TriesInv
<1>5. CASE B!ReportCount
  BY <1>5 DEF B!ReportCount, B!batch, TriesInv
<1>6. CASE B!Open \/ B!ReadFails \/ B!SkipBlank \/ B!GiveUp \/ B!ReportOver \/ B!Caught
  BY <1>6 DEF B!Open, B!ReadFails, B!SkipBlank, B!GiveUp, B!ReportOver, B!Caught,
     B!batch, TriesInv
<1> QED
  BY <1>1, <1>2, <1>3, <1>4, <1>5, <1>6 DEF BulkWork

\* A page that has hits begins with the hit it was asked for.
LEMMA PageEnds ==
    ASSUME NEW k \in Nat, NEW n \in Nat, k <= n, X!PageFrom(k + 1, n) # <<>>
    PROVE  /\ Head(X!PageFrom(k + 1, n)) = k + 1
           /\ Last(X!PageFrom(k + 1, n)) \in k + 1 .. n
<1> DEFINE p == PageOf(PageSize, k + 1, n)
<1>1. X!PageFrom(k + 1, n) = p
  BY DEF X!PageFrom, PageOf
<1>2. /\ p \in Seq(Nat) /\ k + Len(p) <= n
      /\ \A i \in 1 .. Len(p) : p[i] = k + i
  <2>1. PageSize \in Nat \ {0}
    BY TaskAssumption
  <2> QED
    BY <2>1, PageOfHits
<1> HIDE DEF p
<1>3. p # <<>> /\ Len(p) \in Nat \ {0}
  BY <1>1, <1>2
<1>4. p[1] = k + 1 /\ p[Len(p)] = k + Len(p)
  BY <1>2, <1>3
<1>5. Head(p) = p[1] /\ Last(p) = p[Len(p)]
  BY <1>2, <1>3 DEF Last
<1>6. Head(p) = k + 1 /\ Last(p) \in k + 1 .. n
  BY <1>2, <1>3, <1>4, <1>5
<1> QED
  BY <1>1, <1>6

\* A page fetched lies behind the one before it.
LEMMA FetchedPage ==
    ASSUME ExportInv, PageInside, X!FetchOk
    PROVE  /\ Head(page) \in 1 .. total[1]
           /\ page' # <<>> => /\ Head(page') \in Head(page) + 1 .. total[1]
                                /\ Last(page') \in Head(page') .. total[1]
<1> DEFINE k == Last(page) n == total[1]
<1>1. page # <<>> /\ page' = X!PageFrom(k + 1, n)
  BY DEF ExportInv, ExportType, ExportFile, X!FetchOk, X!Last, Last
<1>2. Head(page) \in 1 .. n /\ k \in Head(page) .. n
  BY <1>1 DEF PageInside, X!FetchOk, X!Reading
<1>3. n \in Nat
  BY DEF ExportInv, ExportType
<1> HIDE DEF k, n
<1>4. k \in Nat /\ k <= n
  BY <1>2, <1>3
<1>5. ASSUME page' # <<>>
      PROVE  Head(page') = k + 1 /\ Last(page') \in k + 1 .. n
  BY <1>1, <1>3, <1>4, <1>5, PageEnds
<1>6. page' # <<>> => /\ Head(page') \in Head(page) + 1 .. n
                        /\ Last(page') \in Head(page') .. n
  BY <1>2, <1>3, <1>4, <1>5
<1> QED
  BY <1>2, <1>6 DEF n

LEMMA PageInsideStep ==
    ASSUME ExportInv, PageInside, X!Work \/ \E n \in Nat : X!SearchOk(n)
    PROVE  PageInside'
<1>1. ASSUME UNCHANGED <<page, total, day>>, X!Reading' => X!Reading
      PROVE  PageInside'
  BY <1>1 DEF PageInside
<1>2. CASE ~X!Reading' \/ page' = <<>>
  BY <1>2 DEF PageInside
<1>3. ASSUME NEW n \in Nat, X!SearchOk(n)
      PROVE  PageInside'
  <2>1. n \in Nat /\ total'[1] = n /\ page' = X!PageFrom(0 + 1, n)
    BY <1>3 DEF X!SearchOk, ExportInv, ExportType
  <2>2. page' # <<>> => Head(page') = 0 + 1 /\ Last(page') \in 0 + 1 .. n
    <3>1. 0 <= n
      BY <2>1
    <3> QED
      BY <2>1, <3>1, PageEnds
  <2>3. page' # <<>> => Head(page') \in 1 .. n /\ Last(page') \in Head(page') .. n
    BY <2>1, <2>2
  <2> QED
    BY <2>1, <2>3 DEF PageInside
<1>4. CASE X!FetchOk
  <2>1. total' = total /\ day' = day
    BY <1>4 DEF X!FetchOk
  <2>2. total[1] \in Nat
    BY DEF ExportInv, ExportType
  <2>3. page' # <<>> => /\ Head(page') \in 1 .. total[1]
                          /\ Last(page') \in Head(page') .. total[1]
    <3>1. /\ Head(page) \in 1 .. total[1]
          /\ page' # <<>> => /\ Head(page') \in Head(page) + 1 .. total[1]
                               /\ Last(page') \in Head(page') .. total[1]
      BY <1>4, FetchedPage
    <3> QED
      BY <2>2, <3>1
  <2> QED
    BY <2>1, <2>3 DEF PageInside
<1>5. CASE X!InitHandler \/ X!InitThrows \/ X!SearchThrows \/ X!WriteThrows \/ X!LoopEnds
           \/ X!FetchThrows \/ X!ExportOver \/ X!ClearScroll \/ X!ClearThrows \/ X!LogTimes
           \/ X!Caught \/ X!Close
  BY <1>2, <1>5
  DEF X!Reading, X!InitHandler, X!InitThrows, X!SearchThrows, X!WriteThrows, X!LoopEnds,
      X!FetchThrows, X!ExportOver, X!ClearScroll, X!ClearThrows, X!LogTimes, X!Caught, X!Close
<1>6. CASE X!SearchRefused \/ X!FetchRefused
  BY <1>2, <1>6 DEF X!SearchRefused, X!FetchRefused
<1>7. CASE X!WritePage \/ X!LogProgress \/ X!NotYetAll
  BY <1>1, <1>7 DEF X!Reading, X!WritePage, X!LogProgress, X!NotYetAll
<1> QED
  BY <1>3, <1>4, <1>5, <1>6, <1>7 DEF X!Work

LEMMA ExportNearer ==
    ASSUME ExportInv, PageInside, X!Work \/ \E n \in Nat : X!SearchOk(n)
    PROVE  X!Nearer
<1>0. /\ day = 1
      /\ exportPc \in {"init", "search", "loop", "fetch", "progress", "test", "clear",
                 "close", "caught", "abort", "returned", "threw"}
  BY DEF ExportInv, ExportType
<1>1. /\ exportPc = "init" => X!Stage = 7
      /\ exportPc = "search" => X!Stage = 6
      /\ X!Reading => X!Stage = 5
      /\ exportPc = "clear" => X!Stage = 4
      /\ exportPc = "close" => X!Stage = 3
      /\ exportPc = "caught" => X!Stage = 2
      /\ exportPc = "abort" => X!Stage = 1
      /\ exportPc \in {"returned", "threw"} => X!Stage = 0
  BY DEF X!Stage, X!Reading
<1>2. /\ X!Reading' => X!Stage' = 5
      /\ exportPc' = "search" => X!Stage' = 6
      /\ exportPc' = "clear" => X!Stage' = 4
      /\ exportPc' = "close" => X!Stage' = 3
      /\ exportPc' = "caught" => X!Stage' = 2
      /\ exportPc' = "abort" => X!Stage' = 1
      /\ exportPc' \in {"returned", "threw"} => X!Stage' = 0
  BY DEF X!Stage, X!Reading
<1>3. /\ exportPc = "progress" => X!InStage = 3
      /\ exportPc = "test" => X!InStage = 2
      /\ exportPc = "loop" => X!InStage = 1
      /\ exportPc = "fetch" => X!InStage = 0
      /\ exportPc = "clear" => X!InStage = Len(toClear)
  BY DEF X!InStage
<1>4. /\ exportPc' = "test" => X!InStage' = 2
      /\ exportPc' = "loop" => X!InStage' = 1
      /\ exportPc' = "fetch" => X!InStage' = 0
      /\ exportPc' = "clear" => X!InStage' = Len(toClear')
  BY DEF X!InStage
<1>5. ASSUME day' = day, X!Stage' < X!Stage
      PROVE  X!Nearer
  BY <1>5 DEF X!Nearer
<1>6. CASE X!InitHandler \/ X!InitThrows
  <2>1. day' = day /\ exportPc = "init" /\ exportPc' \in {"search", "threw"}
    BY <1>6 DEF X!InitHandler, X!InitThrows
  <2> QED
    BY <1>1, <1>2, <1>5, <2>1
<1>7. ASSUME exportPc = "search", day' = day, exportPc' \in {"loop", "caught"}
      PROVE  X!Nearer
  <2>1. X!Stage = 6 /\ X!Stage' \in {5, 2}
    BY <1>1, <1>2, <1>7 DEF X!Reading
  <2> QED
    BY <1>5, <1>7, <2>1
<1>8. CASE X!SearchRefused \/ X!SearchThrows \/ \E n \in Nat : X!SearchOk(n)
  BY <1>7, <1>8 DEF X!SearchRefused, X!SearchThrows, X!SearchOk
<1>9. ASSUME X!Reading, day' = day, exportPc' \in {"clear", "caught"}
      PROVE  X!Nearer
  <2>1. X!Stage = 5 /\ X!Stage' \in {4, 2}
    BY <1>1, <1>2, <1>9
  <2> QED
    BY <1>5, <1>9, <2>1
<1>10. CASE X!WriteThrows \/ X!LoopEnds \/ X!FetchThrows \/ X!ExportOver
  BY <1>9, <1>10 DEF X!WriteThrows, X!LoopEnds, X!FetchThrows, X!ExportOver, X!Reading
\* The page stays at hand.
<1>11. ASSUME X!Reading, X!Reading', UNCHANGED <<day, page, total>>,
              X!InStage' < X!InStage
       PROVE  X!Nearer
  <2>1. X!HitsLeft' = X!HitsLeft
    BY <1>11 DEF X!HitsLeft
  <2>2. X!Stage' = X!Stage
    BY <1>1, <1>2, <1>11
  <2> QED
    BY <1>11, <2>1, <2>2 DEF X!Nearer
<1>12. CASE X!WritePage
  <2>1. exportPc = "loop" /\ exportPc' = "fetch" /\ UNCHANGED <<day, page, total>>
    BY <1>12 DEF X!WritePage
  <2>2. X!Reading /\ X!Reading' /\ X!InStage' < X!InStage
    BY <1>3, <1>4, <2>1 DEF X!Reading
  <2> QED
    BY <1>11, <2>1, <2>2
<1>13. CASE X!NotYetAll
  <2>1. exportPc = "test" /\ exportPc' = "loop" /\ UNCHANGED <<day, page, total>>
    BY <1>13 DEF X!NotYetAll
  <2>2. X!Reading /\ X!Reading' /\ X!InStage' < X!InStage
    BY <1>3, <1>4, <2>1 DEF X!Reading
  <2> QED
    BY <1>11, <2>1, <2>2
<1>14. CASE X!LogProgress
  <2>1. /\ exportPc = "progress" /\ exportPc' \in {"test", "caught"}
        /\ UNCHANGED <<day, page, total>>
    BY <1>14 DEF X!LogProgress
  <2>2. CASE exportPc' = "test"
    <3>1. X!Reading /\ X!Reading' /\ X!InStage' < X!InStage
      BY <1>3, <1>4, <2>1, <2>2 DEF X!Reading
    <3> QED
      BY <1>11, <2>1, <3>1
  <2>3. CASE exportPc' = "caught"
    BY <1>9, <2>1, <2>3 DEF X!Reading
  <2> QED
    BY <2>1, <2>2, <2>3
\* The page is behind.
<1>15. ASSUME X!Reading, X!Reading', UNCHANGED <<day, total>>,
              page # <<>>,
              Head(page) \in 1 .. total[1],
              page' # <<>> => Head(page') \in Head(page) + 1 .. total[1]
       PROVE  X!Nearer
  <2>1. X!HitsLeft = total[1] - Head(page) + 1
    BY <1>0, <1>15 DEF X!HitsLeft
  <2>2. X!HitsLeft' = IF page' # <<>> THEN total[1] - Head(page') + 1 ELSE 0
    BY <1>0, <1>15 DEF X!HitsLeft
  <2>3. total[1] \in Nat
    BY DEF ExportInv, ExportType
  <2>4. X!HitsLeft' < X!HitsLeft
    <3>1. CASE page' # <<>>
      BY <1>15, <2>1, <2>2, <2>3, <3>1
    <3>2. CASE page' = <<>>
      BY <1>15, <2>1, <2>2, <2>3, <3>2
    <3> QED
      BY <3>1, <3>2
  <2>5. X!Stage' = X!Stage
    BY <1>1, <1>2, <1>15
  <2> QED
    BY <1>15, <2>4, <2>5 DEF X!Nearer
<1>16. ASSUME exportPc = "fetch", exportPc' = X!AfterFetch
       PROVE  X!Reading /\ X!Reading'
  BY <1>16 DEF X!Reading, X!AfterFetch
<1>17. CASE X!FetchOk
  <2>1. /\ exportPc = "fetch" /\ exportPc' = X!AfterFetch /\ UNCHANGED <<day, total>>
        /\ page # <<>>
    BY <1>17 DEF X!FetchOk, ExportInv, ExportFile
  <2>2. /\ Head(page) \in 1 .. total[1]
        /\ page' # <<>> => Head(page') \in Head(page) + 1 .. total[1]
    BY <1>17, FetchedPage
  <2>3. X!Reading /\ X!Reading'
    BY <1>16, <2>1
  <2> QED
    BY <1>15, <2>1, <2>2, <2>3
<1>18. CASE X!FetchRefused
  <2>1. /\ exportPc = "fetch" /\ exportPc' = X!AfterFetch /\ UNCHANGED <<day, total>>
        /\ page # <<>> /\ page' = <<>>
    BY <1>18 DEF X!FetchRefused, ExportInv, ExportFile
  <2>2. X!Reading /\ X!Reading'
    BY <1>16, <2>1
  <2>3. Head(page) \in 1 .. total[1]
    BY <2>1, <2>2 DEF PageInside
  <2> QED
    BY <1>15, <2>1, <2>2, <2>3
<1>19. CASE X!ClearScroll
  <2>1. /\ exportPc = "clear" /\ exportPc' = "clear" /\ day' = day
        /\ toClear # <<>> /\ toClear' = Tail(toClear) /\ toClear \in Seq(Nat)
    BY <1>19 DEF X!ClearScroll, ExportInv, ExportType
  <2>2. X!InStage' < X!InStage
    <3>1. Len(toClear') = Len(toClear) - 1 /\ Len(toClear) \in Nat
      BY <2>1, HeadTailProperties
    <3> QED
      BY <1>3, <1>4, <2>1, <3>1
  <2>3. X!HitsLeft' = X!HitsLeft
    BY <2>1 DEF X!HitsLeft, X!Reading
  <2>4. X!Stage' = X!Stage
    BY <1>1, <1>2, <2>1
  <2> QED
    BY <2>1, <2>2, <2>3, <2>4 DEF X!Nearer
<1>20. CASE X!ClearThrows \/ X!LogTimes
  <2>1. exportPc = "clear" /\ exportPc' \in {"caught", "close"} /\ day' = day
    BY <1>20 DEF X!ClearThrows, X!LogTimes
  <2> QED
    BY <1>1, <1>2, <1>5, <2>1
<1>21. CASE X!Caught
  <2>1. exportPc = "caught" /\ exportPc' = "abort" /\ day' = day
    BY <1>21 DEF X!Caught
  <2> QED
    BY <1>1, <1>2, <1>5, <2>1
<1>22. CASE X!Close
  <2>1. /\ exportPc \in {"close", "abort"}
        /\ \/ exportPc' \in {"returned", "threw"} /\ day' = day
           \/ exportPc' = "init" /\ day' = day + 1
    BY <1>22 DEF X!Close
  <2>2. CASE exportPc' \in {"returned", "threw"} /\ day' = day
    BY <1>1, <1>2, <1>5, <2>1, <2>2
  <2>3. CASE day' = day + 1
    BY <1>0, <2>3 DEF X!Nearer
  <2> QED
    BY <2>1, <2>2, <2>3
<1> QED
  BY <1>6, <1>8, <1>10, <1>12, <1>13, <1>14, <1>17, <1>18, <1>19, <1>20,
     <1>21, <1>22 DEF X!Work

\* The whole task, its export, its deletion and what follows, for any number of
\* documents, pages, batches and tries.
THEOREM TaskNearsEnd == Spec => EveryStepNearsEnd
<1> DEFINE Inv == IInv /\ PageInside /\ TriesInv
<1>1. Init => PageInside /\ TriesInv
  BY TaskAssumption DEF Init, X!Start, B!Start, PageInside, TriesInv, X!Reading
<1>a. ASSUME IInv PROVE Cardinality(index) \in Nat
  <2>1. index \in SUBSET Docs
    BY <1>a DEF IInv, TaskInv
  <2>2. IsFiniteSet(index)
    BY <2>1, TaskAssumption, FS_Subset
  <2> QED
    BY <2>2, FS_CardinalityType
<1>2. ASSUME Inv, [Next]_vars
      PROVE  PageInside' /\ TriesInv'
  <2>0. ExportInv /\ BulkInv
    BY <1>2 DEF IInv
  <2>1. ASSUME UNCHANGED exported PROVE PageInside'
    BY <1>2, <2>1 DEF exported, PageInside, X!Reading
  <2>2. ASSUME UNCHANGED <<tryCount, bulkPc, last>> PROVE TriesInv'
    BY <1>2, <2>2 DEF TriesInv
  <2>3. CASE Export
    BY <1>2, <2>0, <2>2, <2>3, PageInsideStep DEF Export, deletion
  <2>4. CASE ExportSnapshot
    BY <1>2, <1>a, <2>0, <2>2, <2>4, PageInsideStep DEF ExportSnapshot, deletion
  <2>5. CASE Delete \/ DeleteAnswered
    BY <1>2, <2>0, <2>1, <2>5, BulkTries DEF Delete, DeleteAnswered, BulkWork
  <2>6. CASE DeleteLate
    BY <2>1, <2>2, <2>6 DEF DeleteLate, B!ApplyLate, B!batch
  <2>7. CASE \/ ExportThrew \/ StartDelete \/ RemoveTempFile \/ LogOver \/ CloseConn
             \/ Create \/ Leaves \/ UNCHANGED vars
    BY <2>1, <2>2, <2>7 DEF ExportThrew, StartDelete, RemoveTempFile, LogOver, CloseConn,
       Create, Leaves, vars, deletion
  <2> QED
    BY <1>2, <2>3, <2>4, <2>5, <2>6, <2>7 DEF Next, Thread
<1>3. ASSUME Inv, Thread
      PROVE  NearerEnd
  <2>0. ExportInv /\ BulkInv /\ PageInside /\ TriesInv
    BY <1>3 DEF IInv
  <2>1. /\ taskPc = "export" => TaskStage = 4
        /\ taskPc = "delete" => TaskStage = 3
        /\ taskPc = "log" => TaskStage = 2
        /\ taskPc = "close" => TaskStage = 1
    BY DEF TaskStage
  <2>2. /\ taskPc' = "delete" => TaskStage' = 3
        /\ taskPc' = "log" => TaskStage' = 2
        /\ taskPc' = "close" => TaskStage' = 1
        /\ taskPc' \in {"end", "failed", "aborted"} => TaskStage' = 0
    BY DEF TaskStage
  <2>3. CASE Export
    <3>1. taskPc = "export" /\ taskPc' = "export" /\ X!Work
      BY <2>3 DEF Export
    <3>2. X!Nearer
      BY <2>0, <3>1, ExportNearer
    <3> QED
      BY <3>1, <3>2 DEF NearerEnd
  <2>4. CASE ExportSnapshot
    <3>1. /\ taskPc = "export" /\ taskPc' = "export"
          /\ \E n \in Nat : X!SearchOk(n)
      BY <1>3, <1>a, <2>4 DEF ExportSnapshot
    <3>2. X!Nearer
      BY <2>0, <3>1, ExportNearer
    <3> QED
      BY <3>1, <3>2 DEF NearerEnd
  <2>5. CASE Delete \/ DeleteAnswered
    <3>1. taskPc = "delete" /\ taskPc' = "delete" /\ BulkWork
      BY <2>5 DEF Delete, DeleteAnswered, own, BulkWork
    <3>2. B!StepsLeft' < B!StepsLeft
      BY <2>0, <3>1, BulkCounts
    <3> QED
      BY <3>1, <3>2 DEF NearerEnd
  <2>6. ASSUME TaskStage' < TaskStage PROVE NearerEnd
    BY <2>6 DEF NearerEnd
  <2>7. CASE ExportThrew \/ StartDelete
    <3>1. taskPc = "export" /\ taskPc' \in {"aborted", "delete"}
      BY <2>7 DEF ExportThrew, StartDelete
    <3> QED
      BY <2>1, <2>2, <2>6, <3>1
  <2>8. CASE RemoveTempFile
    <3>1. taskPc = "delete" /\ taskPc' \in {"log", "failed"}
      BY <2>8 DEF RemoveTempFile
    <3> QED
      BY <2>1, <2>2, <2>6, <3>1
  <2>9. CASE LogOver
    <3>1. taskPc = "log" /\ taskPc' \in {"close", "failed"}
      BY <2>9 DEF LogOver
    <3> QED
      BY <2>1, <2>2, <2>6, <3>1
  <2>10. CASE CloseConn
    <3>1. taskPc = "close" /\ taskPc' = "end"
      BY <2>10 DEF CloseConn
    <3> QED
      BY <2>1, <2>2, <2>6, <3>1
  <2> QED
    BY <1>3, <2>3, <2>4, <2>5, <2>7, <2>8, <2>9, <2>10 DEF Thread
<1>4. ASSUME [Next]_vars, ~Thread
      PROVE  UNCHANGED <<taskPc, exported, B!StepsLeft>>
  <2>1. UNCHANGED <<taskPc, exported, file, pos, last, bulkPc, tryCount>>
    BY <1>4 DEF Next, DeleteLate, B!ApplyLate, B!batch, Create, Leaves, own, vars, deletion
  <2> QED
    BY <2>1 DEF B!StepsLeft, B!ToReport
<1>5. Inv /\ [Next]_vars
      => [/\ Thread => NearerEnd
          /\ ~Thread => UNCHANGED <<taskPc, exported, B!StepsLeft>>]_vars
  BY <1>3, <1>4
<1>6. Spec => []Inv
  BY <1>1, <1>2, Invariance, PTL DEF Spec
<1> QED
  BY <1>5, <1>6, PTL DEF Spec, EveryStepNearsEnd
=============================================================================
