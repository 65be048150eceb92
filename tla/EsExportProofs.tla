--------------------------- MODULE EsExportProofs ---------------------------
(***************************************************************************)
(* Theorems about EsExport, for every page size, every number of days and  *)
(* every number of hits.                                                   *)
(***************************************************************************)
EXTENDS EsExport, SnapshotPages, FiniteSetTheorems, TLAPS

USE DEF ConnStates, FileOf, NoHits, handler, loop, server, own, vars
-----------------------------------------------------------------------------
(* Pages *)

\* A page of a snapshot of n hits that begins with a hit after the k-th is
\* empty when k is n, and otherwise holds the next hits.
LEMMA PageHits ==
    ASSUME NEW k \in Nat, NEW n \in Nat
    PROVE  /\ PageFrom(k + 1, n) \in Seq(Nat)
           /\ \A i \in 1 .. Len(PageFrom(k + 1, n)) : PageFrom(k + 1, n)[i] = k + i
           /\ k <= n => /\ k + Len(PageFrom(k + 1, n)) <= n
                        /\ PageFrom(k + 1, n) = <<>> <=> k = n
<1>1. PageFrom(k + 1, n) = PageOf(PageSize, k + 1, n)
  BY DEF PageFrom, PageOf
<1>2. PageSize \in Nat \ {0}
  BY ExportAssumption
<1> DEFINE p == PageOf(PageSize, k + 1, n)
<1>3. /\ p \in Seq(Nat)
      /\ \A i \in 1 .. Len(p) : p[i] = k + i
      /\ k <= n => k + Len(p) <= n /\ (p = <<>> <=> k = n)
  BY <1>2, PageOfHits
<1> HIDE DEF p
<1>4. PageFrom(k + 1, n) = p
  BY <1>1 DEF p
<1> QED
  BY <1>3, <1>4

\* Appending the page after the first k hits to these gives the first hits.
LEMMA AppendPage ==
    ASSUME NEW k \in Nat, NEW n \in Nat,
           NEW r \in Seq(Nat), Len(r) = k, r = UpTo(k)
    PROVE  LET p == PageFrom(k + 1, n)
           IN  /\ r \o p \in Seq(Nat)
               /\ Len(r \o p) = k + Len(p)
               /\ r \o p = UpTo(k + Len(p))
<1>1. PageFrom(k + 1, n) = PageOf(PageSize, k + 1, n)
  BY DEF PageFrom, PageOf
<1>2. PageSize \in Nat \ {0}
  BY ExportAssumption
<1> DEFINE p == PageOf(PageSize, k + 1, n)
<1>3. UpTo(k) \o p = UpTo(k + Len(p))
  BY <1>2, AppendPageOf
<1>4. p \in Seq(Nat)
  BY <1>2, PageOfHits
<1> HIDE DEF p
<1>5. PageFrom(k + 1, n) = p
  BY <1>1 DEF p
<1>6. Len(r \o p) = k + Len(p) /\ r \o p \in Seq(Nat)
  BY <1>4, ConcatProperties
<1> QED
  BY <1>3, <1>5, <1>6
-----------------------------------------------------------------------------
(* Type correctness *)

LEMMA TypeInit == Init => TypeOK
<1> SUFFICES ASSUME Init PROVE TypeOK
  OBVIOUS
<1>1. 1 \in Days
  BY ExportAssumption DEF Days
<1>2. rows \in [Days -> Seq(Nat)] /\ total \in [Days -> Nat]
  BY DEF Init, Start
<1>3. page \in Seq(Nat) /\ ids \in Seq(Nat) /\ toClear \in Seq(Nat)
  BY DEF Init, Start
<1> QED
  BY <1>1, <1>2, <1>3 DEF Init, Start, TypeOK

\* A page that is not empty ends with a hit, and a fetch follows only such.
PageToFetch == pc = "fetch" => page # NoHits

LEMMA LastOfPage ==
    ASSUME page \in Seq(Nat), page # NoHits
    PROVE  Last(page) \in Nat /\ Len(page) \in Nat \ {0}
  BY DEF Last

LEMMA TypeStep == TypeOK /\ PageToFetch /\ [Next]_vars => TypeOK' /\ PageToFetch'
<1> SUFFICES ASSUME TypeOK, PageToFetch, [Next]_vars PROVE TypeOK' /\ PageToFetch'
  OBVIOUS
<1> USE DEF TypeOK, PageToFetch
<1>0. day \in Nat /\ NDays \in Nat /\ Days = 1 .. NDays
  BY ExportAssumption DEF Days
<1>1. CASE InitHandler
  <2>1. <<>> \in Seq(Nat)
    OBVIOUS
  <2>2. rows' \in [Days -> Seq(Nat)] /\ writer' \in {"open", "null"}
    BY <1>1, <2>1 DEF InitHandler
  <2> QED
    BY <1>1, <2>2 DEF InitHandler
<1>2. CASE InitThrows
  BY <1>2 DEF InitThrows
<1>3. ASSUME NEW n \in Totals, SearchOk(n)
      PROVE  TypeOK' /\ PageToFetch'
  <2>1. n \in Nat
    BY ExportAssumption
  <2>2. PageFrom(1, n) \in Seq(Nat)
    <3>1. PageFrom(0 + 1, n) \in Seq(Nat)
      BY <2>1, PageHits
    <3> QED
      BY <3>1
  <2>3. <<1>> \in Seq(Nat) /\ <<day, 1>> \in Days \X Nat
    OBVIOUS
  <2> QED
    BY <1>3, <2>1, <2>2, <2>3 DEF SearchOk
<1>4. CASE SearchRefused
  BY <1>4 DEF SearchRefused
<1>5. CASE SearchThrows
  BY <1>5 DEF SearchThrows
<1>6. CASE WritePage
  <2>1. Len(page) \in Nat /\ rows[day] \o page \in Seq(Nat)
    OBVIOUS
  <2>2. rows' \in [Days -> Seq(Nat)]
    BY <1>6, <2>1 DEF WritePage
  <2> QED
    BY <1>6, <2>1, <2>2 DEF WritePage
<1>7. CASE WriteThrows
  BY <1>7 DEF WriteThrows
<1>8. CASE LoopEnds
  BY <1>8 DEF LoopEnds, ToDelete
<1>9. CASE FetchOk
  <2>1. Last(page) \in Nat /\ total[day] \in Nat
    BY <1>9, LastOfPage DEF FetchOk
  <2>2. PageFrom(Last(page) + 1, total[day]) \in Seq(Nat)
    BY <2>1, PageHits
  <2>3. Append(ids, Len(ids) + 1) \in Seq(Nat) /\ <<day, Len(ids) + 1>> \in Days \X Nat
    OBVIOUS
  <2> QED
    BY <1>9, <2>1, <2>2, <2>3 DEF FetchOk, AfterFetch
<1>10. CASE FetchRefused
  BY <1>10 DEF FetchRefused, AfterFetch
<1>11. CASE FetchThrows
  BY <1>11 DEF FetchThrows
<1>12. CASE LogProgress
  BY <1>12 DEF LogProgress, SendReturns, Delivered, Ignored, Raced
<1>13. CASE NotYetAll
  BY <1>13 DEF NotYetAll
<1>14. CASE ExportOver
  BY <1>14 DEF ExportOver, ToDelete, SendReturns, Delivered, Ignored, Raced
<1>15. CASE ClearScroll
  <2>1. Tail(toClear) \in Seq(Nat)
    BY <1>15, HeadTailProperties DEF ClearScroll
  <2> QED
    BY <1>15, <2>1 DEF ClearScroll
<1>16. CASE ClearThrows
  BY <1>16 DEF ClearThrows
<1>17. CASE LogTimes
  BY <1>17 DEF LogTimes, SendReturns, Delivered, Ignored, Raced
<1>18. CASE Caught
  BY <1>18 DEF Caught, SendSwallows, SendReturns, Delivered, Ignored, Raced
<1>19. CASE Close
  <2>1. day' \in Days
    BY <1>0, <1>19 DEF Close
  <2>2. /\ page' \in Seq(Nat) /\ ids' \in Seq(Nat) /\ toClear' \in Seq(Nat)
        /\ conn' \in ConnStates
        /\ pc' \in {"threw", "returned", "init"}
    BY <1>19 DEF Close, SendReturns, Delivered, Ignored, Raced
  <2> QED
    BY <1>19, <2>1, <2>2 DEF Close
<1>20. CASE Leaves
  BY <1>20 DEF Leaves, ClientLeaves
<1>21. CASE UNCHANGED vars
  BY <1>21
<1> QED
  BY <1>1, <1>2, <1>3, <1>4, <1>5, <1>6, <1>7, <1>8, <1>9, <1>10, <1>11, <1>12,
     <1>13, <1>14, <1>15, <1>16, <1>17, <1>18, <1>19, <1>20, <1>21
  DEF Next, Thread, Work

\* The state of an export always has its types; the last page fetched is
\* never empty when the next one is asked for.
THEOREM TypeCorrect == Spec => [](TypeOK /\ PageToFetch)
<1>1. Init => TypeOK /\ PageToFetch
  BY TypeInit DEF Init, Start, PageToFetch
<1> QED
  BY <1>1, TypeStep, PTL DEF Spec
-----------------------------------------------------------------------------
(* The files *)

\* The page at hand follows what is in the file of the query at work: before
\* it is written it begins after the last line, afterwards it ends with it.
\* The files of queries that have not begun are empty.
PageFollowsFile ==
    /\ \A d \in Days : d > day => rows[d] = <<>>
    /\ pc \in {"init", "search"} => rows[day] = <<>>
    /\ pc \in {"loop", "progress", "test"} /\ page # NoHits /\ day \notin damaged
       => page = PageFrom(Len(rows[day]) + 1, total[day])
    /\ pc = "fetch" /\ day \notin damaged => Last(page) = Len(rows[day])

FileInv == TypeOK /\ PageToFetch /\ RowsArePrefix /\ PageFollowsFile

LEMMA FileInit == Init => FileInv
<1> SUFFICES ASSUME Init PROVE FileInv
  OBVIOUS
<1>1. TypeOK /\ PageToFetch
  BY TypeInit DEF Init, Start, PageToFetch
<1>2. \A d \in Days : rows[d] = <<>> /\ total[d] = 0
  BY DEF Init, Start
<1>3. 1 \in Days
  BY ExportAssumption DEF Days
<1>4. \A d \in Days : Len(rows[d]) = 0 /\ rows[d] = [i \in 1 .. Len(rows[d]) |-> i]
  BY <1>2
<1>5. RowsArePrefix
  BY <1>2, <1>4 DEF RowsArePrefix
<1>6. PageFollowsFile
  BY <1>2, <1>3 DEF Init, Start, PageFollowsFile
<1> QED
  BY <1>1, <1>5, <1>6 DEF FileInv

LEMMA FileStep == FileInv /\ [Next]_vars => FileInv'
<1> SUFFICES ASSUME FileInv, [Next]_vars PROVE FileInv'
  OBVIOUS
<1>0. TypeOK /\ PageToFetch /\ RowsArePrefix /\ PageFollowsFile
  BY DEF FileInv
<1>00. TypeOK' /\ PageToFetch'
  BY <1>0, TypeStep
<1>t. /\ day \in Nat /\ NDays \in Nat /\ Days = 1 .. NDays /\ day \in Days
      /\ rows \in [Days -> Seq(Nat)] /\ total \in [Days -> Nat]
      /\ page \in Seq(Nat)
      /\ \A d \in Days : Len(rows[d]) \in Nat
  BY <1>0, ExportAssumption DEF TypeOK, Days
<1> SUFFICES RowsArePrefix' /\ PageFollowsFile'
  BY <1>00 DEF FileInv
<1> USE <1>0
\* Steps after which the page at hand still stands where it stood.
<1>1. ASSUME UNCHANGED <<day, rows, total, damaged, page>>,
             pc' \in {"init", "search"} => pc \in {"init", "search"},
             pc' \in {"loop", "progress", "test"} =>
                pc \in {"loop", "progress", "test"} \/ page = NoHits,
             pc' = "fetch" => pc = "fetch"
      PROVE  RowsArePrefix' /\ PageFollowsFile'
  BY <1>1 DEF RowsArePrefix, PageFollowsFile
<1>2. CASE InitHandler
  <2>1. rows' = rows
    <3>1. rows[day] = <<>>
      BY <1>2 DEF InitHandler, PageFollowsFile
    <3>2. rows' = rows \/ rows' = [rows EXCEPT ![day] = <<>>]
      BY <1>2 DEF InitHandler
    <3>3. [rows EXCEPT ![day] = <<>>] = rows
      BY <1>t, <3>1
    <3> QED
      BY <3>2, <3>3
  <2> QED
    BY <1>1, <1>2, <2>1 DEF InitHandler
<1>3. ASSUME NEW n \in Totals, SearchOk(n)
      PROVE  RowsArePrefix' /\ PageFollowsFile'
  <2>1. n \in Nat
    BY ExportAssumption
  <2>2. rows[day] = <<>> /\ Len(rows[day]) = 0 /\ Len(rows[day]) + 1 = 1
    BY <1>3 DEF SearchOk, PageFollowsFile
  <2>3. /\ \A d \in Days : total'[d] = IF d = day THEN n ELSE total[d]
        /\ UNCHANGED <<day, rows, damaged>>
        /\ page' = PageFrom(1, n) /\ pc' = "loop"
    BY <1>3, <1>t DEF SearchOk
  <2>4. RowsArePrefix'
    <3> SUFFICES ASSUME NEW d \in Days \ damaged
                 PROVE  /\ rows[d] = [i \in 1 .. Len(rows[d]) |-> i]
                        /\ Len(rows[d]) <= total'[d]
      BY <2>3 DEF RowsArePrefix, Days
    <3> QED
      BY <2>1, <2>2, <2>3 DEF RowsArePrefix
  <2>5. total'[day] = n
    BY <1>t, <2>3
  <2>6. PageFollowsFile'
    BY <2>2, <2>3, <2>5 DEF PageFollowsFile
  <2> QED
    BY <2>4, <2>6
<1>4. CASE SearchRefused
  BY <1>4 DEF SearchRefused, RowsArePrefix, PageFollowsFile
<1>5. CASE WritePage
  <2>1. CASE UNCHANGED rows /\ damaged' = damaged \cup {day}
    BY <1>5, <2>1 DEF WritePage, RowsArePrefix, PageFollowsFile
  <2>2. CASE /\ day \notin damaged
             /\ rows' = [rows EXCEPT ![day] = @ \o page]
             /\ UNCHANGED damaged
    <3> DEFINE k == Len(rows[day])
               n == total[day]
    <3>1. page # NoHits /\ page = PageFrom(k + 1, n)
      BY <1>5, <2>2 DEF WritePage, PageFollowsFile
    <3>2. rows[day] = UpTo(k) /\ k <= n /\ k \in Nat /\ n \in Nat
      BY <1>t, <2>2 DEF RowsArePrefix, UpTo
    <3>3. /\ rows[day] \o page = UpTo(k + Len(page))
          /\ Len(rows[day] \o page) = k + Len(page)
      BY <1>t, <3>1, <3>2, AppendPage
    <3>4. /\ k + Len(page) <= n
          /\ Len(page) \in Nat \ {0}
          /\ Last(page) = k + Len(page)
      <4>1. k + Len(page) <= n /\ \A i \in 1 .. Len(page) : page[i] = k + i
        BY <3>1, <3>2, PageHits
      <4>2. Len(page) \in Nat \ {0}
        BY <1>t, <3>1, LastOfPage
      <4> QED
        BY <4>1, <4>2 DEF Last
    <3>5. /\ rows'[day] = UpTo(k + Len(page))
          /\ Len(rows'[day]) = k + Len(page)
          /\ \A d \in Days : d # day => rows'[d] = rows[d]
      BY <1>t, <2>2, <3>3
    <3>6. UNCHANGED <<day, total, page, damaged>> /\ pc' = "fetch"
      BY <1>5, <2>2 DEF WritePage
    <3> HIDE DEF k, n
    <3>7. RowsArePrefix'
      <4> SUFFICES ASSUME NEW d \in Days \ damaged
                   PROVE  /\ rows'[d] = [i \in 1 .. Len(rows'[d]) |-> i]
                          /\ Len(rows'[d]) <= total[d]
        BY <3>6 DEF RowsArePrefix, Days
      <4>1. CASE d = day
        BY <3>4, <3>5, <4>1 DEF UpTo, n
      <4>2. CASE d # day
        BY <3>5, <4>2 DEF RowsArePrefix
      <4> QED
        BY <4>1, <4>2
    <3>8. PageFollowsFile'
      <4>0. \A d \in Days : d > day => rows[d] = <<>> /\ d # day
        BY <1>t DEF PageFollowsFile
      <4>1. \A d \in Days : d > day => rows'[d] = <<>>
        BY <3>5, <4>0
      <4>2. Last(page) = Len(rows'[day])
        BY <3>4, <3>5
      <4> QED
        BY <3>6, <4>1, <4>2 DEF PageFollowsFile, Days
    <3> QED
      BY <3>7, <3>8
  <2> QED
    BY <1>5, <2>1, <2>2 DEF WritePage
<1>6. CASE FetchOk
  <2>1. RowsArePrefix'
    BY <1>6 DEF FetchOk, RowsArePrefix
  <2>2. PageFollowsFile'
    BY <1>6 DEF FetchOk, AfterFetch, PageFollowsFile
  <2> QED
    BY <2>1, <2>2
<1>7. CASE FetchRefused
  BY <1>7 DEF FetchRefused, AfterFetch, RowsArePrefix, PageFollowsFile
<1>8. CASE Close
  <2>1. UNCHANGED <<rows, total, damaged>> /\ page' = NoHits
    BY <1>8 DEF Close
  <2>2. \/ pc' \in {"threw", "returned"} /\ day' = day
        \/ pc' = "init" /\ day' = day + 1 /\ day # NDays
    BY <1>8 DEF Close
  <2>3. ASSUME pc' \in {"threw", "returned"}, day' = day
        PROVE  PageFollowsFile'
    BY <1>t, <2>1, <2>3 DEF PageFollowsFile, Days
  <2>4. ASSUME pc' = "init", day' = day + 1, day # NDays
        PROVE  PageFollowsFile'
    <3>1. day + 1 \in Days /\ day + 1 > day
      BY <1>t, <2>4
    <3>2. rows[day + 1] = <<>>
      BY <3>1 DEF PageFollowsFile
    <3>3. \A d \in Days : d > day + 1 => rows[d] = <<>>
      BY <1>t DEF PageFollowsFile
    <3> QED
      BY <2>1, <2>4, <3>2, <3>3 DEF PageFollowsFile, Days
  <2> QED
    BY <2>1, <2>2, <2>3, <2>4 DEF RowsArePrefix
<1>9. CASE LoopEnds \/ ExportOver \/ ClearScroll
  BY <1>1, <1>9 DEF LoopEnds, ExportOver, ClearScroll
<1>10. CASE \/ InitThrows \/ SearchThrows \/ WriteThrows \/ FetchThrows
            \/ LogProgress \/ NotYetAll \/ ClearThrows \/ LogTimes \/ Caught
            \/ Leaves \/ UNCHANGED vars
  BY <1>1, <1>10
  DEF InitThrows, SearchThrows, WriteThrows, FetchThrows, LogProgress, NotYetAll,
      ClearThrows, LogTimes, Caught, Leaves
<1> QED
  BY <1>2, <1>3, <1>4, <1>5, <1>6, <1>7, <1>8, <1>9, <1>10 DEF Next, Thread, Work

\* A file never skips or repeats a hit, whatever the size of the pages and
\* however the export ends.
THEOREM FilesArePrefixes == Spec => []RowsArePrefix
<1>1. FileInv => RowsArePrefix
  BY DEF FileInv
<1> QED
  BY <1>1, FileInit, FileStep, PTL DEF Spec

\* Nothing touches the file of a day that is done.
THEOREM FinishedFilesFrozen == Spec => FinishedDayFrozen
<1>1. TypeOK /\ [Next]_vars => [\A d \in 1 .. day - 1 : rows'[d] = rows[d]]_vars
  <2> SUFFICES ASSUME TypeOK, [Next]_vars, NEW d \in 1 .. day - 1
               PROVE  rows'[d] = rows[d]
    OBVIOUS
  <2>1. d # day /\ d \in Days
    BY ExportAssumption DEF TypeOK, Days
  <2>2. \/ rows' = rows
        \/ rows' = [rows EXCEPT ![day] = <<>>]
        \/ rows' = [rows EXCEPT ![day] = @ \o page]
    BY DEF Next, Thread, Work, InitHandler, InitThrows, SearchOk, SearchRefused,
       SearchThrows, WritePage, WriteThrows, LoopEnds, FetchOk, FetchRefused,
       FetchThrows, LogProgress, NotYetAll, ExportOver, ClearScroll, ClearThrows,
       LogTimes, Caught, Close, Leaves
  <2> QED
    BY <2>1, <2>2 DEF TypeOK
<1> QED
  BY <1>1, TypeCorrect, PTL DEF Spec, FinishedDayFrozen
-----------------------------------------------------------------------------
(* The first query: the handler's count is the count of its own hits *)

Sound(d) == d \notin refused \cup damaged

FirstQuery ==
    /\ day = 1 /\ pc \in {"init", "search"} => allCount = 0 /\ 1 \notin refused
    /\ day = 1 /\ Reading /\ 1 \notin damaged => allCount = Len(rows[1])
    /\ day = 1 /\ pc \in {"fetch", "progress", "test"} => allCount > 0
    /\ day = 1 /\ pc \in {"progress", "test"} =>
          pageTotal = IF 1 \in refused THEN 0 ELSE total[1]
    /\ day = 1 /\ Reading /\ 1 \in refused => pc # "fetch" /\ page = NoHits
    /\ day = 1 /\ pc \in {"loop", "progress", "test"} /\ Sound(1) =>
          page = PageFrom(Len(rows[1]) + 1, total[1])
    /\ (day > 1 \/ pc \in {"clear", "close", "returned"}) /\ Sound(1) =>
          Len(rows[1]) = total[1]
    /\ 1 \in over /\ 1 \notin damaged => Len(rows[1]) = total[1]
    /\ day = 1 /\ 1 \in over => pc \in {"clear", "caught", "close", "abort", "returned", "threw"}

LEMMA FirstStep == FileInv /\ FirstQuery /\ [Next]_vars => FirstQuery'
<1> SUFFICES ASSUME FileInv, FirstQuery, [Next]_vars PROVE FirstQuery'
  OBVIOUS
<1>t. /\ day \in Days /\ 1 \in Days /\ day \in Nat /\ day >= 1
      /\ rows \in [Days -> Seq(Nat)] /\ total \in [Days -> Nat]
      /\ page \in Seq(Nat) /\ Len(page) \in Nat
      /\ Len(rows[1]) \in Nat /\ total[1] \in Nat /\ allCount \in Nat
      /\ 1 \notin damaged => Len(rows[1]) <= total[1]
      /\ day = 1 /\ pc \in {"init", "search"} => rows[1] = <<>>
      /\ day = 1 /\ pc = "fetch" /\ 1 \notin damaged => Last(page) = Len(rows[1])
  BY ExportAssumption DEF FileInv, TypeOK, RowsArePrefix, PageFollowsFile, Days
<1> USE DEF FirstQuery, Reading, Sound
<1>1. CASE InitHandler
  <2>1. rows'[1] = rows[1]
    BY <1>1, <1>t DEF InitHandler
  <2> QED
    BY <1>1, <1>t, <2>1 DEF InitHandler
<1>2. CASE InitThrows
  BY <1>2, <1>t DEF InitThrows
<1>3. ASSUME NEW n \in Totals, SearchOk(n)
      PROVE  FirstQuery'
  <2>1. /\ day = 1 => total'[1] = n /\ Len(rows[1]) = 0 /\ Len(rows[1]) + 1 = 1
        /\ day # 1 => total'[1] = total[1]
    BY <1>3, <1>t DEF SearchOk
  <2>2. /\ pc = "search" /\ pc' = "loop" /\ page' = PageFrom(1, n)
        /\ UNCHANGED <<day, allCount, rows, damaged, over, refused>>
    BY <1>3 DEF SearchOk
  <2>3. CASE day = 1
    BY <1>t, <2>1, <2>2, <2>3
  <2>4. CASE day # 1
    BY <1>t, <2>1, <2>2, <2>4
  <2> QED
    BY <2>3, <2>4
<1>4. CASE SearchRefused
  BY <1>4, <1>t DEF SearchRefused
<1>5. CASE SearchThrows
  BY <1>5, <1>t DEF SearchThrows
<1>6. CASE WritePage
  <2>1. page # <<>> => Len(page) > 0
    BY <1>t
  <2>2. /\ day # 1 => rows'[1] = rows[1]
        /\ day = 1 /\ 1 \notin damaged' => Len(rows'[1]) = Len(rows[1]) + Len(page)
    <3>1. CASE UNCHANGED rows /\ damaged' = damaged \cup {day}
      BY <3>1
    <3>2. CASE rows' = [rows EXCEPT ![day] = @ \o page]
      BY <1>t, <3>2, ConcatProperties
    <3> QED
      BY <1>6, <3>1, <3>2 DEF WritePage
  <2>3. /\ allCount' = allCount + Len(page) /\ allCount' \in Nat /\ allCount' > 0
        /\ pc = "loop" /\ pc' = "fetch" /\ page # NoHits
        /\ UNCHANGED <<day, total, refused, over, page>>
        /\ damaged \subseteq damaged'
        /\ day # 1 => (1 \in damaged' <=> 1 \in damaged)
    BY <1>6, <1>t, <2>1 DEF WritePage
  <2>4. CASE day = 1
    BY <1>t, <2>2, <2>3, <2>4
  <2>5. CASE day # 1
    BY <1>t, <2>2, <2>3, <2>5
  <2> QED
    BY <2>4, <2>5
<1>7. CASE WriteThrows
  BY <1>7, <1>t DEF WriteThrows
<1>8. CASE LoopEnds
  <2>1. day = 1 /\ Sound(1) => Len(rows[1]) = total[1]
    BY <1>8, <1>t, PageHits DEF LoopEnds
  <2> QED
    BY <1>8, <1>t, <2>1 DEF LoopEnds
<1>9. CASE FetchOk
  BY <1>9, <1>t DEF FetchOk, AfterFetch
<1>10. CASE FetchRefused
  BY <1>10, <1>t DEF FetchRefused, AfterFetch
<1>11. CASE FetchThrows
  BY <1>11, <1>t DEF FetchThrows
<1>12. CASE LogProgress
  BY <1>12, <1>t DEF LogProgress
<1>13. CASE NotYetAll
  BY <1>13, <1>t DEF NotYetAll, AllQueried
<1>14. CASE ExportOver
  <2>1. day = 1 /\ 1 \notin damaged => Len(rows[1]) = total[1]
    BY <1>14, <1>t DEF ExportOver, AllQueried
  <2> QED
    BY <1>14, <1>t, <2>1 DEF ExportOver
<1>15. CASE ClearScroll
  BY <1>15, <1>t DEF ClearScroll
<1>16. CASE ClearThrows
  BY <1>16, <1>t DEF ClearThrows
<1>17. CASE LogTimes
  BY <1>17, <1>t DEF LogTimes
<1>18. CASE Caught
  BY <1>18, <1>t DEF Caught
<1>19. CASE Close
  BY <1>19, <1>t DEF Close
<1>20. CASE Leaves
  BY <1>20, <1>t DEF Leaves
<1>21. CASE UNCHANGED vars
  BY <1>21, <1>t
<1> QED
  BY <1>1, <1>2, <1>3, <1>4, <1>5, <1>6, <1>7, <1>8, <1>9, <1>10, <1>11, <1>12,
     <1>13, <1>14, <1>15, <1>16, <1>17, <1>18, <1>19, <1>20, <1>21
  DEF Next, Thread, Work

LEMMA FirstQueryHolds == Spec => [](FileInv /\ FirstQuery)
<1>1. Init => FirstQuery
  <2> SUFFICES ASSUME Init PROVE FirstQuery
    OBVIOUS
  <2>1. pc = "init" /\ day = 1 /\ allCount = 0 /\ over = {} /\ refused = {}
    BY DEF Init, Start
  <2> QED
    BY <2>1 DEF FirstQuery, Reading
<1> QED
  BY <1>1, FileInit, FileStep, FirstStep, PTL DEF Spec

\* An export that is not split by day and returns has written every hit of
\* its query, unless Elasticsearch answered with an error status or a write
\* failed.
THEOREM SingleExportComplete ==
    ASSUME NDays = 1
    PROVE  Spec => []ReturnedComplete
<1>1. FileInv /\ FirstQuery => ReturnedComplete
  <2> SUFFICES ASSUME FileInv, FirstQuery, NEW d \in Finished \ (refused \cup damaged)
               PROVE  Len(rows[d]) = total[d]
    BY DEF ReturnedComplete
  <2>1. day = 1
    BY DEF FileInv, TypeOK, Days
  <2>2. d = 1 /\ pc = "returned"
    BY <2>1 DEF Finished, Days
  <2> QED
    BY <2>2 DEF FirstQuery, Sound
<1> QED
  BY <1>1, FirstQueryHolds, PTL

\* Such an export says "ExportOver" only when all data has been queried.  (With
\* several days it may say so early: NDays = 1 is needed.)
THEOREM SingleExportOver ==
    ASSUME NDays = 1
    PROVE  Spec => []ExportOverMeansAll
<1>1. FileInv /\ FirstQuery => ExportOverMeansAll
  <2> SUFFICES ASSUME FileInv, FirstQuery, NEW d \in over \ damaged
               PROVE  Len(rows[d]) = total[d]
    BY DEF ExportOverMeansAll
  <2>1. d = 1
    BY DEF FileInv, TypeOK, Days
  <2> QED
    BY <2>1 DEF FirstQuery
<1> QED
  BY <1>1, FirstQueryHolds, PTL
-----------------------------------------------------------------------------
(* The scrolls *)

\* A scroll that is open belongs to the query at work, and the loop over
\* scrollIdSet has it still before it.
ScrollsHeld ==
    refused = {} =>
        /\ pc \in {"init", "search", "close", "returned"} => live = {}
        /\ Reading => \A s \in live : s[1] = day /\ \E i \in DOMAIN ids : s[2] = ids[i]
        /\ pc = "clear" => \A s \in live : /\ s[1] = day
                                           /\ \E i \in DOMAIN toClear : s[2] = toClear[i]

\* An export that returns has deleted every scroll it opened, unless
\* Elasticsearch answered a request with an error status.
THEOREM ScrollsAreReleased == Spec => []ScrollsReleased
<1>1. Init => ScrollsHeld
  BY DEF Init, Start, ScrollsHeld, Reading
<1>2. TypeOK /\ ScrollsHeld /\ [Next]_vars => ScrollsHeld'
  <2> SUFFICES ASSUME TypeOK, ScrollsHeld, [Next]_vars, refused' = {}
               PROVE  /\ pc' \in {"init", "search", "close", "returned"} => live' = {}
                      /\ Reading' => \A s \in live' : /\ s[1] = day'
                                                      /\ \E i \in DOMAIN ids' : s[2] = ids'[i]
                      /\ pc' = "clear" => \A s \in live' :
                                             /\ s[1] = day'
                                             /\ \E i \in DOMAIN toClear' : s[2] = toClear'[i]
    BY DEF ScrollsHeld
  <2>0. refused = {} /\ ids \in Seq(Nat) /\ toClear \in Seq(Nat) /\ live \subseteq Days \X Nat
    BY DEF TypeOK, Next, Thread, Work, InitHandler, InitThrows, SearchOk, SearchRefused,
       SearchThrows, WritePage, WriteThrows, LoopEnds, FetchOk, FetchRefused,
       FetchThrows, LogProgress, NotYetAll, ExportOver, ClearScroll, ClearThrows,
       LogTimes, Caught, Close, Leaves
  <2> USE <2>0 DEF ScrollsHeld, Reading
  <2>1. ASSUME NEW n \in Totals, SearchOk(n)
        PROVE  /\ pc' = "loop" /\ UNCHANGED day
               /\ live' = {<<day, 1>>} /\ ids' = <<1>>
    BY <2>1 DEF SearchOk
  <2>2. CASE FetchOk
    <3>1. CASE UNCHANGED <<ids, live>>
      BY <2>2, <3>1 DEF FetchOk, AfterFetch
    <3>2. CASE /\ ids' = Append(ids, Len(ids) + 1)
               /\ live' = live \cup {<<day, Len(ids) + 1>>}
      <4>1. /\ \A i \in DOMAIN ids : i \in DOMAIN ids' /\ ids'[i] = ids[i]
            /\ Len(ids) + 1 \in DOMAIN ids' /\ ids'[Len(ids) + 1] = Len(ids) + 1
        BY <3>2, AppendProperties
      <4>2. \A s \in live' : s[1] = day /\ \E i \in DOMAIN ids' : s[2] = ids'[i]
        BY <2>2, <3>2, <4>1 DEF FetchOk
      <4> QED
        BY <2>2, <4>2 DEF FetchOk, AfterFetch
    <3> QED
      BY <2>2, <3>1, <3>2 DEF FetchOk
  <2>3. CASE ClearScroll
    <3>1. /\ UNCHANGED <<pc, day>> /\ pc = "clear" /\ toClear # <<>>
          /\ live' = live \ {<<day, Head(toClear)>>} /\ toClear' = Tail(toClear)
      BY <2>3 DEF ClearScroll
    <3>2. ASSUME NEW s \in live'
          PROVE  s[1] = day /\ \E i \in DOMAIN toClear' : s[2] = toClear'[i]
      <4>1. s \in live /\ s # <<day, Head(toClear)>> /\ s = <<s[1], s[2]>>
        BY <3>1, <3>2
      <4>2. PICK i \in DOMAIN toClear : s[1] = day /\ s[2] = toClear[i]
        BY <3>1, <4>1
      <4>3. i # 1
        BY <4>1, <4>2
      <4>4. i - 1 \in 1 .. Len(Tail(toClear)) /\ Tail(toClear)[i - 1] = toClear[i]
        BY <3>1, <4>2, <4>3
      <4> QED
        BY <3>1, <4>2, <4>4
    <3> QED
      BY <3>1, <3>2
  <2>4. CASE LoopEnds \/ ExportOver
    BY <2>4 DEF LoopEnds, ExportOver, ToDelete
  <2>5. CASE LogTimes
    <3>1. live = {}
      BY <2>5 DEF LogTimes
    <3> QED
      BY <2>5, <3>1 DEF LogTimes
  <2>6. CASE Close
    BY <2>6 DEF Close
  <2>7. CASE \/ InitHandler \/ InitThrows \/ SearchThrows \/ WritePage \/ WriteThrows
             \/ FetchThrows \/ LogProgress \/ NotYetAll \/ ClearThrows
             \/ Caught \/ Leaves \/ UNCHANGED vars
    BY <2>7 DEF InitHandler, InitThrows, SearchThrows, WritePage, WriteThrows,
       FetchThrows, LogProgress, NotYetAll, ClearThrows, Caught, Leaves
  <2>8. CASE SearchRefused \/ FetchRefused
    BY <2>8 DEF SearchRefused, FetchRefused
  <2> QED
    BY <2>1, <2>2, <2>3, <2>4, <2>5, <2>6, <2>7, <2>8 DEF Next, Thread, Work
<1>3. ScrollsHeld => ScrollsReleased
  BY DEF ScrollsHeld, ScrollsReleased
<1> QED
  BY <1>1, <1>2, <1>3, TypeCorrect, PTL DEF Spec
-----------------------------------------------------------------------------
(* The count of the handler, which runs on from query to query *)

LinesIn(r, d) == UNION {{e} \X DOMAIN r[e] : e \in 1 .. d}

\* The files of the first d queries hold as many lines as those of the first
\* d - 1 and the file of d together.
LEMMA LinesAdd ==
    ASSUME NEW r \in [Days -> Seq(Nat)], NEW d \in Days
    PROVE  /\ Cardinality(LinesIn(r, 0)) = 0
           /\ Cardinality(LinesIn(r, d - 1)) \in Nat
           /\ Cardinality(LinesIn(r, d)) = Cardinality(LinesIn(r, d - 1)) + Len(r[d])
<1>0. /\ NDays \in Nat /\ Days = 1 .. NDays /\ d \in Nat /\ d - 1 \in Nat
      /\ \A e \in Days : Len(r[e]) \in Nat /\ DOMAIN r[e] = 1 .. Len(r[e])
  BY ExportAssumption DEF Days
<1>1. IsFiniteSet(LinesIn(r, d - 1))
  <2> DEFINE Of(e) == {e} \X DOMAIN r[e]
             S == {Of(e) : e \in 1 .. d - 1}
             f == [e \in 1 .. d - 1 |-> Of(e)]
  <2>1. IsFiniteSet(1 .. d - 1)
    BY <1>0, FS_Interval
  <2>2. f \in Surjection(1 .. d - 1, S)
    BY DEF Surjection
  <2>3. IsFiniteSet(S)
    <3> HIDE DEF f, S
    <3> QED
      BY <2>1, <2>2, FS_Surjection
  <2>4. \A T \in S : IsFiniteSet(T)
    <3> SUFFICES ASSUME NEW e \in 1 .. d - 1 PROVE IsFiniteSet(Of(e))
      OBVIOUS
    <3>1. 1 \in Int /\ Len(r[e]) \in Int /\ DOMAIN r[e] = 1 .. Len(r[e])
      BY <1>0
    <3>2. IsFiniteSet(1 .. Len(r[e]))
      BY <3>1, FS_Interval
    <3>3. IsFiniteSet({e})
      BY FS_Singleton
    <3>4. IsFiniteSet(DOMAIN r[e])
      BY <3>1, <3>2
    <3> QED
      BY <3>3, <3>4, FS_Product
  <2>5. LinesIn(r, d - 1) = UNION S
    BY DEF LinesIn
  <2> HIDE DEF S
  <2> QED
    BY <2>3, <2>4, <2>5, FS_UNION
<1>2. Cardinality(LinesIn(r, d - 1)) \in Nat
  BY <1>1, FS_CardinalityType
<1>3. /\ IsFiniteSet({d} \X DOMAIN r[d])
      /\ Cardinality({d} \X DOMAIN r[d]) = Len(r[d])
  <2>1. IsFiniteSet({d}) /\ Cardinality({d}) = 1
    BY FS_Singleton
  <2>2. IsFiniteSet(DOMAIN r[d]) /\ Cardinality(DOMAIN r[d]) = Len(r[d])
    <3>0. 1 \in Int /\ Len(r[d]) \in Int /\ Len(r[d]) \in Nat /\ DOMAIN r[d] = 1 .. Len(r[d])
      BY <1>0
    <3>1. /\ IsFiniteSet(1 .. Len(r[d]))
          /\ Cardinality(1 .. Len(r[d])) = IF 1 > Len(r[d]) THEN 0 ELSE Len(r[d]) - 1 + 1
      BY <3>0, FS_Interval
    <3> QED
      BY <3>0, <3>1
  <2>3. /\ IsFiniteSet({d} \X DOMAIN r[d])
        /\ Cardinality({d} \X DOMAIN r[d]) = Cardinality({d}) * Cardinality(DOMAIN r[d])
    BY <2>1, <2>2, FS_Product
  <2> QED
    BY <1>0, <2>1, <2>2, <2>3
<1>4. LinesIn(r, d) = LinesIn(r, d - 1) \cup ({d} \X DOMAIN r[d])
  <2>1. \A e : e \in 1 .. d <=> e \in 1 .. d - 1 \/ e = d
    BY <1>0
  <2> QED
    BY <2>1 DEF LinesIn
<1>5. LinesIn(r, d - 1) \cap ({d} \X DOMAIN r[d]) = {}
  <2>1. d \notin 1 .. d - 1
    BY <1>0
  <2> QED
    BY <2>1 DEF LinesIn
<1>6. Cardinality(LinesIn(r, d)) = Cardinality(LinesIn(r, d - 1)) + Len(r[d]) - 0
  <2> DEFINE A == LinesIn(r, d - 1)
             C == {d} \X DOMAIN r[d]
  <2>1. IsFiniteSet(A) /\ IsFiniteSet(C) /\ A \cap C = {} /\ LinesIn(r, d) = A \cup C
    BY <1>1, <1>3, <1>4, <1>5
  <2> HIDE DEF A, C
  <2>2. Cardinality(A \cup C) = Cardinality(A) + Cardinality(C) - Cardinality(A \cap C)
    BY <2>1, FS_Union
  <2>3. Cardinality(A \cap C) = 0
    BY <2>1, FS_EmptySet
  <2> QED
    BY <1>3, <2>1, <2>2, <2>3 DEF A, C
<1>7. Cardinality(LinesIn(r, 0)) = 0
  <2>1. LinesIn(r, 0) = {}
    BY DEF LinesIn
  <2> QED
    BY <2>1, FS_EmptySet
<1> QED
  BY <1>0, <1>2, <1>6, <1>7

Written(d) == Cardinality(LinesIn(rows, d))

\* The handler has counted the lines of all files so far, and the page at hand
\* is empty only when the query is exhausted.
CountInv ==
    /\ \A d \in refused : d <= day
    /\ pc \in {"init", "search"} => day \notin refused
    /\ Reading /\ day \in refused => pc # "fetch" /\ page = NoHits
    /\ pc \in {"loop", "progress", "test"} /\ Sound(day) =>
          page = PageFrom(Len(rows[day]) + 1, total[day])
    /\ pc \in {"progress", "test"} =>
          pageTotal = IF day \in refused THEN 0 ELSE total[day]
    /\ damaged = {} /\ pc \notin {"caught", "abort", "threw"} => allCount = Written(day)
    /\ pc = "returned" => day = NDays
    /\ damaged = {} => \A d \in Days \ refused :
          d < day \/ (d = day /\ pc \in {"clear", "close", "returned"}) =>
             Len(rows[d]) = total[d] \/ Written(d) = total[d]

LEMMA CountHolds == Spec => [](FileInv /\ CountInv)
<1>1. Init => CountInv
  <2> SUFFICES ASSUME Init PROVE CountInv
    OBVIOUS
  <2>1. /\ pc = "init" /\ day = 1 /\ allCount = 0 /\ refused = {} /\ 1 \in Days
        /\ rows = [d \in Days |-> <<>>]
    BY ExportAssumption DEF Init, Start, Days
  <2>2. \A d \in Days : ~(d < 1)
    BY ExportAssumption DEF Days
  <2>3. Written(1) = 0
    <3>1. rows \in [Days -> Seq(Nat)] /\ Len(rows[1]) = 0
      BY <2>1
    <3>2. Cardinality(LinesIn(rows, 1)) = Cardinality(LinesIn(rows, 1 - 1)) + Len(rows[1])
      BY <2>1, <3>1, LinesAdd
    <3>3. Cardinality(LinesIn(rows, 0)) = 0
      BY <2>1, <3>1, LinesAdd
    <3> QED
      BY <3>1, <3>2, <3>3 DEF Written
  <2> QED
    BY <2>1, <2>2, <2>3 DEF CountInv, Reading
<1>2. FileInv /\ CountInv /\ [Next]_vars => CountInv'
  <2> SUFFICES ASSUME FileInv, CountInv, [Next]_vars PROVE CountInv'
    OBVIOUS
  <2>t. /\ day \in Days /\ day \in Nat /\ day >= 1 /\ NDays \in Nat /\ Days = 1 .. NDays
        /\ rows \in [Days -> Seq(Nat)] /\ total \in [Days -> Nat]
        /\ page \in Seq(Nat) /\ Len(page) \in Nat
        /\ \A d \in Days : Len(rows[d]) \in Nat /\ total[d] \in Nat
        /\ allCount \in Nat /\ refused \subseteq Days
        /\ day \notin damaged => Len(rows[day]) <= total[day]
        /\ pc \in {"init", "search"} => rows[day] = <<>>
        /\ pc = "fetch" /\ day \notin damaged => Last(page) = Len(rows[day])
        /\ \A d \in Days : d > day => rows[d] = <<>>
    BY ExportAssumption DEF FileInv, TypeOK, RowsArePrefix, PageFollowsFile, Days
  <2> USE DEF CountInv, Reading, Sound, Written
  <2>2. CASE InitHandler
    <3>1. rows' = rows
      <4>1. rows' = rows \/ rows' = [rows EXCEPT ![day] = <<>>]
        BY <2>2 DEF InitHandler
      <4>2. [rows EXCEPT ![day] = <<>>] = rows
        BY <2>2, <2>t DEF InitHandler
      <4> QED
        BY <4>1, <4>2
    <3> QED
      BY <2>2, <2>t, <3>1 DEF InitHandler
  <2>3. CASE InitThrows
    BY <2>3, <2>t DEF InitThrows
  <2>4. ASSUME NEW n \in Totals, SearchOk(n)
        PROVE  CountInv'
    <3>1. /\ \A d \in Days : total'[d] = IF d = day THEN n ELSE total[d]
          /\ UNCHANGED <<day, rows, damaged, refused, allCount>>
          /\ pc = "search" /\ page' = PageFrom(1, n) /\ pc' = "loop"
      BY <2>4, <2>t DEF SearchOk
    <3>2. Len(rows[day]) + 1 = 1 /\ total'[day] = n
      <4>1. rows[day] = <<>> /\ Len(<<>>) = 0
        BY <2>t, <3>1
      <4> QED
        BY <2>t, <3>1, <4>1
    <3>3. \A d \in Days : d < day => total'[d] = total[d]
      <4>1. \A d \in Days : d < day => d # day
        BY <2>t
      <4> QED
        BY <3>1, <4>1
    <3> QED
      BY <2>t, <3>1, <3>2, <3>3
  <2>5. CASE SearchRefused
    <3>1. /\ pc = "search" /\ pc' = "loop" /\ page' = NoHits
          /\ refused' = refused \cup {day}
          /\ UNCHANGED <<day, rows, total, damaged, allCount>>
      BY <2>5 DEF SearchRefused
    <3>2. \A d \in refused' : d <= day
      BY <2>t, <3>1
    <3> QED
      BY <2>t, <3>1, <3>2
  <2>6. CASE SearchThrows
    BY <2>6, <2>t DEF SearchThrows
  <2>7. CASE WritePage
    <3>0. /\ pc = "loop" /\ pc' = "fetch" /\ page # NoHits
          /\ allCount' = allCount + Len(page)
          /\ UNCHANGED <<day, total, refused>>
          /\ damaged \subseteq damaged'
          /\ damaged' = {} => rows' = [rows EXCEPT ![day] = @ \o page]
      BY <2>7 DEF WritePage
    <3>1. ASSUME damaged' = {}
          PROVE  /\ Written(day)' = Written(day) + Len(page)
                 /\ \A d \in Days : d < day => rows'[d] = rows[d] /\ Written(d)' = Written(d)
      <4>0. rows[day] \o page \in Seq(Nat)
        BY <2>t
      <4>1. /\ rows' \in [Days -> Seq(Nat)]
            /\ rows'[day] = rows[day] \o page
            /\ \A d \in Days : d # day => rows'[d] = rows[d]
        BY <2>t, <3>0, <3>1, <4>0
      <4>2. Len(rows'[day]) = Len(rows[day]) + Len(page)
        BY <2>t, <4>1, ConcatProperties
      <4>3. \A d \in 0 .. day - 1 : LinesIn(rows', d) = LinesIn(rows, d)
        <5> SUFFICES ASSUME NEW d \in 0 .. day - 1, NEW e \in 1 .. d
                     PROVE  rows'[e] = rows[e]
          BY DEF LinesIn
        <5> QED
          BY <2>t, <4>1
      <4>4. LinesIn(rows', day - 1) = LinesIn(rows, day - 1)
        BY <2>t, <4>3
      <4>5. /\ Cardinality(LinesIn(rows', day)) =
                  Cardinality(LinesIn(rows', day - 1)) + Len(rows'[day])
            /\ Cardinality(LinesIn(rows, day)) =
                  Cardinality(LinesIn(rows, day - 1)) + Len(rows[day])
            /\ Cardinality(LinesIn(rows, day - 1)) \in Nat
        BY <2>t, <4>1, LinesAdd
      <4>6. /\ \A d : Written(d) = Cardinality(LinesIn(rows, d))
            /\ \A d : Written(d)' = Cardinality(LinesIn(rows', d))
        BY DEF Written
      <4>7. \A d \in Days : d < day => d \in 0 .. day - 1 /\ d # day
        BY <2>t
      <4>8. Cardinality(LinesIn(rows', day)) = Cardinality(LinesIn(rows, day)) + Len(page)
        <5>1. \A a, b, c, x, y \in Nat : y = b + c /\ x = a + y => x = (a + b) + c
          OBVIOUS
        <5> QED
          BY <2>t, <4>2, <4>4, <4>5
      <4> QED
        BY <3>0, <4>1, <4>3, <4>6, <4>7, <4>8
    <3> QED
      BY <2>t, <3>0, <3>1
  <2>8. CASE WriteThrows
    BY <2>8, <2>t DEF WriteThrows
  <2>9. CASE LoopEnds
    <3>1. Sound(day) => Len(rows[day]) = total[day]
      BY <2>9, <2>t, PageHits DEF LoopEnds
    <3> QED
      BY <2>9, <2>t, <3>1 DEF LoopEnds
  <2>10. CASE FetchOk
    BY <2>10, <2>t DEF FetchOk, AfterFetch
  <2>11. CASE FetchRefused
    BY <2>11, <2>t DEF FetchRefused, AfterFetch
  <2>12. CASE FetchThrows \/ Caught
    BY <2>12, <2>t DEF FetchThrows, Caught
  <2>13. CASE LogProgress
    BY <2>13, <2>t DEF LogProgress
  <2>14. CASE NotYetAll
    BY <2>14, <2>t DEF NotYetAll, AllQueried
  <2>15. CASE ExportOver
    BY <2>15, <2>t DEF ExportOver, AllQueried
  <2>16. CASE ClearScroll
    <3>1. /\ pc = "clear" /\ pc' = pc
          /\ refused' = refused \/ refused' = refused \cup {day}
          /\ UNCHANGED <<day, rows, total, damaged, allCount>>
      BY <2>16 DEF ClearScroll
    <3>2. \A d \in refused' : d <= day
      <4>1. \A d \in refused \cup {day} : d <= day
        BY <2>t
      <4> QED
        BY <3>1, <4>1
    <3> QED
      BY <2>t, <3>1, <3>2
  <2>17. CASE ClearThrows \/ LogTimes
    BY <2>17, <2>t DEF ClearThrows, LogTimes
  <2>18. CASE Close
    <3>1. UNCHANGED <<rows, total, damaged, refused, allCount>>
      BY <2>18 DEF Close
    <3>2. \/ pc' = "threw" /\ day' = day
          \/ pc' = "returned" /\ pc = "close" /\ day' = day /\ day = NDays
          \/ pc' = "init" /\ pc = "close" /\ day' = day + 1 /\ day # NDays
      BY <2>18 DEF Close
    <3>3. CASE pc' = "threw" /\ day' = day
      BY <2>t, <3>1, <3>3
    <3>4. CASE pc' = "returned" /\ pc = "close" /\ day' = day /\ day = NDays
      BY <2>t, <3>1, <3>4
    <3>5. CASE pc' = "init" /\ pc = "close" /\ day' = day + 1 /\ day # NDays
      <4>1. day + 1 \in Days /\ Len(rows[day + 1]) = 0 /\ (day + 1) - 1 = day
        BY <2>t, <3>5
      <4>2. /\ Cardinality(LinesIn(rows, day + 1)) =
                  Cardinality(LinesIn(rows, (day + 1) - 1)) + Len(rows[day + 1])
            /\ Cardinality(LinesIn(rows, (day + 1) - 1)) \in Nat
        BY <2>t, <4>1, LinesAdd
      <4>3. Cardinality(LinesIn(rows, day + 1)) = Cardinality(LinesIn(rows, day))
        BY <4>1, <4>2
      <4>4. Written(day)' = Written(day)
        BY <3>1, <3>5, <4>3
      <4>5. \A d \in Days : d < day + 1 => d < day \/ d = day
        BY <2>t
      <4>6. \A d \in refused : d <= day + 1 /\ d # day + 1
        BY <2>t
      <4> QED
        BY <2>t, <3>1, <3>5, <4>4, <4>5, <4>6
    <3> QED
      BY <3>2, <3>3, <3>4, <3>5
  <2>19. CASE Leaves \/ UNCHANGED vars
    BY <2>19, <2>t DEF Leaves
  <2> QED
    BY <2>2, <2>3, <2>4, <2>5, <2>6, <2>7, <2>8, <2>9, <2>10, <2>11, <2>12,
       <2>13, <2>14, <2>15, <2>16, <2>17, <2>18, <2>19 DEF Next, Thread, Work
<1> QED
  BY <1>1, <1>2, FileInit, FileStep, PTL DEF Spec

\* A query is cut short only when the count that runs on from the queries
\* before it happens to meet its total.
THEOREM ShortByCoincidence == Spec => []ShortOnlyByCoincidence
<1>1. FileInv /\ CountInv => ShortOnlyByCoincidence
  <2> SUFFICES ASSUME FileInv, CountInv, NEW d \in Finished \ refused,
                      damaged = {}, Len(rows[d]) < total[d]
               PROVE  Written(d) = total[d]
    BY DEF ShortOnlyByCoincidence, RowsUpTo, LinesUpTo, LinesIn, Written
  <2>1. /\ d \in Days /\ Len(rows[d]) \in Nat /\ total[d] \in Nat
        /\ d < day \/ (d = day /\ pc = "returned")
    <3>0. day \in 1 .. NDays /\ NDays \in Nat
      BY ExportAssumption DEF FileInv, TypeOK, Days
    <3>1. CASE pc = "returned"
      <4>1. d \in Days /\ day = NDays
        BY <3>1 DEF Finished, CountInv
      <4> QED
        BY <3>0, <3>1, <4>1 DEF FileInv, TypeOK, Days
    <3>2. CASE pc # "returned"
      BY <3>0, <3>2 DEF FileInv, TypeOK, Days, Finished
    <3> QED
      BY <3>1, <3>2
  <2> QED
    BY <2>1 DEF CountInv
<1> QED
  BY <1>1, CountHolds, PTL

\* The count a returned export reports is the number of lines it wrote.
THEOREM CountIsLinesWritten == Spec => []CountIsRows
<1>1. CountInv => CountIsRows
  BY DEF CountInv, CountIsRows, RowsUpTo, LinesUpTo, LinesIn, Written
<1> QED
  BY <1>1, CountHolds, PTL
-----------------------------------------------------------------------------
(* The export comes nearer to its end *)

\* While a query is read, the page at hand, if it has hits, lies within the
\* snapshot.
PageInSnapshot ==
    Reading /\ page # NoHits =>
        /\ Head(page) \in 1 .. total[day]
        /\ Last(page) \in Head(page) .. total[day]

LEMMA PageEnds ==
    ASSUME NEW k \in Nat, NEW n \in Nat, k <= n, PageFrom(k + 1, n) # NoHits
    PROVE  /\ Head(PageFrom(k + 1, n)) = k + 1
           /\ Last(PageFrom(k + 1, n)) \in k + 1 .. n
<1> DEFINE p == PageFrom(k + 1, n)
<1>1. /\ p \in Seq(Nat) /\ p # <<>> /\ k + Len(p) <= n
      /\ \A i \in 1 .. Len(p) : p[i] = k + i
  BY PageHits
<1> HIDE DEF p
<1>2. Len(p) \in Nat \ {0}
  BY <1>1
<1>3. p[1] = k + 1 /\ p[Len(p)] = k + Len(p)
  BY <1>1, <1>2
<1>4. Head(p) = p[1] /\ Last(p) = p[Len(p)]
  BY <1>1 DEF Last
<1>5. Head(p) = k + 1 /\ Last(p) \in k + 1 .. n
  BY <1>1, <1>2, <1>3, <1>4
<1> QED
  BY <1>5 DEF p

\* A page fetched lies behind the one before it.
LEMMA FetchedPage ==
    ASSUME TypeOK, PageToFetch, PageInSnapshot, FetchOk
    PROVE  /\ Head(page) \in 1 .. total[day]
           /\ page' # NoHits => /\ Head(page') \in Head(page) + 1 .. total[day]
                                /\ Last(page') \in Head(page') .. total[day]
<1> DEFINE k == Last(page) n == total[day]
<1>1. page # NoHits /\ page' = PageFrom(k + 1, n)
  BY DEF FetchOk, PageToFetch
<1>2. Head(page) \in 1 .. n /\ k \in Head(page) .. n
  BY <1>1 DEF PageInSnapshot, FetchOk, Reading
<1>3. n \in Nat
  BY DEF TypeOK
<1> HIDE DEF k, n
<1>4. k \in Nat /\ k <= n
  BY <1>2, <1>3
<1>5. ASSUME page' # NoHits
      PROVE  Head(page') = k + 1 /\ Last(page') \in k + 1 .. n
  BY <1>1, <1>3, <1>4, <1>5, PageEnds
<1>6. page' # NoHits => /\ Head(page') \in Head(page) + 1 .. n
                        /\ Last(page') \in Head(page') .. n
  BY <1>2, <1>3, <1>4, <1>5
<1> QED
  BY <1>2, <1>6 DEF n

LEMMA PageInSnapshotStep ==
    TypeOK /\ PageToFetch /\ PageInSnapshot /\ [Next]_vars => PageInSnapshot'
<1> SUFFICES ASSUME TypeOK, PageToFetch, PageInSnapshot, [Next]_vars
             PROVE  PageInSnapshot'
  OBVIOUS
<1>1. ASSUME UNCHANGED <<page, total, day>>, Reading' => Reading
      PROVE  PageInSnapshot'
  BY <1>1 DEF PageInSnapshot
<1>2. CASE ~Reading' \/ page' = NoHits
  BY <1>2 DEF PageInSnapshot
<1>3. ASSUME NEW n \in Totals, SearchOk(n)
      PROVE  PageInSnapshot'
  <2>1. n \in Nat /\ total'[day'] = n /\ page' = PageFrom(0 + 1, n)
    BY <1>3, ExportAssumption DEF SearchOk, TypeOK
  <2>2. page' # NoHits => Head(page') = 0 + 1 /\ Last(page') \in 0 + 1 .. n
    <3>1. 0 <= n
      BY <2>1
    <3> QED
      BY <2>1, <3>1, PageEnds
  <2>3. page' # NoHits => Head(page') \in 1 .. n /\ Last(page') \in Head(page') .. n
    BY <2>1, <2>2
  <2> QED
    BY <2>1, <2>3 DEF PageInSnapshot
<1>4. CASE FetchOk
  <2>1. total' = total /\ day' = day
    BY <1>4 DEF FetchOk
  <2>2. total[day] \in Nat
    BY DEF TypeOK
  <2>3. page' # NoHits => /\ Head(page') \in 1 .. total[day]
                          /\ Last(page') \in Head(page') .. total[day]
    <3>1. /\ Head(page) \in 1 .. total[day]
          /\ page' # NoHits => /\ Head(page') \in Head(page) + 1 .. total[day]
                               /\ Last(page') \in Head(page') .. total[day]
      BY <1>4, FetchedPage
    <3> QED
      BY <2>2, <3>1
  <2> QED
    BY <2>1, <2>3 DEF PageInSnapshot
<1>5. CASE InitHandler \/ InitThrows \/ SearchThrows \/ WriteThrows \/ LoopEnds
           \/ FetchThrows \/ ExportOver \/ ClearScroll \/ ClearThrows \/ LogTimes
           \/ Caught \/ Close
  BY <1>2, <1>5
  DEF Reading, InitHandler, InitThrows, SearchThrows, WriteThrows, LoopEnds,
      FetchThrows, ExportOver, ClearScroll, ClearThrows, LogTimes, Caught, Close
<1>6. CASE SearchRefused \/ FetchRefused
  BY <1>2, <1>6 DEF SearchRefused, FetchRefused
<1>7. CASE WritePage \/ LogProgress \/ NotYetAll \/ Leaves \/ UNCHANGED vars
  BY <1>1, <1>7 DEF Reading, WritePage, LogProgress, NotYetAll, Leaves
<1> QED
  BY <1>3, <1>4, <1>5, <1>6, <1>7 DEF Next, Thread, Work

\* Whatever Elasticsearch answers, each step of an export of any number of
\* days, hits and pages leads it nearer to its end.
THEOREM ExportGetsNearer == Spec => EveryStepGetsNearer
<1> DEFINE Inv == TypeOK /\ PageToFetch /\ PageInSnapshot
           Measured == {Stage, HitsLeft, InStage} \subseteq Nat
<1>1. Init => PageInSnapshot
  BY DEF Init, Start, PageInSnapshot, Reading
<1>2. Inv => Measured
  <2> SUFFICES ASSUME Inv PROVE Measured
    OBVIOUS
  <2>1. Stage \in Nat /\ InStage \in Nat
    BY DEF TypeOK, Stage, InStage, Reading
  <2>2. HitsLeft \in Nat
    BY DEF TypeOK, HitsLeft, PageInSnapshot
  <2> QED
    BY <2>1, <2>2
<1>3. ASSUME Inv, Thread
      PROVE  Nearer
  <2>0. /\ day \in Nat
        /\ pc \in {"init", "search", "loop", "fetch", "progress", "test", "clear",
                   "close", "caught", "abort", "returned", "threw"}
    BY <1>3 DEF TypeOK, Days
  <2>1. /\ pc = "init" => Stage = 7
        /\ pc = "search" => Stage = 6
        /\ Reading => Stage = 5
        /\ pc = "clear" => Stage = 4
        /\ pc = "close" => Stage = 3
        /\ pc = "caught" => Stage = 2
        /\ pc = "abort" => Stage = 1
        /\ pc \in {"returned", "threw"} => Stage = 0
    BY DEF Stage, Reading
  <2>2. /\ Reading' => Stage' = 5
        /\ pc' = "search" => Stage' = 6
        /\ pc' = "clear" => Stage' = 4
        /\ pc' = "close" => Stage' = 3
        /\ pc' = "caught" => Stage' = 2
        /\ pc' = "abort" => Stage' = 1
        /\ pc' \in {"returned", "threw"} => Stage' = 0
    BY DEF Stage, Reading
  <2>3. /\ pc = "progress" => InStage = 3
        /\ pc = "test" => InStage = 2
        /\ pc = "loop" => InStage = 1
        /\ pc = "fetch" => InStage = 0
        /\ pc = "clear" => InStage = Len(toClear)
    BY DEF InStage
  <2>4. /\ pc' = "test" => InStage' = 2
        /\ pc' = "loop" => InStage' = 1
        /\ pc' = "fetch" => InStage' = 0
        /\ pc' = "clear" => InStage' = Len(toClear')
    BY DEF InStage
  <2>5. ASSUME day' = day, Stage' < Stage
        PROVE  Nearer
    BY <2>5 DEF Nearer
  <2>6. CASE InitHandler \/ InitThrows
    <3>1. day' = day /\ pc = "init" /\ pc' \in {"search", "threw"}
      BY <2>6 DEF InitHandler, InitThrows
    <3> QED
      BY <2>1, <2>2, <2>5, <3>1
  <2>7. ASSUME pc = "search", day' = day, pc' \in {"loop", "caught"}
        PROVE  Nearer
    <3>1. Stage = 6 /\ Stage' \in {5, 2}
      BY <2>1, <2>2, <2>7 DEF Reading
    <3> QED
      BY <2>5, <2>7, <3>1
  <2>8. CASE SearchRefused \/ SearchThrows \/ \E n \in Totals : SearchOk(n)
    BY <2>7, <2>8 DEF SearchRefused, SearchThrows, SearchOk
  <2>9. ASSUME Reading, day' = day, pc' \in {"clear", "caught"}
        PROVE  Nearer
    <3>1. Stage = 5 /\ Stage' \in {4, 2}
      BY <2>1, <2>2, <2>9
    <3> QED
      BY <2>5, <2>9, <3>1
  <2>10. CASE WriteThrows \/ LoopEnds \/ FetchThrows \/ ExportOver
    BY <2>9, <2>10 DEF WriteThrows, LoopEnds, FetchThrows, ExportOver, Reading
  \* The page stays at hand.
  <2>11. ASSUME Reading, Reading', UNCHANGED <<day, page, total>>,
                InStage' < InStage
         PROVE  Nearer
    <3>1. HitsLeft' = HitsLeft
      BY <2>11 DEF HitsLeft
    <3>2. Stage' = Stage
      BY <2>1, <2>2, <2>11
    <3> QED
      BY <2>11, <3>1, <3>2 DEF Nearer
  <2>12. CASE WritePage
    <3>1. pc = "loop" /\ pc' = "fetch" /\ UNCHANGED <<day, page, total>>
      BY <2>12 DEF WritePage
    <3>2. Reading /\ Reading' /\ InStage' < InStage
      BY <2>3, <2>4, <3>1 DEF Reading
    <3> QED
      BY <2>11, <3>1, <3>2
  <2>13. CASE NotYetAll
    <3>1. pc = "test" /\ pc' = "loop" /\ UNCHANGED <<day, page, total>>
      BY <2>13 DEF NotYetAll
    <3>2. Reading /\ Reading' /\ InStage' < InStage
      BY <2>3, <2>4, <3>1 DEF Reading
    <3> QED
      BY <2>11, <3>1, <3>2
  <2>14. CASE LogProgress
    <3>1. /\ pc = "progress" /\ pc' \in {"test", "caught"}
          /\ UNCHANGED <<day, page, total>>
      BY <2>14 DEF LogProgress
    <3>2. CASE pc' = "test"
      <4>1. Reading /\ Reading' /\ InStage' < InStage
        BY <2>3, <2>4, <3>1, <3>2 DEF Reading
      <4> QED
        BY <2>11, <3>1, <4>1
    <3>3. CASE pc' = "caught"
      BY <2>9, <3>1, <3>3 DEF Reading
    <3> QED
      BY <3>1, <3>2, <3>3
  \* The page is behind.
  <2>15. ASSUME Reading, Reading', UNCHANGED <<day, total>>,
                page # NoHits,
                Head(page) \in 1 .. total[day],
                page' # NoHits => Head(page') \in Head(page) + 1 .. total[day]
         PROVE  Nearer
    <3>1. HitsLeft = total[day] - Head(page) + 1
      BY <2>15 DEF HitsLeft
    <3>2. HitsLeft' = IF page' # NoHits THEN total[day] - Head(page') + 1 ELSE 0
      BY <2>15 DEF HitsLeft
    <3>3. total[day] \in Nat
      BY <1>3 DEF TypeOK
    <3>4. HitsLeft' < HitsLeft
      <4>1. CASE page' # NoHits
        BY <2>15, <3>1, <3>2, <3>3, <4>1
      <4>2. CASE page' = NoHits
        BY <2>15, <3>1, <3>2, <3>3, <4>2
      <4> QED
        BY <4>1, <4>2
    <3>5. Stage' = Stage
      BY <2>1, <2>2, <2>15
    <3> QED
      BY <2>15, <3>4, <3>5 DEF Nearer
  <2>16. ASSUME pc = "fetch", pc' = AfterFetch
         PROVE  Reading /\ Reading'
    BY <2>16 DEF Reading, AfterFetch
  <2>17. CASE FetchOk
    <3>1. /\ pc = "fetch" /\ pc' = AfterFetch /\ UNCHANGED <<day, total>>
          /\ page # NoHits
      BY <1>3, <2>17 DEF FetchOk, PageToFetch
    <3>2. /\ Head(page) \in 1 .. total[day]
          /\ page' # NoHits => Head(page') \in Head(page) + 1 .. total[day]
      BY <1>3, <2>17, FetchedPage
    <3>3. Reading /\ Reading'
      BY <2>16, <3>1
    <3> QED
      BY <2>15, <3>1, <3>2, <3>3
  <2>18. CASE FetchRefused
    <3>1. /\ pc = "fetch" /\ pc' = AfterFetch /\ UNCHANGED <<day, total>>
          /\ page # NoHits /\ page' = NoHits
      BY <1>3, <2>18 DEF FetchRefused, PageToFetch
    <3>2. Reading /\ Reading'
      BY <2>16, <3>1
    <3>3. Head(page) \in 1 .. total[day]
      BY <1>3, <3>1, <3>2 DEF PageInSnapshot
    <3> QED
      BY <2>15, <3>1, <3>2, <3>3
  <2>19. CASE ClearScroll
    <3>1. /\ pc = "clear" /\ pc' = "clear" /\ day' = day
          /\ toClear # <<>> /\ toClear' = Tail(toClear) /\ toClear \in Seq(Nat)
      BY <1>3, <2>19 DEF ClearScroll, TypeOK
    <3>2. InStage' < InStage
      <4>1. Len(toClear') = Len(toClear) - 1 /\ Len(toClear) \in Nat
        BY <3>1, HeadTailProperties
      <4> QED
        BY <2>3, <2>4, <3>1, <4>1
    <3>3. HitsLeft' = HitsLeft
      BY <3>1 DEF HitsLeft, Reading
    <3>4. Stage' = Stage
      BY <2>1, <2>2, <3>1
    <3> QED
      BY <3>1, <3>2, <3>3, <3>4 DEF Nearer
  <2>20. CASE ClearThrows \/ LogTimes
    <3>1. pc = "clear" /\ pc' \in {"caught", "close"} /\ day' = day
      BY <2>20 DEF ClearThrows, LogTimes
    <3> QED
      BY <2>1, <2>2, <2>5, <3>1
  <2>21. CASE Caught
    <3>1. pc = "caught" /\ pc' = "abort" /\ day' = day
      BY <2>21 DEF Caught
    <3> QED
      BY <2>1, <2>2, <2>5, <3>1
  <2>22. CASE Close
    <3>1. /\ pc \in {"close", "abort"}
          /\ \/ pc' \in {"returned", "threw"} /\ day' = day
             \/ pc' = "init" /\ day' = day + 1
      BY <2>22 DEF Close
    <3>2. CASE pc' \in {"returned", "threw"} /\ day' = day
      BY <2>1, <2>2, <2>5, <3>1, <3>2
    <3>3. CASE day' = day + 1
      BY <2>0, <3>3 DEF Nearer
    <3> QED
      BY <3>1, <3>2, <3>3
  <2> QED
    BY <1>3, <2>6, <2>8, <2>10, <2>12, <2>13, <2>14, <2>17, <2>18, <2>19, <2>20,
       <2>21, <2>22 DEF Thread, Work
<1>4. Inv /\ Inv' /\ [Next]_vars
      => [Thread => Nearer /\ {Stage', HitsLeft', InStage'} \subseteq Nat]_vars
  <2>1. Inv' => {Stage', HitsLeft', InStage'} \subseteq Nat
    <3>1. Measured' <=> {Stage', HitsLeft', InStage'} \subseteq Nat
      OBVIOUS
    <3>2. Inv' => Measured'
      BY <1>2, PTL
    <3> QED
      BY <3>1, <3>2
  <2> QED
    BY <1>3, <2>1
<1>5. Spec => []Inv
  BY <1>1, TypeCorrect, PageInSnapshotStep, PTL DEF Spec
<1> QED
  BY <1>4, <1>5, PTL DEF Spec, EveryStepGetsNearer
-----------------------------------------------------------------------------
(* The export implements QueryExport *)

\* A page has as many hits as fit, or as are left.
LEMMA PageLength ==
    ASSUME NEW first \in Nat, NEW n \in Nat
    PROVE  /\ Len(PageFrom(first, n)) \in 0 .. PageSize
           /\ first <= n + 1 =>
                 Len(PageFrom(first, n)) =
                    IF n - first + 1 < PageSize THEN n - first + 1 ELSE PageSize
<1> DEFINE left == n - first + 1
           size == IF left < PageSize THEN left ELSE PageSize
           bound == IF size < 0 THEN 0 ELSE size
           p == PageFrom(first, n)
<1>0. PageSize \in Nat \ {0} /\ left \in Int
  BY ExportAssumption
<1>1. size \in Int /\ bound \in 0 .. PageSize /\ 1 .. size = 1 .. bound
  BY <1>0
<1>2. p = [i \in 1 .. size |-> first + i - 1]
  BY DEF PageFrom
<1>3. p = [i \in 1 .. bound |-> first + i - 1]
  BY <1>1, <1>2
<1>4. first <= n + 1 => bound = IF left < PageSize THEN left ELSE PageSize
  BY <1>0
<1> HIDE DEF size, bound, left, p
<1>5. bound \in Nat
  BY <1>0, <1>1
<1>6. Len(p) = bound
  BY <1>3, <1>5
<1>7. Len(p) \in 0 .. PageSize /\ (first <= n + 1 => Len(p) = IF left < PageSize THEN left ELSE PageSize)
  BY <1>1, <1>4, <1>6
<1> QED
  BY <1>7 DEF p, left

\* No snapshot was taken of the queries to come, and a loop that was left has
\* its file complete, has lost something, or has met its total.
QueryInv ==
    /\ \A d \in Days : d > day => total[d] = 0
    /\ pc \in {"init", "search"} => total[day] = 0
    /\ Len(page) <= PageSize
    /\ pc \in {"clear", "close"} /\ Sound(day) =>
          Len(rows[day]) = total[day] \/ allCount = total[day]

LEMMA QueryStep == FileInv /\ CountInv /\ QueryInv /\ [Next]_vars => QueryInv'
<1> SUFFICES ASSUME FileInv, CountInv, QueryInv, [Next]_vars PROVE QueryInv'
  OBVIOUS
<1>t. /\ day \in Days /\ day \in Nat /\ NDays \in Nat /\ Days = 1 .. NDays
      /\ rows \in [Days -> Seq(Nat)] /\ total \in [Days -> Nat]
      /\ page \in Seq(Nat) /\ Len(page) \in Nat
      /\ \A d \in Days : Len(rows[d]) \in Nat /\ total[d] \in Nat
      /\ PageSize \in Nat /\ Len(NoHits) = 0
  BY ExportAssumption DEF FileInv, TypeOK, Days
<1> USE DEF QueryInv, Sound
\* Steps within the loop, to its exceptions and of the tab.
<1>1. ASSUME UNCHANGED <<day, total>>, pc' \notin {"clear", "close"},
             pc' \in {"init", "search"} => pc \in {"init", "search"},
             Len(page') <= PageSize
      PROVE  QueryInv'
  BY <1>1, <1>t
<1>2. CASE InitHandler \/ InitThrows \/ SearchThrows \/ WritePage \/ WriteThrows
           \/ FetchThrows \/ LogProgress \/ NotYetAll \/ ClearThrows \/ Caught
  BY <1>1, <1>2
  DEF InitHandler, InitThrows, SearchThrows, WritePage, WriteThrows, FetchThrows,
      LogProgress, NotYetAll, ClearThrows, Caught
<1>3. CASE SearchRefused \/ FetchRefused
  <2>1. /\ UNCHANGED <<day, total>> /\ page' = NoHits
        /\ pc' \in {"loop", "progress", "test"}
    BY <1>3 DEF SearchRefused, FetchRefused, AfterFetch
  <2> QED
    BY <1>1, <1>t, <2>1
<1>4. ASSUME NEW n \in Totals, SearchOk(n)
      PROVE  QueryInv'
  <2>1. /\ \A d \in Days : d # day => total'[d] = total[d]
        /\ page' = PageFrom(1, n) /\ pc' = "loop" /\ day' = day
    BY <1>4, <1>t DEF SearchOk
  <2>2. Len(page') <= PageSize
    <3>1. n \in Nat /\ 1 \in Nat
      BY ExportAssumption
    <3>2. Len(PageFrom(1, n)) \in 0 .. PageSize
      BY <3>1, PageLength
    <3> QED
      BY <1>t, <2>1, <3>2
  <2>3. \A d \in Days : d > day => d # day
    BY <1>t
  <2> QED
    BY <2>1, <2>2, <2>3, <1>t
<1>5. CASE FetchOk
  <2>1. Last(page) + 1 \in Nat
    <3>1. page # NoHits
      BY <1>5 DEF FetchOk, FileInv, PageToFetch
    <3> QED
      BY <1>t, <3>1, LastOfPage
  <2>2. Len(page') <= PageSize
    <3>1. Len(PageFrom(Last(page) + 1, total[day])) \in 0 .. PageSize
      BY <1>t, <2>1, PageLength
    <3> QED
      BY <1>5, <1>t, <3>1 DEF FetchOk
  <2> QED
    BY <1>1, <1>5, <2>2 DEF FetchOk, AfterFetch
<1>6. CASE LoopEnds
  <2>1. Sound(day) => Len(rows[day]) = total[day]
    <3>1. /\ Sound(day) => PageFrom(Len(rows[day]) + 1, total[day]) = NoHits
          /\ Sound(day) => Len(rows[day]) <= total[day]
      BY <1>6, <1>t DEF LoopEnds, CountInv, FileInv, RowsArePrefix
    <3> QED
      BY <1>t, <3>1, PageHits
  <2> QED
    BY <1>6, <1>t, <2>1 DEF LoopEnds
<1>7. CASE ExportOver
  <2>1. Sound(day) => allCount = total[day]
    BY <1>7 DEF ExportOver, AllQueried, CountInv
  <2> QED
    BY <1>7, <1>t, <2>1 DEF ExportOver
<1>8. CASE ClearScroll \/ LogTimes
  BY <1>8, <1>t DEF ClearScroll, LogTimes
<1>9. CASE Close
  <2>1. UNCHANGED total /\ page' = NoHits
    BY <1>9 DEF Close
  <2>2. \/ pc' \in {"threw", "returned"} /\ day' = day
        \/ pc' = "init" /\ day' = day + 1 /\ day # NDays
    BY <1>9 DEF Close
  <2> QED
    BY <2>1, <2>2, <1>t
<1>10. CASE Leaves \/ UNCHANGED vars
  BY <1>10, <1>t DEF Leaves
<1> QED
  BY <1>2, <1>3, <1>4, <1>5, <1>6, <1>7, <1>8, <1>9, <1>10 DEF Next, Thread, Work
\* The steps of an export that shows its files and its state only: the
\* abstract export, whatever becomes of calls, scrolls and the tab.
LEMMA QueryExportStep ==
    FileInv /\ CountInv /\ QueryInv /\ [Next]_vars => [Abstract!Next]_(Abstract!vars)
<1> SUFFICES ASSUME FileInv, CountInv, QueryInv, [Next]_vars
             PROVE  [Abstract!Next]_(Abstract!vars)
  OBVIOUS
<1>t. /\ day \in Days /\ day \in Nat /\ NDays \in Nat /\ Days = 1 .. NDays
      /\ rows \in [Days -> Seq(Nat)] /\ total \in [Days -> Nat]
      /\ page \in Seq(Nat) /\ Len(page) \in Nat /\ allCount \in Nat
      /\ \A d \in Days : Len(rows[d]) \in Nat /\ total[d] \in Nat
      /\ PageSize \in Nat \ {0}
  BY ExportAssumption DEF FileInv, TypeOK, Days
<1> DEFINE lost == refused \cup damaged
<1>s. /\ pc \notin {"returned", "caught", "abort", "threw"} => State = "running"
      /\ pc \in {"caught", "abort", "threw"} => State = "failed"
      /\ pc' \in {"init", "search", "loop", "fetch", "progress", "test", "clear", "close"}
            => State' = "running"
      /\ pc' = "returned" => State' = "returned"
      /\ pc' \in {"caught", "abort", "threw"} => State' = "failed"
  BY DEF State
<1>1. ASSUME UNCHANGED <<day, total, rows, allCount, lost, State>>
      PROVE  [Abstract!Next]_(Abstract!vars)
  BY <1>1 DEF Abstract!vars
<1>2. ASSUME UNCHANGED <<day, total, rows, lost>>, State = "running", State' = "failed",
             allCount' \in {allCount, allCount + 1}
      PROVE  [Abstract!Next]_(Abstract!vars)
  BY <1>2 DEF Abstract!Next, Abstract!Fail
<1>3. CASE InitHandler
  <2>1. rows' = rows
    <3>1. rows[day] = <<>>
      BY <1>3 DEF InitHandler, FileInv, PageFollowsFile
    <3>2. rows' = rows \/ rows' = [rows EXCEPT ![day] = <<>>]
      BY <1>3 DEF InitHandler
    <3>3. [rows EXCEPT ![day] = <<>>] = rows
      BY <1>t, <3>1
    <3> QED
      BY <3>2, <3>3
  <2> QED
    BY <1>1, <1>3, <1>s, <2>1 DEF InitHandler
<1>4. CASE InitThrows \/ SearchThrows \/ WriteThrows \/ FetchThrows \/ ClearThrows
  BY <1>2, <1>4, <1>s DEF InitThrows, SearchThrows, WriteThrows, FetchThrows, ClearThrows
<1>5. ASSUME NEW n \in Totals, SearchOk(n)
      PROVE  [Abstract!Next]_(Abstract!vars)
  <2>1. rows[day] = <<>> /\ total[day] = 0
    BY <1>5 DEF SearchOk, FileInv, PageFollowsFile, QueryInv
  <2>2. Abstract!TakeSnapshot
    BY <1>5, <1>s, <2>1 DEF SearchOk, Abstract!TakeSnapshot
  <2> QED
    BY <2>2 DEF Abstract!Next
<1>6. ASSUME UNCHANGED <<day, total, rows, allCount, damaged>>, State = "running",
             State' = "running", refused' = refused \cup {day}
      PROVE  [Abstract!Next]_(Abstract!vars)
  <2>1. lost' = lost \cup {day}
    BY <1>6
  <2> QED
    BY <1>6, <2>1 DEF Abstract!Next, Abstract!Refuse
<1>7. CASE SearchRefused
  BY <1>6, <1>7, <1>s DEF SearchRefused
<1>8. CASE FetchRefused
  <2>1. pc' \in {"progress", "test"}
    BY <1>8 DEF FetchRefused, AfterFetch
  <2> QED
    BY <1>6, <1>8, <1>s, <2>1 DEF FetchRefused
<1>9. CASE WritePage
  <2>0. /\ pc = "loop" /\ pc' = "fetch" /\ page # NoHits
        /\ allCount' = allCount + Len(page)
        /\ UNCHANGED <<day, total, refused>>
    BY <1>9 DEF WritePage
  <2>1. State = "running" /\ State' = "running"
    BY <1>s, <2>0
  <2>2. Len(page) \in 1 .. PageSize
    BY <1>t, <2>0 DEF QueryInv
  <2>3. CASE UNCHANGED rows /\ damaged' = damaged \cup {day}
    <3>1. lost' = lost \cup {day}
      BY <2>0, <2>3
    <3>2. Abstract!LosePage
      BY <2>0, <2>1, <2>2, <2>3, <3>1 DEF Abstract!LosePage
    <3> QED
      BY <3>2 DEF Abstract!Next
  <2>4. CASE /\ day \notin damaged
             /\ rows' = [rows EXCEPT ![day] = @ \o page]
             /\ UNCHANGED damaged
    <3> DEFINE k == Len(rows[day])
               n == total[day]
               next == IF k + PageSize < n THEN k + PageSize ELSE n
    <3>1. page = PageFrom(k + 1, n) /\ rows[day] = UpTo(k) /\ k <= n
      BY <2>0, <2>4, <1>t DEF FileInv, PageFollowsFile, RowsArePrefix, UpTo
    <3>2. day \notin lost
      BY <2>0, <2>4 DEF CountInv, Reading
    <3>3. Len(page) = IF n - (k + 1) + 1 < PageSize THEN n - (k + 1) + 1 ELSE PageSize
      <4>1. k + 1 \in Nat /\ n \in Nat /\ k + 1 <= n + 1
        BY <1>t, <3>1
      <4> QED
        BY <3>1, <4>1, PageLength
    <3>4. k \in Nat /\ n \in Nat
      BY <1>t
    <3>5. rows[day] \o page = UpTo(k + Len(page))
      <4>1. rows[day] \in Seq(Nat)
        BY <1>t
      <4> QED
        BY <3>1, <3>4, <4>1, AppendPage
    <3> HIDE DEF k, n
    <3>6. next = k + Len(page) /\ next > k /\ allCount' = allCount + (next - k)
      BY <1>t, <2>0, <2>2, <3>3, <3>4
    <3>7. rows' = [rows EXCEPT ![day] = Abstract!Snapshot(next)]
      BY <2>4, <3>5, <3>6 DEF Abstract!Snapshot, UpTo
    <3>8. Abstract!AppendPage
      BY <2>0, <2>1, <2>4, <3>2, <3>6, <3>7 DEF Abstract!AppendPage, k, n
    <3> QED
      BY <3>8 DEF Abstract!Next
  <2> QED
    BY <1>9, <2>3, <2>4 DEF WritePage
<1>10. CASE LoopEnds \/ NotYetAll \/ Caught \/ Leaves \/ UNCHANGED vars
  BY <1>1, <1>10, <1>s DEF LoopEnds, NotYetAll, Caught, Leaves, State
<1>11. CASE FetchOk
  <2>1. pc' \in {"progress", "test"}
    BY <1>11 DEF FetchOk, AfterFetch
  <2> QED
    BY <1>1, <1>11, <1>s, <2>1 DEF FetchOk
<1>12. CASE LogProgress \/ ExportOver \/ LogTimes
  <2>1. /\ UNCHANGED <<day, total, rows, allCount, refused, damaged>>
        /\ pc \in {"progress", "test", "clear"}
        /\ pc' \in {"test", "clear", "close", "caught"}
    BY <1>12 DEF LogProgress, ExportOver, LogTimes
  <2> QED
    BY <1>1, <1>2, <1>s, <2>1
<1>13. CASE ClearScroll
  BY <1>1, <1>6, <1>13, <1>s DEF ClearScroll
<1>14. CASE Close
  <2>1. UNCHANGED <<total, rows, allCount, refused, damaged>> /\ pc \in {"close", "abort"}
    BY <1>14 DEF Close
  <2>2. \/ pc' = "threw" /\ day' = day
        \/ pc' = "returned" /\ pc = "close" /\ day' = day /\ day = NDays
        \/ pc' = "init" /\ pc = "close" /\ day' = day + 1 /\ day # NDays
    BY <1>14 DEF Close
  <2>3. CASE pc' = "threw" /\ day' = day
    BY <1>1, <1>2, <1>s, <2>1, <2>3
  <2>4. ASSUME pc = "close"
        PROVE  Abstract!Done
    <3>1. day \in lost \/ Len(rows[day]) = total[day] \/ allCount = total[day]
      BY <2>4 DEF QueryInv, Sound
    <3>2. day \notin lost /\ Len(rows[day]) = total[day]
          => rows[day] = Abstract!Snapshot(total[day])
      BY <1>t DEF FileInv, RowsArePrefix, Abstract!Snapshot
    <3> QED
      BY <3>1, <3>2 DEF Abstract!Done
  <2>5. CASE pc' = "returned" /\ pc = "close" /\ day' = day /\ day = NDays
    <3>1. Abstract!Return
      BY <1>s, <2>1, <2>4, <2>5 DEF Abstract!Return
    <3> QED
      BY <3>1 DEF Abstract!Next
  <2>6. CASE pc' = "init" /\ pc = "close" /\ day' = day + 1 /\ day # NDays
    <3>1. day < NDays
      BY <1>t, <2>6
    <3>2. Abstract!NextQuery
      BY <1>s, <2>1, <2>4, <2>6, <3>1 DEF Abstract!NextQuery
    <3> QED
      BY <3>2 DEF Abstract!Next
  <2> QED
    BY <2>2, <2>3, <2>5, <2>6
<1> QED
  BY <1>3, <1>4, <1>5, <1>7, <1>8, <1>9, <1>10, <1>11, <1>12, <1>13, <1>14
  DEF Next, Thread, Work

\* An export of any number of queries, by pages of any size, is the abstract
\* one: it leaves a query behind short only for the reasons named there.
THEOREM RefinesQueryExport == Spec => ImplementsQueryExport
<1>1. Init => Abstract!Init /\ QueryInv
  <2> SUFFICES ASSUME Init PROVE Abstract!Init /\ QueryInv
    OBVIOUS
  <2>1. Abstract!Init
    BY DEF Init, Start, State, Abstract!Init, Abstract!Queries, Days
  <2>2. \A d \in Days : total[d] = 0
    BY DEF Init, Start
  <2>3. day \in Days /\ Len(page) = 0 /\ PageSize \in Nat
    BY ExportAssumption DEF Init, Start, Days
  <2> QED
    BY <2>1, <2>2, <2>3 DEF Init, Start, QueryInv
<1>2. Spec => [](FileInv /\ CountInv /\ QueryInv)
  BY <1>1, CountHolds, QueryStep, PTL DEF Spec
<1> QED
  BY <1>1, <1>2, QueryExportStep, PTL DEF Spec, ImplementsQueryExport, Abstract!Spec
=============================================================================
