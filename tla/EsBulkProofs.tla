---------------------------- MODULE EsBulkProofs ----------------------------
(***************************************************************************)
(* Theorems about EsBulk, for every batch size, every number of tries and  *)
(* every set of files.                                                     *)
(***************************************************************************)
EXTENDS EsBulk, FiniteSetTheorems, TLAPS

USE DEF Kinds, ConnStates, own, Exhausted, NextTry, Cleared

(***************************************************************************)
(* What a step relies on beyond the types: after the loop everything has   *)
(* been read, the list is empty while a result is reported, and a line has *)
(* been in no request before its batch is sent and in at most tryCount     *)
(* requests while it is.                                                   *)
(***************************************************************************)
Phases ==
    /\ last => pos = Len(file)
    /\ last => pc \in {"send", "report", "over", "caught", "done"}
    /\ pc = "over" => last
    /\ pc = "open" => pos = 0
    /\ pc \in {"report", "over"} => contentList = {}
    /\ last /\ pc # "send" => contentList = {}

Unsent ==
    /\ \A l \in Lines : l > pos => sent[l] = 0
    /\ \A l \in contentList : pc # "send" => sent[l] = 0
    /\ \A l \in contentList : pc = "send" => sent[l] <= tryCount

Counted == count = Cardinality(NonBlank(pos))

IInv ==
    /\ TypeOK
    /\ Phases
    /\ Accounted
    /\ Unsent
    /\ AttemptsBounded
    /\ Counted
    /\ ToldIsHandled
-----------------------------------------------------------------------------
(* Lemmas *)

\* The non-empty lines among the first n are a finite set.
LEMMA NonBlankFinite ==
    ASSUME NEW n \in Nat
    PROVE  IsFiniteSet(NonBlank(n)) /\ Cardinality(NonBlank(n)) \in Nat
<1>1. IsFiniteSet(1 .. n)
  BY FS_Interval
<1>2. NonBlank(n) \in SUBSET (1 .. n)
  BY DEF NonBlank
<1>3. IsFiniteSet(NonBlank(n))
  BY <1>1, <1>2, FS_Subset
<1> QED
  BY <1>3, FS_CardinalityType

\* Reading an empty line leaves the set of non-empty lines as it is; reading
\* another adds that line.
LEMMA NonBlankNext ==
    ASSUME TypeOK, pos < Len(file)
    PROVE  /\ pos + 1 \in Lines
           /\ pos + 1 \notin NonBlank(pos)
           /\ file[pos + 1] = "blank" => NonBlank(pos + 1) = NonBlank(pos)
           /\ file[pos + 1] # "blank" =>
                NonBlank(pos + 1) = NonBlank(pos) \cup {pos + 1}
<1>1. /\ pos \in Nat
      /\ Len(file) \in Nat
  BY DEF TypeOK
<1>2. 1 .. (pos + 1) = (1 .. pos) \cup {pos + 1}
  BY <1>1
<1>3. pos + 1 \notin 1 .. pos
  BY <1>1
<1> QED
  BY <1>1, <1>2, <1>3 DEF NonBlank, Lines

\* Bump adds one on S and leaves the rest.
LEMMA BumpType ==
    ASSUME NEW D, NEW f \in [D -> Nat], NEW S
    PROVE  /\ Bump(f, S) \in [D -> Nat]
           /\ \A l \in D : Bump(f, S)[l] = IF l \in S THEN f[l] + 1 ELSE f[l]
  BY DEF Bump
-----------------------------------------------------------------------------
(* Type correctness *)

LEMMA TypeInit == Init => TypeOK
<1> SUFFICES ASSUME Init PROVE TypeOK
  OBVIOUS
<1>1. file \in Seq(Kinds) /\ Len(file) \in Nat
  BY BulkAssumption DEF Init
<1>2. MaxTries \in Nat
  BY BulkAssumption
<1>3. /\ sent \in [Lines -> Nat]
      /\ pending \in [Lines -> Nat]
      /\ applied \in [Lines -> Nat]
  BY DEF Init, Start, Lines
<1>4. pos = 0 /\ count = 0 /\ tryCount = 0 /\ told = 0 /\ last = FALSE /\ pc = "open"
  BY DEF Init, Start
<1>5. contentList = {} /\ acked = {} /\ dropped = {} /\ conn \in ConnStates
  BY DEF Init, Start
<1>6. last \in BOOLEAN
  BY <1>4
<1>7. pos \in 0 .. Len(file) /\ tryCount \in 0 .. MaxTries
  BY <1>1, <1>2, <1>4
<1> QED
  BY <1>1, <1>3, <1>4, <1>5, <1>6, <1>7 DEF TypeOK

LEMMA TypeStep == TypeOK /\ [Next]_vars => TypeOK'
<1> SUFFICES ASSUME TypeOK, [Next]_vars PROVE TypeOK'
  OBVIOUS
<1> USE DEF TypeOK, Lines, batch, ghosts, vars
<1>0. Len(file) \in Nat /\ MaxTries \in Nat /\ BatchSize \in Nat \ {0}
  BY BulkAssumption
<1>1. CASE Open
  BY <1>1 DEF Open
<1>2. CASE ReadFails
  BY <1>2 DEF ReadFails
<1>3. CASE SkipBlank
  BY <1>0, <1>3 DEF SkipBlank
<1>4. CASE AddLine
  BY <1>0, <1>4 DEF AddLine
<1>5. CASE EndOfFile
  BY <1>0, <1>5 DEF EndOfFile
<1>6. CASE ParseFails
  BY <1>0, <1>6 DEF ParseFails
<1>7. CASE RequestThrows
  <2>1. sent' \in [Lines -> Nat] /\ pending' \in [Lines -> Nat]
    BY <1>7, BumpType DEF RequestThrows
  <2> QED
    BY <1>0, <1>7, <2>1 DEF RequestThrows
<1>8. CASE GiveUp
  BY <1>8 DEF GiveUp
<1>9. ASSUME NEW S \in SUBSET contentList, Answered(S)
      PROVE  TypeOK'
  <2>1. sent' \in [Lines -> Nat] /\ applied' \in [Lines -> Nat]
    BY <1>9, BumpType DEF Answered
  <2> QED
    BY <1>9, <2>1 DEF Answered
<1>10. CASE ReportCount
  BY <1>10 DEF ReportCount, SendReturns, Delivered, Ignored, Raced
<1>11. CASE ReportOver
  BY <1>11 DEF ReportOver, SendReturns, Delivered, Ignored, Raced
<1>12. CASE Caught
  BY <1>12 DEF Caught, SendSwallows, SendReturns, Delivered, Ignored, Raced
<1>13. ASSUME NEW l \in Lines, ApplyLate(l)
       PROVE  TypeOK'
  <2>1. pending[l] - 1 \in Nat /\ applied[l] + 1 \in Nat
    BY <1>13 DEF ApplyLate
  <2>2. pending' \in [Lines -> Nat] /\ applied' \in [Lines -> Nat]
    BY <1>13, <2>1 DEF ApplyLate
  <2> QED
    BY <1>13, <2>2 DEF ApplyLate
<1>14. CASE Leaves
  BY <1>14 DEF Leaves, ClientLeaves
<1>15. CASE UNCHANGED vars
  BY <1>15
<1> QED
  BY <1>1, <1>2, <1>3, <1>4, <1>5, <1>6, <1>7, <1>8, <1>9, <1>10, <1>11,
     <1>12, <1>13, <1>14, <1>15 DEF Next, Thread, Environment

\* The variables of the task always have their types; in particular the
\* recursion of send2es never goes beyond MaxTries, and the line iterator
\* never beyond the file.
THEOREM TypeCorrect == Spec => []TypeOK
  BY TypeInit, TypeStep, PTL DEF Spec
-----------------------------------------------------------------------------
(* Nothing read is lost *)

LEMMA PhasesStep == TypeOK /\ Phases /\ [Next]_vars => Phases'
<1> SUFFICES ASSUME TypeOK, Phases, [Next]_vars PROVE Phases'
  OBVIOUS
<1> USE DEF Phases, batch, ghosts, vars
<1>0. pos \in Nat /\ Len(file) \in Nat
  BY DEF TypeOK
<1>1. CASE Open
  BY <1>1 DEF Open
<1>2. CASE ReadFails
  BY <1>2 DEF ReadFails
<1>3. CASE SkipBlank
  BY <1>0, <1>3 DEF SkipBlank
<1>4. CASE AddLine
  BY <1>0, <1>4 DEF AddLine
<1>5. CASE EndOfFile
  BY <1>5 DEF EndOfFile
<1>6. CASE ParseFails
  BY <1>6 DEF ParseFails
<1>7. CASE RequestThrows
  BY <1>7 DEF RequestThrows
<1>8. CASE GiveUp
  BY <1>8 DEF GiveUp
<1>9. ASSUME NEW S \in SUBSET contentList, Answered(S)
      PROVE  Phases'
  BY <1>9 DEF Answered
<1>10. CASE ReportCount
  BY <1>10 DEF ReportCount
<1>11. CASE ReportOver
  BY <1>11 DEF ReportOver
<1>12. CASE Caught
  BY <1>12 DEF Caught
<1>13. ASSUME NEW l \in Lines, ApplyLate(l)
       PROVE  Phases'
  BY <1>13 DEF ApplyLate
<1>14. CASE Leaves
  BY <1>14 DEF Leaves
<1>15. CASE UNCHANGED vars
  BY <1>15
<1> QED
  BY <1>1, <1>2, <1>3, <1>4, <1>5, <1>6, <1>7, <1>8, <1>9, <1>10, <1>11,
     <1>12, <1>13, <1>14, <1>15 DEF Next, Thread, Environment

LEMMA AccountedStep ==
    TypeOK /\ Accounted /\ Counted /\ [Next]_vars => Accounted' /\ Counted'
<1> SUFFICES ASSUME TypeOK, Accounted, Counted, [Next]_vars
             PROVE  Accounted' /\ Counted'
  OBVIOUS
<1> USE DEF batch, ghosts, vars
<1>0. pos \in Nat /\ Len(file) \in Nat
  BY DEF TypeOK
<1>1. CASE UNCHANGED <<file, pos, count, contentList, acked, dropped>>
  BY <1>1 DEF Accounted, Counted, NonBlank
<1>2. CASE SkipBlank
  <2>1. NonBlank(pos + 1) = NonBlank(pos)
    BY <1>2, NonBlankNext DEF SkipBlank
  <2>2. NonBlank(pos)' = NonBlank(pos + 1)
    BY <1>2 DEF SkipBlank, NonBlank
  <2> QED
    BY <1>2, <2>1, <2>2 DEF SkipBlank, Accounted, Counted
<1>3. CASE AddLine
  <2>1. /\ pos + 1 \notin NonBlank(pos)
        /\ NonBlank(pos + 1) = NonBlank(pos) \cup {pos + 1}
    BY <1>3, NonBlankNext DEF AddLine
  <2>2. NonBlank(pos)' = NonBlank(pos + 1)
    BY <1>3 DEF AddLine, NonBlank
  <2>3. Accounted'
    BY <1>3, <2>1, <2>2 DEF AddLine, Accounted
  <2>4. Cardinality(NonBlank(pos + 1)) = Cardinality(NonBlank(pos)) + 1
    BY <1>0, <2>1, NonBlankFinite, FS_AddElement
  <2> QED
    BY <1>3, <2>2, <2>3, <2>4 DEF AddLine, Counted
<1>4. CASE GiveUp
  BY <1>4 DEF GiveUp, Accounted, Counted, NonBlank
<1>5. ASSUME NEW S \in SUBSET contentList, Answered(S)
      PROVE  Accounted' /\ Counted'
  BY <1>5 DEF Answered, Accounted, Counted, NonBlank
<1> QED
  BY <1>1, <1>2, <1>3, <1>4, <1>5
  DEF Next, Thread, Environment, Open, ReadFails, EndOfFile, ParseFails,
      RequestThrows, ReportCount, ReportOver, Caught, ApplyLate, Leaves
-----------------------------------------------------------------------------
(* How often a line is sent *)

LEMMA AttemptsStep ==
    /\ TypeOK /\ Phases /\ Accounted /\ Unsent /\ AttemptsBounded
    /\ [Next]_vars
    => Unsent' /\ AttemptsBounded'
<1> SUFFICES ASSUME TypeOK, Phases, Accounted, Unsent, AttemptsBounded, [Next]_vars
             PROVE  Unsent' /\ AttemptsBounded'
  OBVIOUS
<1> USE DEF batch, ghosts, vars
<1>0. /\ pos \in Nat /\ Len(file) \in Nat /\ MaxTries \in Nat /\ tryCount \in Nat
      /\ sent \in [Lines -> Nat] /\ pending \in [Lines -> Nat]
      /\ applied \in [Lines -> Nat]
      /\ contentList \subseteq Lines
  BY BulkAssumption DEF TypeOK
<1>1. ASSUME UNCHANGED <<file, sent, pending, applied>>
      PROVE  AttemptsBounded'
  BY <1>1 DEF AttemptsBounded, Lines
<1>2. ASSUME UNCHANGED <<file, pos, sent>>, contentList' \subseteq contentList,
             pc # "send",
             pc' = "send" => tryCount' = 0
      PROVE  Unsent'
  BY <1>0, <1>2 DEF Unsent, Lines
<1>3. CASE Open \/ ReadFails \/ EndOfFile \/ ReportCount \/ ReportOver \/ Caught
  BY <1>1, <1>2, <1>3
  DEF Open, ReadFails, EndOfFile, ReportCount, ReportOver, Caught
<1>4. CASE SkipBlank
  <2>1. AttemptsBounded'
    BY <1>1, <1>4 DEF SkipBlank
  <2>2. Unsent'
    BY <1>0, <1>4 DEF SkipBlank, Unsent, Lines
  <2> QED
    BY <2>1, <2>2
<1>5. CASE AddLine
  <2>1. AttemptsBounded'
    BY <1>1, <1>5 DEF AddLine
  <2>2. sent[pos + 1] = 0
    BY <1>0, <1>5 DEF AddLine, Unsent, Lines
  <2>3. Unsent'
    BY <1>0, <1>5, <2>2 DEF AddLine, Unsent, Lines
  <2> QED
    BY <2>1, <2>3
<1>6. CASE ParseFails
  <2>1. AttemptsBounded'
    BY <1>1, <1>6 DEF ParseFails
  <2>2. Unsent'
    BY <1>0, <1>6 DEF ParseFails, Unsent, Lines
  <2> QED
    BY <2>1, <2>2
<1>7. ASSUME pc = "send", ~Exhausted, UNCHANGED file,
             sent' = Bump(sent, contentList)
      PROVE  /\ \A l \in Lines : sent'[l] =
                    IF l \in contentList THEN sent[l] + 1 ELSE sent[l]
             /\ \A l \in Lines : sent'[l] <= MaxTries
             /\ \A l \in contentList : sent'[l] <= tryCount + 1
             /\ \A l \in Lines : l > pos => sent'[l] = 0
  <2>1. \A l \in Lines : sent'[l] =
            IF l \in contentList THEN sent[l] + 1 ELSE sent[l]
    BY <1>0, <1>7, BumpType
  <2>2. \A l \in contentList : sent[l] <= tryCount
    BY <1>7 DEF Unsent
  <2>3. \A l \in contentList : l \in NonBlank(pos)
    BY DEF Accounted
  <2>4. \A l \in contentList : l <= pos
    BY <1>0, <2>3 DEF NonBlank
  <2>5. \A l \in contentList : sent'[l] <= tryCount + 1
    BY <1>0, <2>1, <2>2
  <2>6. \A l \in Lines : sent[l] <= MaxTries
    BY DEF AttemptsBounded
  <2>7. \A l \in Lines : sent'[l] <= MaxTries
    BY <1>0, <1>7, <2>1, <2>2, <2>6
  <2>8. \A l \in Lines : l > pos => sent'[l] = 0
    BY <1>0, <2>1, <2>4 DEF Unsent, Lines
  <2> QED
    BY <2>1, <2>5, <2>7, <2>8
<1>8. CASE RequestThrows
  <2>0. pending' = Bump(pending, contentList)
    BY <1>8 DEF RequestThrows
  <2>1. \A l \in Lines : pending'[l] =
            IF l \in contentList THEN pending[l] + 1 ELSE pending[l]
    BY <1>0, <2>0, BumpType
  <2>2. \A l \in Lines : applied'[l] + pending'[l] <= sent'[l]
    <3>1. \A l \in Lines : sent'[l] =
              IF l \in contentList THEN sent[l] + 1 ELSE sent[l]
      BY <1>7, <1>8 DEF RequestThrows
    <3>2. applied' = applied
      BY <1>8 DEF RequestThrows
    <3> QED
      BY <1>0, <2>1, <3>1, <3>2 DEF AttemptsBounded
  <2>4. AttemptsBounded'
    BY <1>7, <1>8, <2>2 DEF RequestThrows, AttemptsBounded, Lines
  <2>3. Unsent'
    BY <1>0, <1>7, <1>8 DEF RequestThrows, Unsent, Lines
  <2> QED
    BY <2>3, <2>4
<1>9. ASSUME NEW S \in SUBSET contentList, Answered(S)
      PROVE  Unsent' /\ AttemptsBounded'
  <2>1. \A l \in Lines : applied'[l] =
            IF l \in S THEN applied[l] + 1 ELSE applied[l]
    BY <1>0, <1>9, BumpType DEF Answered
  <2>2. AttemptsBounded'
    BY <1>0, <1>7, <1>9, <2>1 DEF Answered, AttemptsBounded, Lines
  <2>3. Unsent'
    BY <1>0, <1>7, <1>9 DEF Answered, Unsent, Lines
  <2> QED
    BY <2>2, <2>3
<1>10. CASE GiveUp
  <2>1. AttemptsBounded'
    BY <1>1, <1>10 DEF GiveUp
  <2>2. Unsent'
    BY <1>0, <1>10 DEF GiveUp, Unsent, Lines
  <2> QED
    BY <2>1, <2>2
<1>11. ASSUME NEW l \in Lines, ApplyLate(l)
       PROVE  Unsent' /\ AttemptsBounded'
  <2>1. Unsent'
    BY <1>0, <1>11 DEF ApplyLate, Unsent, Lines
  <2>2. \A k \in Lines : applied'[k] + pending'[k] = applied[k] + pending[k]
    BY <1>0, <1>11 DEF ApplyLate
  <2>3. AttemptsBounded'
    BY <1>0, <1>11, <2>2 DEF ApplyLate, AttemptsBounded, Lines
  <2> QED
    BY <2>1, <2>3
<1>12. CASE Leaves \/ UNCHANGED vars
  <2>1. AttemptsBounded'
    BY <1>1, <1>12 DEF Leaves
  <2>2. Unsent'
    BY <1>0, <1>12 DEF Leaves, Unsent, Lines
  <2> QED
    BY <2>1, <2>2
<1> QED
  BY <1>3, <1>4, <1>5, <1>6, <1>8, <1>9, <1>10, <1>11, <1>12
  DEF Next, Thread, Environment
-----------------------------------------------------------------------------
(* What the tab is told *)

LEMMA ToldStep ==
    /\ TypeOK /\ Phases /\ Accounted /\ Counted /\ ToldIsHandled
    /\ [Next]_vars
    => ToldIsHandled'
<1> SUFFICES ASSUME TypeOK, Phases, Accounted, Counted, ToldIsHandled, [Next]_vars
             PROVE  ToldIsHandled'
  OBVIOUS
<1> USE DEF batch, ghosts, vars
<1> DEFINE handled == acked \cup dropped
<1>0. /\ IsFiniteSet(NonBlank(pos)) /\ Cardinality(NonBlank(pos)) \in Nat
      /\ handled \subseteq NonBlank(pos)
  <2>1. pos \in Nat
    BY DEF TypeOK
  <2> QED
    BY <2>1, NonBlankFinite DEF Accounted
<1>1. ASSUME told' = told, handled \subseteq handled', handled' \subseteq NonBlank(pos)
      PROVE  ToldIsHandled'
  <2>0. IsFiniteSet(handled')
    BY <1>0, <1>1, FS_Subset
  <2>1. /\ Cardinality(handled) <= Cardinality(handled')
        /\ Cardinality(handled) \in Nat
        /\ Cardinality(handled') \in Nat
    BY <1>1, <2>0, FS_Subset, FS_CardinalityType
  <2> QED
    BY <1>1, <2>1 DEF ToldIsHandled, TypeOK
<1>2. CASE ReportCount
  <2>1. told' = told \/ told' = count
    BY <1>2 DEF ReportCount
  <2>2. handled' = handled
    BY <1>2 DEF ReportCount
  <2>3. handled = NonBlank(pos)
    BY <1>2 DEF ReportCount, Phases, Accounted
  <2> QED
    BY <1>0, <1>1, <2>1, <2>2, <2>3 DEF ToldIsHandled, Counted
<1>3. CASE GiveUp
  BY <1>1, <1>3 DEF GiveUp, Accounted
<1>4. ASSUME NEW S \in SUBSET contentList, Answered(S)
      PROVE  ToldIsHandled'
  BY <1>1, <1>4 DEF Answered, Accounted
<1> QED
  BY <1>0, <1>1, <1>2, <1>3, <1>4
  DEF Next, Thread, Environment, Open, ReadFails, SkipBlank, AddLine, EndOfFile,
      ParseFails, RequestThrows, ReportOver, Caught, ApplyLate, Leaves
-----------------------------------------------------------------------------
(* The theorems *)

LEMMA InductiveInit == Init => IInv
<1> SUFFICES ASSUME Init PROVE IInv
  OBVIOUS
<1>1. TypeOK
  BY TypeInit
<1>2. /\ pos = 0 /\ count = 0 /\ told = 0 /\ pc = "open" /\ ~last
      /\ contentList = {} /\ acked = {} /\ dropped = {}
  BY DEF Init, Start
<1>3. NonBlank(pos) = {}
  BY <1>2 DEF NonBlank
<1>4. Cardinality({}) = 0
  BY FS_EmptySet
<1>5. \A l \in Lines : sent[l] = 0 /\ pending[l] = 0 /\ applied[l] = 0
  BY DEF Init, Start, Lines
<1>6. MaxTries \in Nat
  BY BulkAssumption
<1>7. Unsent /\ AttemptsBounded
  BY <1>2, <1>5, <1>6 DEF Unsent, AttemptsBounded
<1>8. Phases /\ Accounted /\ Counted
  BY <1>2, <1>3, <1>4 DEF Phases, Accounted, Counted
<1>9. ToldIsHandled
  BY <1>2, <1>4 DEF ToldIsHandled
<1> QED
  BY <1>1, <1>7, <1>8, <1>9 DEF IInv

LEMMA InductiveStep == IInv /\ [Next]_vars => IInv'
  BY TypeStep, PhasesStep, AccountedStep, AttemptsStep, ToldStep DEF IInv

LEMMA Inductive == Spec => []IInv
  BY InductiveInit, InductiveStep, PTL DEF Spec

\* No line of the file is forgotten or handled twice, for any batch size.
THEOREM EveryLineAccounted == Spec => []Accounted
<1>1. IInv => Accounted
  BY DEF IInv
<1> QED
  BY <1>1, Inductive, PTL

\* A loop that came to the end of the file has had the outcome of every line in
\* it, the last batch, of any length, included.
THEOREM EndCoversFile == Spec => []EndsWithEveryLine
<1>1. IInv => EndsWithEveryLine
  <2> SUFFICES ASSUME IInv, last, pc \in {"report", "over", "done"}
               PROVE  acked \cup dropped = NonBlank(Len(file))
    BY DEF EndsWithEveryLine
  <2>1. contentList = {} /\ pos = Len(file)
    BY DEF IInv, Phases
  <2> QED
    BY <2>1 DEF IInv, Accounted
<1> QED
  BY <1>1, Inductive, PTL

\* At most MaxTries requests carry a line, and the server applies it at most
\* once for each of them, however late.
THEOREM RetriesBounded == Spec => []AttemptsBounded
<1>1. IInv => AttemptsBounded
  BY DEF IInv
<1> QED
  BY <1>1, Inductive, PTL

\* The tab is never told of more lines than have had their outcome.
THEOREM ProgressIsHonest == Spec => []ToldIsHandled
<1>1. IInv => ToldIsHandled
  BY DEF IInv
<1> QED
  BY <1>1, Inductive, PTL

\* No request carries a line whose batch already had its outcome.
THEOREM OutcomeIsFinal == Spec => NoResendAfterOutcome
<1>1. ASSUME IInv, [Next]_vars
      PROVE  \A l \in Lines : sent'[l] # sent[l] => l \notin acked \cup dropped
  <2> SUFFICES ASSUME NEW l \in Lines, sent'[l] # sent[l]
               PROVE  l \in contentList
    BY <1>1 DEF IInv, Accounted
  <2>1. sent' = Bump(sent, contentList)
    BY <1>1
    DEF Next, Thread, Environment, Open, ReadFails, SkipBlank, AddLine, EndOfFile,
        ParseFails, RequestThrows, Answered, GiveUp, ReportCount, ReportOver,
        Caught, ApplyLate, Leaves, vars, ghosts, batch
  <2>2. sent \in [Lines -> Nat]
    BY <1>1 DEF IInv, TypeOK
  <2>3. Bump(sent, contentList)[l] =
            IF l \in contentList THEN sent[l] + 1 ELSE sent[l]
    BY <2>2, BumpType
  <2> QED
    BY <2>1, <2>3
<1>2. IInv /\ [Next]_vars
      => [\A l \in Lines : sent'[l] # sent[l] => l \notin acked \cup dropped]_vars
  BY <1>1
<1> QED
  BY <1>2, Inductive, PTL DEF Spec, NoResendAfterOutcome
-----------------------------------------------------------------------------
(* Division by the batch size *)

\* A quotient and its remainder.
LEMMA Div ==
    ASSUME NEW B \in Nat \ {0}, NEW n \in Nat
    PROVE  /\ n \div B \in Int /\ n % B \in 0 .. B - 1
           /\ n = B * (n \div B) + (n % B)
<1>1. n \div B \in Int /\ n % B \in 0 .. B - 1
  OBVIOUS
<1>2. B \in Int /\ B > 0 /\ n \in Int
  OBVIOUS
<1>3. n = B * (n \div B) + (n % B)
  BY <1>2, Z3
<1> QED
  BY <1>1, <1>3

\* A greater quotient makes a greater number, whatever the remainders.
LEMMA DivUnique ==
    ASSUME NEW B \in Nat \ {0}, NEW q \in Int, NEW p \in Int, NEW r \in 0 .. B-1, NEW s \in 0 .. B-1
    PROVE  B * q + r <= B * p + s => q <= p
<1> SUFFICES ASSUME q >= p + 1 PROVE B * q + r > B * p + s
  OBVIOUS
<1>1. B * q >= B * (p + 1)
  OBVIOUS
<1>2. B * (p+1) = B * p + B
  OBVIOUS
<1> QED
  BY <1>1, <1>2

\* The number of full batches grows with the number of lines, by one whenever
\* the lines fill a batch; what is beyond the full batches grows until it does.
LEMMA BatchStep ==
    ASSUME NEW B \in Nat \ {0}, NEW n \in Nat, NEW m \in Nat, n <= m
    PROVE  /\ n \div B \in Int
           /\ n \div B <= m \div B
           /\ (n + 1) \div B = IF (n + 1) % B = 0 THEN n \div B + 1 ELSE n \div B
           /\ (n + 1) % B = IF n % B = B - 1 THEN 0 ELSE (n % B) + 1
<1>0. /\ n \div B \in Int /\ n % B \in 0 .. B - 1 /\ n = B * (n \div B) + (n % B)
      /\ m \div B \in Int /\ m % B \in 0 .. B - 1 /\ m = B * (m \div B) + (m % B)
  BY Div
<1>1. /\ (n + 1) \div B \in Int /\ (n + 1) % B \in 0 .. B - 1
      /\ n + 1 = B * ((n + 1) \div B) + ((n + 1) % B)
  <2>1. n + 1 \in Nat
    OBVIOUS
  <2> QED
    BY <2>1, Div
<1>2. n \div B <= m \div B
  <2> DEFINE q == n \div B  r == n % B p == m \div B s == m % B
  <2>1. /\ q \in Int /\ p \in Int /\ r \in 0 .. B-1 /\ s \in 0 .. B-1
        /\ B * q + r <= B * p + s
    BY <1>0
  <2> HIDE DEF q, r, p, s
  <2>2. q <= p
    BY <2>1, DivUnique
  <2> QED
    BY <2>2 DEF q, p
<1> DEFINE q == n \div B  r == n % B p == (n+1) \div B s == (n+1) % B
<1> HIDE DEF q, r, p, s
<1>3. /\ q \in Int /\ p \in Int /\ r \in 0 .. B-1 /\ s \in 0 .. B-1
      /\ B * q + r + 1 = B * p + s
  BY <1>0, <1>1 DEF q, r, p, s
<1>4. B * q \in Int /\ B * p \in Int /\ B * (q+1) = B * q + B /\ B * (p - 1) = B * p - B
  BY <1>3
<1>5. ASSUME r = B - 1 PROVE p = q + 1 /\ s = 0
  <2>1. B * q + B + 0 = B * p + s
    BY <1>3, <1>4, <1>5
  <2>2. B * (q + 1) + 0 = B * p + s /\ 0 \in 0 .. B - 1 /\ q + 1 \in Int
    BY <2>1, <1>4, <1>3
  <2>3. q + 1 <= p /\ p <= q + 1
    BY <2>2, <1>3, DivUnique
  <2>4. p = q + 1
    BY <2>3, <1>3
  <2>5. s = 0
    BY <1>3, <1>4, <2>4, <2>2
  <2> QED
    BY <2>4, <2>5
<1>6. ASSUME r # B - 1 PROVE p = q /\ s # 0 /\ s = r + 1
  <2>1. r + 1 \in 0 .. B - 1 /\ B * q + (r + 1) = B * p + s
    BY <1>3, <1>4, <1>6
  <2>2. q <= p /\ p <= q
    BY <2>1, <1>3, DivUnique
  <2>3. p = q
    BY <2>2, <1>3
  <2>4. s = r + 1
    BY <2>1, <2>3, <1>3, <1>4
  <2>5. s # 0
    BY <1>3, <2>4
  <2> QED
    BY <2>3, <2>4, <2>5
<1>7. (s = 0 => p = q + 1) /\ (s # 0 => p = q)
  BY <1>5, <1>6
<1>8. s = IF r = B - 1 THEN 0 ELSE r + 1
  BY <1>5, <1>6
<1> QED
  BY <1>0, <1>2, <1>7, <1>8 DEF p, q, r, s
-----------------------------------------------------------------------------
(* The outcome of a batch *)

\* BatchOf, as a function of the file alone.
BatchIn(f, l) == (Cardinality({k \in 1 .. l : f[k] # "blank"}) - 1) \div BatchSize

\* The batch that is collected, or being sent.
Current ==
    IF pc = "send" /\ ~last THEN (count \div BatchSize) - 1 ELSE count \div BatchSize

SameBatch(k, l) == BatchIn(file, k) = BatchIn(file, l)

\* The list holds lines of one batch, and those before it are over; a batch
\* that is over had one outcome, as it deserved.
BatchInv ==
    /\ \A l \in contentList : BatchIn(file, l) = Current
    /\ \A l \in acked \cup dropped : (last /\ pc # "send") \/ BatchIn(file, l) < Current
    /\ \A l \in acked, k \in dropped : ~SameBatch(l, k)
    /\ \A l \in acked : file[l] # "bad"
    /\ \A l \in dropped :
          sent[l] = IF \E k \in dropped : SameBatch(k, l) /\ file[k] = "bad"
                    THEN 0 ELSE MaxTries
    /\ pc = "send" => \A l \in contentList : sent[l] = IF Poisoned THEN 0 ELSE tryCount

\* The batch of a line that is yet to be read is not one that is full.
LEMMA BatchOfLines ==
    ASSUME TypeOK, Counted, NEW l \in Lines
    PROVE  /\ BatchIn(file, l) \in Int
           /\ count \div BatchSize \in Int
           /\ l > pos /\ file[l] # "blank" => BatchIn(file, l) >= count \div BatchSize
           /\ l = pos + 1 /\ file[l] # "blank" => BatchIn(file, l) = count \div BatchSize
<1> DEFINE c == Cardinality(NonBlank(l))
<1>0. /\ pos \in Nat /\ l \in Nat /\ count \in Nat /\ BatchSize \in Nat \ {0}
      /\ c \in Nat /\ count = Cardinality(NonBlank(pos))
  BY NonBlankFinite, BulkAssumption DEF TypeOK, Lines, Counted
<1>1. BatchIn(file, l) = (c - 1) \div BatchSize
  BY DEF BatchIn, NonBlank
<1>2. ASSUME l > pos, file[l] # "blank"
      PROVE  c >= count + 1
  <2>1. /\ NonBlank(pos) \cup {l} \in SUBSET NonBlank(l)
        /\ l \notin NonBlank(pos)
    BY <1>0, <1>2 DEF NonBlank
  <2>2. IsFiniteSet(NonBlank(pos)) /\ IsFiniteSet(NonBlank(l))
    BY <1>0, NonBlankFinite
  <2>3. Cardinality(NonBlank(pos) \cup {l}) = count + 1
    BY <1>0, <2>1, <2>2, FS_AddElement
  <2> QED
    BY <1>0, <2>1, <2>2, <2>3, FS_Subset
<1>3. ASSUME l = pos + 1, file[l] # "blank"
      PROVE  c = count + 1
  <2>1. /\ NonBlank(l) = NonBlank(pos) \cup {l}
        /\ l \notin NonBlank(pos)
    BY <1>0, <1>3 DEF NonBlank
  <2>2. IsFiniteSet(NonBlank(pos))
    BY <1>0, NonBlankFinite
  <2> QED
    BY <1>0, <2>1, <2>2, FS_AddElement
<1> HIDE DEF c
<1>4. (c - 1) \div BatchSize \in Int /\ count \div BatchSize \in Int
  BY <1>0
<1>5. ASSUME c >= count + 1
      PROVE  (c - 1) \div BatchSize >= count \div BatchSize
  <2>1. c - 1 \in Nat /\ count <= c - 1
    BY <1>0, <1>5
  <2>2. count \div BatchSize <= (c - 1) \div BatchSize
    BY <1>0, <2>1, BatchStep
  <2> QED
    BY <1>4, <2>2
<1>6. ASSUME c = count + 1
      PROVE  (c - 1) \div BatchSize = count \div BatchSize
  <2>1. c - 1 = count
    BY <1>0, <1>6
  <2> QED
    BY <2>1
<1> QED
  BY <1>0, <1>1, <1>2, <1>3, <1>4, <1>5, <1>6

LEMMA BatchStays ==
    IInv /\ BatchInv /\ [Next]_vars => BatchInv'
<1> SUFFICES ASSUME IInv, BatchInv, [Next]_vars PROVE BatchInv'
  OBVIOUS
<1>0. /\ TypeOK /\ Phases /\ Accounted /\ Unsent /\ Counted
      /\ pos \in Nat /\ count \in Nat /\ MaxTries \in Nat /\ tryCount \in 0 .. MaxTries
      /\ BatchSize \in Nat \ {0} /\ sent \in [Lines -> Nat]
      /\ contentList \subseteq Lines /\ acked \subseteq Lines /\ dropped \subseteq Lines
  BY BulkAssumption DEF IInv, TypeOK
<1>b. /\ count \div BatchSize \in Int
      /\ \A l \in Lines : BatchIn(file, l) \in Int
  <2>1. \A l \in Lines : BatchIn(file, l) \in Int
    BY <1>0, BatchOfLines
  <2> QED
    BY <1>0, <2>1
<1> USE DEF BatchInv, Current, SameBatch, Poisoned
\* Steps that leave the batch and the lines that are over as they are.
<1>1. ASSUME UNCHANGED <<file, count, contentList, acked, dropped, sent>>,
             Current' = Current,
             pc' = "send" => pc = "send" /\ UNCHANGED tryCount,
             last => last', last /\ pc # "send" => pc' # "send"
      PROVE  BatchInv'
  BY <1>1
<1>2. CASE AddLine
  <2> DEFINE l0 == pos + 1
  <2>1. /\ l0 \in Lines /\ BatchIn(file, l0) = count \div BatchSize /\ ~last
        /\ pc = "read" /\ count' = count + 1 /\ contentList' = contentList \cup {l0}
        /\ UNCHANGED <<file, acked, dropped, sent, last>> /\ tryCount' = 0
        /\ pc' = IF (count + 1) % BatchSize = 0 THEN "send" ELSE "read"
    <3>1. l0 \in Lines /\ file[l0] # "blank"
      BY <1>0, <1>2, NonBlankNext DEF AddLine
    <3>2. BatchIn(file, l0) = count \div BatchSize
      BY <1>0, <3>1, BatchOfLines
    <3>3. ~last /\ pc = "read"
      BY <1>0, <1>2 DEF AddLine, Phases
    <3>4. /\ count' = count + 1 /\ contentList' = contentList \cup {l0}
          /\ UNCHANGED <<file, acked, dropped, sent, last>> /\ tryCount' = 0
          /\ pc' = IF (count + 1) % BatchSize = 0 THEN "send" ELSE "read"
      <4>1. /\ count' = count + 1
            /\ pc' = IF BatchFull(count') THEN "send" ELSE "read"
        BY <1>2 DEF AddLine
      <4>2. BatchFull(count') <=> (count + 1) % BatchSize = 0
        BY <4>1 DEF BatchFull
      <4> QED
        BY <1>2, <4>1, <4>2 DEF AddLine, ghosts
    <3> QED
      BY <3>1, <3>2, <3>3, <3>4
  <2>2. (count + 1) \div BatchSize =
            IF (count + 1) % BatchSize = 0
            THEN count \div BatchSize + 1 ELSE count \div BatchSize
    <3>1. count <= count
      BY <1>0
    <3> QED
      BY <1>0, <3>1, BatchStep
  <2>3. Current = count \div BatchSize /\ Current' = Current
    BY <1>b, <2>1, <2>2
  <2>4. \A l \in contentList' : sent[l] = 0
    <3>1. l0 > pos
      BY <1>0
    <3> QED
      BY <1>0, <2>1, <3>1 DEF Unsent
  <2> HIDE DEF l0, Current
  <2>5. \A l \in contentList' : BatchIn(file, l) = Current'
    BY <2>1, <2>3
  <2> QED
    BY <2>1, <2>3, <2>4, <2>5
<1>3. CASE EndOfFile
  <2>1. \A l \in contentList : sent[l] = 0
    BY <1>0, <1>3 DEF EndOfFile, Unsent
  <2>2. ~last
    BY <1>0, <1>3 DEF EndOfFile, Phases
  <2> QED
    BY <1>3, <2>1, <2>2 DEF EndOfFile, batch, ghosts
<1>4. CASE ParseFails
  BY <1>4 DEF ParseFails, ghosts
<1>5. CASE RequestThrows
  <2>1. \A l \in Lines : sent'[l] = IF l \in contentList THEN sent[l] + 1 ELSE sent[l]
    BY <1>0, <1>5, BumpType DEF RequestThrows
  <2>2. \A l \in dropped : sent'[l] = sent[l]
    BY <1>0, <2>1 DEF Accounted
  <2>3. \A l \in contentList : sent'[l] = tryCount + 1
    BY <1>0, <1>5, <2>1 DEF RequestThrows
  <2> QED
    BY <1>0, <1>5, <2>2, <2>3 DEF RequestThrows
<1>6. ASSUME pc = "send", pc' = "report", contentList' = {},
             UNCHANGED <<file, count, last>>,
             acked' \cup dropped' = acked \cup dropped \cup contentList
      PROVE  /\ \A l \in contentList' : BatchIn(file', l) = Current'
             /\ \A l \in acked' \cup dropped' :
                   (last' /\ pc' # "send") \/ BatchIn(file', l) < Current'
             /\ \A l \in acked \cup dropped, k \in contentList : ~SameBatch(l, k)
  <2>1. \A l \in acked' \cup dropped' : ~last => BatchIn(file, l) < count \div BatchSize
    BY <1>0, <1>b, <1>6
  <2>2. \A l \in acked \cup dropped, k \in contentList : BatchIn(file, l) # BatchIn(file, k)
    BY <1>0, <1>b, <1>6
  <2> QED
    BY <1>6, <2>1, <2>2
<1>7. CASE GiveUp
  <2>1. /\ pc = "send" /\ pc' = "report" /\ contentList' = {} /\ tryCount = MaxTries
        /\ UNCHANGED <<file, count, last, sent, acked>>
        /\ dropped' = dropped \cup contentList
    BY <1>0, <1>7 DEF GiveUp
  <2>2. /\ \A l \in contentList' : BatchIn(file', l) = Current'
        /\ \A l \in acked' \cup dropped' :
              (last' /\ pc' # "send") \/ BatchIn(file', l) < Current'
        /\ \A l \in acked \cup dropped, k \in contentList : ~SameBatch(l, k)
    BY <1>6, <2>1
  <2>3. \A l \in acked', k \in dropped' : ~SameBatch(l, k)'
    BY <2>1, <2>2
  <2>4. ASSUME NEW l \in dropped'
        PROVE  sent[l] = IF \E k \in dropped' : SameBatch(k, l) /\ file[k] = "bad"
                         THEN 0 ELSE MaxTries
    <3>1. CASE l \in contentList
      <4>1. \A k \in dropped' : SameBatch(k, l) => k \in contentList
        BY <2>1, <2>2, <3>1
      <4>2. \A k \in contentList : SameBatch(k, l) /\ k \in dropped'
        BY <2>1, <3>1
      <4>3. (\E k \in dropped' : SameBatch(k, l) /\ file[k] = "bad") <=> Poisoned
        BY <4>1, <4>2
      <4>4. sent[l] = IF Poisoned THEN 0 ELSE MaxTries
        BY <2>1, <3>1
      <4> QED
        BY <4>3, <4>4
    <3>2. CASE l \in dropped
      <4>1. \A k \in dropped' : SameBatch(k, l) => k \in dropped
        BY <2>1, <2>2, <3>2
      <4>2. dropped \subseteq dropped'
        BY <2>1
      <4> QED
        BY <3>2, <4>1, <4>2
    <3> QED
      BY <2>1, <3>1, <3>2
  <2> QED
    BY <2>1, <2>2, <2>3, <2>4
<1>8. ASSUME NEW S \in SUBSET contentList, Answered(S)
      PROVE  BatchInv'
  <2>1. /\ pc = "send" /\ pc' = "report" /\ contentList' = {} /\ ~Poisoned
        /\ UNCHANGED <<file, count, last, dropped>>
        /\ acked' = acked \cup contentList
        /\ sent' = Bump(sent, contentList)
    BY <1>8 DEF Answered
  <2>2. /\ \A l \in contentList' : BatchIn(file', l) = Current'
        /\ \A l \in acked' \cup dropped' :
              (last' /\ pc' # "send") \/ BatchIn(file', l) < Current'
        /\ \A l \in acked \cup dropped, k \in contentList : ~SameBatch(l, k)
    BY <1>6, <2>1
  <2>3. \A l \in dropped : sent'[l] = sent[l]
    <3>1. \A l \in Lines : sent'[l] = IF l \in contentList THEN sent[l] + 1 ELSE sent[l]
      BY <1>0, <2>1, BumpType
    <3> QED
      BY <1>0, <3>1 DEF Accounted
  <2>4. \A l \in acked', k \in dropped' : ~SameBatch(l, k)'
    BY <2>1, <2>2
  <2> QED
    BY <2>1, <2>2, <2>3, <2>4
<1>9. CASE SkipBlank \/ Open \/ ReadFails
  BY <1>0, <1>1, <1>9 DEF SkipBlank, Open, ReadFails, Phases, batch, ghosts
<1>10. CASE ReportCount
  BY <1>0, <1>1, <1>10 DEF ReportCount, Phases, batch, ghosts
<1>11. CASE ReportOver \/ Caught
  BY <1>0, <1>1, <1>11 DEF ReportOver, Caught, Phases, batch, ghosts
<1>12. ASSUME NEW l \in Lines, ApplyLate(l)
       PROVE  BatchInv'
  BY <1>1, <1>12 DEF ApplyLate, batch
<1>13. CASE Leaves \/ UNCHANGED vars
  BY <1>1, <1>13 DEF Leaves, vars, batch, ghosts
<1> QED
  BY <1>2, <1>3, <1>4, <1>5, <1>7, <1>8, <1>9, <1>10, <1>11, <1>12, <1>13
  DEF Next, Thread, Environment

\* What happens to a line is decided by its own batch, for any batch size.
THEOREM BatchesShareOutcome == Spec => []OutcomePerBatch
<1>1. Init => BatchInv
  BY DEF Init, Start, BatchInv
<1>2. IInv /\ BatchInv => OutcomePerBatch
  <2> SUFFICES ASSUME IInv, BatchInv, NEW l \in acked \cup dropped
               PROVE  LET mates == {k \in NonBlank(Len(file)) : BatchOf(k) = BatchOf(l)}
                          poisoned == \E k \in mates : file[k] = "bad"
                      IN  /\ mates \subseteq acked \/ mates \subseteq dropped
                          /\ poisoned => l \in dropped /\ sent[l] = 0
                          /\ ~poisoned /\ l \in dropped => sent[l] = MaxTries
    BY DEF OutcomePerBatch
  <2> DEFINE mates == {k \in NonBlank(Len(file)) : BatchOf(k) = BatchOf(l)}
  <2>0. /\ TypeOK /\ Phases /\ Accounted /\ Counted
        /\ pos \in Nat /\ Len(file) \in Nat /\ Lines = 1 .. Len(file) /\ pos <= Len(file)
        /\ acked \subseteq Lines /\ dropped \subseteq Lines /\ contentList \subseteq Lines
    BY DEF IInv, TypeOK, Lines
  <2>1. \A k : BatchOf(k) = BatchIn(file, k)
    BY DEF BatchOf, BatchIn, NonBlank
  <2>2. ASSUME NEW k \in mates
        PROVE  k \in acked \cup dropped /\ SameBatch(k, l)
    <3>1. /\ SameBatch(k, l) /\ k \in Lines /\ file[k] # "blank" /\ l \in Lines
      BY <2>0, <2>1 DEF SameBatch, NonBlank
    <3>2. CASE last /\ pc # "send"
      BY <2>0, <3>1, <3>2 DEF Phases, Accounted
    <3>3. CASE ~(last /\ pc # "send")
      <4>1. BatchIn(file, l) < Current /\ BatchIn(file, k) < Current
        BY <3>1, <3>3 DEF BatchInv, SameBatch
      <4>2. /\ BatchIn(file, k) \in Int /\ count \div BatchSize \in Int
            /\ k > pos => BatchIn(file, k) >= count \div BatchSize
        BY <2>0, <3>1, BatchOfLines
      <4>3. ~(k > pos)
        BY <4>1, <4>2 DEF Current
      <4>4. k \in NonBlank(pos)
        BY <2>0, <3>1, <4>3 DEF NonBlank
      <4>5. k \notin contentList
        BY <4>1, <4>2 DEF BatchInv, Current
      <4> QED
        BY <2>0, <3>1, <4>4, <4>5 DEF Accounted
    <3> QED
      BY <3>2, <3>3
  <2>3. \A k \in NonBlank(Len(file)) : SameBatch(k, l) => k \in mates
    BY <2>1 DEF SameBatch
  <2>4. acked \cup dropped \subseteq NonBlank(Len(file))
    BY <2>0 DEF Accounted, NonBlank
  <2> HIDE DEF mates
  <2>5. mates \subseteq acked \/ mates \subseteq dropped
    BY <2>2 DEF BatchInv, SameBatch
  <2>6. (\E k \in mates : file[k] = "bad") => l \in dropped /\ sent[l] = 0
    BY <2>2 DEF BatchInv, SameBatch
  <2>7. ~(\E k \in mates : file[k] = "bad") /\ l \in dropped => sent[l] = MaxTries
    BY <2>3, <2>4 DEF BatchInv, SameBatch
  <2> QED
    BY <2>5, <2>6, <2>7 DEF mates
<1> QED
  BY <1>1, <1>2, Inductive, BatchStays, PTL DEF Spec
-----------------------------------------------------------------------------
(* How many steps an import takes *)

\* Each line may take the steps of one batch.
LEMMA LineCosts ==
    ASSUME NEW n \in Nat
    PROVE  /\ ToRead(n) \in Nat
           /\ ToRead(n) >= MaxTries + 5
           /\ n > 0 => /\ ToRead(n - 1) \in Nat
                       /\ ToRead(n - 1) >= MaxTries + 5
                       /\ ToRead(n) = ToRead(n - 1) + MaxTries + 3
<1> DEFINE M == MaxTries + 3
<1>1. MaxTries \in Nat /\ M \in Nat /\ M = MaxTries + 3
  BY BulkAssumption
<1> HIDE DEF M
<1>2. ASSUME NEW k \in Nat PROVE ToRead(k) \in Nat /\ ToRead(k) >= MaxTries + 5
  <2>1. k * M \in Nat
    BY <1>1
  <2>2. ToRead(k) = k * M + MaxTries + 5
    BY <1>1 DEF ToRead, M
  <2> QED
    BY <1>1, <2>1, <2>2
<1>3. ASSUME n > 0 PROVE n - 1 \in Nat /\ ToRead(n) = ToRead(n - 1) + MaxTries + 3
  <2>1. n - 1 \in Nat
    BY <1>3
  <2>2. n * M = (n - 1) * M + M /\ n * M \in Nat /\ (n - 1) * M \in Nat
    BY <1>1, <2>1
  <2>3. ToRead(n) = n * M + MaxTries + 5 /\ ToRead(n - 1) = (n - 1) * M + MaxTries + 5
    BY <1>1 DEF ToRead, M
  <2> QED
    BY <1>1, <2>1, <2>2, <2>3
<1> QED
  BY <1>2, <1>3

\* The number of steps left is fixed in advance for every batch size, number
\* of tries and file: with the fairness of the thread, this is why it ends.
THEOREM StepsAreBounded == Spec => EveryStepCounts
<1> DEFINE Counts == /\ StepsLeft' \in Nat
                     /\ IF Thread THEN StepsLeft' < StepsLeft
                        ELSE StepsLeft' = StepsLeft
<1> DEFINE Rest == ToRead(Len(file) - pos)
<1>1. ASSUME IInv, [Next]_vars
      PROVE  Counts \/ UNCHANGED vars
  <2> USE DEF batch, ghosts, vars
  <2>0. /\ pos \in 0 .. Len(file) /\ Len(file) \in Nat /\ MaxTries \in Nat
        /\ tryCount \in 0 .. MaxTries /\ last \in BOOLEAN
        /\ pc \in {"open", "read", "send", "report", "over", "caught", "done"}
        /\ pc = "over" => last
        /\ last => pc \in {"send", "report", "over", "caught", "done"}
    BY <1>1, BulkAssumption DEF IInv, TypeOK, Phases
  <2>1. /\ Rest \in Nat /\ Rest >= MaxTries + 5
        /\ pos < Len(file) =>
              LET Less == ToRead(Len(file) - (pos + 1))
              IN  Less \in Nat /\ Less >= MaxTries + 5 /\ Rest = Less + MaxTries + 3
    <3>1. Len(file) - pos \in Nat /\ Len(file) - (pos + 1) = (Len(file) - pos) - 1
      BY <2>0
    <3>2. Rest \in Nat /\ Rest >= MaxTries + 5
      BY <3>1, LineCosts
    <3>3. ASSUME pos < Len(file)
          PROVE  LET Less == ToRead(Len(file) - (pos + 1))
                 IN  Less \in Nat /\ Less >= MaxTries + 5 /\ Rest = Less + MaxTries + 3
      <4>1. Len(file) - pos > 0
        BY <2>0, <3>3
      <4> QED
        BY <3>1, <4>1, LineCosts
    <3> QED
      BY <3>2, <3>3
  <2> HIDE DEF Rest
  <2>2. /\ ToReport \in Nat /\ ToReport >= 3 /\ ToReport <= Rest + 1
        /\ ToReport = IF last THEN 3 ELSE Rest + 1
    BY <2>0, <2>1 DEF ToReport, Rest
  <2>3. StepsLeft = CASE pc = "open" -> Rest + 1
                      [] pc = "read" -> Rest
                      [] pc = "send" -> (MaxTries - tryCount) + 1 + ToReport
                      [] pc = "report" -> ToReport
                      [] pc = "over" -> 2
                      [] pc = "caught" -> 1
                      [] pc = "done" -> 0
    BY DEF StepsLeft, Rest
  <2>4. /\ StepsLeft \in Nat
        /\ pc = "open" => StepsLeft = Rest + 1
        /\ pc = "read" => StepsLeft = Rest
        /\ pc = "send" => StepsLeft = (MaxTries - tryCount) + 1 + ToReport
        /\ pc = "report" => StepsLeft = ToReport
        /\ pc = "over" => StepsLeft = 2
        /\ pc = "caught" => StepsLeft = 1
        /\ pc = "done" => StepsLeft = 0
    BY <2>0, <2>1, <2>2, <2>3
  <2>5. ASSUME UNCHANGED <<file, pos, last>>
        PROVE  Rest' = Rest /\ ToReport' = ToReport
    BY <2>5 DEF Rest, ToReport
  <2>6. /\ pc' = "read" => StepsLeft' = Rest'
        /\ pc' = "send" => StepsLeft' = (MaxTries - tryCount') + 1 + ToReport'
        /\ pc' = "report" => StepsLeft' = ToReport'
        /\ pc' = "over" => StepsLeft' = 2
        /\ pc' = "caught" => StepsLeft' = 1
        /\ pc' = "done" => StepsLeft' = 0
    BY DEF StepsLeft, Rest
  <2> DEFINE Down == StepsLeft' \in Nat /\ StepsLeft' < StepsLeft
  <2> HIDE DEF StepsLeft, Rest, ToReport
  <2>7. CASE Open
    <3>1. pc = "open" /\ pc' \in {"read", "caught"} /\ UNCHANGED <<file, pos, last>>
      BY <2>7 DEF Open
    <3>2. Down
      BY <2>0, <2>1, <2>4, <2>5, <2>6, <3>1
    <3> QED
      BY <2>7, <3>2 DEF Thread
  <2>8. CASE ReadFails
    <3>1. Down
      BY <2>0, <2>1, <2>4, <2>6, <2>8 DEF ReadFails
    <3> QED
      BY <2>8, <3>1 DEF Thread
  <2>9. ASSUME pc = "read", pos < Len(file), pos' = pos + 1, UNCHANGED <<file, last>>,
               \/ pc' = "read"
               \/ pc' = "send" /\ tryCount' = 0
        PROVE  Down
    <3>1. Rest' = ToRead(Len(file) - (pos + 1))
      BY <2>9 DEF Rest
    <3>2. Rest' \in Nat /\ Rest' >= MaxTries + 5 /\ Rest = Rest' + MaxTries + 3
      BY <2>1, <2>9, <3>1
    <3>3. ~last
      BY <2>0, <2>9
    <3>4. ToReport' = Rest' + 1
      BY <2>9, <3>3 DEF ToReport, Rest
    <3> QED
      BY <2>0, <2>4, <2>6, <2>9, <3>2, <3>4
  <2>10. CASE SkipBlank
    <3>1. Down
      BY <2>9, <2>10 DEF SkipBlank
    <3> QED
      BY <2>10, <3>1 DEF Thread
  <2>11. CASE AddLine
    <3>1. pc' = "read" \/ (pc' = "send" /\ tryCount' = 0)
      BY <2>11 DEF AddLine
    <3>2. Down
      BY <2>9, <2>11, <3>1 DEF AddLine
    <3> QED
      BY <2>11, <3>2 DEF Thread
  <2>12. CASE EndOfFile
    <3>1. /\ pc = "read" /\ pc' = "send" /\ tryCount' = 0 /\ last'
      BY <2>12 DEF EndOfFile
    <3>2. ToReport' = 3
      BY <3>1 DEF ToReport
    <3>3. Down
      BY <2>0, <2>1, <2>4, <2>6, <3>1, <3>2
    <3> QED
      BY <2>12, <3>3 DEF Thread
  <2>13. ASSUME pc = "send", ~Exhausted, pc' = pc, tryCount' = tryCount + 1,
                UNCHANGED <<file, pos, last>>
         PROVE  Down
    <3>1. tryCount + 1 <= MaxTries
      BY <2>0, <2>13
    <3>2. ToReport' = ToReport
      BY <2>5, <2>13
    <3> QED
      BY <2>0, <2>2, <2>4, <2>6, <2>13, <3>1, <3>2
  <2>14. CASE ParseFails \/ RequestThrows
    <3>1. Down
      BY <2>13, <2>14 DEF ParseFails, RequestThrows
    <3> QED
      BY <2>14, <3>1 DEF Thread
  <2>15. ASSUME pc = "send", pc' = "report", UNCHANGED <<file, pos, last>>
         PROVE  Down
    <3>1. ToReport' = ToReport
      BY <2>5, <2>15
    <3> QED
      BY <2>0, <2>2, <2>4, <2>6, <2>15, <3>1
  <2>16. CASE GiveUp
    <3>1. Down
      BY <2>15, <2>16 DEF GiveUp
    <3> QED
      BY <2>16, <3>1 DEF Thread
  <2>17. ASSUME NEW S \in SUBSET contentList, Answered(S)
         PROVE  Counts
    <3>1. Down
      BY <2>15, <2>17 DEF Answered
    <3> QED
      BY <2>17, <3>1 DEF Thread
  <2>18. CASE ReportCount
    <3>1. /\ pc = "report" /\ UNCHANGED <<file, pos, last>>
          /\ pc' \in {"read", "over", "caught"}
          /\ pc' = "read" => ~last
      BY <2>18 DEF ReportCount
    <3>2. Rest' = Rest
      BY <2>5, <3>1
    <3>3. Down
      BY <2>0, <2>1, <2>2, <2>4, <2>6, <3>1, <3>2
    <3> QED
      BY <2>18, <3>3 DEF Thread
  <2>19. CASE ReportOver
    <3>1. pc = "over" /\ pc' \in {"done", "caught"}
      BY <2>19 DEF ReportOver
    <3>2. Down
      BY <2>4, <2>6, <3>1
    <3> QED
      BY <2>19, <3>2 DEF Thread
  <2>20. CASE Caught
    <3>1. Down
      BY <2>4, <2>6, <2>20 DEF Caught
    <3> QED
      BY <2>20, <3>1 DEF Thread
  <2>21. CASE Environment
    <3>1. UNCHANGED <<file, pos, last, pc, tryCount>>
      BY <2>21 DEF Environment, ApplyLate, Leaves
    <3>2. StepsLeft' = StepsLeft
      BY <3>1 DEF StepsLeft, ToReport, Rest
    <3>3. ~Thread
      <4>1. ASSUME Thread PROVE pc' # pc \/ pos' # pos \/ tryCount' # tryCount
        <5>1. pos + 1 # pos /\ tryCount + 1 # tryCount
          BY <2>0
        <5> QED
          BY <4>1, <5>1
          DEF Thread, Open, ReadFails, SkipBlank, AddLine, EndOfFile, ParseFails,
              RequestThrows, Answered, GiveUp, ReportCount, ReportOver, Caught
      <4> QED
        BY <3>1, <4>1
    <3> QED
      BY <2>4, <3>2, <3>3
  <2> QED
    BY <1>1, <2>7, <2>8, <2>10, <2>11, <2>12, <2>14, <2>16, <2>17, <2>18, <2>19,
       <2>20, <2>21 DEF Next, Thread
<1>2. IInv /\ [Next]_vars
      => [/\ StepsLeft' \in Nat
          /\ IF Thread THEN StepsLeft' < StepsLeft ELSE StepsLeft' = StepsLeft]_vars
  BY <1>1
<1> QED
  BY <1>2, Inductive, PTL DEF Spec, EveryStepCounts
-----------------------------------------------------------------------------
(* The lines as a sequence of batches *)

\* How many lines the list holds: what is beyond the full batches while lines
\* are read, a full batch while one is sent, and no more than that at the end.
ListLength ==
    /\ pc \in {"open", "read"} => Cardinality(contentList) = count % BatchSize
    /\ pc = "send" /\ ~last =>
          Cardinality(contentList) = BatchSize /\ count % BatchSize = 0
    /\ pc = "send" /\ last => Cardinality(contentList) <= BatchSize
    /\ pc = "report" /\ ~last => count % BatchSize = 0

\* The list is a finite set.
LEMMA ListFinite ==
    TypeOK => IsFiniteSet(contentList) /\ Cardinality(contentList) \in Nat
<1> SUFFICES ASSUME TypeOK PROVE IsFiniteSet(contentList) /\ Cardinality(contentList) \in Nat
  OBVIOUS
<1>1. IsFiniteSet(Lines)
  <2>1. Len(file) \in Nat
    BY DEF TypeOK
  <2> QED
    BY <2>1, FS_Interval DEF Lines
<1>2. contentList \in SUBSET Lines
  BY DEF TypeOK
<1>3. IsFiniteSet(contentList)
  BY <1>1, <1>2, FS_Subset
<1> QED
  BY <1>3, FS_CardinalityType

LEMMA ListLengthStep == IInv /\ ListLength /\ [Next]_vars => ListLength'
<1> SUFFICES ASSUME IInv, ListLength, [Next]_vars PROVE ListLength'
  OBVIOUS
<1> USE DEF ListLength, batch, ghosts, vars
<1>0. /\ TypeOK /\ Phases /\ Accounted
      /\ BatchSize \in Nat \ {0} /\ count \in Nat /\ last \in BOOLEAN /\ pos \in Nat
      /\ count % BatchSize \in 0 .. BatchSize - 1
      /\ IsFiniteSet(contentList) /\ Cardinality(contentList) \in Nat
  <2>1. /\ TypeOK /\ Phases /\ Accounted /\ BatchSize \in Nat \ {0} /\ count \in Nat
        /\ last \in BOOLEAN /\ pos \in Nat
    BY BulkAssumption DEF IInv, TypeOK
  <2> QED
    BY <2>1, Div, ListFinite
<1>e. Cardinality({}) = 0
  BY FS_EmptySet
<1>1. CASE AddLine
  <2>1. /\ pc = "read" /\ contentList' = contentList \cup {pos + 1} /\ count' = count + 1
        /\ last' = last /\ (pc' = "send" <=> BatchFull(count')) /\ pc' \in {"send", "read"}
    BY <1>1 DEF AddLine
  <2>2. pos + 1 \notin contentList
    <3>1. pos + 1 \notin NonBlank(pos)
      BY <1>0, <1>1, NonBlankNext DEF AddLine
    <3> QED
      BY <1>0, <3>1 DEF Accounted
  <2>3. Cardinality(contentList') = Cardinality(contentList) + 1
    BY <1>0, <2>1, <2>2, FS_AddElement
  <2>4. (count + 1) % BatchSize =
            IF count % BatchSize = BatchSize - 1 THEN 0 ELSE (count % BatchSize) + 1
    <3>1. count <= count
      BY <1>0
    <3> QED
      BY <1>0, <3>1, BatchStep
  <2>5. pc' = "send" <=> (count + 1) % BatchSize = 0
    BY <2>1 DEF BatchFull
  <2>6. ~last'
    BY <1>0, <2>1 DEF Phases
  <2>7. Cardinality(contentList) = count % BatchSize
    BY <2>1
  <2> DEFINE r == count % BatchSize  s == (count + 1) % BatchSize
             c == Cardinality(contentList)  d == Cardinality(contentList')
  <2>8. /\ r \in 0 .. BatchSize - 1 /\ s = (IF r = BatchSize - 1 THEN 0 ELSE r + 1)
        /\ c = r /\ d = c + 1 /\ (pc' = "send" <=> s = 0)
    BY <1>0, <2>3, <2>4, <2>5, <2>7
  <2>9. count' % BatchSize = s
    BY <2>1
  <2> HIDE DEF r, s, c, d
  <2>10. (pc' = "send" => d = BatchSize /\ s = 0) /\ (pc' = "read" => d = s)
    BY <1>0, <2>8
  <2> QED
    BY <2>1, <2>6, <2>9, <2>10 DEF d
<1>2. CASE EndOfFile
  <2>1. Cardinality(contentList) <= BatchSize
    BY <1>0, <1>2 DEF EndOfFile
  <2> QED
    BY <1>2, <2>1 DEF EndOfFile
<1>3. CASE SkipBlank \/ Open \/ ReadFails \/ ParseFails \/ RequestThrows
  BY <1>3 DEF SkipBlank, Open, ReadFails, ParseFails, RequestThrows
<1>4. CASE GiveUp
  BY <1>4 DEF GiveUp
<1>5. ASSUME NEW S \in SUBSET contentList, Answered(S)
      PROVE  ListLength'
  BY <1>5 DEF Answered
<1>6. CASE ReportCount
  BY <1>0, <1>e, <1>6 DEF ReportCount, Phases
<1>7. CASE ReportOver \/ Caught
  BY <1>7 DEF ReportOver, Caught
<1>8. CASE Environment \/ UNCHANGED vars
  BY <1>8 DEF Environment, ApplyLate, Leaves
<1> QED
  BY <1>1, <1>2, <1>3, <1>4, <1>5, <1>6, <1>7, <1>8 DEF Next, Thread

\* Of a set of numbers whose first ones are those of L and whose others, if it
\* has any, come after L when L is full, the first BatchSize are L.
LEMMA FirstOnes ==
    ASSUME NEW W, NEW L \in SUBSET W, NEW n \in Nat, W \subseteq Int,
           IsFiniteSet(W), Cardinality(L) <= n,
           L # W => Cardinality(L) = n,
           \A l \in L, k \in W \ L : l < k
    PROVE  {i \in W : Cardinality({k \in W : k < i}) < n} = L
<1>0. IsFiniteSet(L) /\ Cardinality(L) \in Nat
  BY FS_Subset, FS_CardinalityType
<1>1. ASSUME NEW i \in L
      PROVE  Cardinality({k \in W : k < i}) < n
  <2> DEFINE Before == {k \in W : k < i}
  <2>1. Before \in SUBSET L /\ i \notin Before
    <3>1. ASSUME NEW k \in Before PROVE k \in L
      <4>1. k \in W /\ k < i /\ k \in Int /\ i \in Int
        BY <3>1
      <4>2. k \in W \ L => i < k
        BY <1>1
      <4> QED
        BY <4>1, <4>2
    <3>2. i \notin Before
      <4>1. i \in Int
        OBVIOUS
      <4> QED
        BY <4>1
    <3> QED
      BY <3>1, <3>2
  <2> HIDE DEF Before
  <2>2. Before # L
    BY <1>1, <2>1
  <2>3. IsFiniteSet(Before) /\ Cardinality(Before) \in Nat
    BY <1>0, <2>1, FS_Subset, FS_CardinalityType
  <2>4. Cardinality(Before) <= Cardinality(L) /\ Cardinality(Before) # Cardinality(L)
    BY <1>0, <2>1, <2>2, FS_Subset
  <2>5. Cardinality(Before) < n
    BY <1>0, <2>3, <2>4
  <2> QED
    BY <2>5 DEF Before
<1>2. ASSUME NEW i \in W \ L
      PROVE  ~(Cardinality({k \in W : k < i}) < n)
  <2> DEFINE Before == {k \in W : k < i}
  <2>1. L \in SUBSET Before /\ Before \in SUBSET W
    BY <1>2
  <2> HIDE DEF Before
  <2>2. IsFiniteSet(Before) /\ Cardinality(Before) \in Nat
    BY <2>1, FS_Subset, FS_CardinalityType
  <2>3. Cardinality(L) <= Cardinality(Before)
    BY <2>1, <2>2, FS_Subset
  <2>4. Cardinality(L) = n
    BY <1>2
  <2>5. ~(Cardinality(Before) < n)
    BY <1>0, <2>2, <2>3, <2>4
  <2> QED
    BY <2>5 DEF Before
<1> QED
  BY <1>1, <1>2

\* The abstract writer counts as this module does.
LEMMA SameCardinality == \A S : Batches!Cardinality(S) = Cardinality(S)
  BY DEF Batches!Cardinality, Cardinality

\* The list that is sent is the next batch of the file.
LEMMA ListIsNextBatch ==
    IInv /\ ListLength /\ pc = "send" => Batches!NextBatch = contentList
<1> SUFFICES ASSUME IInv, ListLength, pc = "send"
             PROVE  Batches!NextBatch = contentList
  OBVIOUS
<1> DEFINE W == NonBlank(Len(file)) \ (acked \cup dropped)
<1>0. /\ TypeOK /\ Phases /\ Accounted /\ pos \in 0 .. Len(file) /\ Len(file) \in Nat
      /\ BatchSize \in Nat /\ last \in BOOLEAN
  BY BulkAssumption DEF IInv, TypeOK
<1>1. Batches!NextBatch = {i \in W : Cardinality({k \in W : k < i}) < BatchSize}
  <2>1. Batches!Left = W
    BY DEF Batches!Left
  <2>2. Batches!NextBatch =
            {i \in W : Batches!Cardinality({k \in W : k < i}) < BatchSize}
    BY <2>1 DEF Batches!NextBatch
  <2> QED
    BY <2>2, SameCardinality
<1>2. NonBlank(pos) = {l \in NonBlank(Len(file)) : l <= pos}
  BY <1>0 DEF NonBlank
<1>3. contentList \in SUBSET W /\ \A l \in contentList : l <= pos
  BY <1>0, <1>2 DEF Accounted
<1>4. \A k \in W \ contentList : k > pos
  <2>1. ASSUME NEW k \in W \ contentList, k <= pos PROVE FALSE
    <3>1. k \in NonBlank(pos)
      BY <1>2, <2>1
    <3> QED
      BY <1>0, <2>1, <3>1 DEF Accounted
  <2>2. W \subseteq Int
    BY <1>0 DEF NonBlank
  <2> QED
    BY <1>0, <2>1, <2>2
<1>5. W \subseteq Int /\ IsFiniteSet(W)
  <2>1. IsFiniteSet(NonBlank(Len(file))) /\ NonBlank(Len(file)) \subseteq Int
    BY <1>0, NonBlankFinite DEF NonBlank
  <2>2. W \in SUBSET NonBlank(Len(file))
    OBVIOUS
  <2>3. IsFiniteSet(W)
    BY <2>1, <2>2, FS_Subset
  <2> QED
    BY <2>1, <2>3
<1>6. Cardinality(contentList) <= BatchSize
  <2>1. CASE last
    BY <2>1 DEF ListLength
  <2>2. CASE ~last
    BY <1>0, <2>2 DEF ListLength
  <2> QED
    BY <2>1, <2>2
<1>7. contentList # W => Cardinality(contentList) = BatchSize
  <2>1. CASE last
    <3>1. \A k \in W : k <= pos
      BY <1>0, <2>1 DEF Phases, NonBlank
    <3>2. \A k \in W \ contentList : FALSE
      BY <1>0, <1>4, <1>5, <3>1
    <3> QED
      BY <1>3, <3>2
  <2>2. CASE ~last
    BY <2>2 DEF ListLength
  <2> QED
    BY <2>1, <2>2
<1>8. \A l \in contentList, k \in W \ contentList : l < k
  BY <1>0, <1>3, <1>4, <1>5
<1> HIDE DEF W
<1>9. {i \in W : Cardinality({k \in W : k < i}) < BatchSize} = contentList
  BY <1>0, <1>3, <1>5, <1>6, <1>7, <1>8, FirstOnes
<1> QED
  BY <1>1, <1>9

\* For every batch size and every file, the loop with its retries and its
\* final send2es is the writer that takes the lines batch by batch.
THEOREM RefinesBatchWriter == Spec => ImplementsBatchWriter
<1>1. Init => Batches!Init /\ ListLength
  <2> SUFFICES ASSUME Init PROVE Batches!Init /\ ListLength
    OBVIOUS
  <2>1. acked = {} /\ dropped = {} /\ contentList = {} /\ count = 0 /\ pc = "open"
    BY DEF Init, Start
  <2>2. {l \in Lines : file[l] = "bad"} \subseteq NonBlank(Len(file))
    BY DEF Lines, NonBlank
  <2>3. Cardinality({}) = 0
    BY FS_EmptySet
  <2>4. 0 % BatchSize = 0
    BY BulkAssumption
  <2> QED
    BY <2>1, <2>2, <2>3, <2>4 DEF Batches!Init, ListLength
<1>2. IInv /\ ListLength /\ [Next]_vars => [Batches!Next]_Batches!vars
  <2> SUFFICES ASSUME IInv, ListLength, [Next]_vars
               PROVE  Batches!Next \/ UNCHANGED Batches!vars
    OBVIOUS
  <2>1. file' = file
    BY DEF Next, Thread, Environment, Open, ReadFails, SkipBlank, AddLine, EndOfFile,
           ParseFails, RequestThrows, Answered, GiveUp, ReportCount, ReportOver,
           Caught, ApplyLate, Leaves, vars, batch, ghosts
  <2>2. UNCHANGED <<NonBlank(Len(file)), {l \in Lines : file[l] = "bad"}>>
    BY <2>1 DEF NonBlank, Lines
  <2>3. CASE GiveUp
    <3>1. pc = "send" /\ dropped' = dropped \cup contentList /\ acked' = acked
      BY <2>3 DEF GiveUp
    <3>2. Batches!NextBatch = contentList
      BY <3>1, ListIsNextBatch
    <3> QED
      BY <2>2, <3>1, <3>2 DEF Batches!Next, Batches!GiveUp
  <2>4. ASSUME NEW S \in SUBSET contentList, Answered(S)
        PROVE  Batches!Next
    <3>1. /\ pc = "send" /\ acked' = acked \cup contentList /\ dropped' = dropped
          /\ ~Poisoned
      BY <2>4 DEF Answered
    <3>2. Batches!NextBatch = contentList
      BY <3>1, ListIsNextBatch
    <3>3. contentList \cap {l \in Lines : file[l] = "bad"} = {}
      BY <3>1 DEF Poisoned
    <3> QED
      BY <2>2, <3>1, <3>2, <3>3 DEF Batches!Next, Batches!Answer
  <2>5. CASE UNCHANGED <<acked, dropped>>
    BY <2>2, <2>5 DEF Batches!vars
  <2> QED
    BY <2>3, <2>4, <2>5
    DEF Next, Thread, Environment, Open, ReadFails, SkipBlank, AddLine, EndOfFile,
        ParseFails, RequestThrows, ReportCount, ReportOver, Caught, ApplyLate,
        Leaves, vars, batch, ghosts
<1> QED
  BY <1>1, <1>2, Inductive, ListLengthStep, PTL DEF Spec, Batches!Spec, ImplementsBatchWriter
=============================================================================
