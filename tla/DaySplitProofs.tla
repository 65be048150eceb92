--------------------------- MODULE DaySplitProofs ---------------------------
(***************************************************************************)
(* The days of parseSqlPerDay partition the range of the query, for every  *)
(* length of a day, every set of queries and every document.               *)
(***************************************************************************)
EXTENDS DaySplit, FiniteSetTheorems, WellFoundedInduction, TLAPS

\* Midnights follow one another.
LEMMA Midnights ==
    /\ \A k \in Int : Midnight(k) \in Int /\ Midnight(k + 1) = Midnight(k) + DayLength
    /\ \A j, k \in Int : j <= k => Midnight(j) <= Midnight(k)
    /\ DayLength \in Int /\ DayLength > 0
<1>1. DayLength \in Int /\ DayLength > 0
  BY DayLengthType
<1>2. \A n \in Nat : n * DayLength >= 0
  BY <1>1
<1>3. ASSUME NEW j \in Int, NEW k \in Int, j <= k PROVE j * DayLength <= k * DayLength
  <2>1. k - j \in Nat /\ (k - j) * DayLength >= 0
    BY <1>2, <1>3
  <2>2. k * DayLength = j * DayLength + (k - j) * DayLength
    BY <1>1, <1>3
  <2> QED
    BY <1>1, <2>1, <2>2
<1>4. \A k \in Int : (k + 1) * DayLength = k * DayLength + DayLength /\ k * DayLength \in Int
  BY <1>1
<1> QED
  BY <1>1, <1>3, <1>4 DEF Midnight

\* An instant is in its day and in no other.
LEMMA DayBounds ==
    ASSUME NEW t \in Int
    PROVE  /\ DayOf(t) \in Int
           /\ Midnight(DayOf(t)) <= t
           /\ t < Midnight(DayOf(t) + 1)
           /\ \A k \in Int : Midnight(k) <= t /\ t < Midnight(k + 1) => DayOf(t) = k
<1>1. DayLength \in Int /\ DayLength > 0
  BY Midnights
<1>2. DayOf(t) \in Int
  BY <1>1 DEF DayOf
<1>3. DayLength * DayOf(t) <= t
  BY <1>1 DEF DayOf
<1>4. t < DayLength * DayOf(t) + DayLength
  BY <1>1 DEF DayOf
<1>5. DayLength * DayOf(t) = DayOf(t) * DayLength
  BY <1>1, <1>2
<1>6. Midnight(DayOf(t)) <= t /\ t < Midnight(DayOf(t)) + DayLength
  BY <1>3, <1>4, <1>5 DEF Midnight
<1>7. t < Midnight(DayOf(t) + 1)
  BY <1>2, <1>6, Midnights
<1>8. ASSUME NEW k \in Int, Midnight(k) <= t, t < Midnight(k + 1) PROVE DayOf(t) = k
  <2>1. ~(DayOf(t) + 1 <= k)
    BY <1>2, <1>7, <1>8, Midnights
  <2>2. ~(k + 1 <= DayOf(t))
    BY <1>2, <1>6, <1>8, Midnights
  <2> QED
    BY <1>2, <2>1, <2>2
<1> QED
  BY <1>2, <1>6, <1>7, <1>8
-----------------------------------------------------------------------------
(* The range *)

Field == query[First].field

\* A range is its two bounds and the other conditions.
LEMMA RangeParts ==
    ASSUME query \in Queries, HasBetween, IsRange
    PROVE  /\ BeginCondition.field = Field /\ EndCondition.field = Field /\ Field \in Fields
           /\ BeginCondition.op \in {">", ">="} /\ EndCondition.op \in {"<", "<="}
           /\ BeginCondition.value \in Int /\ EndCondition.value \in Int
           /\ All = {BeginCondition, EndCondition} \cup Others
<1>1. query \in Seq(Conditions)
  BY QueriesType
<1>2. /\ DOMAIN query \subseteq Int
      /\ \A i \in DOMAIN query : query[i] \in Conditions
  BY <1>1
<1>0. IsFiniteSet(Lowers) /\ IsFiniteSet(Uppers)
  <2>1. IsFiniteSet(DOMAIN query)
    BY <1>1, FS_Interval
  <2>2. Lowers \in SUBSET DOMAIN query /\ Uppers \in SUBSET DOMAIN query
    BY DEF Lowers, Uppers
  <2> QED
    BY <2>1, <2>2, FS_Subset
<1>3. PICK l : Lowers = {l}
  BY <1>0, FS_Singleton DEF IsRange
<1>4. PICK u : Uppers = {u}
  BY <1>0, FS_Singleton DEF IsRange
<1>5. l \in DOMAIN query /\ u \in DOMAIN query
  BY <1>3, <1>4 DEF Lowers, Uppers
<1>6. BeginCondition = query[l] /\ EndCondition = query[u]
  BY <1>2, <1>3, <1>4, <1>5 DEF BeginCondition, EndCondition, LastOf
<1>7. First \in Comparing /\ First \in DOMAIN query
  <2>1. Comparing \subseteq Nat /\ Comparing # {} /\ Comparing \subseteq DOMAIN query
    BY <1>1 DEF Comparing, HasBetween
  <2>2. \E i \in Comparing : \A j \in Comparing : i <= j
    <3> DEFINE Rel == {p \in Nat \X Nat : p[1] < p[2]}
    <3>1. IsWellFoundedOn(Rel, Nat)
      BY NatLessThanWellFounded, Zenon DEF OpToRel
    <3>2. PICK i \in Comparing : \A j \in Comparing : ~(<<j, i>> \in Rel)
      <4> HIDE DEF Rel
      <4> QED
        BY <2>1, <3>1, WFMin
    <3>3. \A j \in Comparing : ~(j < i)
      BY <2>1, <3>2
    <3> QED
      BY <2>1, <3>3
  <2> QED
    BY <2>1, <2>2 DEF First
<1>8. First = l \/ First = u
  BY <1>3, <1>4, <1>7 DEF IsRange, StartsWithName, Comparing, Compares, Lowers, Uppers
<1>9. Greater(query[l]) /\ ~Less(query[l]) /\ Less(query[u]) /\ ~Greater(query[u])
  <2>1. l # u /\ l \in Lowers /\ u \in Uppers /\ l \notin Uppers /\ u \notin Lowers
    BY <1>3, <1>4 DEF IsRange
  <2> QED
    BY <2>1, <1>5 DEF Lowers, Uppers
<1>10. All = {query[l], query[u]} \cup Others
  <2>1. \A i \in DOMAIN query : StartsWithName(query[i]) <=> i = l \/ i = u
    BY <1>3, <1>4 DEF IsRange
  <2>2. All \subseteq {query[l], query[u]} \cup Others
    BY <2>1 DEF All, Others
  <2>3. {query[l], query[u]} \cup Others \subseteq All
    BY <1>5 DEF All, Others
  <2> QED
    BY <2>2, <2>3
<1> QED
  BY <1>2, <1>5, <1>6, <1>8, <1>9, <1>10 DEF IsRange, Field, Greater, Less, Conditions, Ops
-----------------------------------------------------------------------------
(* The invariant *)

Day0 == DayOf(BeginCondition.value)
Opening(k) == IF k = Day0 THEN BeginCondition ELSE From(Midnight(k))

\* The state at the head of the loop, before the day Day0 + count.
AtHead ==
    /\ count \in Nat
    /\ DayOf(begin) = Day0 + count
    /\ begin = (IF count = 0 THEN BeginCondition.value ELSE Midnight(Day0 + count))
    /\ middle = Midnight(Day0 + count + 1)

\* The queries of the days before it.
Earlier ==
    \A k \in Day0 .. (Day0 + count - 1) :
        /\ result[k] = {Opening(k), Before(Midnight(k + 1))} \cup Others
        /\ Midnight(k + 1) < EndCondition.value

Looping ==
    /\ HasBetween
    /\ AtHead
    /\ Earlier
    /\ DOMAIN result = Day0 .. (Day0 + count - 1)

Done ==
    /\ AtHead
    /\ Earlier
    /\ DOMAIN result = Day0 .. (Day0 + count)
    /\ result[Day0 + count] = {From(begin), EndCondition} \cup Others
    /\ EndCondition.value <= middle

IInv ==
    /\ query \in Queries
    /\ pc = "read" => count = 0 /\ DOMAIN result = {}
    /\ pc = "loop" /\ IsRange => Looping
    /\ Split /\ IsRange => Done

\* A step keeps the query, and what is read of it.
LEMMA QueryKept ==
    ASSUME query' = query
    PROVE  /\ HasBetween' = HasBetween
           /\ BeginCondition' = BeginCondition /\ EndCondition' = EndCondition
           /\ Others' = Others /\ IsRange' = IsRange
           /\ \A t : From(t)' = From(t) /\ Before(t)' = Before(t)
<1>1. First' = First
  BY Zenon DEF First, Comparing
<1>2. \A c : StartsWithName(c)' = StartsWithName(c)
  BY <1>1 DEF StartsWithName
<1>3. Comparing' = Comparing /\ Lowers' = Lowers /\ Uppers' = Uppers /\ Others' = Others
  BY <1>2 DEF Comparing, Lowers, Uppers, Others
<1>4. BeginCondition' = BeginCondition /\ EndCondition' = EndCondition
  BY <1>3, Zenon DEF BeginCondition, EndCondition, LastOf
<1> QED
  BY <1>1, <1>2, <1>3, <1>4 DEF From, Before, HasBetween, IsRange

\* Each step of the loop makes the query of one day more.
LEMMA NextIInv ==
    IInv /\ [Next]_vars => IInv'
<1> SUFFICES ASSUME IInv, [Next]_vars PROVE IInv'
  OBVIOUS
<1>1. query' = query
  BY DEF Next, Whole, Throws, Prepare, FirstDay, NextDay, LastDay, vars
<1>2. query' \in Queries
  BY <1>1 DEF IInv
<1>3. /\ HasBetween' = HasBetween /\ BeginCondition' = BeginCondition
      /\ EndCondition' = EndCondition /\ Others' = Others /\ IsRange' = IsRange
      /\ \A t : From(t)' = From(t) /\ Before(t)' = Before(t)
  BY <1>1, QueryKept
<1>4. /\ Day0' = Day0
      /\ \A k : Opening(k)' = Opening(k)
  BY <1>3 DEF Day0, Opening
<1>5. CASE UNCHANGED vars
  BY <1>2, <1>3, <1>4, <1>5 DEF IInv, Looping, Done, AtHead, Earlier, Split, vars
<1>6. CASE Whole
  BY <1>2, <1>3, <1>6 DEF Whole, IInv, Split
<1>7. CASE Throws
  BY <1>2, <1>7 DEF Throws, IInv, Split
<1>8. ASSUME IsRange, HasBetween PROVE Day0 \in Int /\ BeginCondition.value \in Int /\ EndCondition.value \in Int
  BY <1>8, RangeParts, DayBounds DEF IInv, Day0
<1>9. CASE Prepare
  <2> SUFFICES ASSUME IsRange PROVE Looping'
    BY <1>2, <1>3, <1>9 DEF Prepare, IInv, Split
  <2>1. HasBetween /\ begin' = BeginCondition.value /\ middle' = Midnight(Day0 + 1)
    BY <1>9 DEF Prepare, FirstMidnight, Day0
  <2>2. count' = 0 /\ DOMAIN result' = {}
    BY <1>9 DEF Prepare, IInv
  <2>3. Day0 \in Int
    BY <1>8, <2>1
  <2>4. AtHead'
    BY <1>3, <1>4, <2>1, <2>2, <2>3 DEF AtHead, Day0
  <2>5. Day0 .. (Day0 + 0 - 1) = {}
    BY <2>3
  <2> QED
    BY <1>3, <1>4, <2>1, <2>2, <2>4, <2>5 DEF Looping, Earlier
<1>10. CASE FirstDay \/ NextDay
  <2> SUFFICES ASSUME IsRange PROVE Looping'
    BY <1>2, <1>3, <1>10 DEF FirstDay, NextDay, IInv, Split
  <2>1. Looping
    BY <1>10 DEF FirstDay, NextDay, IInv
  <2>2. Day0 \in Int /\ count \in Nat /\ EndCondition.value \in Int
    BY <1>8, <2>1 DEF Looping, AtHead
  <2>3. DayOf(begin) = Day0 + count /\ middle = Midnight(Day0 + count + 1)
    BY <2>1 DEF Looping, AtHead
  <2>4. /\ count' = count + 1 /\ begin' = middle
        /\ middle' = middle + DayLength /\ middle < EndCondition.value
    BY <1>10 DEF FirstDay, NextDay, MoreDays
  <2>5. Put(Day0 + count, {Opening(Day0 + count), Before(middle)} \cup Others)
    <3>1. CASE FirstDay
      BY <2>2, <2>3, <3>1 DEF FirstDay, Opening
    <3>2. CASE NextDay
      <4>1. count > 0 /\ Put(Day0 + count, {From(begin), Before(middle)} \cup Others)
        BY <2>3, <3>2 DEF NextDay
      <4>2. Day0 + count # Day0 /\ begin = Midnight(Day0 + count)
        BY <2>1, <2>2, <4>1 DEF Looping, AtHead
      <4> QED
        BY <4>1, <4>2 DEF Opening
    <3> QED
      BY <1>10, <3>1, <3>2
  <2>6. Midnight(Day0 + count + 1) \in Int /\ Midnight(Day0 + count + 1 + 1) = middle'
    BY <2>2, <2>3, <2>4, Midnights
  <2>7. DayOf(begin') = Day0 + count + 1
    <3>1. begin' \in Int /\ Midnight(Day0 + count + 1) <= begin'
      BY <2>3, <2>4, <2>6
    <3>2. begin' < Midnight(Day0 + count + 1 + 1)
      BY <2>2, <2>3, <2>4, <2>6, Midnights
    <3> QED
      BY <2>2, <3>1, <3>2, DayBounds
  <2>8. AtHead'
    BY <1>3, <1>4, <2>2, <2>3, <2>4, <2>6, <2>7 DEF AtHead
  <2>9. DOMAIN result' = Day0 .. (Day0 + count)
    <3>1. DOMAIN result' = DOMAIN result \cup {Day0 + count}
      BY <2>5 DEF Put
    <3>2. Day0 .. (Day0 + count) = (Day0 .. (Day0 + count - 1)) \cup {Day0 + count}
      BY <2>2
    <3> QED
      BY <2>1, <3>1, <3>2 DEF Looping
  <2>10. ASSUME NEW k \in Day0 .. (Day0 + count)
         PROVE  /\ result'[k] = {Opening(k), Before(Midnight(k + 1))} \cup Others
                /\ Midnight(k + 1) < EndCondition.value
    <3>1. CASE k = Day0 + count
      BY <2>2, <2>3, <2>4, <2>5, <3>1 DEF Put
    <3>2. CASE k # Day0 + count
      <4>1. k \in Day0 .. (Day0 + count - 1)
        BY <2>2, <3>2
      <4>2. result'[k] = result[k]
        BY <2>1, <2>5, <3>2, <4>1 DEF Put, Looping
      <4> QED
        BY <2>1, <4>1, <4>2 DEF Looping, Earlier
    <3> QED
      BY <3>1, <3>2
  <2>11. Day0 + count' - 1 = Day0 + count
    BY <2>2, <2>4
  <2> QED
    BY <1>3, <1>4, <2>1, <2>8, <2>9, <2>10, <2>11 DEF Looping, Earlier
<1>11. CASE LastDay
  <2> SUFFICES ASSUME IsRange PROVE Done'
    BY <1>2, <1>3, <1>11 DEF LastDay, IInv, Split
  <2>1. Looping
    BY <1>11 DEF LastDay, IInv
  <2>2. Day0 \in Int /\ count \in Nat /\ EndCondition.value \in Int
    BY <1>8, <2>1 DEF Looping, AtHead
  <2>3. /\ Put(Day0 + count, {From(begin), EndCondition} \cup Others)
        /\ UNCHANGED <<begin, middle, count>> /\ ~(middle < EndCondition.value)
    BY <1>11, <2>1 DEF LastDay, MoreDays, Looping, AtHead
  <2>4. AtHead'
    BY <1>3, <1>4, <2>1, <2>3 DEF Looping, AtHead
  <2>5. EndCondition.value <= middle
    <3>1. middle \in Int
      BY <2>1, <2>2, Midnights DEF Looping, AtHead
    <3> QED
      BY <2>2, <2>3, <3>1
  <2>6. DOMAIN result' = Day0 .. (Day0 + count)
    <3>1. DOMAIN result' = DOMAIN result \cup {Day0 + count}
      BY <2>3 DEF Put
    <3>2. Day0 .. (Day0 + count) = (Day0 .. (Day0 + count - 1)) \cup {Day0 + count}
      BY <2>2
    <3> QED
      BY <2>1, <3>1, <3>2 DEF Looping
  <2>7. \A k \in Day0 .. (Day0 + count - 1) : result'[k] = result[k]
    BY <2>1, <2>2, <2>3 DEF Put, Looping
  <2>8. result'[Day0 + count] = {From(begin), EndCondition} \cup Others
    BY <2>3 DEF Put
  <2> QED
    BY <1>3, <1>4, <2>1, <2>3, <2>4, <2>5, <2>6, <2>7, <2>8 DEF Looping, Done, Earlier
<1> QED
  BY <1>5, <1>6, <1>7, <1>9, <1>10, <1>11 DEF Next
-----------------------------------------------------------------------------
(* What the days hold *)

Last == Day0 + count

\* When the split is done: a day before the last has the documents of the
\* query whose instant is in that day; the last has those from its begin.
LEMMA DayMatches ==
    ASSUME IInv, Split, IsRange, NEW doc \in Docs
    PROVE  /\ doc[Field] \in Int /\ begin \in Int /\ Day0 \in Int /\ count \in Nat
           /\ Matches(All, doc) => BeginCondition.value <= doc[Field]
           /\ \A k \in Day0 .. (Last - 1) :
                  Matches(result[k], doc) <=> Matches(All, doc) /\ DayOf(doc[Field]) = k
           /\ Matches(result[Last], doc) <=>
                  /\ begin <= doc[Field]
                  /\ Holds(EndCondition, doc)
                  /\ Matches(Others, doc)
           /\ Matches(All, doc) =>
                  /\ Holds(EndCondition, doc)
                  /\ Matches(Others, doc)
           /\ Holds(EndCondition, doc) /\ Matches(Others, doc) /\ begin <= doc[Field] =>
                  Matches(All, doc) \/ AtLostBound(doc)
<1> DEFINE t == doc[Field]
           B == BeginCondition.value
           E == EndCondition.value
<1>1. Done /\ HasBetween
  BY DEF IInv, Split
<1>2. /\ BeginCondition.field = Field /\ EndCondition.field = Field /\ Field \in Fields
      /\ BeginCondition.op \in {">", ">="} /\ EndCondition.op \in {"<", "<="}
      /\ B \in Int /\ E \in Int
      /\ All = {BeginCondition, EndCondition} \cup Others
  BY <1>1, RangeParts DEF IInv
<1>3. t \in Int
  BY <1>2, DocsType
<1>4. /\ Day0 \in Int /\ Midnight(Day0) <= B /\ B < Midnight(Day0 + 1)
      /\ count \in Nat
  BY <1>1, <1>2, DayBounds DEF Day0, Done, AtHead
<1>5. /\ Last \in Int /\ Midnight(Last) \in Int /\ Midnight(Last + 1) \in Int
      /\ begin = (IF count = 0 THEN B ELSE Midnight(Last))
      /\ begin \in Int
  BY <1>1, <1>2, <1>4, Midnights DEF Done, AtHead, Last
<1>6. Holds(BeginCondition, doc) <=> (IF BeginCondition.op = ">" THEN t > B ELSE t >= B)
  BY <1>2 DEF Holds
<1>7. Holds(EndCondition, doc) <=> (IF EndCondition.op = "<" THEN t < E ELSE t <= E)
  BY <1>2 DEF Holds
<1>8. /\ \A m : Holds(From(m), doc) <=> t >= m
      /\ \A m : Holds(Before(m), doc) <=> t < m
  BY DEF Holds, From, Before, Field
<1>9. Matches(All, doc) <=>
          /\ Holds(BeginCondition, doc) /\ Holds(EndCondition, doc)
          /\ Matches(Others, doc)
  BY <1>2 DEF Matches
<1>10. ASSUME NEW k \in Day0 .. (Last - 1)
       PROVE  Matches(result[k], doc) <=> Matches(All, doc) /\ DayOf(t) = k
  <2>1. /\ result[k] = {Opening(k), Before(Midnight(k + 1))} \cup Others
        /\ Midnight(k + 1) < E
    <3>1. k \in Day0 .. (Day0 + count - 1)
      BY <1>4 DEF Last
    <3> QED
      BY <1>1, <3>1 DEF Done, Earlier
  <2>2. Matches(result[k], doc) <=>
            Holds(Opening(k), doc) /\ t < Midnight(k + 1) /\ Matches(Others, doc)
    BY <2>1, <1>8 DEF Matches
  <2>3. k \in Int /\ Midnight(k) \in Int /\ Midnight(k + 1) \in Int
    <3>1. k \in Int
      BY <1>4, <1>5
    <3> QED
      BY <3>1, Midnights
  <2>4. t < Midnight(k + 1) => Holds(EndCondition, doc)
    BY <1>2, <1>3, <1>7, <2>1, <2>3
  <2>5. DayOf(t) = k <=> Midnight(k) <= t /\ t < Midnight(k + 1)
    BY <1>3, <2>3, DayBounds
  <2>6. CASE k = Day0
    <3>1. Holds(BeginCondition, doc) => Midnight(k) <= t
      BY <1>2, <1>3, <1>4, <1>6, <2>3, <2>6
    <3> QED
      BY <1>9, <2>2, <2>4, <2>5, <2>6, <3>1 DEF Opening
  <2>7. CASE k # Day0
    <3>1. Midnight(Day0 + 1) <= Midnight(k) /\ Midnight(Day0 + 1) \in Int
      BY <1>4, <1>5, <1>10, <2>3, <2>7, Midnights
    <3>2. Midnight(k) <= t => Holds(BeginCondition, doc)
      BY <1>2, <1>3, <1>4, <1>6, <2>3, <3>1
    <3> QED
      BY <1>8, <1>9, <2>2, <2>4, <2>5, <2>7, <3>2 DEF Opening
  <2> QED
    BY <2>6, <2>7
<1>11. Matches(result[Last], doc) <=>
           begin <= t /\ Holds(EndCondition, doc) /\ Matches(Others, doc)
  <2>1. result[Last] = {From(begin), EndCondition} \cup Others
    BY <1>1 DEF Done, Last
  <2> QED
    BY <1>3, <1>5, <1>8, <2>1 DEF Matches
<1>12. Matches(All, doc) => B <= t
  BY <1>2, <1>3, <1>6, <1>9
<1>13. begin <= t => Holds(BeginCondition, doc) \/ AtLostBound(doc)
  <2>1. CASE count = 0
    BY <1>2, <1>3, <1>5, <1>6, <2>1 DEF AtLostBound
  <2>2. CASE count # 0
    <3>1. Midnight(Day0 + 1) <= Midnight(Last) /\ Midnight(Day0 + 1) \in Int
      BY <1>4, <1>5, <2>2, Midnights DEF Last
    <3> QED
      BY <1>2, <1>3, <1>4, <1>5, <1>6, <2>2, <3>1
  <2> QED
    BY <2>1, <2>2
<1> QED
  BY <1>3, <1>4, <1>5, <1>9, <1>10, <1>11, <1>12, <1>13

\* The invariant holds of every state of every behaviour of the split.
THEOREM Invariance == Spec => []IInv
<1>1. Init => IInv
  BY DEF Init, IInv, Split
<1> QED
  BY <1>1, NextIInv, PTL DEF Spec

\* parseSqlPerDay on a range: every document of the query is in exactly one of
\* the queries of the days, but for those at the lost bound, and no other is.
THEOREM DaysPartitionTheRange == Spec => []DaysPartition
<1>1. IInv => DaysPartition
  <2> SUFFICES ASSUME IInv, Split, IsRange, NEW doc \in Docs, ~AtLostBound(doc)
               PROVE  Cardinality({k \in DOMAIN result : Matches(result[k], doc)}) =
                          (IF Matches(All, doc) THEN 1 ELSE 0)
    BY DEF DaysPartition
  <2> DEFINE t == doc[Field]
             days == {k \in DOMAIN result : Matches(result[k], doc)}
  <2>1. DOMAIN result = Day0 .. Last
    BY DEF IInv, Done, Last
  <2>2. t \in Int /\ begin \in Int /\ Day0 \in Int /\ count \in Nat /\ Last \in Int
    BY DayMatches DEF Last
  <2>3. \A k \in Day0 .. (Last - 1) :
            Matches(result[k], doc) <=> Matches(All, doc) /\ DayOf(t) = k
    BY DayMatches
  <2>4. Matches(result[Last], doc) <=> Matches(All, doc) /\ begin <= t
    BY DayMatches
  <2>5. CASE ~Matches(All, doc)
    <3>1. days = {}
      BY <2>1, <2>2, <2>3, <2>4, <2>5
    <3> QED
      BY <2>5, <3>1, FS_EmptySet
  <2>6. CASE Matches(All, doc)
    <3>1. IsRange /\ query \in Queries /\ HasBetween /\ BeginCondition.value \in Int
      BY RangeParts DEF IInv, Split
    <3>2. begin = (IF count = 0 THEN BeginCondition.value ELSE Midnight(Last))
      BY DEF IInv, Done, AtHead, Last
    <3>3. BeginCondition.value <= t
      BY <2>6, DayMatches
    <3>4. \E k : days = {k}
      <4>1. CASE begin <= t
        <5>1. ASSUME NEW k \in Day0 .. (Last - 1) PROVE DayOf(t) # k
          <6>1. begin = Midnight(Last)
            BY <2>2, <3>2, <5>1 DEF Last
          <6>2. Midnight(k + 1) <= Midnight(Last) /\ Midnight(k + 1) \in Int
            BY <2>2, <5>1, Midnights
          <6> QED
            BY <2>2, <4>1, <6>1, <6>2, DayBounds
        <5>2. days = {Last}
          <6>1. Last \in DOMAIN result /\ Matches(result[Last], doc)
            BY <2>1, <2>2, <2>4, <2>6, <4>1 DEF Last
          <6>2. ASSUME NEW k \in DOMAIN result, k # Last PROVE ~Matches(result[k], doc)
            <7>1. k \in Day0 .. (Last - 1)
              BY <2>1, <2>2, <6>2
            <7> QED
              BY <2>3, <5>1, <7>1
          <6> QED
            BY <6>1, <6>2
        <5> QED
          BY <5>2
      <4>2. CASE ~(begin <= t)
        <5>1. begin = Midnight(Last)
          BY <2>2, <3>1, <3>2, <3>3, <4>2
        <5>2. DayOf(t) \in Int /\ DayOf(t) < Last
          <6>1. DayOf(t) \in Int /\ Midnight(DayOf(t)) <= t /\ Midnight(DayOf(t)) \in Int
            BY <2>2, DayBounds, Midnights
          <6>2. ~(Last <= DayOf(t))
            <7>1. Last <= DayOf(t) => Midnight(Last) <= Midnight(DayOf(t))
              BY <2>2, <6>1, Midnights
            <7> HIDE DEF t
            <7> QED
              BY <2>2, <4>2, <5>1, <6>1, <7>1
          <6> QED
            BY <2>2, <6>1, <6>2
        <5>3. Day0 <= DayOf(t)
          <6>1. /\ Midnight(Day0) <= BeginCondition.value /\ t < Midnight(DayOf(t) + 1)
                /\ Midnight(Day0) \in Int /\ Midnight(DayOf(t) + 1) \in Int
            <7>1. Midnight(Day0) <= BeginCondition.value
              BY <3>1, DayBounds DEF Day0
            <7>2. t < Midnight(DayOf(t) + 1)
              BY <2>2, DayBounds
            <7> QED
              BY <2>2, <5>2, <7>1, <7>2, Midnights
          <6>2. ~(DayOf(t) + 1 <= Day0)
            <7>1. DayOf(t) + 1 <= Day0 => Midnight(DayOf(t) + 1) <= Midnight(Day0)
              BY <2>2, <5>2, Midnights
            <7> HIDE DEF t
            <7> QED
              BY <2>2, <3>1, <3>3, <6>1, <7>1
          <6> QED
            BY <2>2, <5>2, <6>2
        <5>4. days = {DayOf(t)}
          BY <2>1, <2>2, <2>3, <2>4, <2>6, <4>2, <5>2, <5>3
        <5> QED
          BY <5>4
      <4> QED
        BY <4>1, <4>2
    <3> QED
      BY <2>6, <3>4, FS_Singleton
  <2> QED
    BY <2>5, <2>6
<1> QED
  BY <1>1, Invariance, PTL

\* The file of a day has only documents of that day, and at most those at the
\* midnight that ends the query.
THEOREM FilesHoldTheirDay == Spec => []FileOfItsDay
<1>1. IInv => FileOfItsDay
  <2> SUFFICES ASSUME IInv, Split, IsRange, NEW doc \in Docs, NEW k \in DOMAIN result,
                      Matches(result[k], doc)
               PROVE  \/ DayOf(doc[Field]) = k
                      \/ doc[Field] = Midnight(k + 1) /\ doc[Field] = EndCondition.value
    <3>1. IsRange /\ IInv /\ Split => BeginCondition.field = Field
      BY RangeParts DEF IInv, Split
    <3> QED
      BY <3>1 DEF FileOfItsDay
  <2> DEFINE t == doc[Field]
  <2>1. DOMAIN result = Day0 .. Last
    BY DEF IInv, Done, Last
  <2>2. t \in Int /\ Day0 \in Int /\ count \in Nat /\ Last \in Int /\ begin \in Int
    BY DayMatches DEF Last
  <2>3. CASE k \in Day0 .. (Last - 1)
    BY <2>3, DayMatches
  <2>4. CASE k = Last
    <3>1. /\ EndCondition.value \in Int /\ BeginCondition.value \in Int
          /\ EndCondition.field = Field /\ EndCondition.op \in {"<", "<="}
      BY RangeParts DEF IInv, Split
    <3>2. begin <= t /\ Holds(EndCondition, doc)
      BY <2>4, DayMatches
    <3>3. t <= EndCondition.value
      <4>1. Holds(EndCondition, doc) <=>
                (IF EndCondition.op = "<" THEN t < EndCondition.value
                                          ELSE t <= EndCondition.value)
        BY <3>1 DEF Holds
      <4> QED
        BY <2>2, <3>1, <3>2, <4>1
    <3>4. EndCondition.value <= Midnight(Last + 1)
      BY DEF IInv, Done, AtHead, Last
    <3>5. Midnight(Last) <= begin
      <4>1. begin = (IF count = 0 THEN BeginCondition.value ELSE Midnight(Last))
        BY DEF IInv, Done, AtHead, Last
      <4>2. CASE count = 0
        BY <2>2, <3>1, <4>1, <4>2, DayBounds DEF Day0, Last
      <4>3. CASE count # 0
        BY <2>2, <4>1, <4>3, Midnights
      <4> QED
        BY <4>2, <4>3
    <3>6. Midnight(Last) \in Int /\ Midnight(Last + 1) \in Int
      BY <2>2, Midnights
    <3>7. CASE t < Midnight(Last + 1)
      BY <2>2, <2>4, <3>2, <3>5, <3>6, <3>7, DayBounds
    <3>8. CASE ~(t < Midnight(Last + 1))
      BY <2>2, <2>4, <3>1, <3>3, <3>4, <3>6, <3>8
    <3> QED
      BY <3>7, <3>8
  <2> QED
    BY <2>1, <2>2, <2>3, <2>4
<1> QED
  BY <1>1, Invariance, PTL
=============================================================================
