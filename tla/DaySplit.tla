------------------------------ MODULE DaySplit ------------------------------
(***************************************************************************)
(* EsExportUtil.parseSqlPerDay: the conditions of a query are split into   *)
(* one query per day, each exported to a file named by its day.            *)
(*                                                                         *)
(* A query is the sequence of its conditions [field, spaced, op, value];   *)
(* spaced says whether a space precedes the operator (one follows it).  Of *)
(* the queries it is split into only the set of the conditions is kept.    *)
(* Instants are numbers, seconds of which DayLength make a day, and all    *)
(* days are of one length (no change to or from summer time).              *)
(***************************************************************************)
EXTENDS Integers, Sequences, FiniteSets

CONSTANTS
    Fields,
    DateFields,     \* the fields whose values are instants in quotes
    Longer,         \* Longer[f]: the fields whose names begin with that of f
    DayLength,
    Queries,        \* the sequences of conditions that are split
    Docs,           \* documents: each gives every field a number
    WholeKey        \* the key "" of a query that is not split

ASSUME FieldsType == DateFields \subseteq Fields /\ Longer \in [Fields -> SUBSET Fields]
ASSUME DayLengthType == DayLength \in Nat \ {0}

Ops == {"=", "<>", ">", ">=", "<", "<="}
Conditions == [field : Fields, spaced : BOOLEAN, op : Ops, value : Int]

ASSUME QueriesType == Queries \subseteq Seq(Conditions)
ASSUME DocsType == Docs \subseteq [Fields -> Int]
ASSUME WholeKeyType == WholeKey \notin Int

VARIABLES
    pc,
    query,
    begin,          \* beginCal
    middle,         \* middleCal
    count,
    result          \* the conditions of the queries by their key, the number
                    \* of the day

vars == <<pc, query, begin, middle, count, result>>

DayOf(t) == t \div DayLength
Midnight(day) == day * DayLength
-----------------------------------------------------------------------------
(* Reading the conditions *)

Greater(c) == c.op \in {">", ">=", "<>"}
Less(c) == c.op \in {"<", "<=", "<>"}
Compares(c) == Greater(c) \/ Less(c)

Comparing == {i \in DOMAIN query : Compares(query[i])}
First == CHOOSE i \in Comparing : \A j \in Comparing : i <= j

\* condition.startsWith(conditionName): the name is what precedes the operator
\* in the first comparison, with its space if there is one.
StartsWithName(c) ==
    IF query[First].spaced
    THEN c.field = query[First].field /\ c.spaced
    ELSE c.field \in {query[First].field} \cup Longer[query[First].field]

\* hasBetweenCondition: a second comparison begins with the name.
HasBetween ==
    Comparing # {} /\ \E i \in Comparing : i > First /\ StartsWithName(query[i])

Lowers == {i \in DOMAIN query : StartsWithName(query[i]) /\ Greater(query[i])}
Uppers == {i \in DOMAIN query : StartsWithName(query[i]) /\ Less(query[i])}
LastOf(places) == query[CHOOSE i \in places : \A j \in places : j <= i]
BeginCondition == LastOf(Lowers)
EndCondition == LastOf(Uppers)

\* Both bounds are there and are dates; else a null or the parser throws.
BoundsParse ==
    /\ Lowers # {} /\ BeginCondition.field \in DateFields
    /\ Uppers # {} /\ EndCondition.field \in DateFields

Others == {query[i] : i \in {j \in DOMAIN query : ~StartsWithName(query[j])}}
All == {query[i] : i \in DOMAIN query}

From(t) == [field |-> query[First].field, spaced |-> TRUE, op |-> ">=", value |-> t]
Before(t) == [field |-> query[First].field, spaced |-> TRUE, op |-> "<", value |-> t]

Put(key, conditions) ==
    result' = [k \in DOMAIN result \cup {key} |-> IF k = key THEN conditions ELSE result[k]]
-----------------------------------------------------------------------------
Init ==
    /\ pc = "read"
    /\ query \in Queries
    /\ begin = 0
    /\ middle = 0
    /\ count = 0
    /\ result = [k \in {} |-> {}]

\* No two comparisons of one name: the whole query, under the key "".
Whole ==
    /\ pc = "read"
    /\ ~HasBetween
    /\ Put(WholeKey, All)
    /\ pc' = "done"
    /\ UNCHANGED <<query, begin, middle, count>>

Throws ==
    /\ pc = "read"
    /\ HasBetween
    /\ ~BoundsParse
    /\ pc' = "threw"
    /\ UNCHANGED <<query, begin, middle, count, result>>

DayAfterBegin == BeginCondition.value + DayLength      \* mutant: 24 hours
FirstMidnight == Midnight(DayOf(BeginCondition.value) + 1)

Prepare ==
    /\ pc = "read"
    /\ HasBetween
    /\ BoundsParse
    /\ begin' = BeginCondition.value
    /\ middle' = FirstMidnight
    /\ pc' = "loop"
    /\ UNCHANGED <<query, count, result>>

UpToEnd == middle <= EndCondition.value + DayLength    \* mutant: a day too many
MoreDays == middle < EndCondition.value

FirstDay ==
    /\ pc = "loop"
    /\ MoreDays
    /\ count = 0
    /\ Put(DayOf(begin), {BeginCondition, Before(middle)} \cup Others)
    /\ begin' = middle
    /\ middle' = middle + DayLength
    /\ count' = count + 1
    /\ UNCHANGED <<pc, query>>

NextDay ==
    /\ pc = "loop"
    /\ MoreDays
    /\ count > 0
    /\ Put(DayOf(begin), {From(begin), Before(middle)} \cup Others)
    /\ begin' = middle
    /\ middle' = middle + DayLength
    /\ count' = count + 1
    /\ UNCHANGED <<pc, query>>

\* The last day keeps the end of the query, and begins with >=.
LastDay ==
    /\ pc = "loop"
    /\ ~MoreDays
    /\ Put(DayOf(begin), {From(begin), EndCondition} \cup Others)
    /\ pc' = "done"
    /\ UNCHANGED <<query, begin, middle, count>>

Next == Whole \/ Throws \/ Prepare \/ FirstDay \/ NextDay \/ LastDay

Spec == Init /\ [][Next]_vars /\ WF_vars(Next)
-----------------------------------------------------------------------------
\* The documents a set of conditions matches.
Holds(c, doc) ==
    CASE c.op = "="  -> doc[c.field] = c.value
      [] c.op = "<>" -> doc[c.field] # c.value
      [] c.op = ">"  -> doc[c.field] > c.value
      [] c.op = ">=" -> doc[c.field] >= c.value
      [] c.op = "<"  -> doc[c.field] < c.value
      [] c.op = "<=" -> doc[c.field] <= c.value

Matches(conditions, doc) == \A c \in conditions : Holds(c, doc)

\* A query the split is made for: its name belongs to exactly two conditions,
\* a lower and an upper bound.
IsRange ==
    /\ \A i \in DOMAIN query : StartsWithName(query[i]) <=> i \in Lowers \cup Uppers
    /\ Cardinality(Lowers) = 1
    /\ Cardinality(Uppers) = 1
    /\ Lowers # Uppers
    /\ BeginCondition.field = EndCondition.field

\* A range within one day loses the strictness of its lower bound: the one
\* query it becomes begins with >= (EsExportUtil.java:278).
AtLostBound(doc) ==
    /\ count = 0
    /\ BeginCondition.op = ">"
    /\ doc[BeginCondition.field] = BeginCondition.value

Split == pc = "done" /\ HasBetween

\* parseSqlPerDay on a range: every document of the query is in exactly one of
\* the queries, and no query has any other, but for those at the lost bound.
DaysPartition ==
    (Split /\ IsRange) =>
        \A doc \in Docs :
            LET days == {k \in DOMAIN result : Matches(result[k], doc)}
            IN  AtLostBound(doc) \/ Cardinality(days) = (IF Matches(All, doc) THEN 1 ELSE 0)

\* The file of a day has the documents of that day; an upper bound at midnight
\* that is included belongs to the day before it.
FileOfItsDay ==
    (Split /\ IsRange) =>
        \A doc \in Docs : \A k \in DOMAIN result :
            LET t == doc[BeginCondition.field]
            IN  Matches(result[k], doc) =>
                    DayOf(t) = k \/ (t = Midnight(k + 1) /\ t = EndCondition.value)
=============================================================================
