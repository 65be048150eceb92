------------------------------- MODULE MCPure -------------------------------
\* DaySplit and ResultTable for TLC, each on every input of a small set; while
\* one works the other has nothing to do.
EXTENDS DaySplit, ResultTable

CONSTANT MaxInstant

-----------------------------------------------------------------------------
(* Queries: a lower and an upper bound on "t", in either order, with spaces  *)
(* or not; a condition on another field before, between or after them; and   *)
(* queries that are no ranges.                                               *)

MCFields == {"t", "tz", "n"}
MCLonger == [f \in MCFields |-> IF f = "t" THEN {"tz"} ELSE {}]
Instants == 0 .. MaxInstant
MCDocs == {d \in [MCFields -> Instants] : d["tz"] <= 1 /\ d["n"] <= 1}

Condition(f, s, o, v) == [field |-> f, spaced |-> s, op |-> o, value |-> v]
Lower == {Condition("t", s, o, v) : s \in BOOLEAN, o \in {">", ">="}, v \in Instants}
Upper == {Condition("t", s, o, v) : s \in BOOLEAN, o \in {"<", "<="}, v \in Instants}
Other == {Condition("n", TRUE, "=", 1), Condition("n", TRUE, ">", 0),
          Condition("tz", FALSE, "=", 1), Condition("t", TRUE, "<>", 1)}

Ranges == {<<l, u>> : l \in Lower, u \in Upper} \cup {<<u, l>> : l \in Lower, u \in Upper}
MCQueries ==
    Ranges
    \cup {<<o>> \o r : o \in Other, r \in Ranges}
    \cup {r \o <<o>> : o \in Other, r \in Ranges}
    \cup {<<c>> : c \in Lower}
    \cup {<<c, d>> : c, d \in {e \in Lower : e.op = ">"}}
    \cup {<<Condition("n", TRUE, ">", 0), Condition("n", TRUE, "<", 2)>>}
-----------------------------------------------------------------------------
(* Answers: up to two levels of up to two buckets, with and without a key as *)
(* a string, metrics before and after the inner buckets, and simple metrics  *)
(* beside them.                                                              *)

Field(n, k, t) == [name |-> n, kind |-> k, text |-> t, buckets |-> <<>>]
Sub(n, bs) == [name |-> n, kind |-> "sub", text |-> "", buckets |-> bs]

Inner(k) ==
    {<<Field("", "key", k), Field("", "doc_count", c)>> \o m :
        c \in {"1", "2"},
        m \in {<<>>, <<Field("sum", "metric", k)>>, <<Field("avg", "metric", "6")>>}}
InnerLists == {<<>>} \cup {<<x>> : x \in Inner("p")} \cup {<<x, y>> : x \in Inner("p"), y \in Inner("q")}

Names == {<<Field("", "key", "k")>>,
          <<Field("", "key_as_string", "s"), Field("", "key", "k")>>,
          <<Field("", "key", "k"), Field("from", "plain", "0")>>}
Outer ==
    {n \o <<Field("", "doc_count", "3")>> \o m \o <<Sub("B", bs)>> :
        n \in Names, m \in {<<>>, <<Field("max", "metric", "9")>>}, bs \in InnerLists}
    \cup {n \o <<Field("", "doc_count", "4")>> : n \in Names}
    \cup {<<Field("", "key", "j"), Field("", "doc_count", "5"), Field("sum", "metric", "8")>>}
Simple == {<<>>, <<Field("count", "metric", "7")>>}

MCAnswers ==
    {[fields |-> <<Sub("A", <<x>>)>> \o m, total |-> "9"] : x \in Outer, m \in Simple}
    \cup {[fields |-> <<Sub("A", <<x, y>>)>>, total |-> "9"] : x \in Outer,
              y \in {o \in Outer : Len(o) <= 3}}
    \cup {[fields |-> m, total |-> "9"] : m \in Simple}
NoAnswer == [fields |-> <<>>, total |-> "0"]
-----------------------------------------------------------------------------
MCInit ==
    /\ Init
    /\ \/ answer = NoAnswer
       \/ query = <<Condition("t", TRUE, ">", 0)>> /\ answer \in Answers

MCNext == Next /\ UNCHANGED answer

MCSpec == MCInit /\ [][MCNext]_<<vars, answer>>
=============================================================================
