----------------------------- MODULE ResultTable ----------------------------
(***************************************************************************)
(* EsUtil.processAggData and processBuckets: the nested buckets of an      *)
(* aggregation become the rows of a table, in a recursion that hands the   *)
(* columns of the outer buckets down to the inner ones.                    *)
(*                                                                         *)
(* A bucket is the sequence of its fields [name, kind, text, buckets], in  *)
(* the order of the answer: its key, its count, metrics, and aggregations  *)
(* of its own (kind "sub").  A row is a function from columns to texts.    *)
(***************************************************************************)
EXTENDS Integers, Sequences, SequencesExt, FiniteSets, TLC

CONSTANT Answers    \* what Elasticsearch may answer: [fields, total]

VARIABLE answer

NoColumns == [c \in {} |-> ""]
SetColumn(row, column, text) == (column :> text) @@ row
-----------------------------------------------------------------------------
RECURSIVE processBuckets(_, _, _)

LeaksInto(group, row) == row            \* mutant: the buckets share one map
\* Every bucket starts from the columns it was handed, in a copy.
Handed(group, row) == group

\* One field of a bucket of the aggregation keyName; st is where the loop is.
ProcessField(keyName, st, field) ==
    CASE field.kind = "key" ->
            IF st.hasKeyAsString THEN st ELSE [st EXCEPT !.row = SetColumn(@, keyName, field.text)]
      [] field.kind = "key_as_string" ->
            [st EXCEPT !.row = SetColumn(@, keyName, field.text), !.hasKeyAsString = TRUE]
      [] field.kind = "doc_count" ->
            [st EXCEPT !.row = SetColumn(@, "doc_count", field.text)]
      [] field.kind = "sub" ->
            [st EXCEPT !.hasRecursion = TRUE,
                       !.rows = @ \o processBuckets(field.name, field.buckets, st.row)]
      [] field.kind = "metric" ->
            [st EXCEPT !.row = SetColumn(@, field.name, field.text)]
      [] field.kind = "plain" ->        \* any other value takes the place of the key
            [st EXCEPT !.row = SetColumn(@, keyName, field.text)]

\* A bucket without buckets is a row.
ProcessBucket(keyName, st, bucket, group) ==
    LET done == FoldLeft(LAMBDA s, f : ProcessField(keyName, s, f),
                         [row |-> Handed(group, st.row), rows |-> st.rows,
                          hasKeyAsString |-> FALSE, hasRecursion |-> FALSE], bucket)
    IN  [done EXCEPT !.rows = IF done.hasRecursion THEN @ ELSE Append(@, done.row)]

\* The rows added to mapList.
processBuckets(keyName, buckets, group) ==
    FoldLeft(LAMBDA st, bucket : ProcessBucket(keyName, st, bucket, group),
             [row |-> group, rows |-> <<>>, hasKeyAsString |-> FALSE, hasRecursion |-> FALSE],
             buckets).rows

\* Aggregations with buckets, then one row of those without, if there are any.
processAggData(ans) ==
    LET groups == SelectSeq(ans.fields, LAMBDA f : f.kind = "sub")
        simple == SelectSeq(ans.fields, LAMBDA f : f.kind = "metric")
        groupRows == FoldLeft(LAMBDA rows, f : rows \o processBuckets(f.name, f.buckets, NoColumns),
                              <<>>, groups)
        simpleRow == SetColumn(FoldLeft(LAMBDA row, f : SetColumn(row, f.name, f.text), NoColumns, simple),
                         "doc_count", ans.total)
    IN  groupRows \o (IF simple = <<>> THEN <<>> ELSE <<simpleRow>>)
-----------------------------------------------------------------------------
(* The reference: a path goes down from an aggregation to a bucket that has  *)
(* none of its own, as a sequence of [field, bucket] places.                 *)

Subs(fields) == {i \in DOMAIN fields : fields[i].kind = "sub"}

RECURSIVE Paths(_)
Paths(fields) ==
    UNION {UNION {LET bucket == fields[i].buckets[j]
                      step == <<[field |-> i, bucket |-> j]>>
                  IN  IF Subs(bucket) = {} THEN {step}
                      ELSE {step \o rest : rest \in Paths(bucket)}
                  : j \in DOMAIN fields[i].buckets}
           : i \in Subs(fields)}

\* What a bucket says of itself, of the fields before place n.
Own(name, bucket, n) ==
    LET fields == {i \in DOMAIN bucket : i < n}
        Of(kind) == {i \in fields : bucket[i].kind = kind}
        key == IF Of("key_as_string") # {} THEN Of("key_as_string") ELSE Of("key")
    IN  [c \in {name : i \in key} \cup {"doc_count" : i \in Of("doc_count")}
               \cup {bucket[i].name : i \in Of("metric")} |->
           bucket[CHOOSE i \in fields :
                     \/ c = name /\ i \in key
                     \/ c = "doc_count" /\ i \in Of("doc_count")
                     \/ c = bucket[i].name /\ i \in Of("metric")].text]

RECURSIVE RowOf(_, _)
RowOf(fields, path) ==
    LET at == Head(path)
        bucket == fields[at.field].buckets[at.bucket]
    IN  IF Len(path) = 1 THEN Own(fields[at.field].name, bucket, Len(bucket) + 1)
        ELSE RowOf(bucket, Tail(path))
             @@ Own(fields[at.field].name, bucket, path[2].field)

\* Ranges put "from" and "to" in their buckets.
RECURSIVE HasPlain(_)
HasPlain(fields) ==
    \E i \in DOMAIN fields :
        \/ fields[i].kind = "plain"
        \/ \E j \in DOMAIN fields[i].buckets : HasPlain(fields[i].buckets[j])

HasSimple == \E i \in DOMAIN answer.fields : answer.fields[i].kind = "metric"

\* processBuckets (EsUtil.java:220): one row for every innermost bucket, with
\* its own count and metrics, the keys of the buckets around it and those of
\* their metrics that stand before the inner buckets, and nothing of any other
\* bucket; not for ranges, whose bounds replace the key.
OneRowPerBucket ==
    ~HasPlain(answer.fields) =>
        LET table == processAggData(answer)
            rows == IF HasSimple THEN Front(table) ELSE table
        IN  /\ Len(rows) = Cardinality(Paths(answer.fields))
            /\ ToSet(rows) = {RowOf(answer.fields, p) : p \in Paths(answer.fields)}
=============================================================================
