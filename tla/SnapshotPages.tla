---------------------------- MODULE SnapshotPages ----------------------------
(***************************************************************************)
(* What EsExport!PageFrom returns, as facts about sequences that the       *)
(* proofs of EsExport and of DeleteTask share: the hits of a snapshot are  *)
(* numbered, a page holds the next ones, and the pages put one after the   *)
(* other are the beginning of the snapshot.                                *)
(***************************************************************************)
EXTENDS Integers, Sequences, SequenceTheorems, TLAPS

\* EsExport!PageFrom, with the size of a page as a parameter.
PageOf(size, first, n) ==
    LET left == n - first + 1
    IN  [i \in 1 .. (IF left < size THEN left ELSE size) |-> first + i - 1]

UpTo(k) == [i \in 1 .. k |-> i]

\* A page of a snapshot of n hits that begins with a hit after the k-th is
\* empty when k is n, and otherwise holds the next hits.
LEMMA PageOfHits ==
    ASSUME NEW pageSize \in Nat \ {0}, NEW k \in Nat, NEW n \in Nat
    PROVE  /\ PageOf(pageSize, k + 1, n) \in Seq(Nat)
           /\ \A i \in 1 .. Len(PageOf(pageSize, k + 1, n)) :
                 PageOf(pageSize, k + 1, n)[i] = k + i
           /\ k <= n => /\ k + Len(PageOf(pageSize, k + 1, n)) <= n
                        /\ PageOf(pageSize, k + 1, n) = <<>> <=> k = n
<1> DEFINE left == n - k
           size == IF left < pageSize THEN left ELSE pageSize
           bound == IF size < 0 THEN 0 ELSE size
<1>0. pageSize \in Nat \ {0}
  OBVIOUS
<1>1. size \in Int /\ bound \in Nat /\ 1 .. size = 1 .. bound
  BY <1>0
<1>2. n - (k + 1) + 1 = left
  OBVIOUS
<1>3. PageOf(pageSize, k + 1, n) = [i \in 1 .. size |-> k + 1 + i - 1]
  BY <1>2 DEF PageOf
<1>4. PageOf(pageSize, k + 1, n) = [i \in 1 .. bound |-> k + 1 + i - 1]
  BY <1>1, <1>3
<1>5. \A i \in 1 .. bound : k + 1 + i - 1 = k + i /\ k + i \in Nat
  BY <1>1
<1> HIDE DEF size, bound
<1>6. PageOf(pageSize, k + 1, n) \in Seq(Nat) /\ Len(PageOf(pageSize, k + 1, n)) = bound
  BY <1>1, <1>4, <1>5
<1>7. \A i \in 1 .. bound : PageOf(pageSize, k + 1, n)[i] = k + i
  BY <1>4, <1>5
<1>8. k <= n => k + bound <= n /\ (bound = 0 <=> k = n)
  BY <1>0 DEF size, bound
<1>9. PageOf(pageSize, k + 1, n) = <<>> <=> bound = 0
  BY <1>6
<1> QED
  BY <1>6, <1>7, <1>8, <1>9

\* Appending the page after the first k hits to these gives the first hits.
LEMMA AppendPageOf ==
    ASSUME NEW pageSize \in Nat \ {0}, NEW k \in Nat, NEW n \in Nat
    PROVE  /\ UpTo(k) \in Seq(Nat) /\ Len(UpTo(k)) = k
           /\ UpTo(k) \o PageOf(pageSize, k + 1, n) =
                 UpTo(k + Len(PageOf(pageSize, k + 1, n)))
<1> DEFINE p == PageOf(pageSize, k + 1, n)
           r == UpTo(k)
<1>1. p \in Seq(Nat) /\ Len(p) \in Nat /\ \A i \in 1 .. Len(p) : p[i] = k + i
  BY PageOfHits
<1>2. r \in Seq(Nat) /\ Len(r) = k /\ \A i \in 1 .. k : r[i] = i
  BY DEF UpTo
<1> HIDE DEF p, r
<1>3. /\ r \o p \in Seq(Nat)
      /\ Len(r \o p) = k + Len(p)
      /\ \A i \in 1 .. k + Len(p) : (r \o p)[i] = IF i <= k THEN r[i] ELSE p[i - k]
  BY <1>1, <1>2, ConcatProperties
<1>4. \A i \in 1 .. k + Len(p) : (r \o p)[i] = i
  <2> TAKE i \in 1 .. k + Len(p)
  <2>1. i <= k => r[i] = i
    BY <1>2
  <2>2. i > k => p[i - k] = i
    BY <1>1
  <2> QED
    BY <1>1, <1>3, <2>1, <2>2
<1>5. r \o p = UpTo(k + Len(p))
  <2> DEFINE q == r \o p
             m == k + Len(p)
  <2>1. q \in Seq(Nat) /\ Len(q) = m /\ m \in Nat /\ \A i \in 1 .. m : q[i] = i
    BY <1>1, <1>3, <1>4
  <2> HIDE DEF q, m
  <2>2. q = UpTo(m)
    BY <2>1 DEF UpTo
  <2> QED
    BY <2>2 DEF q, m
<1> QED
  BY <1>2, <1>5 DEF p, r
=============================================================================
