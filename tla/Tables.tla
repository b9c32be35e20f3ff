-------------------------------- MODULE Tables --------------------------------
(***************************************************************************)
(* What the program asks of a pandas table of transfers and of a sort.  A  *)
(* table is a sequence of rows with src, dst, day and amount; accounts are *)
(* numbers, in the order of their identifiers.                             *)
(***************************************************************************)
EXTENDS Integers, Sequences, SequencesExt, FiniteSets, FiniteSetsExt

\* A set in a strict total order: an element stands behind all that precede it.
Ranked(S, Before(_, _)) ==
  [n \in 1..Cardinality(S) |->
     CHOOSE x \in S : Cardinality({y \in S : Before(y, x)}) = n - 1]

Sorted(numbers) == Ranked(numbers, LAMBDA a, b : a < b)

\* The rows at some places, in the order of the table.
Picked(rows, places) ==
  LET kept == Sorted(places) IN [n \in DOMAIN kept |-> rows[kept[n]]]

\* A table under a Boolean mask.
Where(rows, Test(_)) == Picked(rows, {i \in DOMAIN rows : Test(rows[i])})

\* A stable sort, by an order in which rows may be level.
Arranged(rows, Before(_, _)) ==
  LET order == Ranked(DOMAIN rows, LAMBDA i, j :
                 \/ Before(rows[i], rows[j])
                 \/ ~ Before(rows[j], rows[i]) /\ i < j)
  IN [n \in DOMAIN order |-> rows[order[n]]]

FirstOf(seq, n) == SubSeq(seq, 1, Min({n, Len(seq)}))

\* Variation: the whole table is history.
UpToAnyDay(rows, day) == rows

UpTo(rows, day) == Where(rows, LAMBDA r : r.day <= day)
On(rows, day) == Where(rows, LAMBDA r : r.day = day)
To(rows, gid) == Where(rows, LAMBDA r : r.dst = gid)
From(rows, gid) == Where(rows, LAMBDA r : r.src = gid)

Total(rows) == FoldLeft(LAMBDA sum, r : sum + r.amount, 0, rows)

SrcOf(rows) == {r.src : r \in ToSet(rows)}
DstOf(rows) == {r.dst : r \in ToSet(rows)}
AccountsOf(rows) == SrcOf(rows) \cup DstOf(rows)
DaysOf(rows) == {r.day : r \in ToSet(rows)}
PairsOf(rows) == {<<r.src, r.dst>> : r \in ToSet(rows)}

\* The groups of a table by src and dst.
OfPair(rows, pair) == Where(rows, LAMBDA r : <<r.src, r.dst>> = pair)
SumOfPair(rows, pair) == Total(OfPair(rows, pair))
CountOfPair(rows, pair) == Len(OfPair(rows, pair))

\* A sum over a set.
SumOver(S, Of(_)) == FoldSet(LAMBDA x, sum : sum + Of(x), 0, S)

=============================================================================
