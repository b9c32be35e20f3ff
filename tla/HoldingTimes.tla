----------------------------- MODULE HoldingTimes -----------------------------
(***************************************************************************)
(* What the matching of money promises, for every file: a definition of    *)
(* holding times that knows no lots and no order of rows, and the two      *)
(* matchings of the code (module MoneyFlows) compared with it.             *)
(***************************************************************************)
EXTENDS TransactionFile, MoneyFlows

\* What came in, and what went out, by the end of a day.
CameInBy(gid, day) ==
  SumOver({i \in Into(file, gid) : file[i].day <= day}, LAMBDA i : file[i].amount)
WentOutBy(gid, day) ==
  SumOver({i \in OutOf(file, gid) : file[i].day <= day}, LAMBDA i : file[i].amount)

\* What went out by a day that had not come in by then: the most that was ever missing.
MissingBy(gid, day) ==
  Max({0} \cup {WentOutBy(gid, d) - CameInBy(gid, d) : d \in {e \in Days : e <= day}})

MatchedBy(gid, day) == WentOutBy(gid, day) - MissingBy(gid, day)

\* The days on which the n-th unit came in and went out again.
ArrivalOf(gid, n) == Min({d \in Days : CameInBy(gid, d) >= n})
DepartureOf(gid, n) == Min({d \in Days : MatchedBy(gid, d) >= n})

HeldFor(gid, n) == DepartureOf(gid, n) - ArrivalOf(gid, n)

Units(gid) == 1..MatchedBy(gid, LastDay)

-----------------------------------------------------------------------------
(* Properties.                                                             *)

\* The flows of every account are what its daily totals say: as much is matched as
\* can be without using money of a later day, first in first out, whatever the order
\* of the rows within a day. This is fifo_match_node's promise: "Match outgoing
\* volume only against same-day or earlier observed inflows"
\* (pipeline/temporal.py:60). The alert rules, which keep lots and transfers apart, find
\* the same fast volume, so the two ratios differ by their denominator only: what
\* came in (services/agentic_loop.py:473) and what was matched (temporal.py:108).
FlowsAreExact ==
  \A gid \in Accounts :
    LET m == FifoMetrics(file, gid)
        held(days) == {n \in Units(gid) : HeldFor(gid, n) <= days}
        half == {d \in 0..LastDay : 2 * Cardinality(held(d)) >= Cardinality(Units(gid))}
    IN /\ m.observed = WentOutBy(gid, LastDay)
       /\ m.unmatched = MissingBy(gid, LastDay)
       /\ m.matched = Cardinality(Units(gid))
       /\ m.fast = Cardinality(held(FastDays))
       /\ m.unitDays = SumOver(Units(gid), LAMBDA n : HeldFor(gid, n))
       /\ m.median = IF Units(gid) = {} THEN NoValue ELSE Min(half)
       /\ FastVolume(To(file, gid), From(file, gid)) = m.fast

=============================================================================
