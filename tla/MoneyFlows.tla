------------------------------ MODULE MoneyFlows ------------------------------
(***************************************************************************)
(* How long money stays in an account: the FIFO matching of the pipeline   *)
(* (pipeline/temporal.py) and the one the alert rules use                  *)
(* (services/agentic_loop.py).  A file is a sequence of rows with src,     *)
(* dst, day and amount.  Amounts are whole, so that the tolerances of the  *)
(* code's floats (1e-9) do not appear; a ratio is given by its two parts.  *)
(***************************************************************************)
EXTENDS Tables

FastDays == 2   \* a chunk held for at most this many days was forwarded fast
NoValue == -1   \* the NaN of an account that matched nothing

Times(file) == 1..Len(file)

Into(file, gid) == {i \in Times(file) : file[i].dst = gid}
OutOf(file, gid) == {i \in Times(file) : file[i].src = gid}

-----------------------------------------------------------------------------
(* The pipeline.                                                           *)

\* The account's events; a transfer to itself is one of each direction.
Movements(file, gid) ==
  {[day |-> file[i].day, dir |-> "in", order |-> i, amount |-> file[i].amount] :
      i \in Into(file, gid)}
  \cup
  {[day |-> file[i].day, dir |-> "out", order |-> i, amount |-> file[i].amount] :
      i \in OutOf(file, gid)}

\* Variation: what goes out on a day goes before what comes in.
PrecedesOutFirst(e, f) ==
  \/ e.day < f.day
  \/ e.day = f.day /\ e.dir = "out" /\ f.dir = "in"
  \/ e.day = f.day /\ e.dir = f.dir /\ e.order < f.order

\* Days have no time of day: what comes in on a day is there for what goes out.
Precedes(e, f) ==
  \/ e.day < f.day
  \/ e.day = f.day /\ e.dir = "in" /\ f.dir = "out"
  \/ e.day = f.day /\ e.dir = f.dir /\ e.order < f.order

\* Take an amount from the lots, the oldest first.
Drain(lots, day, amount) ==
  FoldLeft(
    LAMBDA acc, lot :
      LET used == IF acc.left < lot.amount THEN acc.left ELSE lot.amount
      IN [left |-> acc.left - used,
          lots |-> IF used = lot.amount THEN acc.lots
                   ELSE Append(acc.lots, [lot EXCEPT !.amount = @ - used]),
          chunks |-> IF used = 0 THEN acc.chunks
                     ELSE Append(acc.chunks, [held |-> day - lot.day, volume |-> used])],
    [left |-> amount, lots |-> <<>>, chunks |-> <<>>],
    lots)

Matched(file, gid) ==
  FoldLeft(
    LAMBDA acc, e :
      IF e.dir = "in"
      THEN [acc EXCEPT !.lots = Append(@, [day |-> e.day, amount |-> e.amount])]
      ELSE LET d == Drain(acc.lots, e.day, e.amount)
           IN [lots |-> d.lots, chunks |-> acc.chunks \o d.chunks,
               observed |-> acc.observed + e.amount, unmatched |-> acc.unmatched + d.left],
    [lots |-> <<>>, chunks |-> <<>>, observed |-> 0, unmatched |-> 0],
    Ranked(Movements(file, gid), Precedes))

VolumeOf(chunks) == FoldLeft(LAMBDA sum, c : sum + c.volume, 0, chunks)

\* The holding time at which half of the volume is reached.
WeightedMedian(chunks) ==
  LET upTo(days) == VolumeOf(Where(chunks, LAMBDA c : c.held <= days))
      reached == {chunks[i].held : i \in {j \in DOMAIN chunks :
                                            2 * upTo(chunks[j].held) >= VolumeOf(chunks)}}
  IN IF chunks = <<>> THEN NoValue ELSE Min(reached)

\* fifo_match_node; the ratios are matched / observed, fast / matched and
\* unitDays / matched, each 0 (or NaN) when nothing was matched.
FifoMetrics(file, gid) ==
  LET m == Matched(file, gid)
  IN [matched   |-> VolumeOf(m.chunks),
      unmatched |-> m.unmatched,
      observed  |-> m.observed,
      fast      |-> VolumeOf(Where(m.chunks, LAMBDA c : c.held <= FastDays)),
      unitDays  |-> FoldLeft(LAMBDA sum, c : sum + c.held * c.volume, 0, m.chunks),
      median    |-> WeightedMedian(m.chunks),
      chunks    |-> Len(m.chunks)]

-----------------------------------------------------------------------------
(* The alert rules.  The lots and the transfers are sorted apart, and a    *)
(* transfer stops at the first lot of a later day.                         *)

ByDay(rows) == Arranged(rows, LAMBDA r, s : r.day < s.day)

\* Variation: a transfer takes the oldest lot, of whatever day.
FastVolumeOfAnyDay(incoming, outgoing) ==
  LET step(acc, transfer) ==
        LET d == Drain(acc.lots, transfer.day, transfer.amount)
        IN [lots |-> d.lots,
            fast |-> acc.fast + VolumeOf(Where(d.chunks, LAMBDA c : c.held \in 0..FastDays))]
  IN FoldLeft(step, [lots |-> ByDay(incoming), fast |-> 0], ByDay(outgoing)).fast

FastVolume(incoming, outgoing) ==
  LET step(acc, transfer) ==
        LET usable == Where(acc.lots, LAMBDA lot : lot.day <= transfer.day)
            later == Where(acc.lots, LAMBDA lot : lot.day > transfer.day)
            d == Drain(usable, transfer.day, transfer.amount)
        IN [lots |-> d.lots \o later,
            fast |-> acc.fast + VolumeOf(Where(d.chunks, LAMBDA c : c.held \in 0..FastDays))]
  IN FoldLeft(step, [lots |-> ByDay(incoming), fast |-> 0], ByDay(outgoing)).fast

\* _fast_forward_ratio, as its two parts: the share of what came in, at most all of it.
FastForward(incoming, outgoing) ==
  LET fast == FastVolume(incoming, outgoing)
  IN IF Total(incoming) <= 0 \/ outgoing = <<>> THEN [fast |-> 0, total |-> 1]
     ELSE [fast |-> Min({fast, Total(incoming)}), total |-> Total(incoming)]

=============================================================================
