---------------------------- MODULE CallAllowance ----------------------------
(***************************************************************************)
(* What admission control promises, without its tables: a holder may place *)
(* one paid call for each unit it has taken from the allowance of a UTC    *)
(* day, and an allowance is never refilled.  A unit may be lost with its   *)
(* holder, it is never given back.                                         *)
(***************************************************************************)
EXTENDS Integers

CONSTANTS Holders, Days, Limit

VARIABLES
  spent,    \* units taken from each day's allowance
  permits   \* holders of a unit not yet used

vars == <<spent, permits>>

Init ==
  /\ spent = [d \in Days |-> 0]
  /\ permits = {}

Acquire(h, d) ==
  /\ h \notin permits
  /\ spent[d] < Limit
  /\ spent' = [spent EXCEPT ![d] = @ + 1]
  /\ permits' = permits \cup {h}

\* The call is placed, or the holder dies with its permit.
Use(h) ==
  /\ h \in permits
  /\ permits' = permits \ {h}
  /\ UNCHANGED spent

Next == \E h \in Holders : Use(h) \/ \E d \in Days : Acquire(h, d)

Spec == Init /\ [][Next]_vars

=============================================================================
