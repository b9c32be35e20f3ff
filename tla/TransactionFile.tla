--------------------------- MODULE TransactionFile ---------------------------
(***************************************************************************)
(* data/transactions.parquet as the program sees it: an export that grows, *)
(* whose rows come in any order and may be of days that were scanned       *)
(* already (AlertRules' available_days reads "later arrivals").            *)
(***************************************************************************)
EXTENDS Integers, Sequences, FiniteSets, FiniteSetsExt

CONSTANTS
  Rows,     \* the rows that the export may contain: src, dst, day and amount
  MaxRows   \* rows of the largest file that is checked

ASSUME TransactionFileAssumption ==
  /\ Rows \subseteq [src : Nat, dst : Nat, day : Nat, amount : Nat \ {0}]
  /\ IsFiniteSet(Rows)  \* the columns have a fixed width
  /\ MaxRows \in Nat

VARIABLE file

Init == file = <<>>

Receive ==
  /\ Len(file) < MaxRows
  /\ \E r \in Rows : file' = Append(file, r)

Spec == Init /\ [][Receive]_file

Accounts == {r.src : r \in Rows} \cup {r.dst : r \in Rows}
Days == {r.day : r \in Rows}
LastDay == Max(Days)

=============================================================================
