--------------------------- MODULE ActionLifecycle ---------------------------
(***************************************************************************)
(* The states and transitions an agentic action is promised to have        *)
(* (docs/agentic_loop.md, "States and transitions"): it is proposed once,  *)
(* decided once, and an execution opens at most the one case that belongs  *)
(* to it, in the same step.                                                *)
(***************************************************************************)
EXTENDS Integers

CONSTANTS
  Actions,   \* actions that may be proposed
  CaseOpen   \* those whose execution opens a case

VARIABLES
  state,    \* where each action stands
  opened    \* how many cases each action has opened

vars == <<state, opened>>

Init ==
  /\ state = [a \in Actions |-> "absent"]
  /\ opened = [a \in Actions |-> 0]

Propose(S) ==
  /\ S # {}
  /\ \A a \in S : state[a] = "absent"
  /\ state' = [a \in Actions |-> IF a \in S THEN "proposed" ELSE state[a]]
  /\ UNCHANGED opened

Reject(a) ==
  /\ state[a] = "proposed"
  /\ state' = [state EXCEPT ![a] = "rejected"]
  /\ UNCHANGED opened

Execute(a) ==
  /\ state[a] = "proposed"
  /\ state' = [state EXCEPT ![a] = "executed"]
  /\ opened' = IF a \in CaseOpen THEN [opened EXCEPT ![a] = 1] ELSE opened

Fail(a) ==
  /\ state[a] = "proposed"
  /\ state' = [state EXCEPT ![a] = "failed"]
  /\ UNCHANGED opened

Next ==
  \/ \E S \in SUBSET Actions : Propose(S)
  \/ \E a \in Actions : Reject(a) \/ Execute(a) \/ Fail(a)

Spec == Init /\ [][Next]_vars

=============================================================================
