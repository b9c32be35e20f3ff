---------------------------- MODULE CasesProofs ----------------------------
(* Proofs about AgenticCases, for every value of its constants.            *)
EXTENDS AgenticCases, FiniteSetTheorems, SequenceTheorems, TLAPS

-----------------------------------------------------------------------------
(* What a thread's stage tells of its record.                              *)

LEMMA StageType ==
  ASSUME TypeOK, NEW w \in Workers
  PROVE  /\ worker[w].stage \in {"proposing", "inserting"} => worker[w] \in Proposing
         /\ worker[w].stage = "assessing" => worker[w] \in Enriching
         /\ worker[w].stage = "recording" => worker[w] \in Recording
         /\ worker[w].stage \in {"deciding", "claiming"} => worker[w] \in Deciding
         /\ worker[w].stage = "replied" => worker[w] \in Replied
<1>1. worker[w] \in {Idle} \cup Proposing \cup Enriching \cup Recording \cup Deciding \cup Replied
  BY DEF TypeOK
<1>2. CASE worker[w] = Idle
  BY <1>2 DEF Idle
<1>3. CASE worker[w] \in Proposing
  BY <1>3 DEF Proposing
<1>4. CASE worker[w] \in Enriching
  BY <1>4 DEF Enriching
<1>5. CASE worker[w] \in Recording
  BY <1>5 DEF Recording
<1>6. CASE worker[w] \in Deciding
  BY <1>6 DEF Deciding
<1>7. CASE worker[w] \in Replied
  BY <1>7 DEF Replied
<1>8. QED
  BY <1>1, <1>2, <1>3, <1>4, <1>5, <1>6, <1>7

\* A request and the row it is about.
LEMMA RequestType ==
  ASSUME TypeOK, NEW w \in Workers, worker[w].stage \in {"deciding", "claiming", "replied"}
  PROVE  /\ worker[w].request \in Request
         /\ worker[w].request.id \in ActionIds
         /\ worker[w].request.id[1] \in Alerts
         /\ worker[w].request.decision \in Decisions
         /\ worker[w].request.key \in IdemKeys
         /\ worker[w].request.key # NoKey
<1>1. worker[w].request \in Request
  BY StageType DEF Deciding, Replied
<1>2. QED
  BY <1>1, CasesAssumption DEF Request, ActionIds

-----------------------------------------------------------------------------
(* The four shapes of a step.                                              *)

\* A step that only moves a thread on.
Moves(w) == UNCHANGED tables /\ \E s : Goto(w, s)

LEMMA StepShapes ==
  ASSUME NEW w \in Workers, WorkerStep(w)
  PROVE  \/ Moves(w)
         \/ InsertProposals(w)
         \/ RecordAssessment(w)
         \/ Reject(w) \/ Execute(w) \/ Fail(w)
<1>1. CASE \E a \in Alerts : StartProposals(w, a) \/ StartEnrichment(w, a)
  BY <1>1 DEF StartProposals, StartEnrichment, Moves
<1>2. CASE LookForActions(w)
  BY <1>2 DEF LookForActions, Moves
<1>3. CASE InsertRefused(w) \/ DropAssessment(w) \/ Crash(w)
  BY <1>3 DEF InsertRefused, DropAssessment, Crash, Moves
<1>4. CASE \E outcome \in {"model", "fallback"} : Assess(w, outcome)
  BY <1>4 DEF Assess, Moves
<1>5. CASE \E id \in ActionIds, decision \in Decisions, key \in IdemKeys :
             StartDecision(w, id, decision, key)
  BY <1>5 DEF StartDecision, Moves
<1>6. CASE LookUpKey(w)
  BY <1>6 DEF LookUpKey, ReplyFromKey, Reply, Moves
<1>7. CASE ClaimLost(w)
  BY <1>7 DEF ClaimLost, ReplyFromKey, Reply, Moves
<1>8. CASE KeyTaken(w) \/ Unavailable(w)
  BY <1>8 DEF KeyTaken, Unavailable, Reply, Moves
<1>9. QED
  BY <1>1, <1>2, <1>3, <1>4, <1>5, <1>6, <1>7, <1>8 DEF WorkerStep

-----------------------------------------------------------------------------
(* Type correctness.                                                       *)

\* The record every step gives its thread is a thread's record.
LEMMA ReplyType ==
  ASSUME TypeOK, NEW w \in Workers, NEW reply \in Replies,
         worker[w].stage \in {"deciding", "claiming"}, Reply(w, reply)
  PROVE  worker' \in [Workers -> {Idle} \cup Proposing \cup Enriching \cup Recording
                                  \cup Deciding \cup Replied]
<1>1. worker[w].request \in Request
  BY RequestType
<1>2. [stage |-> "replied", request |-> worker[w].request, reply |-> reply] \in Replied
  BY <1>1 DEF Replied
<1>3. QED
  BY <1>2 DEF Reply, Goto, TypeOK

LEMMA MoveType ==
  ASSUME TypeOK, NEW w \in Workers, WorkerStep(w), Moves(w)
  PROVE  TypeOK'
<1> DEFINE Threads == {Idle} \cup Proposing \cup Enriching \cup Recording
                      \cup Deciding \cup Replied
<1>1. SUFFICES worker' \in [Workers -> Threads]
  BY DEF TypeOK, Moves, tables, alertRow
<1>2. ASSUME NEW s \in Threads, Goto(w, s)
      PROVE  worker' \in [Workers -> Threads]
  BY <1>2 DEF Goto, TypeOK
<1> HIDE DEF Threads
<1>3. Idle \in Threads
  BY DEF Threads
<1>4. ASSUME NEW reply \in Replies, Reply(w, reply),
             worker[w].stage \in {"deciding", "claiming"}
      PROVE  worker' \in [Workers -> Threads]
  BY <1>4, ReplyType DEF Threads
<1>5. CASE \E a \in Alerts : StartProposals(w, a) \/ StartEnrichment(w, a)
  <2>1. PICK a \in Alerts : StartProposals(w, a) \/ StartEnrichment(w, a)
    BY <1>5
  <2>2. [stage |-> "proposing", alert |-> a, seen |-> facts[a]] \in Threads
    BY DEF Threads, Proposing, TypeOK
  <2>3. [stage |-> "assessing", alert |-> a] \in Threads
    BY DEF Threads, Enriching
  <2>4. QED
    BY <1>2, <2>1, <2>2, <2>3 DEF StartProposals, StartEnrichment
<1>6. CASE LookForActions(w)
  <2>1. worker[w] \in Proposing
    BY <1>6, StageType DEF LookForActions
  <2>2. [worker[w] EXCEPT !.stage = "inserting"] \in Threads
    BY <2>1 DEF Proposing, Threads
  <2>3. QED
    BY <1>2, <1>3, <1>6, <2>2 DEF LookForActions
<1>7. CASE InsertRefused(w) \/ DropAssessment(w) \/ Crash(w)
  BY <1>2, <1>3, <1>7 DEF InsertRefused, DropAssessment, Crash
<1>8. CASE \E outcome \in {"model", "fallback"} : Assess(w, outcome)
  <2>1. PICK outcome \in {"model", "fallback"} : Assess(w, outcome)
    BY <1>8
  <2>2. worker[w] \in Enriching
    BY <2>1, StageType DEF Assess
  <2>3. [stage |-> "recording", alert |-> worker[w].alert, outcome |-> outcome] \in Threads
    BY <2>2 DEF Enriching, Recording, Threads
  <2>4. QED
    BY <1>2, <2>1, <2>3 DEF Assess
<1>9. CASE \E id \in ActionIds, decision \in Decisions, key \in IdemKeys :
             StartDecision(w, id, decision, key)
  <2>1. PICK id \in ActionIds, decision \in Decisions, key \in IdemKeys :
               StartDecision(w, id, decision, key)
    BY <1>9
  <2>2. [id |-> id, decision |-> decision, key |-> key] \in Request
    BY DEF Request
  <2>3. (IF decision = "approve" THEN facts[id[1]] ELSE RuleFacts) \in Facts
    BY DEF TypeOK, ActionIds, RuleFacts, Facts
  <2>4. [stage |-> "deciding",
         request |-> [id |-> id, decision |-> decision, key |-> key],
         seen |-> IF decision = "approve" THEN facts[id[1]] ELSE RuleFacts] \in Threads
    BY <2>2, <2>3 DEF Deciding, Threads
  <2>5. QED
    BY <1>2, <2>1, <2>4 DEF StartDecision
<1>10. CASE LookUpKey(w)
  <2>1. worker[w].stage = "deciding" /\ worker[w] \in Deciding
    BY <1>10, StageType DEF LookUpKey
  <2>2. [worker[w] EXCEPT !.stage = "claiming"] \in Threads
    BY <2>1 DEF Deciding, Threads
  <2>3. CASE ReplyFromKey(w)
    BY <1>4, <2>1, <2>3 DEF ReplyFromKey, Replies
  <2>4. QED
    BY <1>2, <1>10, <2>2, <2>3 DEF LookUpKey
<1>11. CASE ClaimLost(w)
  BY <1>4, <1>11 DEF ClaimLost, ReplyFromKey, Replies
<1>12. CASE KeyTaken(w)
  BY <1>4, <1>12 DEF KeyTaken, Replies
<1>13. CASE Unavailable(w)
  BY <1>2, <1>3, <1>4, <1>13 DEF Unavailable, Replies
<1>14. CASE InsertProposals(w) \/ RecordAssessment(w)
  BY <1>2, <1>3, <1>14 DEF InsertProposals, RecordAssessment
<1>15. CASE Reject(w) \/ Execute(w) \/ Fail(w)
  BY <1>4, <1>15 DEF Reject, Execute, Fail, Claimed, Decide, Replies
<1>16. QED
  BY <1>5, <1>6, <1>7, <1>8, <1>9, <1>10, <1>11, <1>12, <1>13, <1>14, <1>15 DEF WorkerStep

LEMMA InsertType ==
  ASSUME TypeOK, NEW w \in Workers, InsertProposals(w)
  PROVE  TypeOK'
<1> DEFINE a == worker[w].alert
           proposal == [Absent EXCEPT !.status = "proposed",
                                      !.rationale = RationaleFrom(worker[w].seen)]
<1>1. a \in Alerts /\ worker[w].seen \in Facts
  BY StageType DEF InsertProposals, Proposing
<1>2. proposal \in ActionRow
  BY DEF Absent, ActionRow, RationaleFrom
<1>3. action' = [id \in ActionIds |-> IF id[1] = a THEN proposal ELSE action[id]]
  BY DEF InsertProposals
<1> HIDE DEF proposal
<1>4. action' \in [ActionIds -> ActionRow]
  BY <1>2, <1>3 DEF TypeOK
<1>5. trail' \in [Alerts \cup ActionIds -> Seq(Events)]
  BY <1>1 DEF InsertProposals, TypeOK, Events
<1>6. worker' \in [Workers -> {Idle} \cup Proposing \cup Enriching \cup Recording
                              \cup Deciding \cup Replied]
  BY DEF InsertProposals, Goto, TypeOK
<1>7. QED
  BY <1>1, <1>4, <1>5, <1>6 DEF InsertProposals, TypeOK

LEMMA RecordType ==
  ASSUME TypeOK, NEW w \in Workers, RecordAssessment(w)
  PROVE  TypeOK'
<1> DEFINE a == worker[w].alert
           outcome == worker[w].outcome
           rationale == RationaleFrom(Merged(RuleFacts, outcome))
<1>1. a \in Alerts /\ outcome \in {"model", "fallback"}
  BY StageType DEF RecordAssessment, Recording
<1>2. Merged(facts[a], outcome) \in Facts
  BY <1>1 DEF TypeOK, Merged, Facts
<1>3. rationale \in {"rules", "model"}
  BY DEF RationaleFrom
<1>4. action' = [id \in ActionIds |->
        IF id \in ActionsOf(a) THEN [action[id] EXCEPT !.rationale = rationale]
                               ELSE action[id]]
  BY DEF RecordAssessment
<1> HIDE DEF rationale
<1>5. ASSUME NEW id \in ActionIds
      PROVE  [action[id] EXCEPT !.rationale = rationale] \in ActionRow
  BY <1>3, ZenonT(30) DEF TypeOK, ActionRow
<1>6. action' \in [ActionIds -> ActionRow]
  BY <1>4, <1>5 DEF TypeOK
<1>7. trail' \in [Alerts \cup ActionIds -> Seq(Events)]
  BY <1>1 DEF RecordAssessment, TypeOK, AssessmentEvent, Events
<1>8. facts' \in [Alerts -> Facts]
  BY <1>1, <1>2 DEF RecordAssessment, TypeOK
<1>9. worker' \in [Workers -> {Idle} \cup Proposing \cup Enriching \cup Recording
                              \cup Deciding \cup Replied]
  BY DEF RecordAssessment, Goto, TypeOK
<1>10. QED
  BY <1>6, <1>7, <1>8, <1>9 DEF RecordAssessment, TypeOK

\* What a decision writes, whichever of the three it is.
LEMMA DecideType ==
  ASSUME TypeOK, NEW w \in Workers, worker[w].stage = "claiming",
         NEW newStatus \in {"rejected", "executed", "failed"}, NEW case \in Nat,
         NEW events \in Seq(Events), Decide(w, newStatus, case, events),
         cases' \in Seq([action: ActionIds, seen: Facts])
  PROVE  TypeOK'
<1> DEFINE r == worker[w].request
           row == [action[r.id] EXCEPT !.status = newStatus, !.decision = r.decision,
                                       !.key = r.key, !.case = case]
<1>1. r.id \in ActionIds /\ r.decision \in Decisions /\ r.key \in IdemKeys
  BY RequestType
<1>2. row \in ActionRow
  <2>1. action[r.id] \in ActionRow
    BY <1>1 DEF TypeOK
  <2>2. QED
    BY <1>1, <2>1 DEF ActionRow
<1>3. action' = [action EXCEPT ![r.id] = row]
  BY DEF Decide
<1> HIDE DEF row
<1>4. action' \in [ActionIds -> ActionRow]
  BY <1>1, <1>2, <1>3 DEF TypeOK
<1>5. trail' \in [Alerts \cup ActionIds -> Seq(Events)]
  BY <1>1 DEF Decide, TypeOK
<1>6. worker' \in [Workers -> {Idle} \cup Proposing \cup Enriching \cup Recording
                              \cup Deciding \cup Replied]
  BY ReplyType DEF Decide, Replies
<1>7. QED
  BY <1>4, <1>5, <1>6 DEF Decide, TypeOK, alertRow

LEMMA ExecuteType ==
  ASSUME TypeOK, NEW w \in Workers, Execute(w)
  PROVE  TypeOK'
<1> DEFINE r == worker[w].request
           opened == [action |-> r.id, seen |-> worker[w].seen]
           n == IF r.id[2] \in CaseActions THEN Len(cases) + 1 ELSE 0
<1>1. worker[w].stage = "claiming" /\ worker[w] \in Deciding /\ r.id \in ActionIds
  BY StageType, RequestType DEF Execute, Claimed
<1>2. opened \in [action: ActionIds, seen: Facts]
  BY <1>1 DEF Deciding
<1>3. cases' = Append(cases, opened) \/ cases' = cases
  BY DEF Execute
<1>4. Decide(w, "executed", n, <<"action.approved", "tool.executed">>)
  BY DEF Execute
<1> HIDE DEF opened
<1>5. cases' \in Seq([action: ActionIds, seen: Facts]) /\ n \in Nat
  <2> DEFINE Cases == [action: ActionIds, seen: Facts]
  <2>1. cases \in Seq(Cases) /\ opened \in Cases
    BY <1>2 DEF TypeOK
  <2> HIDE DEF Cases
  <2>2. cases' \in Seq(Cases) /\ Len(cases) \in Nat
    BY <1>3, <2>1
  <2>3. QED
    BY <2>2 DEF Cases
<1> HIDE DEF n
<1>6. <<"action.approved", "tool.executed">> \in Seq(Events)
  BY DEF Events
<1>7. QED
  BY <1>1, <1>4, <1>5, <1>6, DecideType

LEMMA TypeStep == TypeOK /\ [Next]_vars => TypeOK'
<1> SUFFICES ASSUME TypeOK, [Next]_vars
             PROVE  TypeOK'
  OBVIOUS
<1>1. CASE UNCHANGED vars
  BY <1>1 DEF vars, tables, alertRow, TypeOK
<1>2. ASSUME NEW w \in Workers, Reject(w) \/ Fail(w)
      PROVE  TypeOK'
  <2>1. worker[w].stage = "claiming" /\ UNCHANGED cases
    BY <1>2 DEF Reject, Fail, Claimed
  <2>2. \/ Decide(w, "rejected", 0, <<"action.rejected">>)
        \/ Decide(w, "failed", 0, <<"action.approved", "action.failed">>)
    BY <1>2 DEF Reject, Fail
  <2>3. /\ <<"action.rejected">> \in Seq(Events)
        /\ <<"action.approved", "action.failed">> \in Seq(Events)
    BY DEF Events
  <2>4. cases' \in Seq([action: ActionIds, seen: Facts])
    BY <2>1 DEF TypeOK
  <2>5. QED
    BY <2>1, <2>2, <2>3, <2>4, DecideType
<1>3. ASSUME NEW w \in Workers, WorkerStep(w)
      PROVE  TypeOK'
  BY <1>2, <1>3, StepShapes, MoveType, InsertType, RecordType, ExecuteType
<1>4. QED
  BY <1>1, <1>3 DEF Next

LEMMA TypeInit == Init => TypeOK
<1> SUFFICES ASSUME Init
             PROVE  TypeOK
  OBVIOUS
<1>1. ScanFacts \subseteq Facts
  BY DEF ScanFacts, RuleFacts, Merged, Facts
<1>2. Absent \in ActionRow
  BY DEF Absent, ActionRow
<1>3. << >> \in Seq([action: ActionIds, seen: Facts]) /\ << >> \in Seq(Events)
  OBVIOUS
<1>4. QED
  BY <1>1, <1>2, <1>3 DEF Init, TypeOK

-----------------------------------------------------------------------------
(* What the writing steps leave.                                           *)

\* Proposals are inserted for an alert that has none.
LEMMA InsertRows ==
  ASSUME TypeOK, NEW w \in Workers, InsertProposals(w)
  PROVE  /\ worker[w].alert \in Alerts /\ worker[w].seen \in Facts
         /\ \A id \in ActionIds : id[1] # worker[w].alert => action'[id] = action[id]
         /\ \A id \in ActionIds : id[1] = worker[w].alert =>
              /\ action[id].status = "absent"
              /\ action'[id].status = "proposed"
              /\ action'[id].key = NoKey
              /\ action'[id].decision = "none"
              /\ action'[id].case = 0
              /\ action'[id].rationale = RationaleFrom(worker[w].seen)
         /\ \A v \in Workers \ {w} : worker'[v] = worker[v]
         /\ worker'[w] = Idle
         /\ facts' = facts /\ cases' = cases
         /\ \A id \in ActionIds : trail'[id] = trail[id]
<1>1. worker[w].alert \in Alerts /\ worker[w].seen \in Facts
  BY StageType DEF InsertProposals, Proposing
<1>2. ASSUME NEW id \in ActionIds, id[1] = worker[w].alert
      PROVE  action[id].status = "absent"
  BY <1>2 DEF InsertProposals, ActionsOf
<1>3. ASSUME NEW id \in ActionIds
      PROVE  trail'[id] = trail[id]
  <2>1. id # worker[w].alert
    BY <1>1, CasesAssumption
  <2>2. QED
    BY <2>1 DEF InsertProposals, TypeOK
<1>4. /\ \A v \in Workers \ {w} : worker'[v] = worker[v]
      /\ worker'[w] = Idle
  BY DEF InsertProposals, Goto, TypeOK
<1>5. ASSUME NEW id \in ActionIds
      PROVE  action'[id] = IF id[1] = worker[w].alert
                             THEN [Absent EXCEPT !.status = "proposed",
                                     !.rationale = RationaleFrom(worker[w].seen)]
                             ELSE action[id]
  BY DEF InsertProposals
<1>6. ASSUME NEW id \in ActionIds, id[1] = worker[w].alert
      PROVE  /\ action'[id].status = "proposed"
             /\ action'[id].key = NoKey
             /\ action'[id].decision = "none"
             /\ action'[id].case = 0
             /\ action'[id].rationale = RationaleFrom(worker[w].seen)
  BY <1>5, <1>6 DEF Absent
<1>7. facts' = facts /\ cases' = cases
  BY DEF InsertProposals
<1>8. QED
  BY <1>1, <1>2, <1>3, <1>4, <1>5, <1>6, <1>7

\* An assessment is recorded while every action of the alert is open, and
\* changes nothing of their rows but the rationale.
LEMMA RecordRows ==
  ASSUME TypeOK, NEW w \in Workers, RecordAssessment(w)
  PROVE  /\ worker[w].alert \in Alerts /\ worker[w].outcome \in {"model", "fallback"}
         /\ \A id \in ActionIds : Decided(id) => action'[id] = action[id]
         /\ \A id \in ActionIds :
              /\ action'[id].status = action[id].status
              /\ action'[id].key = action[id].key
              /\ action'[id].decision = action[id].decision
              /\ action'[id].case = action[id].case
              /\ \/ action'[id].rationale = action[id].rationale
                 \/ /\ id[1] = worker[w].alert
                    /\ action'[id].rationale =
                         RationaleFrom(Merged(RuleFacts, worker[w].outcome))
         /\ \A a \in Alerts : a # worker[w].alert => facts'[a] = facts[a]
         /\ facts'[worker[w].alert] = Merged(facts[worker[w].alert], worker[w].outcome)
         /\ \A v \in Workers \ {w} : worker'[v] = worker[v]
         /\ worker'[w] = Idle
         /\ status' = status /\ cases' = cases
         /\ \A id \in ActionIds : trail'[id] = trail[id]
<1>1. worker[w].alert \in Alerts /\ worker[w].outcome \in {"model", "fallback"}
  BY StageType DEF RecordAssessment, Recording
<1>2. ASSUME NEW id \in ActionIds
      PROVE  trail'[id] = trail[id]
  <2>1. id # worker[w].alert
    BY <1>1, CasesAssumption
  <2>2. QED
    BY <2>1 DEF RecordAssessment, TypeOK
<1>3. /\ \A v \in Workers \ {w} : worker'[v] = worker[v]
      /\ worker'[w] = Idle
  BY DEF RecordAssessment, Goto, TypeOK
<1>4. ASSUME NEW id \in ActionIds
      PROVE  action'[id] = IF id \in ActionsOf(worker[w].alert)
                THEN [action[id] EXCEPT
                        !.rationale = RationaleFrom(Merged(RuleFacts, worker[w].outcome))]
                ELSE action[id]
  BY DEF RecordAssessment
<1>5. \A id \in ActionIds : Decided(id) => action'[id] = action[id]
  <2>1. ASSUME NEW id \in ActionsOf(worker[w].alert)
        PROVE  action[id].status = "proposed"
    BY DEF RecordAssessment
  <2>2. QED
    BY <1>4, <2>1 DEF Decided
<1>6. ASSUME NEW id \in ActionIds
      PROVE  /\ action'[id].status = action[id].status
             /\ action'[id].key = action[id].key
             /\ action'[id].decision = action[id].decision
             /\ action'[id].case = action[id].case
             /\ \/ action'[id].rationale = action[id].rationale
                \/ /\ id[1] = worker[w].alert
                   /\ action'[id].rationale =
                        RationaleFrom(Merged(RuleFacts, worker[w].outcome))
  <2>1. action[id] \in ActionRow
    BY DEF TypeOK
  <2>2. CASE id \in ActionsOf(worker[w].alert)
    <3>1. id[1] = worker[w].alert
      BY <2>2 DEF ActionsOf
    <3>2. action'[id] = [action[id] EXCEPT
                           !.rationale = RationaleFrom(Merged(RuleFacts, worker[w].outcome))]
      BY <1>4, <2>2
    <3>3. QED
      BY <2>1, <3>1, <3>2 DEF ActionRow
  <2>3. CASE id \notin ActionsOf(worker[w].alert)
    <3>1. action'[id] = action[id]
      BY <1>4, <2>3
    <3>2. QED
      BY <3>1
  <2>4. QED
    BY <2>2, <2>3
<1>7. /\ \A a \in Alerts : a # worker[w].alert => facts'[a] = facts[a]
      /\ facts'[worker[w].alert] = Merged(facts[worker[w].alert], worker[w].outcome)
  BY <1>1 DEF RecordAssessment, TypeOK
<1>8. status' = status /\ cases' = cases
  BY DEF RecordAssessment
<1>9. QED
  BY <1>1, <1>2, <1>3, <1>5, <1>6, <1>7, <1>8

\* The recorded cases, each of an action of an alert.
CaseRow == [action: ActionIds, seen: Facts]

LEMMA CasesType ==
  ASSUME TypeOK
  PROVE  /\ cases \in Seq(CaseRow) /\ Len(cases) \in Nat /\ DOMAIN cases = 1 .. Len(cases)
         /\ \A n \in DOMAIN cases : cases[n].action \in ActionIds /\ cases[n].action[1] \in Alerts
<1>1. cases \in Seq(CaseRow)
  BY DEF TypeOK, CaseRow
<1>2. /\ Len(cases) \in Nat /\ DOMAIN cases = 1 .. Len(cases)
      /\ \A n \in DOMAIN cases : cases[n] \in CaseRow
  BY <1>1
<1>3. \A n \in DOMAIN cases : cases[n].action \in ActionIds
  BY <1>2 DEF CaseRow
<1>4. \A id \in ActionIds : id[1] \in Alerts
  BY DEF ActionIds
<1>5. QED
  BY <1>1, <1>2, <1>3, <1>4

\* Appending a case keeps the others.
LEMMA CasesAppend ==
  ASSUME TypeOK, NEW case \in CaseRow, cases' = Append(cases, case)
  PROVE  /\ Len(cases') = Len(cases) + 1 /\ DOMAIN cases' = 1 .. Len(cases) + 1
         /\ cases'[Len(cases) + 1] = case
         /\ \A n \in 1 .. Len(cases) : cases'[n] = cases[n]
  BY CasesType

\* A decision writes one row that was open, and answers the thread.
LEMMA DecideRows ==
  ASSUME TypeOK, NEW w \in Workers, Claimed(w),
         NEW newStatus \in {"rejected", "executed", "failed"}, NEW case \in Nat,
         NEW events \in Seq(Events), Decide(w, newStatus, case, events)
  PROVE  /\ action'[worker[w].request.id].status = newStatus
         /\ action'[worker[w].request.id].decision = worker[w].request.decision
         /\ action'[worker[w].request.id].key = worker[w].request.key
         /\ action'[worker[w].request.id].case = case
         /\ action'[worker[w].request.id].rationale = action[worker[w].request.id].rationale
         /\ \A id \in ActionIds \ {worker[w].request.id} : action'[id] = action[id]
         /\ trail'[worker[w].request.id] = trail[worker[w].request.id] \o events
         /\ \A e \in (Alerts \cup ActionIds) \ {worker[w].request.id} : trail'[e] = trail[e]
<1> DEFINE r == worker[w].request
<1>1. r.id \in ActionIds
  BY RequestType DEF Claimed
<1>2. action[r.id] \in ActionRow /\ action \in [ActionIds -> ActionRow]
  BY <1>1 DEF TypeOK
<1>3. action' = [action EXCEPT ![r.id] =
         [@ EXCEPT !.status = newStatus, !.decision = r.decision,
                   !.key = r.key, !.case = case]]
  BY DEF Decide
<1>4. /\ action'[r.id].status = newStatus
      /\ action'[r.id].decision = r.decision
      /\ action'[r.id].key = r.key
      /\ action'[r.id].case = case
      /\ action'[r.id].rationale = action[r.id].rationale
  BY <1>1, <1>2, <1>3 DEF ActionRow
<1>5. \A id \in ActionIds \ {r.id} : action'[id] = action[id]
  BY <1>1, <1>2, <1>3
<1>6. /\ trail'[r.id] = trail[r.id] \o events
      /\ \A e \in (Alerts \cup ActionIds) \ {r.id} : trail'[e] = trail[e]
  BY <1>1 DEF Decide, TypeOK
<1>7. QED
  BY <1>4, <1>5, <1>6

\* The status each decision writes.
LEMMA RejectRow ==
  ASSUME TypeOK, NEW w \in Workers, Reject(w)
  PROVE  action'[worker[w].request.id].status = "rejected" /\ cases' = cases
<1>1. <<"action.rejected">> \in Seq(Events)
  BY DEF Events
<1>2. Claimed(w) /\ Decide(w, "rejected", 0, <<"action.rejected">>) /\ cases' = cases
  BY DEF Reject
<1>3. QED
  BY <1>1, <1>2, DecideRows

LEMMA FailRow ==
  ASSUME TypeOK, NEW w \in Workers, Fail(w)
  PROVE  action'[worker[w].request.id].status = "failed" /\ cases' = cases
<1>1. <<"action.approved", "action.failed">> \in Seq(Events)
  BY DEF Events
<1>2. /\ Claimed(w) /\ Decide(w, "failed", 0, <<"action.approved", "action.failed">>)
      /\ cases' = cases
  BY DEF Fail
<1>3. QED
  BY <1>1, <1>2, DecideRows

LEMMA ExecuteRow ==
  ASSUME TypeOK, NEW w \in Workers, Execute(w)
  PROVE  action'[worker[w].request.id].status = "executed"
<1>1. <<"action.approved", "tool.executed">> \in Seq(Events)
  BY DEF Events
<1>2. PICK n : n = IF worker[w].request.id[2] \in CaseActions THEN Len(cases) + 1 ELSE 0
  OBVIOUS
<1>3. n \in Nat
  BY <1>2, CasesType
<1>4. /\ Claimed(w)
      /\ Decide(w, "executed",
                IF worker[w].request.id[2] \in CaseActions THEN Len(cases) + 1 ELSE 0,
                <<"action.approved", "tool.executed">>)
  BY DEF Execute
<1>5. Decide(w, "executed", n, <<"action.approved", "tool.executed">>)
  BY <1>2, <1>4
<1>6. QED
  BY <1>1, <1>3, <1>4, <1>5, DecideRows

\* The thread that decides, its request, and what the three decisions share.
LEMMA DecisionShared ==
  ASSUME TypeOK, NEW w \in Workers, Reject(w) \/ Execute(w) \/ Fail(w)
  PROVE  /\ Claimed(w)
         /\ worker[w].stage = "claiming" /\ worker[w] \in Deciding
         /\ worker[w].request.id \in ActionIds
         /\ worker[w].request.id[1] \in Alerts
         /\ worker[w].request.key \in IdemKeys
         /\ action[worker[w].request.id].status = "proposed"
         /\ \A id \in ActionIds : action[id].key # worker[w].request.key
         /\ worker'[w] = [stage |-> "replied", request |-> worker[w].request, reply |-> "done"]
         /\ \A v \in Workers \ {w} : worker'[v] = worker[v]
         /\ facts' = facts /\ status' = status
<1>1. Claimed(w)
  BY DEF Reject, Execute, Fail
<1>2. worker[w].stage = "claiming" /\ worker[w] \in Deciding
  BY <1>1, StageType DEF Claimed
<1>3. /\ worker[w].request.id \in ActionIds
      /\ worker[w].request.id[1] \in Alerts
      /\ worker[w].request.key \in IdemKeys
  BY <1>2, RequestType
<1>4. /\ action[worker[w].request.id].status = "proposed"
      /\ \A id \in ActionIds : action[id].key # worker[w].request.key
  BY <1>1 DEF Claimed, KeyOwners
<1>5. Reply(w, "done") /\ UNCHANGED alertRow
  BY DEF Reject, Execute, Fail, Decide
<1>6. /\ worker'[w] = [stage |-> "replied", request |-> worker[w].request, reply |-> "done"]
      /\ \A v \in Workers \ {w} : worker'[v] = worker[v]
  BY <1>5 DEF Reply, Goto, TypeOK
<1>7. facts' = facts /\ status' = status
  BY <1>5 DEF alertRow
<1>8. QED
  BY <1>1, <1>2, <1>3, <1>4, <1>6, <1>7

\* A reject or an approval, failed or not, is written into its row and audited;
\* only a successful one that asks for it opens a case.
LEMMA DecisionRows ==
  ASSUME TypeOK, NEW w \in Workers, Reject(w) \/ Execute(w) \/ Fail(w)
  PROVE  /\ action'[worker[w].request.id].decision = worker[w].request.decision
         /\ action'[worker[w].request.id].key = worker[w].request.key
         /\ action'[worker[w].request.id].rationale = action[worker[w].request.id].rationale
         /\ \A id \in ActionIds \ {worker[w].request.id} : action'[id] = action[id]
         /\ \A e \in (Alerts \cup ActionIds) \ {worker[w].request.id} : trail'[e] = trail[e]
         /\ \/ /\ action'[worker[w].request.id].status = "rejected"
               /\ trail'[worker[w].request.id] =
                    trail[worker[w].request.id] \o <<"action.rejected">>
               /\ cases' = cases
            \/ /\ action'[worker[w].request.id].status = "failed"
               /\ trail'[worker[w].request.id] =
                    trail[worker[w].request.id] \o <<"action.approved", "action.failed">>
               /\ cases' = cases
            \/ /\ action'[worker[w].request.id].status = "executed"
               /\ trail'[worker[w].request.id] =
                    trail[worker[w].request.id] \o <<"action.approved", "tool.executed">>
               /\ IF worker[w].request.id[2] \in CaseActions
                    THEN /\ action'[worker[w].request.id].case = Len(cases) + 1
                         /\ cases' = Append(cases, [action |-> worker[w].request.id,
                                                    seen |-> worker[w].seen])
                    ELSE cases' = cases
<1>0. /\ <<"action.rejected">> \in Seq(Events)
      /\ <<"action.approved", "tool.executed">> \in Seq(Events)
      /\ <<"action.approved", "action.failed">> \in Seq(Events)
  BY DEF Events
<1>1. CASE Reject(w)
  <2>1. /\ Claimed(w) /\ Decide(w, "rejected", 0, <<"action.rejected">>)
        /\ cases' = cases
    BY <1>1 DEF Reject
  <2>2. /\ action'[worker[w].request.id].status = "rejected"
        /\ action'[worker[w].request.id].decision = worker[w].request.decision
        /\ action'[worker[w].request.id].key = worker[w].request.key
        /\ action'[worker[w].request.id].rationale = action[worker[w].request.id].rationale
        /\ \A id \in ActionIds \ {worker[w].request.id} : action'[id] = action[id]
        /\ trail'[worker[w].request.id] =
             trail[worker[w].request.id] \o <<"action.rejected">>
        /\ \A e \in (Alerts \cup ActionIds) \ {worker[w].request.id} : trail'[e] = trail[e]
    BY <2>1, <1>0, DecideRows, ZenonT(30)
  <2>3. QED
    BY <2>1, <2>2
<1>2. CASE Fail(w)
  <2>1. /\ Claimed(w) /\ Decide(w, "failed", 0, <<"action.approved", "action.failed">>)
        /\ cases' = cases
    BY <1>2 DEF Fail
  <2>2. /\ action'[worker[w].request.id].status = "failed"
        /\ action'[worker[w].request.id].decision = worker[w].request.decision
        /\ action'[worker[w].request.id].key = worker[w].request.key
        /\ action'[worker[w].request.id].rationale = action[worker[w].request.id].rationale
        /\ \A id \in ActionIds \ {worker[w].request.id} : action'[id] = action[id]
        /\ trail'[worker[w].request.id] =
             trail[worker[w].request.id] \o <<"action.approved", "action.failed">>
        /\ \A e \in (Alerts \cup ActionIds) \ {worker[w].request.id} : trail'[e] = trail[e]
    BY <2>1, <1>0, DecideRows
  <2>3. QED
    BY <2>1, <2>2
<1>3. CASE Execute(w)
  <2>1. PICK n : n = IF worker[w].request.id[2] \in CaseActions THEN Len(cases) + 1 ELSE 0
    OBVIOUS
  <2>2. n \in Nat
    BY <2>1, CasesType
  <2>3. /\ Claimed(w)
        /\ Decide(w, "executed",
                  IF worker[w].request.id[2] \in CaseActions THEN Len(cases) + 1 ELSE 0,
                  <<"action.approved", "tool.executed">>)
        /\ cases' = IF worker[w].request.id[2] \in CaseActions
                      THEN Append(cases, [action |-> worker[w].request.id,
                                          seen |-> worker[w].seen])
                      ELSE cases
    BY <1>3 DEF Execute
  <2>4. Decide(w, "executed", n, <<"action.approved", "tool.executed">>)
    BY <2>1, <2>3
  <2>5. /\ action'[worker[w].request.id].status = "executed"
        /\ action'[worker[w].request.id].case = n
        /\ action'[worker[w].request.id].decision = worker[w].request.decision
        /\ action'[worker[w].request.id].key = worker[w].request.key
        /\ action'[worker[w].request.id].rationale = action[worker[w].request.id].rationale
        /\ \A id \in ActionIds \ {worker[w].request.id} : action'[id] = action[id]
        /\ trail'[worker[w].request.id] =
             trail[worker[w].request.id] \o <<"action.approved", "tool.executed">>
        /\ \A e \in (Alerts \cup ActionIds) \ {worker[w].request.id} : trail'[e] = trail[e]
    BY <2>2, <2>3, <2>4, <1>0, DecideRows, ZenonT(30)
  <2>6. IF worker[w].request.id[2] \in CaseActions
          THEN /\ action'[worker[w].request.id].case = Len(cases) + 1
               /\ cases' = Append(cases, [action |-> worker[w].request.id,
                                          seen |-> worker[w].seen])
          ELSE cases' = cases
    <3>1. CASE worker[w].request.id[2] \in CaseActions
      BY <2>1, <2>3, <2>5, <3>1, Zenon
    <3>2. CASE worker[w].request.id[2] \notin CaseActions
      BY <2>3, <3>2, Zenon
    <3>3. QED
      BY <3>1, <3>2
  <2>7. QED
    BY <2>5, <2>6, Zenon
<1>4. QED
  BY <1>1, <1>2, <1>3

\* What a step never undoes.
LEMMA StepMonotone ==
  ASSUME TypeOK, NEW w \in Workers, WorkerStep(w)
  PROVE  /\ \A id \in ActionIds : Decided(id) => action'[id] = action[id]
         /\ \A id \in ActionIds : action[id].status # "absent" => action'[id].status # "absent"
         /\ \A a \in Alerts : facts[a].assessed => facts'[a].assessed
         /\ \A v \in Workers \ {w} : worker'[v] = worker[v]
<1>1. CASE Moves(w)
  BY <1>1 DEF Moves, Goto, tables, alertRow, TypeOK
<1>2. CASE InsertProposals(w)
  <2>1. ASSUME NEW id \in ActionIds
        PROVE  /\ Decided(id) => action'[id] = action[id]
               /\ action[id].status # "absent" => action'[id].status # "absent"
    <3>1. CASE id[1] = worker[w].alert
      BY <1>2, <3>1, InsertRows DEF Decided
    <3>2. CASE id[1] # worker[w].alert
      BY <1>2, <3>2, InsertRows
    <3>3. QED
      BY <3>1, <3>2
  <2>2. facts' = facts /\ \A v \in Workers \ {w} : worker'[v] = worker[v]
    BY <1>2, InsertRows
  <2>3. QED
    BY <2>1, <2>2
<1>3. CASE RecordAssessment(w)
  <2>1. ASSUME NEW a \in Alerts, facts[a].assessed
        PROVE  facts'[a].assessed
    <3>1. CASE a = worker[w].alert
      <4>1. (facts[a].assessed \/ worker[w].outcome = "model") = TRUE
        BY <2>1, Zenon
      <4>2. facts'[a] = Merged(facts[a], worker[w].outcome)
        BY <1>3, <3>1, RecordRows
      <4>3. facts'[a] = [assessed |-> TRUE, outcome |-> worker[w].outcome]
        BY <4>1, <4>2, Zenon DEF Merged
      <4>4. QED
        BY <4>3
    <3>2. CASE a # worker[w].alert
      BY <1>3, <2>1, <3>2, RecordRows
    <3>3. QED
      BY <3>1, <3>2
  <2>2. QED
    BY <1>3, <2>1, RecordRows
<1>4. CASE Reject(w) \/ Execute(w) \/ Fail(w)
  <2>1. ASSUME NEW id \in ActionIds
        PROVE  /\ Decided(id) => action'[id] = action[id]
               /\ action[id].status # "absent" => action'[id].status # "absent"
    <3>1. CASE id = worker[w].request.id
      <4>1. action[id].status = "proposed"
        BY <1>4, <3>1, DecisionShared
      <4>2. action'[id].status \in {"rejected", "failed", "executed"}
        BY <1>4, <3>1, DecisionRows
      <4>3. QED
        BY <4>1, <4>2 DEF Decided
    <3>2. CASE id # worker[w].request.id
      BY <1>4, <3>2, DecisionRows
    <3>3. QED
      BY <3>1, <3>2
  <2>2. facts' = facts /\ \A v \in Workers \ {w} : worker'[v] = worker[v]
    BY <1>4, DecisionShared
  <2>3. QED
    BY <2>1, <2>2
<1>5. QED
  BY <1>1, <1>2, <1>3, <1>4, StepShapes

-----------------------------------------------------------------------------
(* The conjuncts of the invariant about the tables.                        *)

LEMMA BareStep ==
  ASSUME TypeOK, UndecidedRowsAreBare, NEW w \in Workers, WorkerStep(w)
  PROVE  UndecidedRowsAreBare'
<1> SUFFICES ASSUME NEW id \in ActionIds, ~ Decided(id)'
             PROVE  /\ action'[id].key = NoKey
                    /\ action'[id].decision = "none"
                    /\ action'[id].case = 0
  BY DEF UndecidedRowsAreBare
<1>1. ASSUME action'[id] = action[id]
      PROVE  /\ action'[id].key = NoKey
             /\ action'[id].decision = "none"
             /\ action'[id].case = 0
  BY <1>1 DEF UndecidedRowsAreBare, Decided
<1>2. CASE Moves(w)
  BY <1>1, <1>2 DEF Moves, tables
<1>3. CASE InsertProposals(w)
  BY <1>1, <1>3, InsertRows
<1>4. CASE RecordAssessment(w)
  <2>1. /\ action'[id].status = action[id].status
        /\ action'[id].key = action[id].key
        /\ action'[id].decision = action[id].decision
        /\ action'[id].case = action[id].case
    BY <1>4, RecordRows
  <2>2. QED
    BY <2>1 DEF UndecidedRowsAreBare, Decided
<1>5. CASE Reject(w) \/ Execute(w) \/ Fail(w)
  <2>1. CASE id = worker[w].request.id
    <3>1. action'[id].status \in {"rejected", "failed", "executed"}
      BY <1>5, <2>1, DecisionRows
    <3>2. QED
      BY <3>1 DEF Decided
  <2>2. CASE id # worker[w].request.id
    BY <1>1, <1>5, <2>2, DecisionRows
  <2>3. QED
    BY <2>1, <2>2
<1>6. QED
  BY <1>2, <1>3, <1>4, <1>5, StepShapes

\* The trail an action should have, from its status.
TrailOf(row) ==
  CASE row.status = "rejected" -> <<"action.rejected">>
    [] row.status = "executed" -> <<"action.approved", "tool.executed">>
    [] row.status = "failed" -> <<"action.approved", "action.failed">>
    [] OTHER -> << >>

LEMMA TrailStep ==
  ASSUME TypeOK, TrailExplainsAction, NEW w \in Workers, WorkerStep(w)
  PROVE  TrailExplainsAction'
<1> SUFFICES ASSUME NEW id \in ActionIds
             PROVE  trail'[id] = TrailOf(action'[id])
  BY DEF TrailExplainsAction, TrailOf
<1>1. trail[id] = TrailOf(action[id])
  BY DEF TrailExplainsAction, TrailOf
<1>2. CASE Moves(w)
  BY <1>1, <1>2 DEF Moves, tables
<1>3. CASE InsertProposals(w)
  <2>1. trail'[id] = trail[id]
    BY <1>3, InsertRows
  <2>2. CASE id[1] = worker[w].alert
    <3>1. action[id].status = "absent" /\ action'[id].status = "proposed"
      BY <1>3, <2>2, InsertRows
    <3>2. QED
      BY <1>1, <2>1, <3>1 DEF TrailOf
  <2>3. CASE id[1] # worker[w].alert
    BY <1>1, <1>3, <2>1, <2>3, InsertRows
  <2>4. QED
    BY <2>2, <2>3
<1>4. CASE RecordAssessment(w)
  <2>1. action'[id].status = action[id].status /\ trail'[id] = trail[id]
    BY <1>4, RecordRows
  <2>2. QED
    BY <1>1, <2>1 DEF TrailOf
<1>5. CASE Reject(w) \/ Execute(w) \/ Fail(w)
  <2>1. CASE id = worker[w].request.id
    <3>1. action[id].status = "proposed"
      BY <1>5, <2>1, DecisionShared
    <3>2. trail[id] = << >>
      BY <1>1, <3>1 DEF TrailOf
    <3>3. \/ action'[id].status = "rejected" /\ trail'[id] = << >> \o <<"action.rejected">>
          \/ /\ action'[id].status = "failed"
             /\ trail'[id] = << >> \o <<"action.approved", "action.failed">>
          \/ /\ action'[id].status = "executed"
             /\ trail'[id] = << >> \o <<"action.approved", "tool.executed">>
      BY <1>5, <2>1, <3>2, DecisionRows
    <3>4. /\ << >> \o <<"action.rejected">> = <<"action.rejected">>
          /\ << >> \o <<"action.approved", "action.failed">> = <<"action.approved", "action.failed">>
          /\ << >> \o <<"action.approved", "tool.executed">> = <<"action.approved", "tool.executed">>
      OBVIOUS
    <3>5. QED
      BY <3>3, <3>4 DEF TrailOf
  <2>2. CASE id # worker[w].request.id
    BY <1>1, <1>5, <2>2, DecisionRows
  <2>3. QED
    BY <2>1, <2>2
<1>6. QED
  BY <1>2, <1>3, <1>4, <1>5, StepShapes

\* A step opens no case, or the case of the action it executes.
LEMMA CasesShape ==
  ASSUME TypeOK, NEW w \in Workers, WorkerStep(w)
  PROVE  \/ cases' = cases
         \/ /\ Execute(w)
            /\ worker[w].request.id \in ActionIds
            /\ worker[w].request.id[2] \in CaseActions
            /\ action'[worker[w].request.id].status = "executed"
            /\ action'[worker[w].request.id].case = Len(cases) + 1
            /\ Len(cases') = Len(cases) + 1 /\ DOMAIN cases' = 1 .. Len(cases) + 1
            /\ cases'[Len(cases) + 1] =
                 [action |-> worker[w].request.id, seen |-> worker[w].seen]
            /\ \A n \in 1 .. Len(cases) : cases'[n] = cases[n]
<1>1. CASE Moves(w)
  BY <1>1 DEF Moves, tables
<1>2. CASE InsertProposals(w)
  BY <1>2, InsertRows
<1>3. CASE RecordAssessment(w)
  BY <1>3, RecordRows
<1>4. CASE Reject(w) \/ Fail(w)
  BY <1>4 DEF Reject, Fail
<1>5. CASE Execute(w) /\ worker[w].request.id[2] \notin CaseActions
  BY <1>5 DEF Execute
<1>6. CASE Execute(w) /\ worker[w].request.id[2] \in CaseActions
  <2> DEFINE case == [action |-> worker[w].request.id, seen |-> worker[w].seen]
  <2>1. worker[w] \in Deciding
    BY <1>6, DecisionShared
  <2>2. case \in CaseRow
    BY <2>1 DEF Deciding, Request, CaseRow
  <2>3. cases' = Append(cases, case)
    BY <1>6 DEF Execute
  <2>4. /\ Len(cases') = Len(cases) + 1 /\ DOMAIN cases' = 1 .. Len(cases) + 1
        /\ cases'[Len(cases) + 1] = case
        /\ \A n \in 1 .. Len(cases) : cases'[n] = cases[n]
    <3> HIDE DEF case
    <3>1. QED
      BY <2>2, <2>3, CasesAppend
  <2>5. worker[w].request.id \in ActionIds /\ action[worker[w].request.id] \in ActionRow
    BY <1>6, DecisionShared DEF TypeOK
  <2>6. action' = [action EXCEPT ![worker[w].request.id] =
          [@ EXCEPT !.status = "executed", !.decision = worker[w].request.decision,
                    !.key = worker[w].request.key, !.case = Len(cases) + 1]]
    BY <1>6 DEF Execute, Decide
  <2>7. /\ action'[worker[w].request.id].status = "executed"
        /\ action'[worker[w].request.id].case = Len(cases) + 1
    BY <2>5, <2>6 DEF TypeOK, ActionRow
  <2>8. QED
    BY <1>6, <2>4, <2>5, <2>7
<1>7. QED
  BY <1>1, <1>2, <1>3, <1>4, <1>5, <1>6, StepShapes

\* An executed row keeps its status and its case.
LEMMA ExecutedStays ==
  ASSUME TypeOK, NEW w \in Workers, WorkerStep(w), NEW id \in ActionIds,
         action[id].status = "executed"
  PROVE  action'[id] = action[id]
<1>1. Decided(id)
  BY DEF Decided
<1>2. QED
  BY <1>1, StepMonotone

\* Only a request on its own action makes it executed.
LEMMA ExecutedAnew ==
  ASSUME TypeOK, NEW w \in Workers, WorkerStep(w), NEW id \in ActionIds,
         action[id].status # "executed", action'[id].status = "executed"
  PROVE  Execute(w) /\ id = worker[w].request.id
<1>1. CASE Moves(w)
  BY <1>1 DEF Moves, tables
<1>2. CASE InsertProposals(w)
  <2>1. CASE id[1] = worker[w].alert
    BY <1>2, <2>1, InsertRows
  <2>2. CASE id[1] # worker[w].alert
    BY <1>2, <2>2, InsertRows
  <2>3. QED
    BY <2>1, <2>2
<1>3. CASE RecordAssessment(w)
  BY <1>3, RecordRows
<1>4. CASE Reject(w) \/ Execute(w) \/ Fail(w)
  <2>1. id = worker[w].request.id
    BY <1>4, DecisionRows
  <2>2. CASE Reject(w)
    BY <1>4, <2>1, <2>2, RejectRow
  <2>3. CASE Fail(w)
    BY <1>4, <2>1, <2>3, FailRow
  <2>4. QED
    BY <1>4, <2>1, <2>2, <2>3
<1>5. QED
  BY <1>1, <1>2, <1>3, <1>4, StepShapes

LEMMA CasesStep ==
  ASSUME TypeOK, CasesMatchExecutions, NEW w \in Workers, WorkerStep(w)
  PROVE  CasesMatchExecutions'
<1>1. /\ Len(cases) \in Nat /\ DOMAIN cases = 1 .. Len(cases)
      /\ \A n \in DOMAIN cases : cases[n].action \in ActionIds
  BY CasesType
<1>2. ASSUME NEW n \in DOMAIN cases
      PROVE  /\ action'[cases[n].action].status = "executed"
             /\ action'[cases[n].action].case = n
  <2>1. /\ cases[n].action \in ActionIds
        /\ action[cases[n].action].status = "executed"
        /\ action[cases[n].action].case = n
    BY <1>1 DEF CasesMatchExecutions
  <2>2. QED
    BY <2>1, ExecutedStays
<1>3. ASSUME NEW id \in ActionIds, action[id].status = "executed", id[2] \in CaseActions
      PROVE  action'[id].case \in DOMAIN cases
  <2>1. action[id].case \in DOMAIN cases
    BY <1>3 DEF CasesMatchExecutions
  <2>2. QED
    BY <1>3, <2>1, ExecutedStays
<1>4. CASE cases' = cases
  <2>1. ASSUME NEW id \in ActionIds, action'[id].status = "executed", id[2] \in CaseActions,
               action[id].status # "executed"
        PROVE  FALSE
    <3>1. Execute(w) /\ id = worker[w].request.id
      BY <2>1, ExecutedAnew
    <3>2. cases' = Append(cases, [action |-> worker[w].request.id, seen |-> worker[w].seen])
      BY <2>1, <3>1 DEF Execute
    <3>3. [action |-> worker[w].request.id, seen |-> worker[w].seen] \in CaseRow
      BY <3>1, DecisionShared DEF Deciding, Request, CaseRow
    <3>4. Len(cases') = Len(cases) + 1
      BY <3>2, <3>3, CasesAppend
    <3>5. QED
      BY <1>1, <1>4, <3>4
  <2>2. QED
    BY <1>2, <1>3, <1>4, <2>1 DEF CasesMatchExecutions
<1>5. CASE cases' # cases
  <2>1. /\ Execute(w)
        /\ action'[worker[w].request.id].status = "executed"
        /\ action'[worker[w].request.id].case = Len(cases) + 1
        /\ DOMAIN cases' = 1 .. Len(cases) + 1
        /\ cases'[Len(cases) + 1] = [action |-> worker[w].request.id, seen |-> worker[w].seen]
        /\ \A n \in 1 .. Len(cases) : cases'[n] = cases[n]
    BY <1>5, CasesShape
  <2>2. ASSUME NEW n \in DOMAIN cases'
        PROVE  /\ action'[cases'[n].action].status = "executed"
               /\ action'[cases'[n].action].case = n
    <3>1. CASE n \in 1 .. Len(cases)
      BY <1>1, <1>2, <2>1, <3>1
    <3>2. CASE n = Len(cases) + 1
      BY <2>1, <3>2
    <3>3. QED
      BY <1>1, <2>1, <3>1, <3>2
  <2>3. ASSUME NEW id \in ActionIds, action'[id].status = "executed", id[2] \in CaseActions
        PROVE  action'[id].case \in DOMAIN cases'
    <3>1. CASE action[id].status = "executed"
      BY <1>1, <1>3, <2>1, <2>3, <3>1
    <3>2. CASE action[id].status # "executed"
      <4>1. id = worker[w].request.id
        BY <2>3, <3>2, ExecutedAnew
      <4>2. QED
        BY <1>1, <2>1, <4>1
    <3>3. QED
      BY <3>1, <3>2
  <2>4. QED
    BY <2>2, <2>3 DEF CasesMatchExecutions
<1>6. QED
  BY <1>4, <1>5

LEMMA ModelTextStep ==
  ASSUME TypeOK, ReadingsHold, ModelTextIsBacked, NEW w \in Workers, WorkerStep(w)
  PROVE  ModelTextIsBacked'
<1>1. /\ Len(cases) \in Nat /\ DOMAIN cases = 1 .. Len(cases)
      /\ \A n \in DOMAIN cases : cases[n].action \in ActionIds /\ cases[n].action[1] \in Alerts
  BY CasesType
<1>2. \A a \in Alerts : facts[a].assessed => facts'[a].assessed
  BY StepMonotone
<1>3. \A id \in ActionIds : id[1] \in Alerts
  BY DEF ActionIds
<1>4. ASSUME NEW id \in ActionIds, action'[id].rationale = "model"
      PROVE  facts'[id[1]].assessed
  <2>1. CASE action'[id].rationale = action[id].rationale
    <3>1. facts[id[1]].assessed
      BY <1>4, <2>1 DEF ModelTextIsBacked
    <3>2. QED
      BY <1>2, <1>3, <3>1
  <2>2. CASE Moves(w)
    BY <2>1, <2>2 DEF Moves, tables
  <2>3. CASE InsertProposals(w)
    <3>1. CASE id[1] = worker[w].alert
      <4>1. RationaleFrom(worker[w].seen) = "model"
        BY <1>4, <2>3, <3>1, InsertRows
      <4>2. worker[w].seen.assessed
        BY <4>1 DEF RationaleFrom
      <4>3. facts[worker[w].alert].assessed
        BY <2>3, <4>2 DEF InsertProposals, ReadingsHold
      <4>4. QED
        BY <1>2, <1>3, <3>1, <4>3
    <3>2. CASE id[1] # worker[w].alert
      BY <2>1, <2>3, <3>2, InsertRows
    <3>3. QED
      BY <3>1, <3>2
  <2>4. CASE RecordAssessment(w)
    <3>1. CASE /\ id[1] = worker[w].alert
               /\ action'[id].rationale = RationaleFrom(Merged(RuleFacts, worker[w].outcome))
      <4>1. worker[w].outcome = "model"
        BY <1>4, <3>1 DEF RationaleFrom, Merged, RuleFacts
      <4>2. facts'[id[1]] = Merged(facts[id[1]], worker[w].outcome)
        BY <2>4, <3>1, RecordRows
      <4>3. (facts[id[1]].assessed \/ worker[w].outcome = "model") = TRUE
        BY <4>1, Zenon
      <4>4. facts'[id[1]] = [assessed |-> TRUE, outcome |-> worker[w].outcome]
        BY <4>2, <4>3, Zenon DEF Merged
      <4>5. QED
        BY <4>4
    <3>2. QED
      BY <2>1, <2>4, <3>1, RecordRows
  <2>5. CASE Reject(w) \/ Execute(w) \/ Fail(w)
    <3>1. CASE id = worker[w].request.id
      BY <2>1, <2>5, <3>1, DecisionRows
    <3>2. CASE id # worker[w].request.id
      BY <2>1, <2>5, <3>2, DecisionRows
    <3>3. QED
      BY <3>1, <3>2
  <2>6. QED
    BY <2>2, <2>3, <2>4, <2>5, StepShapes
<1>5. ASSUME NEW n \in DOMAIN cases, cases[n].seen.assessed
      PROVE  facts'[cases[n].action[1]].assessed
  <2>1. facts[cases[n].action[1]].assessed
    BY <1>5 DEF ModelTextIsBacked
  <2>2. QED
    BY <1>1, <1>2, <2>1
<1>6. CASE cases' = cases
  BY <1>4, <1>5, <1>6 DEF ModelTextIsBacked
<1>7. CASE cases' # cases
  <2>1. /\ Execute(w)
        /\ DOMAIN cases' = 1 .. Len(cases) + 1
        /\ cases'[Len(cases) + 1] = [action |-> worker[w].request.id, seen |-> worker[w].seen]
        /\ \A n \in 1 .. Len(cases) : cases'[n] = cases[n]
    BY <1>7, CasesShape
  <2>2. worker[w].stage = "claiming" /\ worker[w].request.id[1] \in Alerts
    BY <2>1, DecisionShared
  <2>3. worker[w].seen.assessed => facts[worker[w].request.id[1]].assessed
    BY <2>2 DEF ReadingsHold
  <2>4. ASSUME NEW n \in DOMAIN cases', cases'[n].seen.assessed
        PROVE  facts'[cases'[n].action[1]].assessed
    <3>1. CASE n \in 1 .. Len(cases)
      BY <1>1, <1>5, <2>1, <2>4, <3>1
    <3>2. CASE n = Len(cases) + 1
      <4>1. cases'[n] = [action |-> worker[w].request.id, seen |-> worker[w].seen]
        BY <2>1, <3>2
      <4>2. QED
        BY <1>2, <2>2, <2>3, <2>4, <4>1
    <3>3. QED
      BY <1>1, <2>1, <3>1, <3>2
  <2>5. QED
    BY <1>4, <2>4 DEF ModelTextIsBacked
<1>8. QED
  BY <1>6, <1>7

-----------------------------------------------------------------------------
(* The conjuncts about the threads.  A step leaves the other threads alone  *)
(* and takes back nothing they rely on.                                     *)

LEMMA ReadingsStep ==
  ASSUME TypeOK, ReadingsHold, NEW w \in Workers, WorkerStep(w)
  PROVE  ReadingsHold'
<1> DEFINE Holds(v) ==
      /\ worker[v].stage \in {"proposing", "inserting"} =>
           (worker[v].seen.assessed => facts[worker[v].alert].assessed)
      /\ worker[v].stage \in {"deciding", "claiming"} =>
           /\ action[worker[v].request.id].status # "absent"
           /\ worker[v].seen.assessed => facts[worker[v].request.id[1]].assessed
<1> SUFFICES ASSUME NEW v \in Workers
             PROVE  Holds(v)'
  BY DEF ReadingsHold
<1>1. Holds(v) /\ Holds(w)
  BY DEF ReadingsHold
<1>2. /\ \A id \in ActionIds : action[id].status # "absent" => action'[id].status # "absent"
      /\ \A a \in Alerts : facts[a].assessed => facts'[a].assessed
  BY StepMonotone
<1>3. ASSUME NEW u \in Workers, worker'[u] = worker[u], Holds(u)
      PROVE  Holds(u)'
  <2>1. worker[u].stage \in {"proposing", "inserting"} => worker[u].alert \in Alerts
    BY StageType DEF Proposing
  <2>2. worker[u].stage \in {"deciding", "claiming"} =>
          worker[u].request.id \in ActionIds /\ worker[u].request.id[1] \in Alerts
    BY RequestType
  <2>3. QED
    BY <1>2, <1>3, <2>1, <2>2
<1>4. CASE v # w
  <2>1. worker'[v] = worker[v]
    BY <1>4, StepMonotone
  <2>2. QED
    BY <1>1, <1>3, <2>1
<1>5. CASE v = w
  <2>1. ASSUME worker'[w].stage \notin {"proposing", "inserting", "deciding", "claiming"}
        PROVE  Holds(v)'
    BY <1>5, <2>1
  <2>2. ASSUME NEW s, Goto(w, s)
        PROVE  worker'[w] = s
    BY <2>2 DEF Goto, TypeOK
  <2>3. CASE \E a \in Alerts : StartProposals(w, a) \/ StartEnrichment(w, a)
    <3>1. PICK a \in Alerts : StartProposals(w, a) \/ StartEnrichment(w, a)
      BY <2>3
    <3>2. CASE StartProposals(w, a)
      <4>1. worker'[w] = [stage |-> "proposing", alert |-> a, seen |-> facts[a]] /\ facts' = facts
        BY <3>2 DEF StartProposals, Goto, TypeOK, tables, alertRow
      <4>2. QED
        BY <1>5, <4>1
    <3>3. CASE StartEnrichment(w, a)
      <4>1. worker'[w].stage = "assessing"
        BY <3>3 DEF StartEnrichment, Goto, TypeOK
      <4>2. QED
        BY <2>1, <4>1
    <3>4. QED
      BY <3>1, <3>2, <3>3
  <2>4. CASE LookForActions(w)
    <3>1. worker[w] \in Proposing /\ worker[w].stage = "proposing"
      BY <2>4, StageType DEF LookForActions
    <3>2. CASE worker'[w] = [worker[w] EXCEPT !.stage = "inserting"]
      <4>1. /\ worker'[w].stage = "inserting" /\ worker'[w].alert = worker[w].alert
            /\ worker'[w].seen = worker[w].seen /\ worker[w].alert \in Alerts
        BY <3>1, <3>2 DEF Proposing
      <4>2. QED
        BY <1>1, <1>2, <1>5, <3>1, <4>1
    <3>3. CASE worker'[w] = Idle
      BY <2>1, <3>3 DEF Idle
    <3>4. QED
      BY <2>4, <3>2, <3>3 DEF LookForActions, Goto, TypeOK
  <2>5. CASE \E id \in ActionIds, decision \in Decisions, key \in IdemKeys :
               StartDecision(w, id, decision, key)
    <3>1. PICK id \in ActionIds, decision \in Decisions, key \in IdemKeys :
                 StartDecision(w, id, decision, key)
      BY <2>5
    <3>2. /\ action[id].status # "absent" /\ action' = action /\ facts' = facts
          /\ worker'[w] = [stage |-> "deciding",
                           request |-> [id |-> id, decision |-> decision, key |-> key],
                           seen |-> IF decision = "approve" THEN facts[id[1]] ELSE RuleFacts]
      BY <3>1 DEF StartDecision, Goto, TypeOK, tables, alertRow
    <3>3. ~ RuleFacts.assessed
      BY DEF RuleFacts
    <3>4. worker'[w].seen.assessed => facts'[id[1]].assessed
      <4>1. CASE decision = "approve"
        BY <3>2, <4>1
      <4>2. CASE decision # "approve"
        BY <3>2, <3>3, <4>2
      <4>3. QED
        BY <4>1, <4>2
    <3>5. worker'[w].stage = "deciding" /\ worker'[w].request.id = id
      BY <3>2
    <3>6. QED
      BY <1>5, <3>2, <3>4, <3>5
  <2>6. CASE LookUpKey(w)
    <3>1. worker[w] \in Deciding /\ worker[w].stage = "deciding"
      BY <2>6, StageType DEF LookUpKey
    <3>2. CASE worker'[w] = [worker[w] EXCEPT !.stage = "claiming"]
      <4>1. /\ worker'[w].stage = "claiming" /\ worker'[w].request = worker[w].request
            /\ worker'[w].seen = worker[w].seen
            /\ worker[w].request.id \in ActionIds /\ worker[w].request.id[1] \in Alerts
        BY <3>1, <3>2, RequestType DEF Deciding
      <4>2. QED
        BY <1>1, <1>2, <1>5, <3>1, <4>1
    <3>3. CASE worker'[w].stage = "replied"
      BY <2>1, <3>3
    <3>4. QED
      BY <2>6, <3>2, <3>3 DEF LookUpKey, ReplyFromKey, Reply, Goto, TypeOK
  <2>7. CASE \E outcome \in {"model", "fallback"} : Assess(w, outcome)
    <3>1. worker'[w].stage = "recording"
      BY <2>7 DEF Assess, Goto, TypeOK
    <3>2. QED
      BY <2>1, <3>1
  <2>8. CASE \/ InsertRefused(w) \/ DropAssessment(w) \/ Crash(w)
             \/ InsertProposals(w) \/ RecordAssessment(w)
    <3>1. worker'[w] = Idle
      BY <2>8 DEF InsertRefused, DropAssessment, Crash, InsertProposals, RecordAssessment,
                  Goto, TypeOK
    <3>2. QED
      BY <2>1, <3>1 DEF Idle
  <2>9. CASE ClaimLost(w) \/ KeyTaken(w)
    <3>1. worker'[w].stage = "replied"
      BY <2>9 DEF ClaimLost, KeyTaken, ReplyFromKey, Reply, Goto, TypeOK
    <3>2. QED
      BY <2>1, <3>1
  <2>10. CASE Unavailable(w)
    <3>1. worker'[w].stage = "replied" \/ worker'[w] = Idle
      BY <2>10 DEF Unavailable, Reply, Goto, TypeOK
    <3>2. QED
      BY <2>1, <3>1 DEF Idle
  <2>11. CASE Reject(w) \/ Execute(w) \/ Fail(w)
    <3>1. worker'[w] = [stage |-> "replied", request |-> worker[w].request, reply |-> "done"]
      BY <2>11, DecisionShared, Zenon
    <3>2. worker'[w].stage = "replied"
      BY <3>1
    <3>3. QED
      BY <2>1, <3>2
  <2>12. QED
    BY <2>3, <2>4, <2>5, <2>6, <2>7, <2>8, <2>9, <2>10, <2>11 DEF WorkerStep
<1>6. QED
  BY <1>4, <1>5

\* A key that is in use belongs to a decided action.
LEMMA OwnersDecided ==
  ASSUME UndecidedRowsAreBare, NEW key, key # NoKey, NEW id \in KeyOwners(key)
  PROVE  id \in ActionIds /\ action[id].key = key /\ Decided(id)
  BY DEF KeyOwners, UndecidedRowsAreBare

\* What RepliesTellTheTruth says of one thread that has its answer.
Truth(v) ==
  LET r == worker[v].request
      row == action[r.id]
  IN  CASE worker[v].reply \in {"done", "replayed"} ->
             Decided(r.id) /\ row.decision = r.decision /\ row.key = r.key
        [] worker[v].reply = "conflict" ->
             \E id \in KeyOwners(r.key) : ~ SameRequest(r.id, r.decision, id)
        [] worker[v].reply = "state_conflict" ->
             Decided(r.id) /\ row.key # r.key
        [] OTHER -> TRUE

\* A true answer stays true: it speaks of decided actions only.
LEMMA TruthStays ==
  ASSUME TypeOK, UndecidedRowsAreBare, NEW w \in Workers, WorkerStep(w),
         NEW v \in Workers, worker[v].stage = "replied", Truth(v), worker'[v] = worker[v]
  PROVE  Truth(v)'
<1> DEFINE r == worker[v].request
<1>1. r.id \in ActionIds /\ r.key # NoKey
  BY RequestType
<1>2. \A id \in ActionIds : Decided(id) => action'[id] = action[id] /\ Decided(id)'
  <2>1. ASSUME NEW id \in ActionIds, Decided(id)
        PROVE  action'[id] = action[id]
    BY <2>1, StepMonotone
  <2>2. QED
    BY <2>1 DEF Decided
<1>3. CASE worker[v].reply \in {"done", "replayed"}
  <2>1. Decided(r.id) /\ action[r.id].decision = r.decision /\ action[r.id].key = r.key
    BY <1>3 DEF Truth
  <2>2. Decided(r.id)' /\ action'[r.id] = action[r.id]
    BY <1>1, <1>2, <2>1
  <2>3. QED
    BY <1>3, <2>1, <2>2 DEF Truth
<1>4. CASE worker[v].reply = "conflict"
  <2>1. PICK id \in KeyOwners(r.key) : ~ SameRequest(r.id, r.decision, id)
    BY <1>4 DEF Truth
  <2>2. id \in ActionIds /\ action[id].key = r.key /\ Decided(id)
    BY <1>1, OwnersDecided
  <2>3. action'[id] = action[id]
    BY <1>2, <2>2
  <2>4. id \in KeyOwners(r.key)' /\ ~ SameRequest(r.id, r.decision, id)'
    BY <2>1, <2>2, <2>3 DEF KeyOwners, SameRequest
  <2>5. QED
    BY <1>4, <2>4 DEF Truth
<1>5. CASE worker[v].reply = "state_conflict"
  <2>1. Decided(r.id) /\ action[r.id].key # r.key
    BY <1>5 DEF Truth
  <2>2. Decided(r.id)' /\ action'[r.id] = action[r.id]
    BY <1>1, <1>2, <2>1
  <2>3. QED
    BY <1>5, <2>1, <2>2 DEF Truth
<1>6. CASE worker[v].reply \notin {"done", "replayed", "conflict", "state_conflict"}
  BY <1>6 DEF Truth
<1>7. QED
  BY <1>3, <1>4, <1>5, <1>6

\* Replying from the rows that carry the key.
LEMMA KeyTruth ==
  ASSUME TypeOK, UndecidedRowsAreBare, NEW w \in Workers,
         worker[w].stage \in {"deciding", "claiming"}, ReplyFromKey(w), action' = action
  PROVE  Truth(w)'
<1> DEFINE r == worker[w].request
<1>1. r.id \in ActionIds /\ r.key # NoKey
  BY RequestType
<1>2. PICK owner \in KeyOwners(r.key) :
        Reply(w, IF SameRequest(r.id, r.decision, owner) THEN "replayed" ELSE "conflict")
  BY DEF ReplyFromKey
<1>3. owner \in ActionIds /\ action[owner].key = r.key /\ Decided(owner)
  BY <1>1, OwnersDecided
<1>4. CASE SameRequest(r.id, r.decision, owner)
  <2>1. worker'[w] = [stage |-> "replied", request |-> r, reply |-> "replayed"]
    BY <1>2, <1>4 DEF Reply, Goto, TypeOK
  <2>2. owner = r.id /\ action[r.id].decision = r.decision
    BY <1>4 DEF SameRequest
  <2>3. worker'[w].request = r /\ worker'[w].reply = "replayed"
    BY <2>1
  <2>4. action'[r.id].status \notin {"absent", "proposed"}
    BY <1>3, <2>2 DEF Decided
  <2>5. QED
    BY <1>3, <2>2, <2>3, <2>4 DEF Truth, Decided
<1>5. CASE ~ SameRequest(r.id, r.decision, owner)
  <2>1. worker'[w] = [stage |-> "replied", request |-> r, reply |-> "conflict"]
    BY <1>2, <1>5 DEF Reply, Goto, TypeOK
  <2>2. worker'[w].request = r /\ worker'[w].reply = "conflict"
    BY <2>1
  <2>3. /\ owner \in ActionIds /\ action'[owner].key = r.key
        /\ ~ (owner = r.id /\ action'[owner].decision = r.decision)
    BY <1>3, <1>5 DEF SameRequest
  <2>4. QED
    BY <2>2, <2>3 DEF Truth, KeyOwners, SameRequest
<1>6. QED
  BY <1>4, <1>5

LEMMA RepliesStep ==
  ASSUME TypeOK, UndecidedRowsAreBare, ReadingsHold, RepliesTellTheTruth,
         NEW w \in Workers, WorkerStep(w)
  PROVE  RepliesTellTheTruth'
<1> SUFFICES ASSUME NEW v \in Workers, worker'[v].stage = "replied"
             PROVE  Truth(v)'
  BY DEF RepliesTellTheTruth, Truth
<1>1. CASE v # w
  <2>1. worker'[v] = worker[v]
    BY <1>1, StepMonotone
  <2>2. worker[v].stage = "replied" /\ Truth(v)
    BY <2>1 DEF RepliesTellTheTruth, Truth
  <2>3. QED
    BY <2>1, <2>2, TruthStays
<1>2. CASE v = w
  <2> DEFINE r == worker[w].request
  <2>1. ASSUME NEW s, Goto(w, s)
        PROVE  worker'[w] = s
    BY <2>1 DEF Goto, TypeOK
  <2>2. ASSUME NEW reply, Reply(w, reply)
        PROVE  worker'[w].request = r /\ worker'[w].reply = reply
    BY <2>2 DEF Reply, Goto, TypeOK
  <2>3. CASE LookUpKey(w)
    <3>1. worker[w] \in Deciding /\ worker[w].stage = "deciding" /\ action' = action
      BY <2>3, StageType DEF LookUpKey, tables
    <3>2. CASE ReplyFromKey(w)
      BY <1>2, <3>1, <3>2, KeyTruth
    <3>3. CASE Goto(w, [worker[w] EXCEPT !.stage = "claiming"])
      <4>1. worker'[w] = [worker[w] EXCEPT !.stage = "claiming"]
        BY <3>3 DEF Goto, TypeOK
      <4>2. worker'[w].stage = "claiming"
        BY <3>1, <4>1 DEF Deciding
      <4>3. QED
        BY <1>2, <4>2
    <3>4. QED
      BY <2>3, <3>2, <3>3 DEF LookUpKey
  <2>4. CASE ClaimLost(w)
    <3>1. worker[w].stage = "claiming" /\ action' = action /\ action[r.id].status # "proposed"
      BY <2>4 DEF ClaimLost, tables
    <3>2. CASE ReplyFromKey(w)
      BY <1>2, <3>1, <3>2, KeyTruth
    <3>3. CASE KeyOwners(r.key) = {} /\ Reply(w, "state_conflict")
      <4>1. r.id \in ActionIds /\ action[r.id].status # "absent"
        BY <3>1, RequestType DEF ReadingsHold
      <4>2. action'[r.id].status \notin {"absent", "proposed"} /\ action'[r.id].key # r.key
        BY <3>1, <3>3, <4>1 DEF KeyOwners
      <4>3. worker'[w].request = r /\ worker'[w].reply = "state_conflict"
        BY <3>3 DEF Reply, Goto, TypeOK
      <4>4. QED
        BY <1>2, <4>2, <4>3 DEF Truth, Decided
    <3>4. QED
      BY <2>4, <3>2, <3>3 DEF ClaimLost
  <2>5. CASE KeyTaken(w)
    <3>1. /\ worker[w].stage = "claiming" /\ action' = action
          /\ action[r.id].status = "proposed" /\ KeyOwners(r.key) # {}
          /\ Reply(w, IF r.decision = "reject" THEN "conflict" ELSE "server_error")
      BY <2>5 DEF KeyTaken, tables
    <3>2. r.key # NoKey
      BY <3>1, RequestType
    <3>3. PICK owner : owner \in KeyOwners(r.key)
      BY <3>1
    <3>4. owner \in ActionIds /\ action[owner].key = r.key /\ Decided(owner)
      BY <3>2, <3>3, OwnersDecided
    <3>5. owner # r.id
      BY <3>1, <3>4 DEF Decided
    <3>6. owner \in ActionIds /\ action'[owner].key = r.key
      BY <3>1, <3>4
    <3>7. worker'[w].request = r /\ worker'[w].reply \in {"conflict", "server_error"}
      <4>1. CASE r.decision = "reject"
        BY <3>1, <4>1 DEF Reply, Goto, TypeOK
      <4>2. CASE r.decision # "reject"
        BY <3>1, <4>2 DEF Reply, Goto, TypeOK
      <4>3. QED
        BY <4>1, <4>2
    <3>8. QED
      BY <1>2, <3>5, <3>6, <3>7 DEF Truth, KeyOwners, SameRequest
  <2>6. CASE Reject(w) \/ Execute(w) \/ Fail(w)
    <3>1. worker'[w] = [stage |-> "replied", request |-> r, reply |-> "done"]
      BY <2>6, DecisionShared, Zenon
    <3>2. worker'[w].request = r /\ worker'[w].reply = "done"
      BY <3>1
    <3>3. /\ action'[r.id].status \in {"rejected", "failed", "executed"}
          /\ action'[r.id].decision = r.decision
          /\ action'[r.id].key = r.key
      BY <2>6, DecisionRows
    <3>4. QED
      BY <1>2, <3>2, <3>3 DEF Truth, Decided
  <2>7. CASE Unavailable(w)
    <3>1. CASE Reply(w, "unavailable")
      <4>1. worker'[w].reply = "unavailable"
        BY <3>1 DEF Reply, Goto, TypeOK
      <4>2. QED
        BY <1>2, <4>1 DEF Truth
    <3>2. CASE Goto(w, Idle)
      BY <1>2, <3>2 DEF Goto, Idle, TypeOK
    <3>3. QED
      BY <2>7, <3>1, <3>2 DEF Unavailable
  <2>8. CASE LookForActions(w)
    <3>1. worker[w] \in Proposing
      BY <2>8, StageType DEF LookForActions
    <3>2. [worker[w] EXCEPT !.stage = "inserting"].stage = "inserting"
      BY <3>1 DEF Proposing
    <3>3. CASE worker'[w] = [worker[w] EXCEPT !.stage = "inserting"]
      BY <1>2, <3>2, <3>3
    <3>4. CASE worker'[w] = Idle
      BY <1>2, <3>4 DEF Idle
    <3>5. QED
      BY <2>8, <3>3, <3>4 DEF LookForActions, Goto, TypeOK
  <2>9. CASE \/ InsertRefused(w) \/ DropAssessment(w) \/ Crash(w)
             \/ InsertProposals(w) \/ RecordAssessment(w)
    BY <1>2, <2>9 DEF InsertRefused, DropAssessment, Crash, InsertProposals,
                      RecordAssessment, Goto, Idle, TypeOK
  <2>10. CASE \/ \E a \in Alerts : StartProposals(w, a) \/ StartEnrichment(w, a)
              \/ \E outcome \in {"model", "fallback"} : Assess(w, outcome)
              \/ \E id \in ActionIds, decision \in Decisions, key \in IdemKeys :
                   StartDecision(w, id, decision, key)
    BY <1>2, <2>10 DEF StartProposals, StartEnrichment, Assess, StartDecision, Goto, TypeOK
  <2>11. QED
    BY <2>3, <2>4, <2>5, <2>6, <2>7, <2>8, <2>9, <2>10 DEF WorkerStep
<1>3. QED
  BY <1>1, <1>2

-----------------------------------------------------------------------------
(* The theorems.                                                           *)

LEMMA CasesInit == Init => CasesInv
<1> SUFFICES ASSUME Init
             PROVE  CasesInv
  OBVIOUS
<1>1. TypeOK
  BY TypeInit
<1>2. \A id \in ActionIds : action[id] = Absent /\ trail[id] = << >>
  BY DEF Init
<1>3. cases = << >> /\ \A w \in Workers : worker[w] = Idle
  BY DEF Init
<1>4. UndecidedRowsAreBare
  BY <1>2 DEF UndecidedRowsAreBare, Absent
<1>5. ReadingsHold
  BY <1>3 DEF ReadingsHold, Idle
<1>6. CasesMatchExecutions
  BY <1>2, <1>3 DEF CasesMatchExecutions, Absent
<1>7. TrailExplainsAction
  BY <1>2 DEF TrailExplainsAction, Absent
<1>8. RepliesTellTheTruth
  BY <1>3 DEF RepliesTellTheTruth, Idle
<1>9. ModelTextIsBacked
  BY <1>2, <1>3 DEF ModelTextIsBacked, Absent
<1>10. QED
  BY <1>1, <1>4, <1>5, <1>6, <1>7, <1>8, <1>9 DEF CasesInv

LEMMA CasesNext == CasesInv /\ [Next]_vars => CasesInv'
<1> SUFFICES ASSUME CasesInv, [Next]_vars
             PROVE  CasesInv'
  OBVIOUS
<1>1. CASE UNCHANGED vars
  BY <1>1 DEF CasesInv, vars, tables, alertRow, TypeOK, UndecidedRowsAreBare, ReadingsHold,
              CasesMatchExecutions, TrailExplainsAction, RepliesTellTheTruth,
              ModelTextIsBacked, Decided, KeyOwners, SameRequest
<1>2. ASSUME NEW w \in Workers, WorkerStep(w)
      PROVE  CasesInv'
  <2>1. TypeOK'
    BY TypeStep DEF CasesInv
  <2>2. UndecidedRowsAreBare'
    BY <1>2, BareStep DEF CasesInv
  <2>3. ReadingsHold'
    BY <1>2, ReadingsStep DEF CasesInv
  <2>4. CasesMatchExecutions'
    BY <1>2, CasesStep DEF CasesInv
  <2>5. TrailExplainsAction'
    BY <1>2, TrailStep DEF CasesInv
  <2>6. RepliesTellTheTruth'
    BY <1>2, RepliesStep DEF CasesInv
  <2>7. ModelTextIsBacked'
    BY <1>2, ModelTextStep DEF CasesInv
  <2>8. QED
    BY <2>1, <2>2, <2>3, <2>4, <2>5, <2>6, <2>7 DEF CasesInv
<1>3. QED
  BY <1>1, <1>2 DEF Next

\* Whatever the number of API processes, alerts and keys, the rows, the cases,
\* the trails and the answers agree with each other in every reachable state:
\* no interleaving of the transactions of agentic_loop.py and repositories.py
\* leaves one of them behind.
THEOREM CasesInvariant == Spec => []CasesInv
<1>1. QED
  BY CasesInit, CasesNext, PTL DEF Spec

\* Every variable has its type.
THEOREM TypeCorrect == Spec => []TypeOK
<1>1. CasesInv => TypeOK
  BY DEF CasesInv
<1>2. QED
  BY <1>1, CasesInvariant, PTL

\* Cases and executions correspond one to one, through savepoints rolled back,
\* crashes and retries.
THEOREM CasesMatchExecutionsAlways == Spec => []CasesMatchExecutions
<1>1. CasesInv => CasesMatchExecutions
  BY DEF CasesInv
<1>2. QED
  BY <1>1, CasesInvariant, PTL

\* The audit trail of an action always tells how it got where it is.
THEOREM TrailAlwaysExplains == Spec => []TrailExplainsAction
<1>1. CasesInv => TrailExplainsAction
  BY DEF CasesInv
<1>2. QED
  BY <1>1, CasesInvariant, PTL

\* No client is ever told something about its key that is not, or no longer, so.
THEOREM RepliesAlwaysTrue == Spec => []RepliesTellTheTruth
<1>1. CasesInv => RepliesTellTheTruth
  BY DEF CasesInv
<1>2. QED
  BY <1>1, CasesInvariant, PTL

\* No action or case ever quotes an assessment that the alert does not have.
THEOREM ModelTextAlwaysBacked == Spec => []ModelTextIsBacked
<1>1. CasesInv => ModelTextIsBacked
  BY DEF CasesInv
<1>2. QED
  BY <1>1, CasesInvariant, PTL

\* A decision is final: no step changes a decided action.
THEOREM DecisionsAreFinal == Spec => DecisionsStand
<1>1. TypeOK /\ [Next]_vars =>
        [\A id \in ActionIds : Decided(id) => action'[id] = action[id]]_vars
  <2> SUFFICES ASSUME TypeOK, Next, NEW id \in ActionIds, Decided(id)
               PROVE  action'[id] = action[id]
    OBVIOUS
  <2>1. PICK w \in Workers : WorkerStep(w)
    BY DEF Next
  <2>2. QED
    BY <2>1, StepMonotone
<1>2. QED
  BY <1>1, TypeCorrect, PTL DEF Spec, DecisionsStand

\* Once an action of a case is decided, the case's assessment, its trail and the
\* rationales the analyst read stay as they were: a late enrichment is dropped.
THEOREM DecidedCaseStaysFrozen == Spec => DecidedCaseFrozen
<1>1. TypeOK /\ [Next]_vars =>
        [\A a \in Alerts :
           (\E id \in ActionsOf(a) : Decided(id)) =>
             /\ facts'[a] = facts[a]
             /\ trail'[a] = trail[a]
             /\ \A id \in ActionsOf(a) : action'[id].rationale = action[id].rationale]_vars
  <2> SUFFICES ASSUME TypeOK, Next, NEW a \in Alerts,
                      NEW decided \in ActionsOf(a), Decided(decided)
               PROVE  /\ facts'[a] = facts[a]
                      /\ trail'[a] = trail[a]
                      /\ \A id \in ActionsOf(a) : action'[id].rationale = action[id].rationale
    OBVIOUS
  <2>1. PICK w \in Workers : WorkerStep(w)
    BY DEF Next
  <2>2. \A id \in ActionsOf(a) : id \in ActionIds /\ id[1] = a
    BY DEF ActionsOf
  <2>3. CASE Moves(w)
    BY <2>3 DEF Moves, tables, alertRow
  <2>4. CASE InsertProposals(w)
    <3>1. a # worker[w].alert
      BY <2>4 DEF InsertProposals
    <3>2. trail'[a] = trail[a]
      BY <2>4, <3>1 DEF InsertProposals, TypeOK
    <3>3. QED
      BY <2>2, <2>4, <3>1, <3>2, InsertRows
  <2>5. CASE RecordAssessment(w)
    <3>1. action[decided].status # "proposed"
      BY DEF Decided
    <3>2. a # worker[w].alert
      BY <2>5, <3>1 DEF RecordAssessment
    <3>3. trail'[a] = trail[a]
      BY <2>5, <3>2 DEF RecordAssessment, TypeOK
    <3>4. QED
      BY <2>2, <2>5, <3>2, <3>3, RecordRows
  <2>6. CASE Reject(w) \/ Execute(w) \/ Fail(w)
    <3>1. facts' = facts /\ worker[w].request.id \in ActionIds
      BY <2>6, DecisionShared
    <3>2. a # worker[w].request.id
      BY <3>1, CasesAssumption
    <3>3. trail'[a] = trail[a]
      BY <2>6, <3>2, DecisionRows
    <3>4. \A id \in ActionIds : action'[id].rationale = action[id].rationale
      <4>1. ASSUME NEW id \in ActionIds
            PROVE  action'[id].rationale = action[id].rationale
        <5>1. CASE id = worker[w].request.id
          BY <2>6, <5>1, DecisionRows
        <5>2. CASE id # worker[w].request.id
          BY <2>6, <5>2, DecisionRows
        <5>3. QED
          BY <5>1, <5>2
      <4>2. QED
        BY <4>1
    <3>5. QED
      BY <2>2, <3>1, <3>3, <3>4
  <2>7. QED
    BY <2>1, <2>3, <2>4, <2>5, <2>6, StepShapes
<1>2. QED
  BY <1>1, TypeCorrect, PTL DEF Spec, DecidedCaseFrozen

-----------------------------------------------------------------------------
(* An alert's actions are proposed together, and once.                     *)

\* Where the trail of an alert says that its actions were proposed.
Proposals(a) == {n \in DOMAIN trail[a] : trail[a][n] = "actions.proposed"}

\* What ProposedTogether says of one alert.
Together(a) ==
  \/ status[a] = "open" /\ ActionsOf(a) = {} /\ Proposals(a) = {}
  \/ /\ status[a] = "actions_proposed"
     /\ ActionsOf(a) = {a} \X ActionKeys
     /\ \E n \in DOMAIN trail[a] : Proposals(a) = {n}

LEMMA TogetherForEach == ProposedTogether <=> \A a \in Alerts : Together(a)
BY DEF ProposedTogether, Together, Proposals

\* An event appended to a trail is its last, and moves no other.
LEMMA TrailAppend ==
  ASSUME NEW before \in Seq(Events), NEW e \in Events, NEW after,
         after = Append(before, e)
  PROVE  /\ Len(before) \in Nat /\ DOMAIN before = 1 .. Len(before)
         /\ DOMAIN after = 1 .. Len(before) + 1
         /\ after[Len(before) + 1] = e
         /\ \A n \in 1 .. Len(before) : after[n] = before[n]
OBVIOUS

\* A step that keeps an alert's status, its trail and which of its actions there
\* are keeps what is said of it.
LEMMA TogetherStays ==
  ASSUME NEW a \in Alerts, Together(a), status'[a] = status[a],
         Proposals(a)' = Proposals(a), DOMAIN trail[a] \subseteq DOMAIN trail'[a],
         \A id \in ActionIds : id[1] = a =>
           (action'[id].status = "absent" <=> action[id].status = "absent")
  PROVE  Together(a)'
<1>1. ActionsOf(a)' = ActionsOf(a)
  BY DEF ActionsOf
<1>2. QED
  BY <1>1 DEF Together

\* The insert finds none of the alert's actions, so they have never been
\* proposed; it leaves all of them and the one event.
LEMMA TogetherInserted ==
  ASSUME TypeOK, ProposedTogether, NEW w \in Workers, InsertProposals(w),
         NEW a \in Alerts, a = worker[w].alert
  PROVE  Together(a)'
<1>1. ActionsOf(a) = {}
  BY DEF InsertProposals
<1>2. {a} \X ActionKeys # {}
  <2>1. PICK k : k \in ActionKeys
    BY CasesAssumption
  <2>2. <<a, k>> \in {a} \X ActionKeys
    BY <2>1
  <2>3. QED
    BY <2>2
<1>3. Proposals(a) = {}
  BY <1>1, <1>2, TogetherForEach DEF Together
<1>4. trail[a] \in Seq(Events) /\ trail'[a] = Append(trail[a], "actions.proposed")
  BY DEF InsertProposals, TypeOK
<1>5. /\ Len(trail[a]) \in Nat /\ DOMAIN trail[a] = 1 .. Len(trail[a])
      /\ DOMAIN trail'[a] = 1 .. Len(trail[a]) + 1
      /\ trail'[a][Len(trail[a]) + 1] = "actions.proposed"
      /\ \A n \in 1 .. Len(trail[a]) : trail'[a][n] = trail[a][n]
  BY <1>4, TrailAppend DEF Events
<1>6. Proposals(a)' = {Len(trail[a]) + 1}
  BY <1>3, <1>5 DEF Proposals
<1>7. status'[a] = "actions_proposed"
  BY DEF InsertProposals, TypeOK
<1>8. ActionsOf(a)' = {a} \X ActionKeys
  <2>1. \A id \in ActionIds : id[1] = a => action'[id].status # "absent"
    BY InsertRows
  <2>2. ActionsOf(a)' = {id \in ActionIds : id[1] = a}
    BY <2>1 DEF ActionsOf
  <2>3. QED
    BY <2>2 DEF ActionIds
<1>9. Len(trail[a]) + 1 \in DOMAIN trail'[a]
  BY <1>5
<1>10. QED
  BY <1>6, <1>7, <1>8, <1>9 DEF Together

\* An assessment is on record under a name of its own.
LEMMA TogetherAssessed ==
  ASSUME TypeOK, ProposedTogether, NEW w \in Workers, RecordAssessment(w),
         NEW a \in Alerts, a = worker[w].alert
  PROVE  Together(a)'
<1>1. PICK e \in Events \ {"actions.proposed"} : e = AssessmentEvent(worker[w].outcome)
  BY RecordRows DEF AssessmentEvent, Events
<1>2. trail[a] \in Seq(Events) /\ trail'[a] = Append(trail[a], e)
  BY <1>1 DEF RecordAssessment, TypeOK
<1>3. /\ Len(trail[a]) \in Nat /\ DOMAIN trail[a] = 1 .. Len(trail[a])
      /\ DOMAIN trail'[a] = 1 .. Len(trail[a]) + 1
      /\ trail'[a][Len(trail[a]) + 1] # "actions.proposed"
      /\ \A n \in 1 .. Len(trail[a]) : trail'[a][n] = trail[a][n]
  BY <1>1, <1>2, TrailAppend
<1>4. Proposals(a)' = Proposals(a)
  BY <1>3 DEF Proposals
<1>5. DOMAIN trail[a] \subseteq DOMAIN trail'[a]
  BY <1>3
<1>6. /\ status'[a] = status[a]
      /\ \A id \in ActionIds : action'[id].status = action[id].status
  BY RecordRows
<1>7. Together(a)
  BY TogetherForEach
<1>8. QED
  BY <1>4, <1>5, <1>6, <1>7, TogetherStays

LEMMA TogetherStep ==
  ASSUME TypeOK, ProposedTogether, NEW w \in Workers, WorkerStep(w)
  PROVE  ProposedTogether'
<1>1. SUFFICES ASSUME NEW a \in Alerts
               PROVE  Together(a)'
  BY DEF ProposedTogether, Together, Proposals
<1>2. Together(a)
  BY TogetherForEach
<1>3. CASE Moves(w)
  BY <1>2, <1>3 DEF Moves, tables, alertRow, Together, Proposals, ActionsOf
<1>4. CASE (InsertProposals(w) \/ RecordAssessment(w)) /\ a = worker[w].alert
  BY <1>4, TogetherInserted, TogetherAssessed
<1>5. CASE (InsertProposals(w) \/ RecordAssessment(w)) /\ a # worker[w].alert
  <2>1. status'[a] = status[a] /\ trail'[a] = trail[a]
    BY <1>5 DEF InsertProposals, RecordAssessment, TypeOK
  <2>2. \A id \in ActionIds : id[1] = a => action'[id].status = action[id].status
    BY <1>5, InsertRows, RecordRows
  <2>3. QED
    BY <1>2, <2>1, <2>2, TogetherStays DEF Proposals
<1>6. CASE Reject(w) \/ Execute(w) \/ Fail(w)
  <2>1. status' = status
    BY <1>6 DEF Reject, Execute, Fail, Decide, alertRow
  <2>2. trail'[a] = trail[a]
    <3>1. a # worker[w].request.id
      BY <1>6, DecisionShared, CasesAssumption
    <3>2. QED
      BY <1>6, <3>1, DecisionRows
  <2>3. \A id \in ActionIds :
          action'[id].status = "absent" <=> action[id].status = "absent"
    <3>1. /\ action[worker[w].request.id].status = "proposed"
          /\ action'[worker[w].request.id].status \in {"rejected", "executed", "failed"}
      BY <1>6, DecisionShared, RejectRow, ExecuteRow, FailRow
    <3>2. \A id \in ActionIds : id # worker[w].request.id => action'[id] = action[id]
      BY <1>6, DecisionRows
    <3>3. QED
      BY <3>1, <3>2
  <2>4. QED
    BY <1>2, <2>1, <2>2, <2>3, TogetherStays DEF Proposals
<1>7. QED
  BY <1>3, <1>4, <1>5, <1>6, StepShapes

\* However often and from however many threads the actions of an alert are
\* proposed (create_action_proposals), it has none of them or all of them, its
\* status says which, and its trail says once that they were proposed.
THEOREM ProposalsComeTogether == Spec => []ProposedTogether
<1>1. Init => ProposedTogether
  BY DEF Init, ProposedTogether, ActionsOf, Absent
<1>2. TypeOK /\ ProposedTogether /\ [Next]_vars => ProposedTogether'
  <2> SUFFICES ASSUME TypeOK, ProposedTogether, [Next]_vars
               PROVE  ProposedTogether'
    OBVIOUS
  <2>1. CASE UNCHANGED vars
    BY <2>1 DEF vars, tables, alertRow, ProposedTogether, ActionsOf
  <2>2. CASE Next
    BY <2>2, TogetherStep DEF Next
  <2>3. QED
    BY <2>1, <2>2
<1>3. QED
  BY <1>1, <1>2, TypeCorrect, PTL DEF Spec

-----------------------------------------------------------------------------
(* The rows implement the life promised to an action.                      *)

CasesOf(id) == {n \in DOMAIN cases : cases[n].action = id}

StateMap == [id \in ActionIds |-> action[id].status]

OpenedMap == [id \in ActionIds |-> Cardinality(CasesOf(id))]

\* Executing an action that asks for a case gives it its first one, and no other
\* action any.
LEMMA FirstCase ==
  ASSUME CasesInv, NEW w \in Workers, Execute(w), WorkerStep(w),
         worker[w].request.id[2] \in CaseActions
  PROVE  OpenedMap' = [OpenedMap EXCEPT ![worker[w].request.id] = 1]
<1>1. TypeOK /\ CasesMatchExecutions
  BY DEF CasesInv
<1>2. Len(cases) \in Nat /\ DOMAIN cases = 1 .. Len(cases)
  BY <1>1, CasesType
<1>3. /\ worker[w].request.id \in ActionIds
      /\ action[worker[w].request.id].status = "proposed"
      /\ worker[w] \in Deciding
  BY <1>1, DecisionShared
<1>4. [action |-> worker[w].request.id, seen |-> worker[w].seen] \in CaseRow
  BY <1>3 DEF Deciding, Request, CaseRow
<1>5. cases' = Append(cases, [action |-> worker[w].request.id, seen |-> worker[w].seen])
  BY DEF Execute
<1>6. Len(cases') = Len(cases) + 1
  BY <1>1, <1>4, <1>5, CasesAppend
<1>7. cases' # cases
  BY <1>2, <1>6
<1>8. /\ DOMAIN cases' = 1 .. Len(cases) + 1
      /\ cases'[Len(cases) + 1] = [action |-> worker[w].request.id, seen |-> worker[w].seen]
      /\ \A n \in 1 .. Len(cases) : cases'[n] = cases[n]
  BY <1>1, <1>7, CasesShape
<1>9. \A n \in 1 .. Len(cases) : cases[n].action # worker[w].request.id
  BY <1>1, <1>2, <1>3 DEF CasesMatchExecutions
<1>10. cases'[Len(cases) + 1].action = worker[w].request.id
  BY <1>8
<1>11. {n \in DOMAIN cases' : cases'[n].action = worker[w].request.id} = {Len(cases) + 1}
  BY <1>2, <1>8, <1>9, <1>10
<1>12. Cardinality({n \in DOMAIN cases' : cases'[n].action = worker[w].request.id}) = 1
  BY <1>11, FS_Singleton
<1>13. ASSUME NEW id \in ActionIds, id # worker[w].request.id
       PROVE  {n \in DOMAIN cases' : cases'[n].action = id}
                = {n \in DOMAIN cases : cases[n].action = id}
  BY <1>2, <1>8, <1>10, <1>13
<1>14. QED
  BY <1>3, <1>12, <1>13 DEF OpenedMap, CasesOf

LEMMA LifecycleInit == Init => Lifecycle!Init
<1> SUFFICES ASSUME Init
             PROVE  Lifecycle!Init
  OBVIOUS
<1>1. StateMap = [id \in ActionIds |-> "absent"]
  BY DEF Init, StateMap, Absent
<1>2. \A id \in ActionIds : CasesOf(id) = {}
  BY DEF Init, CasesOf
<1>3. OpenedMap = [id \in ActionIds |-> 0]
  BY <1>2, FS_EmptySet DEF OpenedMap
<1>4. QED
  BY <1>1, <1>3 DEF Lifecycle!Init, StateMap, OpenedMap, CasesOf

LEMMA LifecycleNext == CasesInv /\ [Next]_vars => [Lifecycle!Next]_(Lifecycle!vars)
<1> DEFINE CaseOpen == {id \in ActionIds : id[2] \in CaseActions}
<1> SUFFICES ASSUME CasesInv, [Next]_vars
             PROVE  Lifecycle!Next \/ (StateMap' = StateMap /\ OpenedMap' = OpenedMap)
  BY DEF Lifecycle!vars, StateMap, OpenedMap, CasesOf
<1>1. TypeOK
  BY DEF CasesInv
<1>2. ASSUME cases' = cases
      PROVE  OpenedMap' = OpenedMap
  BY <1>2 DEF OpenedMap, CasesOf
<1>3. ASSUME \A id \in ActionIds : action'[id].status = action[id].status
      PROVE  StateMap' = StateMap
  BY <1>3 DEF StateMap
<1>4. CASE UNCHANGED vars
  BY <1>2, <1>3, <1>4 DEF vars, tables
<1>5. ASSUME NEW w \in Workers, WorkerStep(w)
      PROVE  Lifecycle!Next \/ (StateMap' = StateMap /\ OpenedMap' = OpenedMap)
  <2>1. PICK id : id = worker[w].request.id
    OBVIOUS
  <2>2. CASE Moves(w)
    BY <1>2, <1>3, <2>2 DEF Moves, tables
  <2>3. CASE RecordAssessment(w)
    BY <1>1, <1>2, <1>3, <2>3, RecordRows
  <2>4. CASE InsertProposals(w)
    <3>1. PICK S : S = {o \in ActionIds : o[1] = worker[w].alert}
      OBVIOUS
    <3>2. worker[w].alert \in Alerts
      BY <1>1, <2>4, InsertRows
    <3>3. S # {}
      <4>1. PICK k : k \in ActionKeys
        BY CasesAssumption
      <4>2. <<worker[w].alert, k>> \in S
        BY <3>1, <3>2, <4>1 DEF ActionIds
      <4>3. QED
        BY <4>2
    <3>4. \A o \in S : StateMap[o] = "absent"
      BY <1>1, <2>4, <3>1, InsertRows DEF StateMap
    <3>5. StateMap' = [o \in ActionIds |-> IF o \in S THEN "proposed" ELSE StateMap[o]]
      BY <1>1, <2>4, <3>1, InsertRows DEF StateMap
    <3>6. OpenedMap' = OpenedMap
      BY <1>1, <1>2, <2>4, InsertRows
    <3>7. S \in SUBSET ActionIds
      BY <3>1
    <3>8. Lifecycle!Propose(S)
      BY <3>3, <3>4, <3>5, <3>6 DEF Lifecycle!Propose, StateMap, OpenedMap, CasesOf
    <3>9. \E P \in SUBSET ActionIds : Lifecycle!Propose(P)
      BY <3>7, <3>8, Zenon
    <3>10. Lifecycle!Next
      BY <3>9, Zenon DEF Lifecycle!Next
    <3>11. QED
      BY <3>10
  <2>5. CASE Reject(w) \/ Execute(w) \/ Fail(w)
    <3>1. id \in ActionIds /\ action[id].status = "proposed"
      BY <1>1, <2>5, <2>1, DecisionShared
    <3>2. StateMap[id] = "proposed"
      BY <3>1 DEF StateMap
    <3>3. \A o \in ActionIds \ {id} : action'[o] = action[o]
      BY <1>1, <2>5, <2>1, DecisionRows
    <3>4. ASSUME NEW written, action'[id].status = written
          PROVE  StateMap' = [StateMap EXCEPT ![id] = written]
      BY <3>1, <3>3, <3>4 DEF StateMap
    <3>5. CASE Reject(w)
      <4>1. action'[id].status = "rejected" /\ cases' = cases
        BY <1>1, <3>5, <2>1, RejectRow
      <4>2. Lifecycle!Reject(id)
        BY <1>2, <3>2, <3>4, <4>1 DEF Lifecycle!Reject, StateMap, OpenedMap, CasesOf
      <4>3. QED
        BY <3>1, <4>2 DEF Lifecycle!Next
    <3>6. CASE Fail(w)
      <4>1. action'[id].status = "failed" /\ cases' = cases
        BY <1>1, <3>6, <2>1, FailRow
      <4>2. Lifecycle!Fail(id)
        BY <1>2, <3>2, <3>4, <4>1 DEF Lifecycle!Fail, StateMap, OpenedMap, CasesOf
      <4>3. QED
        BY <3>1, <4>2 DEF Lifecycle!Next
    <3>7. CASE Execute(w)
      <4>1. action'[id].status = "executed"
        BY <1>1, <3>7, <2>1, ExecuteRow
      <4>2. OpenedMap' = IF id \in CaseOpen THEN [OpenedMap EXCEPT ![id] = 1] ELSE OpenedMap
        <5>1. CASE id[2] \in CaseActions
          BY <1>5, <3>1, <3>7, <5>1, <2>1, FirstCase
        <5>2. CASE id[2] \notin CaseActions
          <6>1. cases' = cases
            BY <2>1, <3>7, <5>2 DEF Execute
          <6>2. QED
            BY <1>2, <5>2, <6>1
        <5>3. QED
          BY <5>1, <5>2
      <4>3. Lifecycle!Execute(id)
        BY <3>2, <3>4, <4>1, <4>2 DEF Lifecycle!Execute, StateMap, OpenedMap, CasesOf
      <4>4. QED
        BY <3>1, <4>3 DEF Lifecycle!Next
    <3>8. QED
      BY <2>5, <3>5, <3>6, <3>7
  <2>6. QED
    BY <1>1, <1>5, <2>2, <2>3, <2>4, <2>5, StepShapes
<1>6. QED
  BY <1>4, <1>5 DEF Next

\* The rows and cases of the database implement the life promised to an action:
\* proposed once, decided once, and one case in the step that executes it.
THEOREM CasesImplementLifecycle == Spec => ImplementsLifecycle
<1>1. QED
  BY LifecycleInit, LifecycleNext, CasesInvariant, PTL
     DEF Spec, ImplementsLifecycle, Lifecycle!Spec

=============================================================================
