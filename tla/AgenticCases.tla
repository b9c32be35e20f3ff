---------------------------- MODULE AgenticCases ----------------------------
(***************************************************************************)
(* The cases an analyst decides: proposing the three allowed actions of an *)
(* alert, enriching an undecided case with a model's assessment, and       *)
(* approving or rejecting an action with an idempotency key                *)
(* (services/agentic_loop.py, repository/repositories.py).                 *)
(*                                                                         *)
(* A worker is a thread of one of the API processes, serving requests or   *)
(* running the background monitor.  All share one SQLite database.  A      *)
(* SELECT made before a transaction's first write sees the last commit and *)
(* locks nothing; from its first write to COMMIT a transaction excludes    *)
(* every other writer.  So each action below is a read, or the part of a   *)
(* transaction that starts with its first write.                           *)
(***************************************************************************)
EXTENDS Integers, Sequences, FiniteSets

CONSTANTS
  Alerts,       \* monitoring alerts, stored by earlier scans
  AutoAlerts,   \* those of the automatic scans, which are enriched
  ActionKeys,   \* the server's allowlist of action keys
  CaseActions,  \* action keys whose effect opens a local investigation
  ClientKeys,   \* values of the Idempotency-Key header
  Workers,      \* threads of API processes
  MaxTrail,     \* bound: audit events of one alert
  NoKey         \* idempotency_key of an undecided action

\* An action is created once per alert and action key, so the pair names it.
ActionIds == Alerts \X ActionKeys

Decisions == {"approve", "reject"}

\* The API makes up a key for a reject that comes without one.
RejectKey(id) == <<"reject", id>>

KeysFor(id, decision) ==
  IF decision = "reject" THEN ClientKeys \cup {RejectKey(id)} ELSE ClientKeys

IdemKeys == ClientKeys \cup {RejectKey(id) : id \in ActionIds}

(***************************************************************************)
(* A made-up key may coincide with a client's, as the code allows, but not *)
(* with the absence of one; entity_type tells alerts from actions.         *)
(***************************************************************************)
ASSUME CasesAssumption ==
  /\ AutoAlerts \subseteq Alerts
  /\ CaseActions \subseteq ActionKeys
  /\ ActionKeys # {}
  /\ NoKey \notin IdemKeys
  /\ Alerts \cap ActionIds = {}
  /\ MaxTrail \in Nat

VARIABLES
  facts,    \* what the AI fields of alert.facts say
  status,   \* alert.status
  action,   \* agentic_actions
  cases,    \* investigations opened by actions, in order
  trail,    \* audit_events of each alert and of each action, in order
  worker    \* what each thread is doing

alertRow == <<facts, status>>
tables == <<alertRow, action, cases, trail>>
vars == <<tables, worker>>

-----------------------------------------------------------------------------
\* ai_assessment is present or not; ai_status of the last attempt written.
Facts == [assessed: BOOLEAN, outcome: {"none", "model", "fallback"}]

RuleFacts == [assessed |-> FALSE, outcome |-> "none"]

\* Variations a change of the code could bring in are kept beside the
\* definition they vary, each breaking a property: here a fallback overwrites
\* the stored assessment.
MergedOver(old, outcome) ==
  [assessed |-> outcome = "model", outcome |-> outcome]

Merged(old, outcome) ==
  [assessed |-> old.assessed \/ outcome = "model", outcome |-> outcome]

\* What a scan may have stored: its leading alert is assessed on the way.
ScanFacts == {RuleFacts, Merged(RuleFacts, "model"), Merged(RuleFacts, "fallback")}

\* explain_proposals: the model's rationale if the facts at hand have one.
RationaleFrom(f) == IF f.assessed THEN "model" ELSE "rules"

Absent == [status |-> "absent", decision |-> "none", key |-> NoKey,
           rationale |-> "none", case |-> 0]

ActionRow ==
  [status: {"absent", "proposed", "rejected", "executed", "failed"},
   decision: Decisions \cup {"none"}, key: IdemKeys \cup {NoKey},
   rationale: {"none", "rules", "model"}, case: Nat]

Decided(id) == action[id].status \notin {"absent", "proposed"}

ActionsOf(a) == {id \in ActionIds : id[1] = a /\ action[id].status # "absent"}

KeyOwners(k) == {id \in ActionIds : action[id].key = k}

\* Two requests have the same request_hash when they ask the same of the same
\* action.
SameRequest(id, decision, owner) ==
  owner = id /\ action[owner].decision = decision

Idle == [stage |-> "idle"]

Proposing == [stage: {"proposing", "inserting"}, alert: Alerts, seen: Facts]

Enriching == [stage: {"assessing"}, alert: Alerts]

Recording == [stage: {"recording"}, alert: Alerts, outcome: {"model", "fallback"}]

Request == [id: ActionIds, decision: Decisions, key: IdemKeys]

Replies == {"done", "replayed", "conflict", "state_conflict", "server_error",
            "unavailable"}

Deciding == [stage: {"deciding", "claiming"}, request: Request, seen: Facts]

Replied == [stage: {"replied"}, request: Request, reply: Replies]

\* What the audit trail says of an alert or an action.
Events == {"actions.proposed", "ai.assessment_completed", "ai.assessment_fallback",
           "action.approved", "action.rejected", "action.failed", "tool.executed"}

Goto(w, state) == worker' = [worker EXCEPT ![w] = state]

Reply(w, reply) ==
  Goto(w, [stage |-> "replied", request |-> worker[w].request, reply |-> reply])

\* A thread takes new work when it has none; a reply is kept until then.
Free(w) == worker[w].stage \in {"idle", "replied"}

Init ==
  /\ facts \in [Alerts -> ScanFacts]
  /\ status = [a \in Alerts |-> "open"]
  /\ action = [id \in ActionIds |-> Absent]
  /\ cases = << >>
  /\ trail = [e \in Alerts \cup ActionIds |-> << >>]
  /\ worker = [w \in Workers |-> Idle]

-----------------------------------------------------------------------------
(* propose_actions: by the monitor after a scan, by its repair of an alert *)
(* without actions, or by a client.                                        *)

\* get_monitoring_alert, from whose facts the proposals are worded.
StartProposals(w, a) ==
  /\ Free(w)
  /\ Goto(w, [stage |-> "proposing", alert |-> a, seen |-> facts[a]])
  /\ UNCHANGED tables

\* The SELECT of create_action_proposals; existing actions are returned.
LookForActions(w) ==
  /\ worker[w].stage = "proposing"
  /\ IF ActionsOf(worker[w].alert) # {}
       THEN Goto(w, Idle)
       ELSE Goto(w, [worker[w] EXCEPT !.stage = "inserting"])
  /\ UNCHANGED tables

\* Variation: no unique constraint on (alert_id, action_key).
InsertProposalsAnyway(w) ==
  LET a == worker[w].alert
      proposal == [Absent EXCEPT !.status = "proposed",
                                 !.rationale = RationaleFrom(worker[w].seen)]
  IN  /\ worker[w].stage = "inserting"
      /\ action' = [id \in ActionIds |-> IF id[1] = a THEN proposal ELSE action[id]]
      /\ status' = [status EXCEPT ![a] = "actions_proposed"]
      /\ trail' = [trail EXCEPT ![a] = Append(@, "actions.proposed")]
      /\ Goto(w, Idle)
      /\ UNCHANGED <<facts, cases>>

InsertProposals(w) ==
  LET a == worker[w].alert
      proposal == [Absent EXCEPT !.status = "proposed",
                                 !.rationale = RationaleFrom(worker[w].seen)]
  IN  /\ worker[w].stage = "inserting"
      /\ ActionsOf(a) = {}
      /\ action' = [id \in ActionIds |-> IF id[1] = a THEN proposal ELSE action[id]]
      /\ status' = [status EXCEPT ![a] = "actions_proposed"]
      /\ trail' = [trail EXCEPT ![a] = Append(@, "actions.proposed")]
      /\ Goto(w, Idle)
      /\ UNCHANGED <<facts, cases>>

\* uq_agentic_alert_action: another thread inserted first, all is rolled back.
InsertRefused(w) ==
  /\ worker[w].stage = "inserting"
  /\ ActionsOf(worker[w].alert) # {}
  /\ Goto(w, Idle)
  /\ UNCHANGED tables

-----------------------------------------------------------------------------
(* enrich_next_pending, with assess_case and update_alert_assessment.      *)

\* The alert is picked from one read; the retry time only delays the pick.
StartEnrichment(w, a) ==
  /\ Free(w)
  /\ a \in AutoAlerts
  /\ Len(trail[a]) < MaxTrail
  /\ ~ facts[a].assessed
  /\ \A id \in ActionsOf(a) : action[id].status = "proposed"
  /\ Goto(w, [stage |-> "assessing", alert |-> a])
  /\ UNCHANGED tables

\* The provider answers with a valid assessment or the case falls back.
Assess(w, outcome) ==
  /\ worker[w].stage = "assessing"
  /\ Goto(w, [stage |-> "recording", alert |-> worker[w].alert, outcome |-> outcome])
  /\ UNCHANGED tables

AssessmentEvent(outcome) ==
  IF outcome = "model" THEN "ai.assessment_completed" ELSE "ai.assessment_fallback"

\* Variation: decisions are looked for only when the alert is picked.
RecordAssessmentAnyway(w) ==
  LET a == worker[w].alert
      outcome == worker[w].outcome
      rationale == RationaleFrom(Merged(RuleFacts, outcome))
  IN  /\ worker[w].stage = "recording"
      /\ facts' = [facts EXCEPT ![a] = Merged(@, outcome)]
      /\ action' = [id \in ActionIds |->
           IF id \in ActionsOf(a) THEN [action[id] EXCEPT !.rationale = rationale]
                                  ELSE action[id]]
      /\ trail' = [trail EXCEPT ![a] = Append(@, AssessmentEvent(outcome))]
      /\ Goto(w, Idle)
      /\ UNCHANGED <<status, cases>>

\* The alert row is updated before the actions are read.  The facts are merged
\* with the stored ones, the rationales are those of the facts at hand.
RecordAssessment(w) ==
  LET a == worker[w].alert
      outcome == worker[w].outcome
      rationale == RationaleFrom(Merged(RuleFacts, outcome))
  IN  /\ worker[w].stage = "recording"
      /\ \A id \in ActionsOf(a) : action[id].status = "proposed"
      /\ facts' = [facts EXCEPT ![a] = Merged(@, outcome)]
      /\ action' = [id \in ActionIds |->
           IF id \in ActionsOf(a) THEN [action[id] EXCEPT !.rationale = rationale]
                                  ELSE action[id]]
      /\ trail' = [trail EXCEPT ![a] = Append(@, AssessmentEvent(outcome))]
      /\ Goto(w, Idle)
      /\ UNCHANGED <<status, cases>>

DropAssessment(w) ==
  /\ worker[w].stage = "recording"
  /\ \E id \in ActionsOf(worker[w].alert) : action[id].status # "proposed"
  /\ Goto(w, Idle)
  /\ UNCHANGED tables

-----------------------------------------------------------------------------
(* decide_and_execute and decide_agentic_action.                           *)

\* An approve reads its action and alert before the transaction; the alert
\* read here is what the effect is built from.
StartDecision(w, id, decision, key) ==
  /\ Free(w)
  /\ action[id].status # "absent"
  /\ key \in KeysFor(id, decision)
  /\ Goto(w, [stage |-> "deciding",
              request |-> [id |-> id, decision |-> decision, key |-> key],
              seen |-> IF decision = "approve" THEN facts[id[1]] ELSE RuleFacts])
  /\ UNCHANGED tables

\* Variation: the key alone is compared, not what was asked under it.
ReplyFromKeyAlone(w) ==
  KeyOwners(worker[w].request.key) # {} /\ Reply(w, "replayed")

\* The answer when the key has been used already.
ReplyFromKey(w) ==
  LET r == worker[w].request
  IN  \E owner \in KeyOwners(r.key) :
        Reply(w, IF SameRequest(r.id, r.decision, owner) THEN "replayed" ELSE "conflict")

LookUpKey(w) ==
  /\ worker[w].stage = "deciding"
  /\ \/ ReplyFromKey(w)
     \/ /\ KeyOwners(worker[w].request.key) = {}
        /\ Goto(w, [worker[w] EXCEPT !.stage = "claiming"])
  /\ UNCHANGED tables

\* UPDATE ... WHERE status = 'proposed' changes no row: another request has
\* decided the action, perhaps a retry of this very one.
ClaimLost(w) ==
  LET r == worker[w].request
  IN  /\ worker[w].stage = "claiming"
      /\ action[r.id].status # "proposed"
      /\ \/ ReplyFromKey(w)
         \/ KeyOwners(r.key) = {} /\ Reply(w, "state_conflict")
      /\ UNCHANGED tables

\* uq_agentic_actor_idempotency_key: another action took the key since the
\* SELECT.  A reject fails at COMMIT, which the API reports as a conflict.  An
\* approve fails in the flush that begin_nested makes inside the try block, and
\* its handler fails on the session, which now has to be rolled back.
KeyTaken(w) ==
  LET r == worker[w].request
  IN  /\ worker[w].stage = "claiming"
      /\ action[r.id].status = "proposed"
      /\ KeyOwners(r.key) # {}
      /\ Reply(w, IF r.decision = "reject" THEN "conflict" ELSE "server_error")
      /\ UNCHANGED tables

\* Variation: UPDATE ... WHERE id = ? whatever the status.
ClaimedUnconditionally(w) ==
  /\ worker[w].stage = "claiming"
  /\ KeyOwners(worker[w].request.key) = {}

Claimed(w) ==
  /\ worker[w].stage = "claiming"
  /\ action[worker[w].request.id].status = "proposed"
  /\ KeyOwners(worker[w].request.key) = {}

\* The row's columns and its audit events, written in one transaction.
Decide(w, newStatus, case, events) ==
  LET r == worker[w].request
  IN  /\ action' = [action EXCEPT ![r.id] =
           [@ EXCEPT !.status = newStatus, !.decision = r.decision,
                     !.key = r.key, !.case = case]]
      /\ trail' = [trail EXCEPT ![r.id] = @ \o events]
      /\ Reply(w, "done")
      /\ UNCHANGED alertRow

\* Variation: the claim's own status is left in the row.
RejectLeftExecuting(w) ==
  /\ Claimed(w)
  /\ worker[w].request.decision = "reject"
  /\ Decide(w, "executing", 0, <<"action.rejected">>)
  /\ UNCHANGED cases

Reject(w) ==
  /\ Claimed(w)
  /\ worker[w].request.decision = "reject"
  /\ Decide(w, "rejected", 0, <<"action.rejected">>)
  /\ UNCHANGED cases

\* The effect runs inside a savepoint, with the investigation it asks for.
Execute(w) ==
  LET r == worker[w].request
      opens == r.id[2] \in CaseActions
  IN  /\ Claimed(w)
      /\ r.decision = "approve"
      /\ cases' = IF opens THEN Append(cases, [action |-> r.id, seen |-> worker[w].seen])
                           ELSE cases
      /\ Decide(w, "executed", IF opens THEN Len(cases) + 1 ELSE 0,
                <<"action.approved", "tool.executed">>)

\* Variations: no savepoint, so the case of the failed effect stays; or the
\* approval is audited inside it and lost.
FailKeepingCase(w) ==
  LET r == worker[w].request
  IN  /\ Claimed(w)
      /\ r.decision = "approve"
      /\ Decide(w, "failed", 0, <<"action.approved", "action.failed">>)
      /\ cases' = IF r.id[2] \in CaseActions
                    THEN Append(cases, [action |-> r.id, seen |-> worker[w].seen])
                    ELSE cases

FailLosingApproval(w) ==
  /\ Claimed(w)
  /\ worker[w].request.decision = "approve"
  /\ Decide(w, "failed", 0, <<"action.failed">>)
  /\ UNCHANGED cases

\* The effect raises: the savepoint is rolled back, the approval stands.
Fail(w) ==
  /\ Claimed(w)
  /\ worker[w].request.decision = "approve"
  /\ Decide(w, "failed", 0, <<"action.approved", "action.failed">>)
  /\ UNCHANGED cases

\* Any write may give up on SQLite's lock; the transaction leaves no trace.
Unavailable(w) ==
  /\ \/ worker[w].stage = "claiming" /\ Reply(w, "unavailable")
     \/ worker[w].stage \in {"inserting", "recording"} /\ Goto(w, Idle)
  /\ UNCHANGED tables

\* The process dies between two of its steps, or before COMMIT.
Crash(w) ==
  /\ ~ Free(w)
  /\ Goto(w, Idle)
  /\ UNCHANGED tables

WorkerStep(w) ==
  \/ \E a \in Alerts : StartProposals(w, a) \/ StartEnrichment(w, a)
  \/ LookForActions(w) \/ InsertProposals(w) \/ InsertRefused(w)
  \/ \E outcome \in {"model", "fallback"} : Assess(w, outcome)
  \/ RecordAssessment(w) \/ DropAssessment(w)
  \/ \E id \in ActionIds, decision \in Decisions, key \in IdemKeys :
       StartDecision(w, id, decision, key)
  \/ LookUpKey(w) \/ ClaimLost(w) \/ KeyTaken(w)
  \/ Reject(w) \/ Execute(w) \/ Fail(w)
  \/ Unavailable(w) \/ Crash(w)

Next == \E w \in Workers : WorkerStep(w)

Spec == Init /\ [][Next]_vars

-----------------------------------------------------------------------------
(* Properties.                                                             *)

\* The type of every variable.
TypeOK ==
  /\ facts \in [Alerts -> Facts]
  /\ status \in [Alerts -> {"open", "actions_proposed"}]
  /\ action \in [ActionIds -> ActionRow]
  /\ cases \in Seq([action: ActionIds, seen: Facts])
  /\ trail \in [Alerts \cup ActionIds -> Seq(Events)]
  /\ worker \in [Workers ->
       {Idle} \cup Proposing \cup Enriching \cup Recording \cup Deciding \cup Replied]

\* However requests, retries and crashes interleave, an alert has none of its
\* actions or all of them, it says which, and they were proposed once.
ProposedTogether ==
  \A a \in Alerts :
    LET proposals == {n \in DOMAIN trail[a] : trail[a][n] = "actions.proposed"}
    IN  \/ status[a] = "open" /\ ActionsOf(a) = {} /\ proposals = {}
        \/ /\ status[a] = "actions_proposed"
           /\ ActionsOf(a) = {a} \X ActionKeys
           /\ \E n \in DOMAIN trail[a] : proposals = {n}

\* Cases and executions correspond one to one: an executed draft or watchlist
\* has its one case, and there is no case of an action that failed, was
\* rejected or is still open to a decision.
CasesMatchExecutions ==
  /\ \A n \in DOMAIN cases :
       LET row == action[cases[n].action]
       IN  row.status = "executed" /\ row.case = n
  /\ \A id \in ActionIds :
       action[id].status = "executed" /\ id[2] \in CaseActions =>
         action[id].case \in DOMAIN cases

\* What a client was told is what is stored: a success means that the action
\* carries this decision under this key, a key conflict that the key stands for
\* another request, a state conflict that somebody else has decided.  The
\* effect ran for one request only.
RepliesTellTheTruth ==
  \A w \in Workers : worker[w].stage = "replied" =>
    LET r == worker[w].request
        row == action[r.id]
    IN  CASE worker[w].reply \in {"done", "replayed"} ->
               Decided(r.id) /\ row.decision = r.decision /\ row.key = r.key
          [] worker[w].reply = "conflict" ->
               \E id \in KeyOwners(r.key) : ~ SameRequest(r.id, r.decision, id)
          [] worker[w].reply = "state_conflict" ->
               Decided(r.id) /\ row.key # r.key
          [] OTHER -> TRUE

\* The audit trail of an action tells how it got where it is; in particular
\* nothing was executed that had not been approved.
TrailExplainsAction ==
  \A id \in ActionIds :
    trail[id] = CASE action[id].status = "rejected" -> <<"action.rejected">>
                  [] action[id].status = "executed" ->
                       <<"action.approved", "tool.executed">>
                  [] action[id].status = "failed" ->
                       <<"action.approved", "action.failed">>
                  [] OTHER -> << >>

\* Text is shown as the model's only where the model has assessed the case: no
\* action and no opened case quotes an assessment the alert does not have.
ModelTextIsBacked ==
  /\ \A id \in ActionIds : action[id].rationale = "model" => facts[id[1]].assessed
  /\ \A n \in DOMAIN cases :
       cases[n].seen.assessed => facts[cases[n].action[1]].assessed

\* A decision is final: no retry, no other key, no late enrichment and no
\* second proposal changes a decided action.
DecisionsStand ==
  [][\A id \in ActionIds : Decided(id) => action'[id] = action[id]]_vars

\* Once one action of a case is decided, nothing the analyst decided on changes
\* any more, whatever an enrichment under way had read before
\* (docs/agentic_loop.md:12).
DecidedCaseFrozen ==
  [][\A a \in Alerts :
       (\E id \in ActionsOf(a) : Decided(id)) =>
         /\ facts'[a] = facts[a]
         /\ trail'[a] = trail[a]
         /\ \A id \in ActionsOf(a) : action'[id].rationale = action[id].rationale]_vars

\* The rows implement the promised life of an action.
Lifecycle == INSTANCE ActionLifecycle WITH
  Actions  <- ActionIds,
  CaseOpen <- {id \in ActionIds : id[2] \in CaseActions},
  state    <- [id \in ActionIds |-> action[id].status],
  opened   <- [id \in ActionIds |->
                 Cardinality({n \in DOMAIN cases : cases[n].action = id})]

ImplementsLifecycle == Lifecycle!Spec

-----------------------------------------------------------------------------
(* Why decisions stand.                                                    *)

\* An action without a decision has no key and no case.
UndecidedRowsAreBare ==
  \A id \in ActionIds : ~ Decided(id) =>
    action[id].key = NoKey /\ action[id].decision = "none" /\ action[id].case = 0

\* What a thread remembers of an alert's assessment is still stored, and what it
\* decides on exists.
ReadingsHold ==
  \A w \in Workers :
    /\ worker[w].stage \in {"proposing", "inserting"} =>
         (worker[w].seen.assessed => facts[worker[w].alert].assessed)
    /\ worker[w].stage \in {"deciding", "claiming"} =>
         /\ action[worker[w].request.id].status # "absent"
         /\ worker[w].seen.assessed => facts[worker[w].request.id[1]].assessed

\* The inductive invariant behind the properties of cases, trails and replies.
CasesInv ==
  /\ TypeOK
  /\ UndecidedRowsAreBare
  /\ ReadingsHold
  /\ CasesMatchExecutions
  /\ TrailExplainsAction
  /\ RepliesTellTheTruth
  /\ ModelTextIsBacked

-----------------------------------------------------------------------------
(* What the code does not keep.                                            *)

\* A case that was assessed after its actions were proposed gives the model's
\* reasons for all of them (tests/test_agentic_loop.py:432).
EnrichedCaseKeepsReasons ==
  \A a \in Alerts, i, j \in 1 .. MaxTrail :
    /\ i < j /\ j <= Len(trail[a])
    /\ trail[a][i] = "actions.proposed"
    /\ trail[a][j] = "ai.assessment_completed"
    => \A id \in ActionsOf(a) : action[id].rationale = "model"

\* A request whose key another request has claimed meanwhile is answered with a
\* conflict (api/routes/agentic.py, "A concurrent request already claimed this
\* idempotency key").
KeyRaceIsAConflict ==
  \A w \in Workers :
    worker[w].stage = "replied" /\ worker[w].reply = "server_error" =>
      KeyOwners(worker[w].request.key) = {}

=============================================================================
