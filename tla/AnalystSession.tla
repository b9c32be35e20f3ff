---------------------------- MODULE AnalystSession ----------------------------
(***************************************************************************)
(* The analyst's page (ui/agentic.py), its client (ui/client.py) and the   *)
(* decision service behind an unreliable connection.  A page shows copies: *)
(* the actions as the feed last gave them, the last receipt, and the keys  *)
(* of its decisions.  The client gives up after eight seconds; the request *)
(* may still arrive.  The service decides in one step, as module           *)
(* AgenticCases shows of its transactions.                                 *)
(***************************************************************************)
EXTENDS Integers, FiniteSets

CONSTANTS
  Actions,    \* the actions of one alert of the feed
  Sessions,   \* browser sessions, of one analyst or of several
  MaxTries,   \* bound: decisions submitted by one session
  MaxLives    \* bound: times a session is started

ASSUME SessionAssumption == MaxTries \in Nat /\ MaxLives \in Nat \ {0}

VARIABLES
  row,      \* the stored actions
  recent,   \* the alert is among the 30 recent ones of the feed
  wire,     \* requests that were sent and have not been handled
  session   \* each session's state and what its script is waiting for

vars == <<row, recent, wire, session>>

Final == {"executed", "rejected", "failed"}
Nobody == <<>>
NoReceipt == <<>>

Statuses == [id \in Actions |-> row[id].status]

Undecided == [status |-> "proposed", decision |-> "none", key |-> Nobody, by |-> Nobody]

\* An alert leaves the queue with its first executed action (AgenticAutoMonitor.status).
\* Its cut to the 30 most urgent is left out: a poll that misses the alert for it leaves
\* the page as it was, like no poll.
InFeed ==
  \/ recent
  \/ /\ \E id \in Actions : row[id].status = "proposed"
     /\ \A id \in Actions : row[id].status # "executed"

Fresh(life) ==
  [at |-> "idle", life |-> life, tries |-> 0, copy |-> [id \in Actions |-> "unseen"],
   receipt |-> NoReceipt, asked |-> Nobody, answer |-> "none"]

Init ==
  /\ row = [id \in Actions |-> Undecided]
  /\ recent = TRUE
  /\ wire = {}
  /\ session = [s \in Sessions |-> Fresh(1)]

-----------------------------------------------------------------------------
(* The page.                                                               *)

\* The feed is polled; an alert that has left it stays pinned as it was.
Poll(s) ==
  /\ session[s].at = "idle"
  /\ session' = [session EXCEPT ![s].copy = IF InFeed THEN Statuses ELSE @]
  /\ UNCHANGED <<row, recent, wire>>

\* Variation: any receipt counts for the selected action.
EffectiveStatusOfAny(s, id) ==
  IF session[s].receipt # NoReceipt THEN session[s].receipt.status ELSE session[s].copy[id]

\* effective_status: the receipt, if it is the selected action's, or the copy.
EffectiveStatus(s, id) ==
  IF session[s].receipt # NoReceipt /\ session[s].receipt.id = id
  THEN session[s].receipt.status
  ELSE session[s].copy[id]

\* Variation: a key is made up for each request.
IdempotencyKeyOfTry(s, id, decision) == <<s, session[s].life, id, decision, session[s].tries>>

\* _idempotency_key, which the session keeps for the action and the decision.
IdempotencyKey(s, id, decision) == <<s, session[s].life, id, decision>>

\* A decision is offered unless the page shows one, and submitted.
Submit(s, id, decision) ==
  /\ session[s].at = "idle"
  /\ EffectiveStatus(s, id) = "proposed"
  /\ session[s].tries < MaxTries
  /\ LET request == [session |-> s, life |-> session[s].life, try |-> session[s].tries,
                     id |-> id, decision |-> decision, key |-> IdempotencyKey(s, id, decision)]
     IN /\ wire' = wire \cup {request}
        /\ session' = [session EXCEPT ![s].at = "waiting", ![s].asked = request,
                                      ![s].tries = @ + 1]
  /\ UNCHANGED <<row, recent>>

\* The answer comes; a receipt is kept, a refusal or an error only shown.
TakeAnswer(s) ==
  /\ session[s].at = "answered"
  /\ session' = [session EXCEPT ![s].at = "idle", ![s].answer = "none", ![s].asked = Nobody,
                   ![s].receipt = IF session[s].answer = "receipt"
                                  THEN [id |-> session[s].asked.id,
                                        status |-> row[session[s].asked.id].status]
                                  ELSE @]
  /\ UNCHANGED <<row, recent, wire>>

\* The client gives up: the request is not handled yet, or its answer was lost.
GiveUp(s) ==
  /\ session[s].at \in {"waiting", "answered"}
  /\ session' = [session EXCEPT ![s].at = "idle", ![s].answer = "none", ![s].asked = Nobody]
  /\ UNCHANGED <<row, recent, wire>>

\* The page is opened anew: a session starts without keys, receipt and copies.
Reload(s) ==
  /\ session[s].life < MaxLives
  /\ session' = [session EXCEPT ![s] = [Fresh(@.life + 1) EXCEPT !.tries = session[s].tries]]
  /\ UNCHANGED <<row, recent, wire>>

-----------------------------------------------------------------------------
(* The connection and the service.                                         *)

Waits(request) == session[request.session].asked = request

Answer(request, answer) ==
  session' = IF Waits(request)
             THEN [session EXCEPT ![request.session].at = "answered",
                                  ![request.session].answer = answer]
             ELSE session

\* The request does not arrive, and the client is told so.
Lose(request) ==
  /\ wire' = wire \ {request}
  /\ Answer(request, "error")
  /\ UNCHANGED <<row, recent>>

\* decide_agentic_action, as one transaction.
Decided(request) ==
  LET owners == {id \in Actions : row[id].key = request.key}
  IN CASE owners # {} ->
            /\ Answer(request, IF \E id \in owners : /\ id = request.id
                                                     /\ row[id].decision = request.decision
                               THEN "receipt" ELSE "key conflict")
            /\ UNCHANGED row
       [] owners = {} /\ row[request.id].status # "proposed" ->
            Answer(request, "state conflict") /\ UNCHANGED row
       [] OTHER ->
            /\ \E status \in IF request.decision = "reject" THEN {"rejected"} ELSE {"executed", "failed"} :
                 row' = [row EXCEPT ![request.id] =
                           [status |-> status, decision |-> request.decision, key |-> request.key,
                            by |-> <<request.session, request.life, request.decision>>]]
            /\ Answer(request, "receipt")

Handle(request) ==
  /\ wire' = wire \ {request}
  /\ Decided(request)
  /\ UNCHANGED recent

\* Thirty newer alerts have come.
MoveOn ==
  /\ recent
  /\ recent' = FALSE
  /\ UNCHANGED <<row, wire, session>>

Next ==
  \/ \E s \in Sessions :
       \/ Poll(s) \/ TakeAnswer(s) \/ GiveUp(s) \/ Reload(s)
       \/ \E id \in Actions, decision \in {"approve", "reject"} : Submit(s, id, decision)
  \/ \E request \in wire : Lose(request) \/ Handle(request)
  \/ MoveOn

Spec == Init /\ [][Next]_vars

-----------------------------------------------------------------------------
(* Properties.                                                             *)

\* What a page shows as decided is decided so, of this action, although a page keeps
\* the last receipt and old copies (ui/agentic.py:418).
ReceiptsAreTrue ==
  \A s \in Sessions, id \in Actions :
    EffectiveStatus(s, id) \in Final => row[id].status = EffectiveStatus(s, id)

\* An analyst who submits a decision again, because its answer was lost or because the
\* page offers it again from an old copy, is answered with the receipt of the first
\* time: a session is refused only what another one decided, what it decided
\* otherwise, or what it decided before it was reloaded (ui/agentic.py:690).
RetriesGetTheReceipt ==
  \A s \in Sessions : session[s].at = "answered" =>
    LET asked == session[s].asked
    IN /\ session[s].answer # "key conflict"
       /\ session[s].answer = "state conflict" =>
            row[asked.id].by # <<s, session[s].life, asked.decision>>

-----------------------------------------------------------------------------
(* The service keeps the promised life of an action.                       *)

\* The service of module AgenticCases implements module ActionLifecycle; the one
\* step into which it is put together here is a step of that module as well.
Service == INSTANCE ActionLifecycle WITH
  CaseOpen <- {},
  state    <- Statuses,
  opened   <- [id \in Actions |-> 0]

\* Whatever the pages show and the connection loses, each action is decided at most
\* once, and its decision stands.
DecidedOnce == [][Service!Next]_(Service!vars)

-----------------------------------------------------------------------------
(* Why the properties hold: the parts of the inductive invariant.          *)

Decisions == {"approve", "reject"}

Keys == Sessions \X Nat \X Actions \X Decisions

Requests == [session: Sessions, life: Nat, try: Nat, id: Actions,
             decision: Decisions, key: Keys]

Rows == [status: Final \cup {"proposed"}, decision: Decisions \cup {"none"},
         key: Keys \cup {Nobody}, by: (Sessions \X Nat \X Decisions) \cup {Nobody}]

Shown == Final \cup {"proposed", "unseen"}

Answers == {"none", "receipt", "key conflict", "state conflict", "error"}

Pages == [at: {"idle", "waiting", "answered"}, life: Nat, tries: Nat,
          copy: [Actions -> Shown],
          receipt: [id: Actions, status: Shown] \cup {NoReceipt},
          asked: Requests \cup {Nobody},
          answer: Answers]

\* The type of every variable.
TypeOK ==
  /\ row \in [Actions -> Rows]
  /\ recent \in BOOLEAN
  /\ wire \subseteq Requests
  /\ session \in [Sessions -> Pages]

\* A key says whose decision it is, of which action.
KeyOf(request) == <<request.session, request.life, request.id, request.decision>>

\* Requests carry the key of their decision, and who waits has asked for itself.
RequestsAreKeyed ==
  /\ \A request \in wire : request.key = KeyOf(request)
  /\ \A s \in Sessions :
       LET asked == session[s].asked
       IN \/ session[s].at = "idle" /\ asked = Nobody
          \/ /\ session[s].at # "idle"
             /\ asked \in Requests
             /\ asked.key = KeyOf(asked)
             /\ asked.session = s /\ asked.life = session[s].life

\* A decided row tells by its key who decided what, and only a decided row has one.
RowsTellWho ==
  \A id \in Actions :
    \/ row[id].status = "proposed" /\ row[id].key = Nobody
    \/ /\ row[id].status # "proposed"
       /\ \E s \in Sessions, life \in Nat :
            /\ row[id].key = <<s, life, id, row[id].decision>>
            /\ row[id].by = <<s, life, row[id].decision>>

\* What a page keeps of a decision was stored, and is.
CopiesAreTrue ==
  \A s \in Sessions, id \in Actions :
    /\ session[s].copy[id] \in Final => row[id].status = session[s].copy[id]
    /\ session[s].receipt # NoReceipt /\ session[s].receipt.id = id
       /\ session[s].receipt.status \in Final => row[id].status = session[s].receipt.status

\* A conflict of state is answered of a decided action.
RefusalsStand ==
  \A s \in Sessions : session[s].at = "answered" /\ session[s].answer = "state conflict" =>
    row[session[s].asked.id].status # "proposed"

=============================================================================
