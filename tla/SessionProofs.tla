---------------------------- MODULE SessionProofs ----------------------------
(* Proofs about AnalystSession, for every value of its constants.          *)
EXTENDS AnalystSession, TLAPS

-----------------------------------------------------------------------------
(* Keys and requests.                                                      *)

\* Nobody is neither a key nor a request.
LEMMA NobodyIsNothing == Nobody \notin Keys /\ Nobody \notin Requests
<1>1. \A a, b, c, d : <<a, b, c, d>> # << >>
  OBVIOUS
<1>2. Nobody \notin Keys
  BY <1>1 DEF Nobody, Keys
<1>3. ASSUME NEW r \in Requests
      PROVE  r # << >>
  <2>1. "session" \in DOMAIN r
    BY DEF Requests
  <2>2. DOMAIN << >> = {}
    OBVIOUS
  <2>3. QED
    BY <2>1, <2>2
<1>4. QED
  BY <1>2, <1>3 DEF Nobody

\* A key tells apart sessions, their lives, actions and decisions.
LEMMA KeysTellApart ==
  ASSUME NEW a1, NEW a2, NEW a3, NEW a4, NEW b1, NEW b2, NEW b3, NEW b4,
         <<a1, a2, a3, a4>> = <<b1, b2, b3, b4>>
  PROVE  a1 = b1 /\ a2 = b2 /\ a3 = b3 /\ a4 = b4
  OBVIOUS

\* An answer reaches the session that waits for it, and no other.
LEMMA AnswerStep ==
  ASSUME TypeOK, RequestsAreKeyed, NEW request \in wire, NEW answer \in Answers,
         Answer(request, answer)
  PROVE  /\ session' \in [Sessions -> Pages]
         /\ \A s \in Sessions :
              /\ session'[s].copy = session[s].copy
              /\ session'[s].receipt = session[s].receipt
              /\ session'[s].life = session[s].life
              /\ session'[s].asked = session[s].asked
              /\ \/ session'[s].at = session[s].at /\ session'[s].answer = session[s].answer
                 \/ /\ session[s].at # "idle" /\ session[s].asked = request
                    /\ session'[s].at = "answered" /\ session'[s].answer = answer
<1>1. request \in Requests /\ request.session \in Sessions
  BY DEF TypeOK, Requests
<1>2. CASE Waits(request)
  <2> DEFINE w == request.session
             m == [session[w] EXCEPT !.at = "answered", !.answer = answer]
  <2>1. session[w].at # "idle" /\ session[w].asked = request
    BY <1>1, <1>2, NobodyIsNothing DEF Waits, RequestsAreKeyed
  <2>2. /\ m \in Pages /\ m.at = "answered" /\ m.answer = answer
        /\ m.copy = session[w].copy /\ m.receipt = session[w].receipt
        /\ m.life = session[w].life /\ m.asked = session[w].asked
    BY <1>1 DEF TypeOK, Pages
  <2>3. session' = [session EXCEPT ![w] = m]
    BY <1>2 DEF Answer
  <2> HIDE DEF m
  <2>4. QED
    BY <1>1, <2>1, <2>2, <2>3 DEF TypeOK
<1>3. CASE ~Waits(request)
  BY <1>3 DEF Answer, TypeOK
<1>4. QED
  BY <1>2, <1>3

\* The service answers a request with the receipt of its key, refuses it where the
\* action was decided under another key, or decides it; a key conflict, which the
\* keys of these pages rule out, is never answered.
LEMMA DecidedStep ==
  ASSUME TypeOK, RequestsAreKeyed, RowsTellWho, NEW request \in wire, Decided(request)
  PROVE  \/ row' = row /\ Answer(request, "receipt")
         \/ /\ row' = row /\ Answer(request, "state conflict")
            /\ row[request.id].status # "proposed"
            /\ row[request.id].key # request.key
         \/ \E status \in Final :
              /\ Answer(request, "receipt")
              /\ row[request.id].status = "proposed"
              /\ row' = [row EXCEPT ![request.id] =
                           [status |-> status, decision |-> request.decision,
                            key |-> request.key,
                            by |-> <<request.session, request.life, request.decision>>]]
<1> DEFINE owners == {id \in Actions : row[id].key = request.key}
<1>1. /\ request \in Requests /\ request.id \in Actions /\ request.key \in Keys
      /\ request.key = KeyOf(request)
  BY DEF TypeOK, Requests, RequestsAreKeyed
<1>2. \A id \in owners : id = request.id /\ row[id].decision = request.decision
  <2> TAKE id \in owners
  <2>1. row[id].key # Nobody
    BY <1>1, NobodyIsNothing
  <2>2. PICK s \in Sessions, life \in Nat : row[id].key = <<s, life, id, row[id].decision>>
    BY <2>1 DEF RowsTellWho
  <2>3. <<s, life, id, row[id].decision>> =
          <<request.session, request.life, request.id, request.decision>>
    BY <1>1, <2>2 DEF KeyOf
  <2>4. QED
    BY <2>3, KeysTellApart
<1>3. CASE owners # {}
  <2>1. \E id \in owners : id = request.id /\ row[id].decision = request.decision
    BY <1>2, <1>3
  <2>2. Answer(request, "receipt") /\ row' = row
    BY <1>3, <2>1 DEF Decided
  <2>3. QED
    BY <2>2
<1>4. CASE owners = {} /\ row[request.id].status # "proposed"
  BY <1>1, <1>4 DEF Decided
<1>5. CASE owners = {} /\ row[request.id].status = "proposed"
  BY <1>5 DEF Decided, Final
<1>6. QED
  BY <1>3, <1>4, <1>5

-----------------------------------------------------------------------------
(* What each step does to the rows and to the pages.                       *)

\* A decision replaces a proposed row by one that tells who decided it.
LEMMA RowsStep ==
  ASSUME TypeOK, RequestsAreKeyed, RowsTellWho, [Next]_vars
  PROVE  /\ row' \in [Actions -> Rows]
         /\ RowsTellWho'
         /\ \A id \in Actions : row[id].status # "proposed" => row'[id] = row[id]
<1>1. CASE row' = row
  BY <1>1 DEF TypeOK, RowsTellWho
<1>2. ASSUME NEW request \in wire, Handle(request)
      PROVE  /\ row' \in [Actions -> Rows]
             /\ RowsTellWho'
             /\ \A id \in Actions : row[id].status # "proposed" => row'[id] = row[id]
  <2>1. CASE row' = row
    BY <1>1, <2>1
  <2>2. CASE row' # row
    <3>1. PICK status \in Final :
            /\ row[request.id].status = "proposed"
            /\ row' = [row EXCEPT ![request.id] =
                         [status |-> status, decision |-> request.decision,
                          key |-> request.key,
                          by |-> <<request.session, request.life, request.decision>>]]
      BY <1>2, <2>2, DecidedStep DEF Handle
    <3> DEFINE r == [status |-> status, decision |-> request.decision, key |-> request.key,
                     by |-> <<request.session, request.life, request.decision>>]
    <3>2. /\ request.id \in Actions /\ request.key = KeyOf(request) /\ request.key \in Keys
          /\ request.session \in Sessions /\ request.life \in Nat /\ request.decision \in Decisions
      BY DEF TypeOK, Requests, RequestsAreKeyed
    <3>3. r \in Rows
      BY <3>2 DEF Rows
    <3>4. /\ r.status # "proposed"
          /\ r.key = <<request.session, request.life, request.id, r.decision>>
          /\ r.by = <<request.session, request.life, r.decision>>
      BY <3>2 DEF Final, KeyOf
    <3>5. row' = [row EXCEPT ![request.id] = r]
      BY <3>1
    <3> HIDE DEF r
    <3>6. row' \in [Actions -> Rows] /\ row'[request.id] = r
          /\ \A id \in Actions \ {request.id} : row'[id] = row[id]
      BY <3>2, <3>3, <3>5 DEF TypeOK
    <3>7. RowsTellWho'
      <4> SUFFICES ASSUME NEW id \in Actions
                   PROVE  \/ row'[id].status = "proposed" /\ row'[id].key = Nobody
                          \/ /\ row'[id].status # "proposed"
                             /\ \E s \in Sessions, life \in Nat :
                                  /\ row'[id].key = <<s, life, id, row'[id].decision>>
                                  /\ row'[id].by = <<s, life, row'[id].decision>>
        BY DEF RowsTellWho
      <4>1. CASE id = request.id
        BY <3>2, <3>4, <3>6, <4>1
      <4>2. CASE id # request.id
        BY <3>6, <4>2 DEF RowsTellWho
      <4>3. QED
        BY <4>1, <4>2
    <3>8. QED
      BY <3>1, <3>6, <3>7
  <2>3. QED
    BY <2>1, <2>2
<1>3. QED
  BY <1>1, <1>2, ZenonT(30) DEF Next, Poll, TakeAnswer, GiveUp, Reload, Submit, Lose, MoveOn, vars

\* What the page of a session becomes: it takes the stored statuses, takes a receipt,
\* starts anew, asks for a decision of its own, or its request is answered.
Becomes(s) ==
  LET old == session[s]
      new == session'[s]
  IN \/ /\ new.copy \in {old.copy, Statuses} /\ new.receipt = old.receipt
        /\ new.life = old.life /\ new.at = "idle" /\ new.asked = Nobody
     \/ /\ new.copy = old.copy /\ old.at = "answered" /\ old.asked \in Requests
        /\ new.receipt = [id |-> old.asked.id, status |-> row[old.asked.id].status]
        /\ new.life = old.life /\ new.at = "idle" /\ new.asked = Nobody
     \/ /\ new.copy = [id \in Actions |-> "unseen"] /\ new.receipt = NoReceipt
        /\ new.at = "idle" /\ new.asked = Nobody
     \/ /\ new.copy = old.copy /\ new.receipt = old.receipt /\ new.life = old.life
        /\ new.at = "waiting" /\ new.asked \in Requests /\ new.asked.key = KeyOf(new.asked)
        /\ new.asked.session = s /\ new.asked.life = new.life
     \/ /\ new.copy = old.copy /\ new.receipt = old.receipt /\ new.life = old.life
        /\ new.asked = old.asked
        /\ \/ new.at = old.at /\ new.answer = old.answer
           \/ /\ old.at # "idle" /\ new.at = "answered"
              /\ \/ new.answer \in {"receipt", "error"}
                 \/ /\ new.answer = "state conflict" /\ row' = row
                    /\ row[old.asked.id].status # "proposed"
                    /\ row[old.asked.id].key # old.asked.key

LEMMA StatusesTyped ==
  ASSUME TypeOK
  PROVE  /\ Statuses \in [Actions -> Final \cup {"proposed"}]
         /\ Statuses \in [Actions -> Shown]
         /\ \A id \in Actions : Statuses[id] = row[id].status
  BY DEF TypeOK, Rows, Statuses, Shown

LEMMA PollStep ==
  ASSUME TypeOK, RequestsAreKeyed, NEW s \in Sessions, Poll(s)
  PROVE  session' \in [Sessions -> Pages] /\ \A t \in Sessions : Becomes(t)
<1> DEFINE m == [session[s] EXCEPT !.copy = IF InFeed THEN Statuses ELSE @]
<1>1. /\ m \in Pages /\ m.copy \in {session[s].copy, Statuses}
      /\ m.receipt = session[s].receipt /\ m.life = session[s].life
      /\ m.at = session[s].at /\ m.asked = session[s].asked
  BY StatusesTyped DEF TypeOK, Pages
<1>2. session' = [session EXCEPT ![s] = m] /\ session[s].at = "idle"
      /\ session[s].asked = Nobody
  BY DEF Poll, RequestsAreKeyed
<1> HIDE DEF m
<1>3. QED
  BY <1>1, <1>2 DEF TypeOK, Becomes

LEMMA TakeAnswerStep ==
  ASSUME TypeOK, RequestsAreKeyed, NEW s \in Sessions, TakeAnswer(s)
  PROVE  session' \in [Sessions -> Pages] /\ \A t \in Sessions : Becomes(t)
<1> DEFINE asked == session[s].asked
           r == [id |-> asked.id, status |-> row[asked.id].status]
           m == [session[s] EXCEPT !.at = "idle", !.answer = "none", !.asked = Nobody,
                   !.receipt = IF session[s].answer = "receipt" THEN r ELSE @]
<1>1. session[s].at = "answered" /\ asked \in Requests
  BY DEF TakeAnswer, RequestsAreKeyed
<1>2. r \in [id: Actions, status: Shown]
  BY <1>1 DEF TypeOK, Requests, Rows, Shown
<1>3. /\ m \in Pages /\ m.copy = session[s].copy
      /\ m.receipt = session[s].receipt \/ m.receipt = r
      /\ m.life = session[s].life /\ m.at = "idle" /\ m.asked = Nobody
  <2> HIDE DEF r
  <2> QED
    BY <1>2 DEF TypeOK, Pages, Answers
<1>4. session' = [session EXCEPT ![s] = m]
  BY DEF TakeAnswer
<1> HIDE DEF m
<1>5. QED
  BY <1>1, <1>3, <1>4 DEF TypeOK, Becomes

LEMMA GiveUpStep ==
  ASSUME TypeOK, NEW s \in Sessions, GiveUp(s)
  PROVE  session' \in [Sessions -> Pages] /\ \A t \in Sessions : Becomes(t)
<1> DEFINE m == [session[s] EXCEPT !.at = "idle", !.answer = "none", !.asked = Nobody]
<1>1. /\ m \in Pages /\ m.copy = session[s].copy /\ m.receipt = session[s].receipt
      /\ m.life = session[s].life /\ m.at = "idle" /\ m.asked = Nobody
  BY DEF TypeOK, Pages, Answers
<1>2. session' = [session EXCEPT ![s] = m]
  BY DEF GiveUp
<1> HIDE DEF m
<1>3. QED
  BY <1>1, <1>2 DEF TypeOK, Becomes

\* A page starts as nobody's, with nothing seen.
LEMMA FreshTyped ==
  ASSUME NEW life \in Nat
  PROVE  /\ Fresh(life) \in Pages
         /\ Fresh(life).at = "idle" /\ Fresh(life).asked = Nobody
         /\ Fresh(life).receipt = NoReceipt
         /\ Fresh(life).copy = [id \in Actions |-> "unseen"]
  BY DEF Fresh, Pages, Shown, Answers

LEMMA ReloadStep ==
  ASSUME TypeOK, NEW s \in Sessions, Reload(s)
  PROVE  session' \in [Sessions -> Pages] /\ \A t \in Sessions : Becomes(t)
<1> DEFINE f == Fresh(session[s].life + 1)
           m == [f EXCEPT !.tries = session[s].tries]
<1>1. session[s].life + 1 \in Nat /\ session[s].tries \in Nat
  BY DEF TypeOK, Pages
<1>2. f \in Pages /\ f.at = "idle" /\ f.asked = Nobody /\ f.receipt = NoReceipt
      /\ f.copy = [id \in Actions |-> "unseen"]
  BY <1>1, FreshTyped
<1>3. session' = [session EXCEPT ![s] = m]
  BY DEF Reload
<1> HIDE DEF f
<1>4. m \in Pages /\ m.at = "idle" /\ m.asked = Nobody /\ m.receipt = NoReceipt
      /\ m.copy = [id \in Actions |-> "unseen"]
  BY <1>1, <1>2 DEF Pages
<1> HIDE DEF m
<1>5. QED
  BY <1>3, <1>4 DEF TypeOK, Becomes

LEMMA SubmitStep ==
  ASSUME TypeOK, NEW s \in Sessions, NEW id \in Actions, NEW decision \in Decisions,
         Submit(s, id, decision)
  PROVE  /\ session' \in [Sessions -> Pages] /\ \A t \in Sessions : Becomes(t)
         /\ \E request \in Requests :
              request.key = KeyOf(request) /\ wire' = wire \cup {request}
<1> DEFINE r == [session |-> s, life |-> session[s].life, try |-> session[s].tries,
                 id |-> id, decision |-> decision, key |-> IdempotencyKey(s, id, decision)]
           n == session[s].tries + 1
           m == [session[s] EXCEPT !.at = "waiting", !.asked = r, !.tries = n]
<1>1. session[s] \in Pages /\ session[s].life \in Nat /\ session[s].tries \in Nat /\ n \in Nat
  BY DEF TypeOK, Pages
<1>2. IdempotencyKey(s, id, decision) \in Keys
  BY <1>1 DEF IdempotencyKey, Keys
<1>3. /\ r \in Requests /\ r.key = KeyOf(r) /\ r.session = s /\ r.life = session[s].life
  BY <1>1, <1>2 DEF Requests, KeyOf, IdempotencyKey
<1>4. session' = [session EXCEPT ![s] = m] /\ wire' = wire \cup {r}
  BY DEF Submit
<1> HIDE DEF r, n
<1>5. /\ m \in Pages /\ m.copy = session[s].copy /\ m.receipt = session[s].receipt
      /\ m.life = session[s].life /\ m.at = "waiting" /\ m.asked = r
  BY <1>1, <1>3 DEF Pages
<1> HIDE DEF m
<1>6. session' \in [Sessions -> Pages] /\ session'[s] = m
      /\ \A t \in Sessions \ {s} : session'[t] = session[t]
  BY <1>4, <1>5 DEF TypeOK
<1>7. Becomes(s)
  BY <1>3, <1>5, <1>6 DEF Becomes
<1>8. \A t \in Sessions \ {s} : Becomes(t)
  BY <1>6 DEF Becomes
<1>9. QED
  BY <1>3, <1>4, <1>6, <1>7, <1>8

\* An answer that is a receipt or an error is one of the ways in which a page changes.
LEMMA AnsweredPages ==
  ASSUME TypeOK, RequestsAreKeyed, NEW request \in wire, NEW answer \in {"receipt", "error"},
         Answer(request, answer)
  PROVE  session' \in [Sessions -> Pages] /\ \A t \in Sessions : Becomes(t)
<1>1. answer \in Answers
  BY DEF Answers
<1>2. session' \in [Sessions -> Pages]
  BY <1>1, AnswerStep
<1>3. ASSUME NEW t \in Sessions
      PROVE  Becomes(t)
  <2>1. /\ session'[t].copy = session[t].copy /\ session'[t].receipt = session[t].receipt
        /\ session'[t].life = session[t].life /\ session'[t].asked = session[t].asked
        /\ \/ session'[t].at = session[t].at /\ session'[t].answer = session[t].answer
           \/ /\ session[t].at # "idle" /\ session[t].asked = request
              /\ session'[t].at = "answered" /\ session'[t].answer = answer
    BY <1>1, <1>3, AnswerStep
  <2>2. QED
    BY <2>1 DEF Becomes
<1>4. QED
  BY <1>2, <1>3

LEMMA LoseStep ==
  ASSUME TypeOK, RequestsAreKeyed, NEW request \in wire, Lose(request)
  PROVE  session' \in [Sessions -> Pages] /\ \A t \in Sessions : Becomes(t)
  BY AnsweredPages DEF Lose

LEMMA HandleStep ==
  ASSUME TypeOK, RequestsAreKeyed, RowsTellWho, NEW request \in wire, Handle(request)
  PROVE  session' \in [Sessions -> Pages] /\ \A t \in Sessions : Becomes(t)
<1>1. CASE Answer(request, "receipt")
  BY <1>1, AnsweredPages
<1>2. CASE /\ row' = row /\ Answer(request, "state conflict")
           /\ row[request.id].status # "proposed"
           /\ row[request.id].key # request.key
  <2>1. "state conflict" \in Answers
    BY DEF Answers
  <2>2. session' \in [Sessions -> Pages]
    BY <1>2, <2>1, AnswerStep
  <2>3. ASSUME NEW t \in Sessions
        PROVE  Becomes(t)
    <3>1. /\ session'[t].copy = session[t].copy /\ session'[t].receipt = session[t].receipt
          /\ session'[t].life = session[t].life /\ session'[t].asked = session[t].asked
          /\ \/ session'[t].at = session[t].at /\ session'[t].answer = session[t].answer
             \/ /\ session[t].at # "idle" /\ session[t].asked = request
                /\ session'[t].at = "answered" /\ session'[t].answer = "state conflict"
      BY <1>2, <2>1, <2>3, AnswerStep
    <3>2. QED
      BY <1>2, <3>1 DEF Becomes
  <2>4. QED
    BY <2>2, <2>3
<1>3. QED
  BY <1>1, <1>2, DecidedStep DEF Handle

\* The pages, after any step.
LEMMA PagesStep ==
  ASSUME TypeOK, RequestsAreKeyed, RowsTellWho, [Next]_vars
  PROVE  session' \in [Sessions -> Pages] /\ \A t \in Sessions : Becomes(t)
<1>1. CASE session' = session
  BY <1>1 DEF TypeOK, Becomes
<1>2. QED
  BY <1>1, PollStep, TakeAnswerStep, GiveUpStep, ReloadStep, SubmitStep, LoseStep, HandleStep
     DEF Next, MoveOn, vars, Decisions

\* The connection carries requests with the keys of their decisions.
LEMMA WireStep ==
  ASSUME TypeOK, RequestsAreKeyed, [Next]_vars
  PROVE  wire' \subseteq Requests /\ \A request \in wire' : request.key = KeyOf(request)
<1>1. CASE wire' \subseteq wire
  BY <1>1 DEF TypeOK, RequestsAreKeyed
<1>2. ASSUME NEW s \in Sessions, NEW id \in Actions, NEW decision \in Decisions,
             Submit(s, id, decision)
      PROVE  wire' \subseteq Requests /\ \A request \in wire' : request.key = KeyOf(request)
  BY <1>2, SubmitStep DEF TypeOK, RequestsAreKeyed
<1>3. QED
  BY <1>1, <1>2 DEF Next, Poll, TakeAnswer, GiveUp, Reload, Lose, Handle, MoveOn, vars,
     Decisions

-----------------------------------------------------------------------------
(* The inductive invariant.                                                *)

\* Who waits has asked for itself, whatever happens to the request.
LEMMA StepKeyed ==
  ASSUME TypeOK, RequestsAreKeyed, RowsTellWho, [Next]_vars
  PROVE  RequestsAreKeyed'
<1>1. \A request \in wire' : request.key = KeyOf(request)
  BY WireStep
<1>2. ASSUME NEW s \in Sessions
      PROVE  \/ session'[s].at = "idle" /\ session'[s].asked = Nobody
             \/ /\ session'[s].at # "idle"
                /\ session'[s].asked \in Requests
                /\ session'[s].asked.key = KeyOf(session'[s].asked)
                /\ session'[s].asked.session = s /\ session'[s].asked.life = session'[s].life
  <2>1. Becomes(s)
    BY <1>2, PagesStep
  <2>2. QED
    BY <1>2, <2>1 DEF Becomes, RequestsAreKeyed
<1>3. QED
  BY <1>1, <1>2 DEF RequestsAreKeyed, KeyOf

\* A page takes statuses and receipts as they are stored, and a decided row stays.
LEMMA StepCopies ==
  ASSUME TypeOK, RequestsAreKeyed, RowsTellWho, CopiesAreTrue, [Next]_vars
  PROVE  CopiesAreTrue'
<1> SUFFICES ASSUME NEW s \in Sessions, NEW id \in Actions
             PROVE  /\ session'[s].copy[id] \in Final => row'[id].status = session'[s].copy[id]
                    /\ session'[s].receipt # NoReceipt /\ session'[s].receipt.id = id
                       /\ session'[s].receipt.status \in Final
                         => row'[id].status = session'[s].receipt.status
  BY DEF CopiesAreTrue
<1>1. Becomes(s)
  BY PagesStep
<1>2. \A i \in Actions : row[i].status \in Final => row'[i] = row[i]
  BY RowsStep DEF Final
<1>3. /\ session[s].copy[id] \in Final => row[id].status = session[s].copy[id]
      /\ session[s].receipt # NoReceipt /\ session[s].receipt.id = id
         /\ session[s].receipt.status \in Final
           => row[id].status = session[s].receipt.status
  BY DEF CopiesAreTrue
<1>4. session'[s].copy[id] \in Final => row'[id].status = session'[s].copy[id]
  <2>1. CASE session'[s].copy = session[s].copy
    BY <1>2, <1>3, <2>1
  <2>2. CASE session'[s].copy = Statuses
    BY <1>2, <2>2, StatusesTyped
  <2>3. CASE session'[s].copy = [i \in Actions |-> "unseen"]
    BY <2>3 DEF Final
  <2>4. QED
    BY <1>1, <2>1, <2>2, <2>3 DEF Becomes
<1>5. session'[s].receipt # NoReceipt /\ session'[s].receipt.id = id
      /\ session'[s].receipt.status \in Final => row'[id].status = session'[s].receipt.status
  <2>1. CASE session'[s].receipt = session[s].receipt
    BY <1>2, <1>3, <2>1
  <2>2. CASE /\ session[s].asked \in Requests
             /\ session'[s].receipt = [id |-> session[s].asked.id,
                                       status |-> row[session[s].asked.id].status]
    <3>1. /\ session'[s].receipt.id = session[s].asked.id
          /\ session'[s].receipt.status = row[session[s].asked.id].status
      BY <2>2
    <3>2. QED
      BY <1>2, <3>1
  <2>3. CASE session'[s].receipt = NoReceipt
    BY <2>3
  <2>4. QED
    BY <1>1, <2>1, <2>2, <2>3 DEF Becomes
<1>6. QED
  BY <1>4, <1>5

\* An action refused as decided is decided by then, and by somebody else: had this
\* session decided it so, the row would have the key of the request.
LEMMA StepRefusals ==
  ASSUME TypeOK, RequestsAreKeyed, RowsTellWho, RefusalsStand, RetriesGetTheReceipt,
         [Next]_vars
  PROVE  RefusalsStand' /\ RetriesGetTheReceipt'
<1> SUFFICES ASSUME NEW s \in Sessions, session'[s].at = "answered"
             PROVE  LET asked == session'[s].asked
                    IN /\ session'[s].answer # "key conflict"
                       /\ session'[s].answer = "state conflict" =>
                            /\ row'[asked.id].status # "proposed"
                            /\ row'[asked.id].by # <<s, session'[s].life, asked.decision>>
  BY DEF RefusalsStand, RetriesGetTheReceipt
<1> DEFINE asked == session[s].asked
<1>1. Becomes(s)
  BY PagesStep
<1>2. session[s].at # "idle" /\ session'[s].asked = asked /\ session'[s].life = session[s].life
  BY <1>1 DEF Becomes, RequestsAreKeyed
<1>3. /\ asked \in Requests /\ asked.key = KeyOf(asked) /\ asked.id \in Actions
      /\ asked.session = s /\ asked.life = session[s].life
      /\ asked.life \in Nat /\ asked.decision \in Decisions
  BY <1>2 DEF RequestsAreKeyed, Requests
<1>4. CASE session'[s].at = session[s].at /\ session'[s].answer = session[s].answer
  <2>1. row[asked.id].status # "proposed" => row'[asked.id] = row[asked.id]
    BY <1>3, RowsStep
  <2>2. QED
    BY <1>2, <1>4, <2>1 DEF RefusalsStand, RetriesGetTheReceipt
<1>5. CASE session'[s].answer \in {"receipt", "error"}
  BY <1>5
<1>6. CASE /\ session'[s].answer = "state conflict" /\ row' = row
           /\ row[asked.id].status # "proposed"
           /\ row[asked.id].key # asked.key
  <2>1. PICK t \in Sessions, life \in Nat :
          /\ row[asked.id].key = <<t, life, asked.id, row[asked.id].decision>>
          /\ row[asked.id].by = <<t, life, row[asked.id].decision>>
    BY <1>3, <1>6 DEF RowsTellWho
  <2>2. ASSUME row[asked.id].by = <<s, session[s].life, asked.decision>>
        PROVE  FALSE
    <3>1. t = s /\ life = session[s].life /\ row[asked.id].decision = asked.decision
      BY <2>1, <2>2
    <3>2. row[asked.id].key = asked.key
      BY <1>3, <2>1, <3>1 DEF KeyOf
    <3>3. QED
      BY <1>6, <3>2
  <2>3. QED
    BY <1>2, <1>6, <2>2
<1>7. QED
  BY <1>1, <1>2, <1>4, <1>5, <1>6 DEF Becomes

SessionInv ==
  /\ TypeOK
  /\ RequestsAreKeyed
  /\ RowsTellWho
  /\ CopiesAreTrue
  /\ RefusalsStand
  /\ RetriesGetTheReceipt

LEMMA SessionInit == Init => SessionInv
<1> SUFFICES ASSUME Init PROVE SessionInv
  OBVIOUS
<1>1. \A s \in Sessions : session[s] = Fresh(1)
  BY DEF Init
<1>2. \A s \in Sessions :
        /\ session[s] \in Pages /\ session[s].at = "idle" /\ session[s].asked = Nobody
        /\ session[s].receipt = NoReceipt
        /\ session[s].copy = [id \in Actions |-> "unseen"]
  BY <1>1, FreshTyped
<1>3. Undecided \in Rows /\ Undecided.status = "proposed" /\ Undecided.key = Nobody
  BY DEF Undecided, Rows
<1>4. TypeOK
  BY <1>2, <1>3 DEF Init, TypeOK
<1>5. RequestsAreKeyed /\ RowsTellWho /\ CopiesAreTrue /\ RefusalsStand /\ RetriesGetTheReceipt
  BY <1>2, <1>3 DEF Init, RequestsAreKeyed, RowsTellWho, CopiesAreTrue, RefusalsStand,
     RetriesGetTheReceipt, Final
<1>6. QED
  BY <1>4, <1>5 DEF SessionInv

LEMMA SessionNext == SessionInv /\ [Next]_vars => SessionInv'
<1> SUFFICES ASSUME SessionInv, [Next]_vars PROVE SessionInv'
  OBVIOUS
<1> USE DEF SessionInv
<1>1. recent' \in BOOLEAN
  BY ZenonT(30) DEF TypeOK, Next, Poll, TakeAnswer, GiveUp, Reload, Submit, Lose, Handle, MoveOn, vars
<1>2. TypeOK'
  BY <1>1, RowsStep, PagesStep, WireStep DEF TypeOK
<1>3. QED
  BY <1>2, RowsStep, StepKeyed, StepCopies, StepRefusals

-----------------------------------------------------------------------------
(* The theorems.                                                           *)

\* Requests carry the keys of their decisions, decided rows tell who decided them
\* and never change, and what a page keeps of a decision is so.
THEOREM SessionInvariant == Spec => []SessionInv
  BY SessionInit, SessionNext, PTL DEF Spec

\* What a page shows as decided is decided so, of that action, for any number of
\* sessions, actions, tries and reloads: a page keeps receipts and old copies, but no
\* decision is ever undone and a receipt is taken only for its own action.
THEOREM ReceiptsAlwaysTrue == Spec => []ReceiptsAreTrue
<1>1. SessionInv => ReceiptsAreTrue
  BY DEF SessionInv, CopiesAreTrue, ReceiptsAreTrue, EffectiveStatus
<1>2. QED
  BY <1>1, SessionInvariant, PTL

\* A retry is answered with the receipt of the first time, and a session is refused
\* only what another one decided, what it decided otherwise, or what it decided in
\* another life: the key says exactly that much, so a row that refuses it was decided
\* by another.
THEOREM RetriesAlwaysGetTheReceipt == Spec => []RetriesGetTheReceipt
<1>1. SessionInv => RetriesGetTheReceipt
  BY DEF SessionInv
<1>2. QED
  BY <1>1, SessionInvariant, PTL

\* The service of these pages keeps the life that module ActionLifecycle promises of
\* an action: it is decided at most once, and its decision stands.
THEOREM ServiceKeepsLifecycle == Spec => DecidedOnce
<1>1. SessionInv /\ [Next]_vars => [Service!Next]_(Service!vars)
  <2> SUFFICES ASSUME SessionInv, [Next]_vars PROVE [Service!Next]_(Service!vars)
    OBVIOUS
  <2>1. CASE row' = row
    BY <2>1 DEF Service!vars, Statuses
  <2>2. ASSUME NEW request \in wire, Handle(request), row' # row
        PROVE  Service!Next
    <3>1. PICK status \in Final :
            /\ row[request.id].status = "proposed"
            /\ row' = [row EXCEPT ![request.id] =
                         [status |-> status, decision |-> request.decision,
                          key |-> request.key,
                          by |-> <<request.session, request.life, request.decision>>]]
      BY <2>2, DecidedStep DEF Handle, SessionInv
    <3>2. request.id \in Actions
      BY DEF SessionInv, TypeOK, Requests
    <3>3. /\ row' \in [Actions -> Rows] /\ row'[request.id].status = status
          /\ \A id \in Actions \ {request.id} : row'[id] = row[id]
      BY <3>1, <3>2, RowsStep DEF SessionInv, TypeOK
    <3>4. /\ Statuses' = [Statuses EXCEPT ![request.id] = status]
          /\ Statuses[request.id] = "proposed"
      BY <3>1, <3>2, <3>3 DEF Statuses
    <3>5. Service!Reject(request.id) \/ Service!Execute(request.id) \/ Service!Fail(request.id)
      BY <3>4 DEF Final, Service!Reject, Service!Execute, Service!Fail
    <3>6. QED
      BY <3>2, <3>5 DEF Service!Next
  <2>3. QED
    BY <2>1, <2>2, ZenonT(30) DEF Next, Poll, TakeAnswer, GiveUp, Reload, Submit, Lose, MoveOn, vars
<1>2. QED
  BY <1>1, SessionInvariant, PTL DEF Spec, DecidedOnce

=============================================================================
