------------------------ MODULE InvestigationsProofs -------------------------
(* Proofs about Investigations, for every value of its constants.          *)
EXTENDS Investigations, FiniteSetTheorems, SequenceTheorems, WellFoundedInduction, TLAPS

-----------------------------------------------------------------------------
(* Rows.                                                                   *)

\* Bounded numbers have a largest: the smallest of their bounds is 0 or one of them.
LEMMA LargestNumber ==
  ASSUME NEW S \in SUBSET Nat, NEW b \in Nat, \A r \in S : r <= b
  PROVE  \E n \in S \cup {0} : \A r \in S : r <= n
<1> DEFINE B == {n \in Nat : \A r \in S : r <= n}
<1>1. PICK n \in B : \A m \in B : ~(<<m, n>> \in OpToRel(<, Nat))
  <2>1. B \subseteq Nat /\ B # {}
    OBVIOUS
  <2> HIDE DEF B
  <2>2. QED
    BY <2>1, NatLessThanWellFounded, WFMin
<1>2. \A m \in B : n <= m
  <2> SUFFICES ASSUME NEW m \in B, m < n PROVE FALSE
    OBVIOUS
  <2>1. <<m, n>> \in OpToRel(<, Nat)
    BY DEF OpToRel
  <2>2. QED
    BY <1>1, <2>1
<1>3. CASE n \in S \cup {0}
  BY <1>3
<1>4. CASE n \notin S \cup {0}
  <2>1. n - 1 \in Nat /\ n \in Nat
    BY <1>4
  <2>2. \A r \in S : r <= n /\ r # n
    BY <1>4
  <2>3. \A r \in S : r <= n - 1
    BY <2>1, <2>2
  <2>4. n - 1 \in B
    BY <2>1, <2>3
  <2>5. QED
    BY <1>2, <2>1, <2>4
<1>5. QED
  BY <1>3, <1>4

LEMMA LastRowIsLast ==
  ASSUME TypeOK, RowsAreBounded
  PROVE  LastRow \in Nat /\ \A r \in DOMAIN rows : r <= LastRow
<1>1. DOMAIN rows \in SUBSET Nat
  BY DEF TypeOK
<1>2. PICK b \in Nat : \A r \in DOMAIN rows : r <= b
  BY DEF RowsAreBounded
<1>3. \E n \in DOMAIN rows \cup {0} : \A r \in DOMAIN rows : r <= n
  BY <1>1, <1>2, LargestNumber
<1>4. LastRow \in DOMAIN rows \cup {0} /\ \A r \in DOMAIN rows : r <= LastRow
  BY <1>3 DEF LastRow
<1>5. QED
  BY <1>1, <1>4

\* New nodes get rows of their own after the last one, one row each.
LEMMA RowsAdded ==
  ASSUME TypeOK, RowsAreBounded, NEW c \in Cases, NEW gids \in SUBSET Gids,
         rows' \in WithNodes(c, gids)
  PROVE  /\ DOMAIN rows' \subseteq Nat \ {0}
         /\ rows' \in [DOMAIN rows' -> Cases \X Gids]
         /\ DOMAIN rows \subseteq DOMAIN rows'
         /\ \A r \in DOMAIN rows : rows'[r] = rows[r]
         /\ \A r \in DOMAIN rows' \ DOMAIN rows : \E g \in gids : rows'[r] = <<c, g>>
         /\ \A g \in gids : \E r \in DOMAIN rows' : rows'[r] = <<c, g>>
         /\ \A r, s \in DOMAIN rows' \ DOMAIN rows : rows'[r] = rows'[s] => r = s
         /\ RowsAreBounded'
<1> DEFINE k == Cardinality(gids)
           new == LastRow + 1 .. LastRow + k
<1>1. /\ LastRow \in Nat /\ \A r \in DOMAIN rows : r <= LastRow
      /\ DOMAIN rows \subseteq Nat \ {0} /\ rows \in [DOMAIN rows -> Cases \X Gids]
  BY LastRowIsLast DEF TypeOK
<1>2. IsFiniteSet(gids) /\ k \in Nat
  BY InvestigationsAssumption, FS_Subset, FS_CardinalityType
<1>3. PICK order \in [new -> gids] :
        /\ \A g \in gids : \E r \in new : order[r] = g
        /\ rows' = [r \in DOMAIN rows \cup new |-> IF r \in new THEN <<c, order[r]>> ELSE rows[r]]
  BY DEF WithNodes
<1>4. /\ new \subseteq Nat \ {0} /\ \A r \in new : r \notin DOMAIN rows /\ r <= LastRow + k
  BY <1>1, <1>2
<1>5. IsFiniteSet(new) /\ Cardinality(new) = k
  <2> DEFINE a == LastRow + 1
             b == LastRow + k
  <2>1. a \in Int /\ b \in Int /\ (IF a > b THEN 0 ELSE b - a + 1) = k
    BY <1>1, <1>2
  <2> HIDE DEF k, a, b
  <2>2. IsFiniteSet(a .. b) /\ Cardinality(a .. b) = k
    BY <2>1, FS_Interval
  <2>3. QED
    BY <2>2 DEF a, b
<1>6. \A r, s \in new : order[r] = order[s] => r = s
  <2> HIDE DEF new, k
  <2>1. order \in Surjection(new, gids)
    BY <1>3 DEF Surjection
  <2>2. order \in Injection(new, gids)
    BY <1>5, <2>1, FS_SurjSameCardinalityImpliesInj DEF k
  <2>3. QED
    BY <2>2 DEF Injection, IsInjective
<1> HIDE DEF new
<1>7. /\ DOMAIN rows' = DOMAIN rows \cup new
      /\ \A r \in new : rows'[r] = <<c, order[r]>> /\ order[r] \in gids
      /\ \A r \in DOMAIN rows : rows'[r] = rows[r]
  BY <1>3, <1>4
<1>8. rows' \in [DOMAIN rows' -> Cases \X Gids]
  BY <1>1, <1>3, <1>7
<1>9. RowsAreBounded'
  <2>1. \A r \in DOMAIN rows' : r <= LastRow + k
    BY <1>1, <1>2, <1>4, <1>7
  <2>2. LastRow + k \in Nat
    BY <1>1, <1>2
  <2> HIDE DEF k
  <2>3. QED
    BY <2>1, <2>2 DEF RowsAreBounded
<1>10. \A r, s \in DOMAIN rows' \ DOMAIN rows : rows'[r] = rows'[s] => r = s
  BY <1>6, <1>7
<1>11. \A g \in gids : \E r \in DOMAIN rows' : rows'[r] = <<c, g>>
  BY <1>3, <1>7
<1>12. QED
  BY <1>1, <1>4, <1>7, <1>8, <1>9, <1>10, <1>11

\* ... and are then the nodes of their case, beside those it had.
LEMMA NodesAdded ==
  ASSUME TypeOK, RowsAreBounded, NEW c \in Cases, NEW gids \in SUBSET Gids,
         rows' \in WithNodes(c, gids)
  PROVE  /\ NodesOf(c)' = NodesOf(c) \cup gids
         /\ \A d \in Cases \ {c} : NodesOf(d)' = NodesOf(d)
<1>1. /\ DOMAIN rows \subseteq DOMAIN rows'
      /\ \A r \in DOMAIN rows : rows'[r] = rows[r]
      /\ \A r \in DOMAIN rows' \ DOMAIN rows : \E g \in gids : rows'[r] = <<c, g>>
      /\ \A g \in gids : \E r \in DOMAIN rows' : rows'[r] = <<c, g>>
  BY RowsAdded
<1>2. ASSUME NEW d \in Cases, NEW g \in Gids
      PROVE  (\E r \in DOMAIN rows' : rows'[r] = <<d, g>>) <=>
                \/ \E r \in DOMAIN rows : rows[r] = <<d, g>>
                \/ d = c /\ g \in gids
  BY <1>1, <1>2
<1>3. QED
  BY <1>2 DEF NodesOf

-----------------------------------------------------------------------------
(* Trails.                                                                 *)

LEMMA EventTyped ==
  /\ \A gids \in SUBSET Gids, to \in Statuses,
        what \in {"created", "nodes_added", "node_removed", "status_changed", "note_added"} :
       /\ Event(what, gids, to) \in Events
       /\ Event(what, gids, to).what = what
       /\ Event(what, gids, to).gids = gids
       /\ Event(what, gids, to).to = to
  /\ "new" \in Statuses
  BY InvestigationsAssumption DEF Event, Events

\* An event comes after those there are, which stay.
LEMMA EventAppended ==
  ASSUME NEW events \in Seq(Events), NEW e \in Events
  PROVE  /\ Append(events, e) \in Seq(Events)
         /\ Len(events) \in Nat /\ Len(Append(events, e)) = Len(events) + 1
         /\ DOMAIN events = 1 .. Len(events)
         /\ DOMAIN Append(events, e) = DOMAIN events \cup {Len(events) + 1}
         /\ Len(events) + 1 \notin DOMAIN events
         /\ \A i \in DOMAIN events : Append(events, e)[i] = events[i]
         /\ Append(events, e)[Len(events) + 1] = e
  BY AppendProperties, LenProperties

\* Events to come explain what was explained before.
LEMMA StillExplained ==
  ASSUME NEW events \in Seq(Events), NEW e \in Events
  PROVE  /\ \A gids : NodesExplained(events, gids) => NodesExplained(Append(events, e), gids)
         /\ \A ids : NotesExplained(events, ids) => NotesExplained(Append(events, e), ids)
         /\ \A to : StatusExplained(events, to) => StatusExplained(Append(events, e), to)
<1> DEFINE more == Append(events, e)
<1>1. DOMAIN events \subseteq DOMAIN more /\ \A i \in DOMAIN events : more[i] = events[i]
  BY EventAppended
<1> HIDE DEF more
<1>2. QED
  BY <1>1 DEF NodesExplained, NotesExplained, StatusExplained, more

\* What a trail tells of a node changes with the events about it, and with no other.
LEMMA ToldAfter ==
  ASSUME NEW events \in Seq(Events), NEW e \in Events, NEW g \in Gids
  PROVE  Told(Append(events, e), g) <=>
           \/ e.what \in {"created", "nodes_added"} /\ g \in e.gids
           \/ Told(events, g) /\ ~(e.what = "node_removed" /\ g \in e.gids)
<1> DEFINE more == Append(events, e)
           n == Len(events)
           Adds(i, x) == x[i].what \in {"created", "nodes_added"} /\ g \in x[i].gids
           Removes(j, x) == x[j].what = "node_removed" /\ g \in x[j].gids
<1>1. /\ n \in Nat /\ Len(more) = n + 1 /\ DOMAIN events = 1 .. n
      /\ DOMAIN more = DOMAIN events \cup {n + 1}
      /\ \A i \in DOMAIN events : more[i] = events[i]
      /\ more[n + 1] = e
  BY EventAppended
<1>2. Told(more, g) <=> \E i \in DOMAIN more : Adds(i, more) /\ \A j \in i + 1 .. n + 1 : ~Removes(j, more)
  BY <1>1 DEF Told
<1>3. Told(events, g) <=> \E i \in DOMAIN events : Adds(i, events) /\ \A j \in i + 1 .. n : ~Removes(j, events)
  BY DEF Told
<1> HIDE DEF more, n
<1>4. ASSUME NEW i \in DOMAIN events
      PROVE  (\A j \in i + 1 .. n + 1 : ~Removes(j, more)) <=>
               (\A j \in i + 1 .. n : ~Removes(j, events)) /\ ~Removes(n + 1, more)
  <2>1. i \in 1 .. n
    BY <1>1
  <2>2. \A j : j \in i + 1 .. n + 1 <=> j \in i + 1 .. n \/ j = n + 1
    BY <1>1, <2>1
  <2>3. \A j \in i + 1 .. n : j \in DOMAIN events /\ more[j] = events[j]
    BY <1>1, <2>1
  <2>4. QED
    BY <2>2, <2>3
<1>5. \A j \in n + 1 + 1 .. n + 1 : FALSE
  BY <1>1
<1>6. Told(more, g) <=> \/ Adds(n + 1, more)
                        \/ Told(events, g) /\ ~Removes(n + 1, more)
  BY <1>1, <1>2, <1>3, <1>4, <1>5
<1>7. QED
  BY <1>1, <1>6 DEF more

\* ... and so for the status.
LEMMA ToldStatusAfter ==
  ASSUME NEW events \in Seq(Events), NEW e \in Events, NEW to
  PROVE  /\ e.what \in {"created", "status_changed"} /\ e.to = to
              => ToldStatus(Append(events, e), to)
         /\ e.what # "status_changed" /\ ToldStatus(events, to)
              => ToldStatus(Append(events, e), to)
<1> DEFINE more == Append(events, e)
           n == Len(events)
<1>1. /\ n \in Nat /\ Len(more) = n + 1 /\ DOMAIN events = 1 .. n
      /\ DOMAIN more = DOMAIN events \cup {n + 1}
      /\ \A i \in DOMAIN events : more[i] = events[i]
      /\ more[n + 1] = e
  BY EventAppended
<1> HIDE DEF more, n
<1>2. ASSUME e.what \in {"created", "status_changed"}, e.to = to
      PROVE  ToldStatus(more, to)
  <2>1. \A j \in n + 1 + 1 .. n + 1 : FALSE
    BY <1>1
  <2>2. QED
    BY <1>1, <1>2, <2>1 DEF ToldStatus
<1>3. ASSUME e.what # "status_changed", ToldStatus(events, to)
      PROVE  ToldStatus(more, to)
  <2>1. PICK i \in DOMAIN events :
          /\ events[i].what \in {"created", "status_changed"} /\ events[i].to = to
          /\ \A j \in i + 1 .. n : events[j].what # "status_changed"
    BY <1>3 DEF ToldStatus, n
  <2>2. \A j \in i + 1 .. n + 1 : j = n + 1 \/ (j \in i + 1 .. n /\ j \in DOMAIN events)
    BY <1>1, <2>1
  <2>3. \A j \in i + 1 .. n + 1 : more[j].what # "status_changed"
    BY <1>1, <1>3, <2>1, <2>2
  <2>4. QED
    BY <1>1, <2>1, <2>3 DEF ToldStatus
<1>4. QED
  BY <1>2, <1>3 DEF more

\* The first event of a case explains it.
LEMMA CreationTells ==
  ASSUME NEW gids \in SUBSET Gids
  PROVE  LET events == <<Event("created", gids, "new")>>
         IN  /\ events \in Seq(Events)
             /\ \A g \in Gids : Told(events, g) <=> g \in gids
             /\ ToldStatus(events, "new")
             /\ NodesExplained(events, gids)
             /\ NotesExplained(events, {}) /\ NotesExplained(events, {1})
             /\ StatusExplained(events, "new")
<1> DEFINE e == Event("created", gids, "new")
           events == <<e>>
<1>1. e \in Events /\ e.what = "created" /\ e.gids = gids /\ e.to = "new"
  BY EventTyped
<1> HIDE DEF e
<1>2. events \in Seq(Events) /\ Len(events) = 1 /\ DOMAIN events = {1} /\ events[1] = e
  BY <1>1
<1> HIDE DEF events
<1>3. \A j \in 1 + 1 .. 1 : FALSE
  OBVIOUS
<1>4. /\ \A g \in Gids : Told(events, g) <=> g \in gids
      /\ ToldStatus(events, "new")
  BY <1>1, <1>2, <1>3 DEF Told, ToldStatus
<1>5. /\ NodesExplained(events, gids)
      /\ NotesExplained(events, {}) /\ NotesExplained(events, {1})
      /\ StatusExplained(events, "new")
  BY <1>1, <1>2 DEF NodesExplained, NotesExplained, StatusExplained
<1>6. QED
  BY <1>2, <1>4, <1>5 DEF events, e

-----------------------------------------------------------------------------
(* Requests.                                                               *)

LEMMA RequestFields ==
  ASSUME NEW r \in Requests
  PROVE  /\ r.stage \in Writing \cup {"idle", "exporting"}
         /\ r.stage = "idle" => r = Idle
         /\ r.stage # "idle" => r.case \in Cases
         /\ r.stage = "adding" => r.added \in SUBSET Gids
         /\ r.stage = "removing" => r.gid \in Gids /\ r.found \in SUBSET Nat
         /\ r.stage = "changing" => r.from \in Statuses /\ r.to \in Statuses
         /\ r.stage = "exporting" => r.next \in {"status", "nodes", "notes", "trail", "none"}
  BY DEF Requests, Writing, Idle

LEMMA IdleTyped == Idle \in Requests /\ Idle.stage = "idle"
  BY DEF Idle, Requests

\* What a request is about when it begins: a case that exists, as it is.
Begun(w, r) ==
  /\ r \in Requests /\ r.stage # "idle" /\ r.case \in Existing
  /\ r.stage \in {"removing", "changing"} => w \in Editors
  /\ r.stage = "removing" => r.found = {n \in DOMAIN rows : rows[n] = <<r.case, r.gid>>}
  /\ r.stage = "changing" => r.from = status[r.case]
  /\ r.stage = "exporting" => r.next = "status"

LEMMA ReadingsBegin ==
  ASSUME TypeOK, NEW w \in Workers,
         ReadForAdd(w) \/ ReadForRemove(w) \/ ReadForStatus(w) \/ ReadForNote(w) \/ StartExport(w)
  PROVE  \E r : Begun(w, r) /\ request' = [request EXCEPT ![w] = r] /\ UNCHANGED <<caseVars, shown>>
<1>1. CASE ReadForAdd(w)
  <2>1. PICK c \in Cases, gids \in SUBSET Gids \ {{}} :
          Begin(w, c, [stage |-> "adding", case |-> c, added |-> gids \ NodesOf(c)])
    BY <1>1 DEF ReadForAdd
  <2> DEFINE r == [stage |-> "adding", case |-> c, added |-> gids \ NodesOf(c)]
  <2>2. gids \ NodesOf(c) \in SUBSET Gids
    OBVIOUS
  <2>3. r \in Requests /\ r.stage = "adding" /\ r.case = c
    BY <2>2 DEF Requests
  <2>4. c \in Existing /\ request' = [request EXCEPT ![w] = r] /\ UNCHANGED <<caseVars, shown>>
    BY <2>1 DEF Begin
  <2> HIDE DEF r
  <2>5. QED
    BY <2>3, <2>4 DEF Begun
<1>2. CASE ReadForRemove(w)
  <2>1. PICK c \in Cases, g \in Gids :
          /\ w \in Editors
          /\ Begin(w, c, [stage |-> "removing", case |-> c, gid |-> g,
                          found |-> {n \in DOMAIN rows : rows[n] = <<c, g>>}])
    BY <1>2 DEF ReadForRemove
  <2> DEFINE found == {n \in DOMAIN rows : rows[n] = <<c, g>>}
             r == [stage |-> "removing", case |-> c, gid |-> g, found |-> found]
  <2>2. found \in SUBSET Nat
    BY DEF TypeOK
  <2>3. /\ r \in Requests /\ r.stage = "removing" /\ r.case = c /\ r.gid = g /\ r.found = found
    <3> HIDE DEF found
    <3> QED
      BY <2>2 DEF Requests
  <2>4. c \in Existing /\ request' = [request EXCEPT ![w] = r] /\ UNCHANGED <<caseVars, shown>>
    BY <2>1 DEF Begin
  <2> HIDE DEF r
  <2>5. QED
    BY <2>1, <2>3, <2>4 DEF Begun
<1>3. CASE ReadForStatus(w)
  <2>1. PICK c \in Cases, to \in Statuses :
          /\ w \in Editors
          /\ Begin(w, c, [stage |-> "changing", case |-> c, from |-> status[c], to |-> to])
    BY <1>3 DEF ReadForStatus
  <2> DEFINE r == [stage |-> "changing", case |-> c, from |-> status[c], to |-> to]
  <2>2. c \in Existing /\ request' = [request EXCEPT ![w] = r] /\ UNCHANGED <<caseVars, shown>>
    BY <2>1 DEF Begin
  <2>3. status[c] \in Statuses
    BY <2>2 DEF Existing, TypeOK
  <2>4. r \in Requests /\ r.stage = "changing" /\ r.case = c /\ r.from = status[c]
    BY <2>3 DEF Requests
  <2> HIDE DEF r
  <2>5. QED
    BY <2>1, <2>2, <2>4 DEF Begun
<1>4. CASE ReadForNote(w)
  <2>1. PICK c \in Cases : Begin(w, c, [stage |-> "noting", case |-> c])
    BY <1>4 DEF ReadForNote
  <2> DEFINE r == [stage |-> "noting", case |-> c]
  <2>2. r \in Requests /\ r.stage = "noting" /\ r.case = c
    BY DEF Requests
  <2>3. c \in Existing /\ request' = [request EXCEPT ![w] = r] /\ UNCHANGED <<caseVars, shown>>
    BY <2>1 DEF Begin
  <2> HIDE DEF r
  <2>4. QED
    BY <2>2, <2>3 DEF Begun
<1>5. CASE StartExport(w)
  <2>1. PICK c \in Existing :
          /\ request' = [request EXCEPT ![w] = [stage |-> "exporting", case |-> c, next |-> "status"]]
          /\ UNCHANGED <<caseVars, shown>>
    BY <1>5 DEF StartExport
  <2> DEFINE r == [stage |-> "exporting", case |-> c, next |-> "status"]
  <2>2. r \in Requests /\ r.stage = "exporting" /\ r.case = c /\ r.next = "status"
    BY DEF Requests, Existing
  <2>3. request' = [request EXCEPT ![w] = r]
    BY <2>1
  <2> HIDE DEF r
  <2>4. QED
    BY <2>1, <2>2, <2>3 DEF Begun
<1>6. QED
  BY <1>1, <1>2, <1>3, <1>4, <1>5

\* An export takes what it selects and goes on to the next part.
LEMMA SelectStep ==
  ASSUME TypeOK, CasesExist, NEW w \in Workers, Select(w)
  PROVE  LET part == request[w].next
             c == request[w].case
         IN  /\ request[w].stage = "exporting" /\ c \in Existing
             /\ part \in {"status", "nodes", "notes", "trail"}
             /\ request' \in [Workers -> Requests]
             /\ \A v \in Workers \ {w} : request'[v] = request[v] /\ shown'[v] = shown[v]
             /\ request'[w].stage = "exporting" /\ request'[w].case = c
             /\ request'[w].next = SelectAfter[part]
             /\ shown' \in [Workers -> [status: Statuses, nodes: SUBSET Gids,
                                        notes: SUBSET Nat, trail: Seq(Events)]]
             /\ shown'[w].status = IF part = "status" THEN status[c] ELSE shown[w].status
             /\ shown'[w].nodes = IF part = "nodes" THEN NodesOf(c) ELSE shown[w].nodes
             /\ shown'[w].notes = IF part = "notes" THEN notes[c] ELSE shown[w].notes
             /\ shown'[w].trail = IF part = "trail" THEN trail[c] ELSE shown[w].trail
             /\ UNCHANGED caseVars
<1> DEFINE part == request[w].next
           c == request[w].case
           Shapes == [status: Statuses, nodes: SUBSET Gids, notes: SUBSET Nat, trail: Seq(Events)]
           r == [request[w] EXCEPT !.next = SelectAfter[part]]
           s == [shown[w] EXCEPT ![part] = Selected(c, part)]
<1>1. /\ request[w].stage = "exporting" /\ c \in Existing
      /\ part \in {"status", "nodes", "notes", "trail"}
  BY DEF Select, SelectAfter, CasesExist
<1>2. request[w] \in Requests /\ request \in [Workers -> Requests]
      /\ shown[w] \in Shapes /\ shown \in [Workers -> Shapes]
  BY DEF TypeOK
<1>3. SelectAfter[part] \in {"status", "nodes", "notes", "trail", "none"}
  BY <1>1 DEF SelectAfter
<1>4. r \in Requests /\ r.stage = "exporting" /\ r.case = c /\ r.next = SelectAfter[part]
  <2>1. request[w] \in [stage: {"exporting"}, case: Cases,
                        next: {"status", "nodes", "notes", "trail", "none"}]
    BY <1>1, <1>2 DEF Requests, Idle
  <2>2. r \in [stage: {"exporting"}, case: Cases,
               next: {"status", "nodes", "notes", "trail", "none"}]
    BY <1>3, <2>1
  <2>3. QED
    BY <1>3, <2>1, <2>2 DEF Requests
<1>5. /\ status[c] \in Statuses /\ NodesOf(c) \in SUBSET Gids
      /\ notes[c] \in SUBSET Nat /\ trail[c] \in Seq(Events)
  BY <1>1 DEF TypeOK, Existing, NodesOf
<1>6. /\ s \in Shapes
      /\ s.status = IF part = "status" THEN status[c] ELSE shown[w].status
      /\ s.nodes = IF part = "nodes" THEN NodesOf(c) ELSE shown[w].nodes
      /\ s.notes = IF part = "notes" THEN notes[c] ELSE shown[w].notes
      /\ s.trail = IF part = "trail" THEN trail[c] ELSE shown[w].trail
  <2> HIDE DEF c
  <2>1. CASE part = "status"
    BY <1>2, <1>5, <2>1 DEF Selected
  <2>2. CASE part = "nodes"
    BY <1>2, <1>5, <2>2 DEF Selected
  <2>3. CASE part = "notes"
    BY <1>2, <1>5, <2>3 DEF Selected
  <2>4. CASE part = "trail"
    BY <1>2, <1>5, <2>4 DEF Selected
  <2>5. QED
    BY <1>1, <2>1, <2>2, <2>3, <2>4
<1>7. request' = [request EXCEPT ![w] = r] /\ shown' = [shown EXCEPT ![w] = s]
      /\ UNCHANGED caseVars
  BY DEF Select
<1> HIDE DEF r, s
<1>8. QED
  BY <1>1, <1>2, <1>4, <1>6, <1>7

-----------------------------------------------------------------------------
(* Writes.                                                                 *)

\* A request is committed with an event of its case, and is over.
Committed(w, e) ==
  LET c == request[w].case
  IN  /\ c \in Existing /\ e \in Events
      /\ trail' \in [Cases -> Seq(Events)]
      /\ trail'[c] = Append(trail[c], e)
      /\ \A d \in Cases \ {c} : trail'[d] = trail[d]
      /\ request' \in [Workers -> Requests]
      /\ request'[w] = Idle /\ request[w].stage \in Writing
      /\ \A v \in Workers \ {w} : request'[v] = request[v]
      /\ shown' = shown

LEMMA CommitStep ==
  ASSUME TypeOK, CasesExist, NEW w \in Workers, request[w].stage \in Writing,
         NEW e \in Events, Commit(w, e)
  PROVE  Committed(w, e)
<1> DEFINE c == request[w].case
<1>1. c \in Existing /\ c \in Cases
  BY DEF CasesExist, Writing, Existing
<1>2. trail \in [Cases -> Seq(Events)] /\ Append(trail[c], e) \in Seq(Events)
  BY <1>1, EventAppended DEF TypeOK
<1>3. /\ trail' = [trail EXCEPT ![c] = Append(trail[c], e)]
      /\ request' = [request EXCEPT ![w] = Idle] /\ shown' = shown
  BY DEF Commit
<1> HIDE DEF c
<1>4. request \in [Workers -> Requests]
  BY DEF TypeOK
<1>5. QED
  BY <1>1, <1>2, <1>3, <1>4, IdleTyped DEF Committed, c

LEMMA AddNodesStep ==
  ASSUME TypeOK, CasesExist, RowsAreBounded, NEW w \in Workers, AddNodes(w)
  PROVE  LET c == request[w].case
             gids == request[w].added
         IN  /\ request[w].stage = "adding" /\ c \in Cases /\ gids \in SUBSET Gids
             /\ gids \cap NodesOf(c) = {}
             /\ rows' \in WithNodes(c, gids)
             /\ Committed(w, Event("nodes_added", gids, "new"))
             /\ status' = status /\ notes' = notes
<1>1. /\ request[w].stage = "adding" /\ request[w].case \in Cases
      /\ request[w].added \in SUBSET Gids
  BY RequestFields DEF AddNodes, TypeOK
<1>2. Event("nodes_added", request[w].added, "new") \in Events
  BY <1>1, EventTyped
<1>3. Committed(w, Event("nodes_added", request[w].added, "new"))
  BY <1>1, <1>2, CommitStep DEF AddNodes, Writing
<1>4. QED
  BY <1>1, <1>3 DEF AddNodes

LEMMA RemoveNodeStep ==
  ASSUME TypeOK, CasesExist, NEW w \in Workers, RemoveNode(w)
  PROVE  LET gids == IF request[w].found = {} THEN {} ELSE {request[w].gid}
         IN  /\ request[w].stage = "removing" /\ request[w].case \in Cases
             /\ request[w].gid \in Gids /\ gids \in SUBSET Gids
             /\ DOMAIN rows' = DOMAIN rows \ request[w].found
             /\ \A r \in DOMAIN rows' : rows'[r] = rows[r]
             /\ rows' \in [DOMAIN rows' -> Cases \X Gids]
             /\ Committed(w, Event("node_removed", gids, "new"))
             /\ status' = status /\ notes' = notes
<1> DEFINE gids == IF request[w].found = {} THEN {} ELSE {request[w].gid}
<1>1. /\ request[w].stage = "removing" /\ request[w].case \in Cases
      /\ request[w].gid \in Gids
  BY RequestFields DEF RemoveNode, TypeOK
<1>2. gids \in SUBSET Gids
  BY <1>1
<1> HIDE DEF gids
<1>3. Event("node_removed", gids, "new") \in Events
  BY <1>2, EventTyped
<1>4. Committed(w, Event("node_removed", gids, "new"))
  BY <1>1, <1>3, CommitStep DEF RemoveNode, Writing, gids
<1>5. /\ DOMAIN rows' = DOMAIN rows \ request[w].found
      /\ \A r \in DOMAIN rows' : rows'[r] = rows[r]
      /\ rows' \in [DOMAIN rows' -> Cases \X Gids]
  BY DEF RemoveNode, TypeOK
<1>6. QED
  BY <1>1, <1>2, <1>4, <1>5 DEF RemoveNode, gids

LEMMA ChangeStatusStep ==
  ASSUME TypeOK, CasesExist, NEW w \in Workers, ChangeStatus(w)
  PROVE  LET c == request[w].case
         IN  /\ request[w].stage = "changing" /\ c \in Cases
             /\ request[w].from \in Statuses /\ request[w].to \in Statuses
             /\ status' \in [Cases -> Statuses \cup {"absent"}]
             /\ status'[c] = IF request[w].to = request[w].from THEN status[c] ELSE request[w].to
             /\ \A d \in Cases \ {c} : status'[d] = status[d]
             /\ Committed(w, Event("status_changed", {}, request[w].to))
             /\ rows' = rows /\ notes' = notes
<1>1. /\ request[w].stage = "changing" /\ request[w].case \in Cases
      /\ request[w].from \in Statuses /\ request[w].to \in Statuses
  BY RequestFields DEF ChangeStatus, TypeOK
<1>2. Event("status_changed", {}, request[w].to) \in Events
  BY <1>1, EventTyped
<1>3. Committed(w, Event("status_changed", {}, request[w].to))
  BY <1>1, <1>2, CommitStep DEF ChangeStatus, Writing
<1>4. QED
  BY <1>1, <1>3 DEF ChangeStatus, TypeOK

LEMMA AddNoteStep ==
  ASSUME TypeOK, CasesExist, NEW w \in Workers, AddNote(w)
  PROVE  LET c == request[w].case
         IN  /\ request[w].stage = "noting" /\ c \in Cases
             /\ notes' \in [Cases -> SUBSET Nat]
             /\ notes'[c] = notes[c] \cup {Len(trail[c]) + 1}
             /\ \A d \in Cases \ {c} : notes'[d] = notes[d]
             /\ Committed(w, Event("note_added", {}, "new"))
             /\ rows' = rows /\ status' = status
<1>1. request[w].stage = "noting" /\ request[w].case \in Cases
  BY RequestFields DEF AddNote, TypeOK
<1>2. Event("note_added", {}, "new") \in Events
  BY EventTyped
<1>3. Committed(w, Event("note_added", {}, "new"))
  BY <1>1, <1>2, CommitStep DEF AddNote, Writing
<1>4. Len(trail[request[w].case]) + 1 \in Nat
  BY <1>1, LenProperties DEF TypeOK
<1>5. QED
  BY <1>1, <1>3, <1>4 DEF AddNote, TypeOK

\* A case comes into being with its nodes, perhaps a note, and the event of that.
Created(c, gids) ==
  /\ c \in Cases \ Existing /\ gids \in SUBSET Gids
  /\ rows' \in WithNodes(c, gids)
  /\ status' \in [Cases -> Statuses \cup {"absent"}] /\ status'[c] = "new"
  /\ notes' \in [Cases -> SUBSET Nat] /\ notes'[c] \in {{}, {1}}
  /\ trail' \in [Cases -> Seq(Events)]
  /\ trail'[c] = <<Event("created", gids, "new")>>
  /\ \A d \in Cases \ {c} :
       status'[d] = status[d] /\ notes'[d] = notes[d] /\ trail'[d] = trail[d]
  /\ request' = request /\ shown' = shown
  /\ Existing' = Existing \cup {c}

LEMMA CreateStep ==
  ASSUME TypeOK, NEW w \in Workers, CreateInvestigation(w)
  PROVE  \E c \in Cases, gids \in SUBSET Gids : Created(c, gids)
<1>1. PICK c \in Cases \ Existing, gids \in SUBSET Gids, note \in SUBSET {1} :
        /\ status' = [status EXCEPT ![c] = "new"]
        /\ rows' \in WithNodes(c, gids)
        /\ notes' = [notes EXCEPT ![c] = note]
        /\ trail' = [trail EXCEPT ![c] = <<Event("created", gids, "new")>>]
        /\ UNCHANGED <<request, shown>>
  BY DEF CreateInvestigation
<1>2. "new" \in Statuses /\ "new" # "absent"
  BY EventTyped
<1>3. <<Event("created", gids, "new")>> \in Seq(Events)
  BY CreationTells
<1>4. note \in {{}, {1}} /\ note \in SUBSET Nat
  <2>1. CASE 1 \in note
    <3>1. \A i : i \in note <=> i \in {1}
      BY <2>1
    <3>2. note = {1}
      BY <3>1
    <3>3. QED
      BY <3>2
  <2>2. CASE 1 \notin note
    <3>1. \A i : i \notin note
      BY <2>2
    <3>2. note = {}
      BY <3>1
    <3>3. QED
      BY <3>2
  <2>3. QED
    BY <2>1, <2>2
<1>5. /\ status' \in [Cases -> Statuses \cup {"absent"}] /\ status'[c] = "new"
      /\ \A d \in Cases \ {c} : status'[d] = status[d]
  BY <1>1, <1>2 DEF TypeOK
<1>6. Existing' = Existing \cup {c}
  BY <1>2, <1>5 DEF Existing
<1>7. /\ notes' \in [Cases -> SUBSET Nat] /\ notes'[c] = note
      /\ \A d \in Cases \ {c} : notes'[d] = notes[d]
  BY <1>1, <1>4 DEF TypeOK
<1>8. /\ trail' \in [Cases -> Seq(Events)]
      /\ trail'[c] = <<Event("created", gids, "new")>>
      /\ \A d \in Cases \ {c} : trail'[d] = trail[d]
  BY <1>1, <1>3 DEF TypeOK
<1>9. request' = request /\ shown' = shown /\ rows' \in WithNodes(c, gids)
  BY <1>1
<1>10. Created(c, gids)
  BY <1>4, <1>5, <1>6, <1>7, <1>8, <1>9 DEF Created
<1>11. QED
  BY <1>10

-----------------------------------------------------------------------------
(* The types, the numbers of the rows, and a node once in a case.          *)

ShownTyped ==
  shown \in [Workers -> [status: Statuses, nodes: SUBSET Gids, notes: SUBSET Nat,
                         trail: Seq(Events)]]

\* A request that ends leaves everything else as it is.
LEMMA EndStep ==
  ASSUME TypeOK, NEW w \in Workers, RollBack(w) \/ Send(w)
  PROVE  /\ request' = [request EXCEPT ![w] = Idle] /\ UNCHANGED caseVars
         /\ request' \in [Workers -> Requests] /\ request'[w] = Idle
         /\ \A v \in Workers \ {w} : request'[v] = request[v] /\ shown'[v] = shown[v]
         /\ ShownTyped'
<1>1. request' = [request EXCEPT ![w] = Idle] /\ UNCHANGED caseVars
  BY DEF RollBack, Send
<1>2. request' \in [Workers -> Requests] /\ request'[w] = Idle
  BY <1>1, IdleTyped DEF TypeOK
<1>3. NothingShown \in [status: Statuses, nodes: SUBSET Gids, notes: SUBSET Nat,
                        trail: Seq(Events)]
  <2>1. << >> \in Seq(Events) /\ "new" \in Statuses
    BY InvestigationsAssumption
  <2>2. QED
    BY <2>1 DEF NothingShown
<1> HIDE DEF NothingShown
<1>4. \/ shown' = shown
      \/ shown' = [shown EXCEPT ![w] = NothingShown]
  BY DEF RollBack, Send
<1>5. ShownTyped' /\ \A v \in Workers \ {w} : shown'[v] = shown[v]
  BY <1>3, <1>4, ZenonT(30) DEF TypeOK, ShownTyped
<1>6. QED
  BY <1>1, <1>2, <1>5 DEF TypeOK

\* No case is deleted.
LEMMA CasesRemain ==
  ASSUME TypeOK, CasesExist, NEW w \in Workers, Write(w) \/ Export(w)
  PROVE  Existing \subseteq Existing'
<1>1. CASE UNCHANGED status
  BY <1>1 DEF Existing
<1>2. CASE ChangeStatus(w)
  <2>1. /\ request[w].to \in Statuses /\ "absent" \notin Statuses
        /\ status'[request[w].case] \in {status[request[w].case], request[w].to}
        /\ \A d \in Cases \ {request[w].case} : status'[d] = status[d]
    BY <1>2, ChangeStatusStep, InvestigationsAssumption
  <2>2. QED
    BY <2>1 DEF Existing
<1>3. CASE CreateInvestigation(w)
  BY <1>3, CreateStep DEF Created
<1>4. QED
  BY <1>1, <1>2, <1>3
     DEF Write, Export, ReadForAdd, ReadForRemove, ReadForStatus, ReadForNote, Begin, AddNodes,
         RemoveNode, AddNote, RollBack, StartExport, Select, Send, caseVars

LEMMA StepTyped ==
  ASSUME TypeOK, CasesExist, RowsAreBounded, NEW w \in Workers, Write(w) \/ Export(w)
  PROVE  TypeOK' /\ RowsAreBounded'
<1> USE DEF ShownTyped
<1>1. CASE ReadForAdd(w) \/ ReadForRemove(w) \/ ReadForStatus(w) \/ ReadForNote(w) \/ StartExport(w)
  <2>1. PICK r : Begun(w, r) /\ request' = [request EXCEPT ![w] = r] /\ UNCHANGED <<caseVars, shown>>
    BY <1>1, ReadingsBegin
  <2>2. r \in Requests
    BY <2>1 DEF Begun
  <2>3. QED
    BY <2>1, <2>2 DEF TypeOK, RowsAreBounded, caseVars
<1>2. CASE AddNodes(w)
  <2>1. /\ DOMAIN rows' \subseteq Nat \ {0} /\ rows' \in [DOMAIN rows' -> Cases \X Gids]
        /\ RowsAreBounded'
    BY <1>2, AddNodesStep, RowsAdded
  <2>2. QED
    BY <1>2, <2>1, AddNodesStep DEF TypeOK, Committed
<1>3. CASE RemoveNode(w)
  <2>1. DOMAIN rows' \subseteq DOMAIN rows
    BY <1>3, RemoveNodeStep
  <2>2. DOMAIN rows' \subseteq Nat \ {0} /\ rows' \in [DOMAIN rows' -> Cases \X Gids]
    BY <1>3, <2>1, RemoveNodeStep DEF TypeOK
  <2>3. RowsAreBounded'
    BY <2>1 DEF RowsAreBounded
  <2>4. QED
    BY <1>3, <2>2, <2>3, RemoveNodeStep DEF TypeOK, Committed
<1>4. CASE ChangeStatus(w)
  <2>1. TypeOK'
    BY <1>4, ChangeStatusStep DEF TypeOK, Committed
  <2>2. QED
    BY <1>4, <2>1, ChangeStatusStep DEF RowsAreBounded
<1>5. CASE AddNote(w)
  <2>1. TypeOK'
    BY <1>5, AddNoteStep DEF TypeOK, Committed
  <2>2. QED
    BY <1>5, <2>1, AddNoteStep DEF RowsAreBounded
<1>6. CASE RollBack(w) \/ Send(w)
  BY <1>6, EndStep DEF TypeOK, RowsAreBounded, caseVars
<1>7. CASE CreateInvestigation(w)
  <2>1. PICK c \in Cases, gids \in SUBSET Gids : Created(c, gids)
    BY <1>7, CreateStep
  <2>2. /\ DOMAIN rows' \subseteq Nat \ {0} /\ rows' \in [DOMAIN rows' -> Cases \X Gids]
        /\ RowsAreBounded'
    BY <2>1, RowsAdded DEF Created
  <2>3. QED
    BY <2>1, <2>2 DEF TypeOK, Created
<1>8. CASE Select(w)
  BY <1>8, SelectStep DEF TypeOK, RowsAreBounded, caseVars
<1>9. QED
  BY <1>1, <1>2, <1>3, <1>4, <1>5, <1>6, <1>7, <1>8 DEF Write, Export

LEMMA StepCasesExist ==
  ASSUME TypeOK, CasesExist, RowsAreBounded, NEW w \in Workers, Write(w) \/ Export(w)
  PROVE  CasesExist'
<1>1. Existing \subseteq Existing'
  BY CasesRemain
<1>2. \A v \in Workers : request'[v].stage # "idle" => request'[v].case \in Existing'
  <2>1. CASE ReadForAdd(w) \/ ReadForRemove(w) \/ ReadForStatus(w) \/ ReadForNote(w) \/ StartExport(w)
    <3>1. PICK r : Begun(w, r) /\ request' = [request EXCEPT ![w] = r]
      BY <2>1, ReadingsBegin
    <3>2. QED
      BY <1>1, <3>1 DEF Begun, CasesExist, TypeOK
  <2>2. CASE RollBack(w) \/ Send(w)
    BY <1>1, <2>2, EndStep, IdleTyped DEF CasesExist
  <2>3. CASE Select(w)
    BY <1>1, <2>3, SelectStep DEF CasesExist
  <2>4. ASSUME NEW e, Committed(w, e)
        PROVE  \A v \in Workers : request'[v].stage # "idle" => request'[v].case \in Existing'
    BY <1>1, <2>4, IdleTyped DEF CasesExist, Committed
  <2>5. CASE AddNodes(w) \/ RemoveNode(w) \/ ChangeStatus(w) \/ AddNote(w)
    BY <2>4, <2>5, AddNodesStep, RemoveNodeStep, ChangeStatusStep, AddNoteStep
  <2>6. CASE CreateInvestigation(w)
    BY <1>1, <2>6, CreateStep DEF Created, CasesExist
  <2>7. QED
    BY <2>1, <2>2, <2>3, <2>5, <2>6 DEF Write, Export
<1>3. \A r \in DOMAIN rows' : rows'[r][1] \in Existing'
  <2>1. CASE UNCHANGED rows
    BY <1>1, <2>1 DEF CasesExist
  <2>2. CASE AddNodes(w)
    <3> DEFINE c == request[w].case
               gids == request[w].added
    <3>1. c \in Cases /\ gids \in SUBSET Gids /\ rows' \in WithNodes(c, gids) /\ c \in Existing
      BY <2>2, AddNodesStep DEF Committed
    <3>2. /\ \A r \in DOMAIN rows : rows'[r] = rows[r]
          /\ \A r \in DOMAIN rows' \ DOMAIN rows : \E g \in gids : rows'[r] = <<c, g>>
      BY <3>1, RowsAdded
    <3> HIDE DEF c, gids
    <3>3. QED
      BY <1>1, <3>1, <3>2 DEF CasesExist
  <2>3. CASE RemoveNode(w)
    BY <1>1, <2>3, RemoveNodeStep DEF CasesExist
  <2>4. CASE CreateInvestigation(w)
    <3>1. PICK c \in Cases, gids \in SUBSET Gids : Created(c, gids)
      BY <2>4, CreateStep
    <3>2. /\ \A r \in DOMAIN rows : rows'[r] = rows[r]
          /\ \A r \in DOMAIN rows' \ DOMAIN rows : \E g \in gids : rows'[r] = <<c, g>>
      BY <3>1, RowsAdded DEF Created
    <3>3. QED
      BY <1>1, <3>1, <3>2 DEF CasesExist, Created
  <2>5. QED
    BY <2>1, <2>2, <2>3, <2>4
       DEF Write, Export, ReadForAdd, ReadForRemove, ReadForStatus, ReadForNote, Begin,
           ChangeStatus, AddNote, RollBack, StartExport, Select, Send, caseVars
<1>4. QED
  BY <1>2, <1>3 DEF CasesExist

\* A case that does not exist has no nodes.
LEMMA NoNodesBefore ==
  ASSUME CasesExist, NEW c \in Cases \ Existing
  PROVE  NodesOf(c) = {}
  BY DEF CasesExist, NodesOf

\* New rows for nodes that the case does not have keep every node single.
LEMMA StillNoNodeTwice ==
  ASSUME TypeOK, RowsAreBounded, NoNodeTwice, NEW c \in Cases, NEW gids \in SUBSET Gids,
         gids \cap NodesOf(c) = {}, rows' \in WithNodes(c, gids)
  PROVE  NoNodeTwice'
<1>1. /\ \A r \in DOMAIN rows : rows'[r] = rows[r]
      /\ \A r \in DOMAIN rows' \ DOMAIN rows : \E g \in gids : rows'[r] = <<c, g>>
      /\ \A r, s \in DOMAIN rows' \ DOMAIN rows : rows'[r] = rows'[s] => r = s
  BY RowsAdded
<1>2. \A r \in DOMAIN rows, g \in gids : rows[r] # <<c, g>>
  BY DEF NodesOf
<1>3. QED
  BY <1>1, <1>2 DEF NoNodeTwice

LEMMA StepNoNodeTwice ==
  ASSUME TypeOK, CasesExist, RowsAreBounded, NoNodeTwice, NEW w \in Workers, Write(w) \/ Export(w)
  PROVE  NoNodeTwice'
<1>1. CASE UNCHANGED rows
  BY <1>1 DEF NoNodeTwice
<1>2. CASE AddNodes(w)
  BY <1>2, AddNodesStep, StillNoNodeTwice
<1>3. CASE RemoveNode(w)
  BY <1>3, RemoveNodeStep DEF NoNodeTwice
<1>4. CASE CreateInvestigation(w)
  <2>1. PICK c \in Cases, gids \in SUBSET Gids : Created(c, gids)
    BY <1>4, CreateStep
  <2>2. gids \cap NodesOf(c) = {}
    BY <2>1, NoNodesBefore DEF Created
  <2>3. QED
    BY <2>1, <2>2, StillNoNodeTwice DEF Created
<1>5. QED
  BY <1>1, <1>2, <1>3, <1>4
     DEF Write, Export, ReadForAdd, ReadForRemove, ReadForStatus, ReadForNote, Begin,
         ChangeStatus, AddNote, RollBack, StartExport, Select, Send, caseVars

-----------------------------------------------------------------------------
(* Everything is explained by the trail, for any number of editors.        *)

\* A new event explains what it is about, beside what was explained before.
LEMMA NowExplained ==
  ASSUME NEW events \in Seq(Events), NEW e \in Events
  PROVE  /\ \A gids : NodesExplained(events, gids) /\ e.what \in {"created", "nodes_added"}
                        => NodesExplained(Append(events, e), gids \cup e.gids)
         /\ \A ids : NotesExplained(events, ids) /\ e.what \in {"created", "note_added"}
                        => NotesExplained(Append(events, e), ids \cup {Len(events) + 1})
         /\ e.what \in {"created", "status_changed"}
                        => StatusExplained(Append(events, e), e.to)
<1> DEFINE more == Append(events, e)
           n == Len(events) + 1
<1>1. /\ DOMAIN events \subseteq DOMAIN more /\ \A i \in DOMAIN events : more[i] = events[i]
      /\ n \in DOMAIN more /\ more[n] = e
  BY EventAppended
<1> HIDE DEF more, n
<1>2. QED
  BY <1>1 DEF NodesExplained, NotesExplained, StatusExplained, more, n

\* While a request takes a step, the others wait.
LEMMA OthersWait ==
  ASSUME TypeOK, CasesExist, RowsAreBounded, NEW w \in Workers, Write(w) \/ Export(w),
         NEW v \in Workers, v # w
  PROVE  request'[v] = request[v] /\ shown'[v] = shown[v]
<1>1. CASE ReadForAdd(w) \/ ReadForRemove(w) \/ ReadForStatus(w) \/ ReadForNote(w) \/ StartExport(w)
  <2>1. PICK r : request' = [request EXCEPT ![w] = r] /\ shown' = shown
    BY <1>1, ReadingsBegin
  <2>2. QED
    BY <2>1 DEF TypeOK
<1>2. CASE RollBack(w) \/ Send(w)
  BY <1>2, EndStep
<1>3. CASE AddNodes(w) \/ RemoveNode(w) \/ ChangeStatus(w) \/ AddNote(w)
  BY <1>3, AddNodesStep, RemoveNodeStep, ChangeStatusStep, AddNoteStep DEF Committed
<1>4. CASE Select(w)
  BY <1>4, SelectStep
<1>5. CASE CreateInvestigation(w)
  BY <1>5, CreateStep DEF Created
<1>6. QED
  BY <1>1, <1>2, <1>3, <1>4, <1>5 DEF Write, Export

\* The trail of a case only grows, an event at a time.
LEMMA TrailGrows ==
  ASSUME TypeOK, CasesExist, RowsAreBounded, NEW w \in Workers, Write(w) \/ Export(w),
         NEW c \in Existing
  PROVE  \/ trail'[c] = trail[c]
         \/ \E e \in Events : trail'[c] = Append(trail[c], e)
<1>0. c \in Cases
  BY DEF Existing
<1>1. CASE UNCHANGED trail
  BY <1>1
<1>2. ASSUME NEW e, Committed(w, e)
      PROVE  trail'[c] = trail[c] \/ \E f \in Events : trail'[c] = Append(trail[c], f)
  BY <1>0, <1>2 DEF Committed
<1>3. CASE AddNodes(w) \/ RemoveNode(w) \/ ChangeStatus(w) \/ AddNote(w)
  BY <1>2, <1>3, AddNodesStep, RemoveNodeStep, ChangeStatusStep, AddNoteStep
<1>4. CASE CreateInvestigation(w)
  BY <1>0, <1>4, CreateStep DEF Created
<1>5. QED
  BY <1>1, <1>3, <1>4
     DEF Write, Export, ReadForAdd, ReadForRemove, ReadForStatus, ReadForNote, Begin,
         RollBack, StartExport, Select, Send, caseVars

LEMMA ExplainedAfter ==
  ASSUME TypeOK, CasesExist, RowsAreBounded, NEW w \in Workers, Write(w) \/ Export(w),
         NEW c \in Existing
  PROVE  /\ \A gids : NodesExplained(trail[c], gids) => NodesExplained(trail'[c], gids)
         /\ \A ids : NotesExplained(trail[c], ids) => NotesExplained(trail'[c], ids)
         /\ \A to : StatusExplained(trail[c], to) => StatusExplained(trail'[c], to)
<1>1. trail[c] \in Seq(Events)
  BY DEF TypeOK, Existing
<1>2. QED
  BY <1>1, TrailGrows, StillExplained

LEMMA StepCasesExplained ==
  ASSUME TypeOK, CasesExist, RowsAreBounded, CasesAreExplained,
         NEW w \in Workers, Write(w) \/ Export(w)
  PROVE  CasesAreExplained'
<1> SUFFICES ASSUME NEW c \in Existing'
             PROVE  /\ NodesExplained(trail'[c], NodesOf(c)')
                    /\ NotesExplained(trail'[c], notes'[c])
                    /\ StatusExplained(trail'[c], status'[c])
  BY DEF CasesAreExplained, NodesExplained, NotesExplained, StatusExplained
<1>1. c \in Cases /\ trail[c] \in Seq(Events)
  BY DEF TypeOK, Existing
<1>2. c \in Existing =>
        /\ NodesExplained(trail[c], NodesOf(c)) /\ NodesExplained(trail'[c], NodesOf(c))
        /\ NotesExplained(trail[c], notes[c]) /\ NotesExplained(trail'[c], notes[c])
        /\ StatusExplained(trail[c], status[c]) /\ StatusExplained(trail'[c], status[c])
  BY ExplainedAfter DEF CasesAreExplained
<1>3. CASE UNCHANGED caseVars
  BY <1>2, <1>3 DEF caseVars, Existing, NodesOf
<1>4. CASE AddNodes(w)
  <2> DEFINE e == Event("nodes_added", request[w].added, "new")
  <2>1. PICK d \in Cases, gids \in SUBSET Gids :
          /\ d = request[w].case /\ gids = request[w].added /\ rows' \in WithNodes(d, gids)
          /\ Committed(w, e) /\ status' = status /\ notes' = notes
    BY <1>4, AddNodesStep
  <2>2. e.what = "nodes_added" /\ e.gids = gids
    BY <2>1, EventTyped
  <2>3. NodesOf(d)' = NodesOf(d) \cup gids /\ \A b \in Cases \ {d} : NodesOf(b)' = NodesOf(b)
    BY <2>1, NodesAdded
  <2> HIDE DEF e
  <2>4. c \in Existing
    BY <2>1 DEF Existing
  <2>5. CASE c = d
    <3>1. trail'[c] = Append(trail[c], e) /\ e \in Events
      BY <2>1, <2>5 DEF Committed
    <3>2. NodesExplained(trail'[c], NodesOf(c) \cup gids)
      BY <1>1, <1>2, <2>2, <2>4, <3>1, NowExplained
    <3>3. QED
      BY <1>2, <2>1, <2>3, <2>4, <2>5, <3>2
  <2>6. CASE c # d
    BY <1>1, <1>2, <2>1, <2>3, <2>4, <2>6
  <2>7. QED
    BY <2>5, <2>6
<1>5. CASE RemoveNode(w)
  <2>1. /\ DOMAIN rows' \subseteq DOMAIN rows /\ \A r \in DOMAIN rows' : rows'[r] = rows[r]
        /\ status' = status /\ notes' = notes
    BY <1>5, RemoveNodeStep
  <2>2. NodesOf(c)' \subseteq NodesOf(c) /\ c \in Existing
    BY <2>1 DEF NodesOf, Existing
  <2>3. NodesExplained(trail'[c], NodesOf(c)')
    BY <1>2, <2>2 DEF NodesExplained
  <2>4. QED
    BY <1>2, <2>1, <2>2, <2>3
<1>6. CASE ChangeStatus(w)
  <2> DEFINE d == request[w].case
             e == Event("status_changed", {}, request[w].to)
  <2>1. /\ d \in Existing /\ d \in Cases /\ request[w].to \in Statuses
        /\ status'[d] \in {status[d], request[w].to}
        /\ \A b \in Cases \ {d} : status'[b] = status[b]
        /\ Committed(w, e) /\ rows' = rows /\ notes' = notes
    BY <1>6, ChangeStatusStep DEF Committed
  <2>2. e.what = "status_changed" /\ e.to = request[w].to
    BY <2>1, EventTyped
  <2>3. NodesOf(c)' = NodesOf(c)
    BY <2>1 DEF NodesOf
  <2> HIDE DEF d, e
  <2>4. c \in Existing
    BY <1>1, <2>1 DEF Existing
  <2>5. StatusExplained(trail'[c], status'[c])
    <3>1. CASE c # d \/ status'[c] = status[c]
      BY <1>1, <1>2, <2>1, <2>4, <3>1
    <3>2. CASE c = d /\ status'[c] = request[w].to
      <4>1. trail'[c] = Append(trail[c], e) /\ e \in Events
        BY <2>1, <3>2 DEF Committed, d
      <4>2. StatusExplained(trail'[c], e.to)
        BY <1>1, <2>2, <2>4, <4>1, NowExplained
      <4>3. QED
        BY <2>2, <3>2, <4>2
    <3>3. QED
      BY <2>1, <3>1, <3>2
  <2>6. QED
    BY <1>2, <2>1, <2>3, <2>4, <2>5
<1>7. CASE AddNote(w)
  <2> DEFINE d == request[w].case
             e == Event("note_added", {}, "new")
  <2>1. /\ d \in Cases /\ notes'[d] = notes[d] \cup {Len(trail[d]) + 1}
        /\ \A b \in Cases \ {d} : notes'[b] = notes[b]
        /\ Committed(w, e) /\ rows' = rows /\ status' = status
    BY <1>7, AddNoteStep
  <2>2. e.what = "note_added"
    BY EventTyped
  <2>3. NodesOf(c)' = NodesOf(c) /\ c \in Existing
    BY <2>1 DEF NodesOf, Existing
  <2> HIDE DEF d, e
  <2>4. NotesExplained(trail'[c], notes'[c])
    <3>1. CASE c # d
      BY <1>1, <1>2, <2>1, <2>3, <3>1
    <3>2. CASE c = d
      <4>1. trail'[c] = Append(trail[c], e) /\ e \in Events
        BY <2>1, <3>2 DEF Committed, d
      <4>2. NotesExplained(trail'[c], notes[c] \cup {Len(trail[c]) + 1})
        BY <1>1, <1>2, <2>2, <2>3, <4>1, NowExplained
      <4>3. QED
        BY <2>1, <3>2, <4>2
    <3>3. QED
      BY <3>1, <3>2
  <2>5. QED
    BY <1>2, <2>1, <2>3, <2>4
<1>8. CASE CreateInvestigation(w)
  <2>1. PICK d \in Cases, gids \in SUBSET Gids : Created(d, gids)
    BY <1>8, CreateStep
  <2>2. NodesOf(d)' = NodesOf(d) \cup gids /\ \A b \in Cases \ {d} : NodesOf(b)' = NodesOf(b)
    BY <2>1, NodesAdded DEF Created
  <2>3. CASE c = d
    <3>1. NodesOf(c)' = gids
      BY <2>1, <2>2, <2>3, NoNodesBefore DEF Created
    <3>2. trail'[c] = <<Event("created", gids, "new")>> /\ status'[c] = "new" /\ notes'[c] \in {{}, {1}}
      BY <2>1, <2>3 DEF Created
    <3>3. /\ NodesExplained(<<Event("created", gids, "new")>>, gids)
          /\ NotesExplained(<<Event("created", gids, "new")>>, {})
          /\ NotesExplained(<<Event("created", gids, "new")>>, {1})
          /\ StatusExplained(<<Event("created", gids, "new")>>, "new")
      BY CreationTells
    <3>4. QED
      BY <3>1, <3>2, <3>3
  <2>4. CASE c # d
    BY <1>1, <1>2, <2>1, <2>2, <2>4 DEF Created
  <2>5. QED
    BY <2>3, <2>4
<1>9. QED
  BY <1>3, <1>4, <1>5, <1>6, <1>7, <1>8
     DEF Write, Export, ReadForAdd, ReadForRemove, ReadForStatus, ReadForNote, Begin,
         RollBack, StartExport, Select, Send

LEMMA StepReadingsExplained ==
  ASSUME TypeOK, CasesExist, RowsAreBounded, CasesAreExplained, ReadingsAreExplained,
         ExportIsExplained, NEW w \in Workers, Write(w) \/ Export(w)
  PROVE  ReadingsAreExplained' /\ ExportIsExplained'
<1> DEFINE Stands(v) ==
             /\ request[v].stage = "exporting" =>
                  LET events == trail[request[v].case]
                  IN  /\ request[v].next \in {"nodes", "notes", "trail"} =>
                           StatusExplained(events, shown[v].status)
                      /\ request[v].next \in {"notes", "trail"} =>
                           NodesExplained(events, shown[v].nodes)
                      /\ request[v].next = "trail" => NotesExplained(events, shown[v].notes)
             /\ Exported(v) =>
                  /\ NodesExplained(shown[v].trail, shown[v].nodes)
                  /\ NotesExplained(shown[v].trail, shown[v].notes)
                  /\ StatusExplained(shown[v].trail, shown[v].status)
<1>1. \A v \in Workers : Stands(v)
  BY DEF ReadingsAreExplained, ExportIsExplained
<1>2. ASSUME NEW v \in Workers, v # w PROVE Stands(v)'
  <2>1. request'[v] = request[v] /\ shown'[v] = shown[v]
    BY <1>2, OthersWait
  <2>2. CASE request[v].stage = "exporting"
    <3>1. request[v].case \in Existing
      BY <2>2 DEF CasesExist
    <3>2. /\ \A gids : NodesExplained(trail[request[v].case], gids)
                         => NodesExplained(trail'[request[v].case], gids)
          /\ \A ids : NotesExplained(trail[request[v].case], ids)
                         => NotesExplained(trail'[request[v].case], ids)
          /\ \A to : StatusExplained(trail[request[v].case], to)
                         => StatusExplained(trail'[request[v].case], to)
      BY <3>1, ExplainedAfter
    <3>3. Stands(v)
      BY <1>1
    <3>4. LET events == trail'[request'[v].case]
          IN  /\ request'[v].stage = "exporting"
              /\ request'[v].next \in {"nodes", "notes", "trail"} =>
                   StatusExplained(events, shown'[v].status)
              /\ request'[v].next \in {"notes", "trail"} =>
                   NodesExplained(events, shown'[v].nodes)
              /\ request'[v].next = "trail" => NotesExplained(events, shown'[v].notes)
              /\ request'[v].next = "none" =>
                   /\ NodesExplained(shown'[v].trail, shown'[v].nodes)
                   /\ NotesExplained(shown'[v].trail, shown'[v].notes)
                   /\ StatusExplained(shown'[v].trail, shown'[v].status)
      BY <2>1, <2>2, <3>2, <3>3 DEF Exported
    <3>5. QED
      BY <3>4 DEF Exported, NodesExplained, NotesExplained, StatusExplained
  <2>3. QED
    BY <2>1, <2>2 DEF Exported
<1>3. Stands(w)'
  <2>1. CASE ReadForAdd(w) \/ ReadForRemove(w) \/ ReadForStatus(w) \/ ReadForNote(w) \/ StartExport(w)
    <3>1. PICK r : Begun(w, r) /\ request' = [request EXCEPT ![w] = r]
      BY <2>1, ReadingsBegin
    <3>2. request'[w].stage = "exporting" => request'[w].next = "status"
      BY <3>1 DEF Begun, TypeOK
    <3>3. QED
      BY <3>2 DEF Exported
  <2>2. CASE RollBack(w) \/ Send(w)
    BY <2>2, EndStep, IdleTyped DEF Exported
  <2>3. CASE AddNodes(w) \/ RemoveNode(w) \/ ChangeStatus(w) \/ AddNote(w)
    <3>1. request'[w] = Idle
      BY <2>3, AddNodesStep, RemoveNodeStep, ChangeStatusStep, AddNoteStep DEF Committed
    <3>2. QED
      BY <3>1, IdleTyped DEF Exported
  <2>4. CASE Select(w)
    <3> DEFINE part == request[w].next
               c == request[w].case
    <3>1. /\ request[w].stage = "exporting" /\ c \in Existing
          /\ part \in {"status", "nodes", "notes", "trail"}
          /\ request'[w].stage = "exporting" /\ request'[w].case = c
          /\ request'[w].next = SelectAfter[part]
          /\ shown'[w].status = (IF part = "status" THEN status[c] ELSE shown[w].status)
          /\ shown'[w].nodes = (IF part = "nodes" THEN NodesOf(c) ELSE shown[w].nodes)
          /\ shown'[w].notes = (IF part = "notes" THEN notes[c] ELSE shown[w].notes)
          /\ shown'[w].trail = (IF part = "trail" THEN trail[c] ELSE shown[w].trail)
          /\ trail' = trail
      BY <2>4, SelectStep DEF caseVars
    <3>2. /\ NodesExplained(trail[c], NodesOf(c)) /\ NotesExplained(trail[c], notes[c])
          /\ StatusExplained(trail[c], status[c])
      BY <3>1 DEF CasesAreExplained
    <3>3. /\ part \in {"nodes", "notes", "trail"} => StatusExplained(trail[c], shown[w].status)
          /\ part \in {"notes", "trail"} => NodesExplained(trail[c], shown[w].nodes)
          /\ part = "trail" => NotesExplained(trail[c], shown[w].notes)
      BY <3>1 DEF ReadingsAreExplained
    <3> HIDE DEF part, c
    <3>4. CASE part = "status"
      BY <3>1, <3>2, <3>4 DEF SelectAfter, Exported, StatusExplained
    <3>5. CASE part = "nodes"
      BY <3>1, <3>2, <3>3, <3>5 DEF SelectAfter, Exported, StatusExplained, NodesExplained
    <3>6. CASE part = "notes"
      BY <3>1, <3>2, <3>3, <3>6
         DEF SelectAfter, Exported, StatusExplained, NodesExplained, NotesExplained
    <3>7. CASE part = "trail"
      BY <3>1, <3>2, <3>3, <3>7
         DEF SelectAfter, Exported, StatusExplained, NodesExplained, NotesExplained
    <3>8. QED
      BY <3>1, <3>4, <3>5, <3>6, <3>7
  <2>5. CASE CreateInvestigation(w)
    <3>1. PICK c \in Cases, gids \in SUBSET Gids : Created(c, gids)
      BY <2>5, CreateStep
    <3>2. request' = request /\ shown' = shown /\ \A d \in Existing : trail'[d] = trail[d]
      BY <3>1 DEF Created, Existing
    <3>3. Stands(w) /\ (request[w].stage = "exporting" => request[w].case \in Existing)
      BY <1>1 DEF CasesExist
    <3>4. QED
      BY <3>2, <3>3 DEF Exported, NodesExplained, NotesExplained, StatusExplained
  <2>6. QED
    BY <2>1, <2>2, <2>3, <2>4, <2>5 DEF Write, Export
<1>4. \A v \in Workers : Stands(v)'
  BY <1>2, <1>3
<1>5. QED
  BY <1>4 DEF ReadingsAreExplained, ExportIsExplained

-----------------------------------------------------------------------------
(* The trail tells the case, where there is one editor.                    *)

OneEditor == \A e, f \in Editors : e = f

ToldNodes(events) == {g \in Gids : Told(events, g)}

LEMMA ToldNodesAfter ==
  ASSUME NEW events \in Seq(Events), NEW e \in Events
  PROVE  /\ e.what = "nodes_added" =>
              ToldNodes(Append(events, e)) = ToldNodes(events) \cup e.gids
         /\ e.what = "node_removed" =>
              ToldNodes(Append(events, e)) = ToldNodes(events) \ e.gids
         /\ e.what \in {"status_changed", "note_added"} =>
              ToldNodes(Append(events, e)) = ToldNodes(events)
<1>1. e.gids \in SUBSET Gids
  BY DEF Events
<1>2. QED
  BY <1>1, ToldAfter DEF ToldNodes

\* What one thread is about to remove or to change, nobody else removes or changes;
\* and nodes that are added are not among those to be removed.
LEMMA StepEditsStand ==
  ASSUME TypeOK, CasesExist, RowsAreBounded, EditsStand, OneEditor,
         NEW w \in Workers, Write(w) \/ Export(w)
  PROVE  EditsStand'
<1> DEFINE Stands(v) ==
             /\ request[v].stage \in {"removing", "changing"} => v \in Editors
             /\ request[v].stage = "removing" =>
                  request[v].found \in
                    {{}, {r \in DOMAIN rows : rows[r] = <<request[v].case, request[v].gid>>}}
             /\ request[v].stage = "changing" => status[request[v].case] = request[v].from
<1> SUFFICES ASSUME NEW v \in Workers PROVE Stands(v)'
  BY DEF EditsStand
<1>1. Stands(v)
  BY DEF EditsStand
<1>2. CASE request'[v].stage \notin {"removing", "changing"}
  BY <1>2
<1>3. CASE request'[v] = request[v] /\ rows' = rows /\ status' = status
  BY <1>1, <1>3
<1>4. CASE ReadForAdd(w) \/ ReadForRemove(w) \/ ReadForStatus(w) \/ ReadForNote(w) \/ StartExport(w)
  <2>1. PICK r : Begun(w, r) /\ request' = [request EXCEPT ![w] = r] /\ rows' = rows /\ status' = status
    BY <1>4, ReadingsBegin DEF caseVars
  <2>2. CASE v = w
    <3>1. request'[v] = r
      BY <2>1, <2>2 DEF TypeOK
    <3>2. QED
      BY <2>1, <2>2, <3>1 DEF Begun
  <2>3. CASE v # w
    BY <1>3, <2>1, <2>3 DEF TypeOK
  <2>4. QED
    BY <2>2, <2>3
<1>5. CASE Select(w) \/ RollBack(w) \/ Send(w)
  <2>1. CASE v = w
    BY <1>2, <1>5, <2>1, SelectStep, EndStep, IdleTyped
  <2>2. CASE v # w
    BY <1>3, <1>5, <2>2, OthersWait, SelectStep, EndStep DEF caseVars
  <2>3. QED
    BY <2>1, <2>2
<1>6. CASE AddNodes(w) \/ RemoveNode(w) \/ ChangeStatus(w) \/ AddNote(w)
  <2>1. CASE v = w
    BY <1>2, <1>6, <2>1, AddNodesStep, RemoveNodeStep, ChangeStatusStep, AddNoteStep, IdleTyped
       DEF Committed
  <2>2. CASE v # w /\ AddNodes(w)
    <3>1. PICK d \in Cases, gids \in SUBSET Gids :
            /\ gids \cap NodesOf(d) = {} /\ rows' \in WithNodes(d, gids) /\ status' = status
      BY <2>2, AddNodesStep
    <3>2. /\ DOMAIN rows \subseteq DOMAIN rows' /\ \A r \in DOMAIN rows : rows'[r] = rows[r]
          /\ \A r \in DOMAIN rows' \ DOMAIN rows : \E g \in gids : rows'[r] = <<d, g>>
      BY <3>1, RowsAdded
    <3>3. request'[v] = request[v]
      BY <2>2, OthersWait
    <3>4. ASSUME request[v].stage = "removing", request[v].found # {}
          PROVE  request[v].found =
                   {r \in DOMAIN rows' : rows'[r] = <<request[v].case, request[v].gid>>}
      <4>1. request[v].gid \in Gids
        BY <3>4, RequestFields DEF TypeOK
      <4>2. request[v].found = {r \in DOMAIN rows : rows[r] = <<request[v].case, request[v].gid>>}
        BY <1>1, <3>4
      <4>3. request[v].case = d => request[v].gid \in NodesOf(d)
        BY <3>4, <4>1, <4>2 DEF NodesOf
      <4>4. \A r \in DOMAIN rows' \ DOMAIN rows : rows'[r] # <<request[v].case, request[v].gid>>
        BY <3>1, <3>2, <4>3
      <4>5. QED
        BY <3>2, <4>2, <4>4
    <3>5. QED
      BY <1>1, <3>1, <3>3, <3>4
  <2>3. CASE v # w /\ (RemoveNode(w) \/ ChangeStatus(w))
    <3>1. w \in Editors
      BY <2>3, RemoveNodeStep, ChangeStatusStep DEF EditsStand
    <3>2. v \notin Editors
      BY <2>3, <3>1 DEF OneEditor
    <3>3. request'[v] = request[v]
      BY <2>3, OthersWait
    <3>4. QED
      BY <1>1, <1>2, <3>2, <3>3
  <2>4. CASE v # w /\ AddNote(w)
    BY <1>3, <2>4, OthersWait, AddNoteStep
  <2>5. QED
    BY <1>6, <2>1, <2>2, <2>3, <2>4
<1>7. CASE CreateInvestigation(w)
  <2>1. PICK d \in Cases, gids \in SUBSET Gids : Created(d, gids)
    BY <1>7, CreateStep
  <2>2. /\ DOMAIN rows \subseteq DOMAIN rows' /\ \A r \in DOMAIN rows : rows'[r] = rows[r]
        /\ \A r \in DOMAIN rows' \ DOMAIN rows : \E g \in gids : rows'[r] = <<d, g>>
    BY <2>1, RowsAdded DEF Created
  <2>3. request'[v] = request[v] /\ \A b \in Cases \ {d} : status'[b] = status[b]
    BY <2>1 DEF Created
  <2>4. request[v].stage \in {"removing", "changing"} =>
          request[v].case # d /\ request[v].case \in Cases
    BY <2>1 DEF CasesExist, Created, Existing
  <2>5. ASSUME request[v].stage = "removing"
        PROVE  {r \in DOMAIN rows' : rows'[r] = <<request[v].case, request[v].gid>>} =
                 {r \in DOMAIN rows : rows[r] = <<request[v].case, request[v].gid>>}
    <3>1. \A r \in DOMAIN rows' \ DOMAIN rows : rows'[r] # <<request[v].case, request[v].gid>>
      BY <2>2, <2>4, <2>5
    <3>2. QED
      BY <2>2, <3>1
  <2>6. QED
    BY <1>1, <2>3, <2>4, <2>5
<1>8. QED
  BY <1>4, <1>5, <1>6, <1>7 DEF Write, Export

LEMMA StepTrailTells ==
  ASSUME TypeOK, CasesExist, RowsAreBounded, EditsStand, TrailTellsCase,
         NEW w \in Workers, Write(w) \/ Export(w)
  PROVE  TrailTellsCase'
<1> SUFFICES ASSUME NEW c \in Existing'
             PROVE  /\ NodesOf(c)' = ToldNodes(trail'[c])
                    /\ ToldStatus(trail'[c], status'[c])
  BY DEF TrailTellsCase, ToldNodes, Told, ToldStatus
<1>1. c \in Cases /\ trail[c] \in Seq(Events)
  BY DEF TypeOK, Existing
<1>2. c \in Existing => NodesOf(c) = ToldNodes(trail[c]) /\ ToldStatus(trail[c], status[c])
  BY DEF TrailTellsCase, ToldNodes
<1>3. CASE UNCHANGED caseVars
  BY <1>2, <1>3 DEF caseVars, Existing, NodesOf
<1>4. CASE AddNodes(w)
  <2> DEFINE e == Event("nodes_added", request[w].added, "new")
  <2>1. PICK d \in Cases, gids \in SUBSET Gids :
          /\ d = request[w].case /\ gids = request[w].added /\ rows' \in WithNodes(d, gids)
          /\ Committed(w, e) /\ status' = status
    BY <1>4, AddNodesStep
  <2>2. e.what = "nodes_added" /\ e.gids = gids
    BY <2>1, EventTyped
  <2>3. NodesOf(d)' = NodesOf(d) \cup gids /\ \A b \in Cases \ {d} : NodesOf(b)' = NodesOf(b)
    BY <2>1, NodesAdded
  <2> HIDE DEF e
  <2>4. c \in Existing
    BY <2>1 DEF Existing
  <2>5. CASE c = d
    <3>1. trail'[c] = Append(trail[c], e) /\ e \in Events
      BY <2>1, <2>5 DEF Committed
    <3>2. ToldNodes(trail'[c]) = ToldNodes(trail[c]) \cup gids
      BY <1>1, <2>2, <3>1, ToldNodesAfter
    <3>3. ToldStatus(trail'[c], status[c])
      BY <1>1, <1>2, <2>2, <2>4, <3>1, ToldStatusAfter
    <3>4. QED
      BY <1>2, <2>1, <2>3, <2>4, <2>5, <3>2, <3>3
  <2>6. CASE c # d
    BY <1>1, <1>2, <2>1, <2>3, <2>4, <2>6 DEF Committed
  <2>7. QED
    BY <2>5, <2>6
<1>5. CASE RemoveNode(w)
  <2> DEFINE gids == IF request[w].found = {} THEN {} ELSE {request[w].gid}
             e == Event("node_removed", gids, "new")
  <2>1. PICK d \in Cases, g \in Gids : d = request[w].case /\ g = request[w].gid
    BY <1>5, RemoveNodeStep
  <2>2. /\ gids \in SUBSET Gids /\ DOMAIN rows' = DOMAIN rows \ request[w].found
        /\ \A r \in DOMAIN rows' : rows'[r] = rows[r]
        /\ Committed(w, e) /\ status' = status
        /\ request[w].found \in {{}, {r \in DOMAIN rows : rows[r] = <<d, g>>}}
    BY <1>5, <2>1, RemoveNodeStep DEF EditsStand
  <2>3. e.what = "node_removed" /\ e.gids = gids
    BY <2>2, EventTyped
  <2>4. NodesOf(c)' = IF c = d THEN NodesOf(c) \ gids ELSE NodesOf(c)
    <3>1. CASE request[w].found = {}
      BY <2>2, <3>1 DEF NodesOf
    <3>2. CASE request[w].found # {}
      <4>1. request[w].found = {r \in DOMAIN rows : rows[r] = <<d, g>>} /\ gids = {g}
        BY <2>1, <2>2, <3>2
      <4>2. ASSUME NEW h \in Gids
            PROVE  (\E r \in DOMAIN rows' : rows'[r] = <<c, h>>) <=>
                     /\ \E r \in DOMAIN rows : rows[r] = <<c, h>>
                     /\ ~(c = d /\ h = g)
        BY <2>2, <4>1
      <4>3. QED
        BY <4>1, <4>2 DEF NodesOf
    <3>3. QED
      BY <3>1, <3>2
  <2> HIDE DEF gids, e
  <2>5. c \in Existing
    BY <2>2 DEF Existing
  <2>6. CASE c = d
    <3>1. trail'[c] = Append(trail[c], e) /\ e \in Events
      BY <2>1, <2>2, <2>6 DEF Committed
    <3>2. ToldNodes(trail'[c]) = ToldNodes(trail[c]) \ gids
      BY <1>1, <2>3, <3>1, ToldNodesAfter
    <3>3. ToldStatus(trail'[c], status[c])
      BY <1>1, <1>2, <2>3, <2>5, <3>1, ToldStatusAfter
    <3>4. QED
      BY <1>2, <2>2, <2>4, <2>5, <2>6, <3>2, <3>3
  <2>7. CASE c # d
    BY <1>1, <1>2, <2>1, <2>2, <2>4, <2>5, <2>7 DEF Committed
  <2>8. QED
    BY <2>6, <2>7
<1>6. CASE ChangeStatus(w)
  <2> DEFINE e == Event("status_changed", {}, request[w].to)
  <2>1. PICK d \in Cases : d = request[w].case
    BY <1>6, ChangeStatusStep
  <2>2. /\ d \in Existing /\ request[w].to \in Statuses
        /\ status'[d] = request[w].to
        /\ \A b \in Cases \ {d} : status'[b] = status[b]
        /\ Committed(w, e) /\ rows' = rows
    BY <1>6, <2>1, ChangeStatusStep DEF Committed, EditsStand
  <2>3. e.what = "status_changed" /\ e.to = request[w].to
    BY <2>2, EventTyped
  <2>4. NodesOf(c)' = NodesOf(c)
    BY <2>2 DEF NodesOf
  <2> HIDE DEF e
  <2>5. c \in Existing
    BY <1>1, <2>2 DEF Existing
  <2>6. CASE c = d
    <3>1. trail'[c] = Append(trail[c], e) /\ e \in Events
      BY <2>1, <2>2, <2>6 DEF Committed
    <3>2. ToldNodes(trail'[c]) = ToldNodes(trail[c])
      BY <1>1, <2>3, <3>1, ToldNodesAfter
    <3>3. ToldStatus(trail'[c], status'[c])
      BY <1>1, <2>2, <2>3, <2>6, <3>1, ToldStatusAfter
    <3>4. QED
      BY <1>2, <2>4, <2>5, <3>2, <3>3
  <2>7. CASE c # d
    BY <1>1, <1>2, <2>1, <2>2, <2>4, <2>5, <2>7 DEF Committed
  <2>8. QED
    BY <2>6, <2>7
<1>7. CASE AddNote(w)
  <2> DEFINE e == Event("note_added", {}, "new")
  <2>1. Committed(w, e) /\ rows' = rows /\ status' = status
    BY <1>7, AddNoteStep
  <2>2. e.what = "note_added"
    BY EventTyped
  <2>3. NodesOf(c)' = NodesOf(c) /\ c \in Existing
    BY <2>1 DEF NodesOf, Existing
  <2> HIDE DEF e
  <2>4. trail'[c] = trail[c] \/ (trail'[c] = Append(trail[c], e) /\ e \in Events)
    BY <1>1, <2>1 DEF Committed
  <2>5. ToldNodes(trail'[c]) = ToldNodes(trail[c])
    BY <1>1, <2>2, <2>4, ToldNodesAfter
  <2>6. ToldStatus(trail'[c], status[c])
    BY <1>1, <1>2, <2>2, <2>3, <2>4, ToldStatusAfter
  <2>7. QED
    BY <1>2, <2>1, <2>3, <2>5, <2>6
<1>8. CASE CreateInvestigation(w)
  <2>1. PICK d \in Cases, gids \in SUBSET Gids : Created(d, gids)
    BY <1>8, CreateStep
  <2>2. NodesOf(d)' = NodesOf(d) \cup gids /\ \A b \in Cases \ {d} : NodesOf(b)' = NodesOf(b)
    BY <2>1, NodesAdded DEF Created
  <2>3. CASE c = d
    <3>1. NodesOf(c)' = gids
      BY <2>1, <2>2, <2>3, NoNodesBefore DEF Created
    <3>2. trail'[c] = <<Event("created", gids, "new")>> /\ status'[c] = "new"
      BY <2>1, <2>3 DEF Created
    <3>3. /\ ToldNodes(<<Event("created", gids, "new")>>) = gids
          /\ ToldStatus(<<Event("created", gids, "new")>>, "new")
      BY CreationTells DEF ToldNodes
    <3>4. QED
      BY <3>1, <3>2, <3>3
  <2>4. CASE c # d
    BY <1>1, <1>2, <2>1, <2>2, <2>4 DEF Created
  <2>5. QED
    BY <2>3, <2>4
<1>9. QED
  BY <1>3, <1>4, <1>5, <1>6, <1>7, <1>8
     DEF Write, Export, ReadForAdd, ReadForRemove, ReadForStatus, ReadForNote, Begin,
         RollBack, StartExport, Select, Send

-----------------------------------------------------------------------------
(* Theorems.                                                               *)

Inductive ==
  TypeOK /\ CasesExist /\ RowsAreBounded /\ NoNodeTwice
  /\ CasesAreExplained /\ ReadingsAreExplained /\ ExportIsExplained

LEMMA InitialState == Init => Inductive /\ EditsStand /\ TrailTellsCase
<1> SUFFICES ASSUME Init PROVE Inductive /\ EditsStand /\ TrailTellsCase
  OBVIOUS
<1>1. /\ rows = << >> /\ DOMAIN rows = {} /\ Existing = {}
      /\ \A w \in Workers : request[w] = Idle /\ shown[w] = NothingShown
  BY DEF Init, Existing
<1>2. TypeOK
  <2>1. NothingShown \in [status: Statuses, nodes: SUBSET Gids, notes: SUBSET Nat,
                          trail: Seq(Events)]
    <3>1. << >> \in Seq(Events) /\ "new" \in Statuses
      BY InvestigationsAssumption
    <3>2. QED
      BY <3>1 DEF NothingShown
  <2> HIDE DEF NothingShown
  <2>2. status \in [Cases -> Statuses \cup {"absent"}] /\ notes \in [Cases -> SUBSET Nat]
    BY DEF Init
  <2>3. trail \in [Cases -> Seq(Events)]
    BY DEF Init
  <2>4. request \in [Workers -> Requests]
    BY IdleTyped DEF Init
  <2>5. shown \in [Workers -> [status: Statuses, nodes: SUBSET Gids, notes: SUBSET Nat,
                               trail: Seq(Events)]]
    BY <2>1 DEF Init
  <2>6. QED
    BY <1>1, <2>2, <2>3, <2>4, <2>5 DEF TypeOK
<1>3. CasesExist /\ RowsAreBounded /\ NoNodeTwice
  BY <1>1, IdleTyped DEF CasesExist, RowsAreBounded, NoNodeTwice
<1>4. CasesAreExplained /\ TrailTellsCase
  BY <1>1 DEF CasesAreExplained, TrailTellsCase
<1>5. ReadingsAreExplained /\ ExportIsExplained /\ EditsStand
  BY <1>1, IdleTyped DEF ReadingsAreExplained, ExportIsExplained, EditsStand, Exported
<1>6. QED
  BY <1>2, <1>3, <1>4, <1>5 DEF Inductive

LEMMA InductiveStep == Inductive /\ [Next]_investigationVars => Inductive'
<1> SUFFICES ASSUME Inductive, [Next]_investigationVars PROVE Inductive'
  OBVIOUS
<1>1. CASE Next
  <2>1. PICK w \in Workers : Write(w) \/ Export(w)
    BY <1>1 DEF Next
  <2>2. TypeOK' /\ RowsAreBounded'
    BY <2>1, StepTyped DEF Inductive
  <2>3. CasesExist' /\ NoNodeTwice'
    BY <2>1, StepCasesExist, StepNoNodeTwice DEF Inductive
  <2>4. CasesAreExplained'
    BY <2>1, StepCasesExplained DEF Inductive
  <2>5. ReadingsAreExplained' /\ ExportIsExplained'
    BY <2>1, StepReadingsExplained DEF Inductive
  <2>6. QED
    BY <2>2, <2>3, <2>4, <2>5 DEF Inductive
<1>2. CASE UNCHANGED investigationVars
  BY <1>2 DEF Inductive, investigationVars, caseVars, TypeOK, CasesExist, Existing, RowsAreBounded,
              NoNodeTwice, CasesAreExplained, ReadingsAreExplained, ExportIsExplained, Exported,
              NodesOf, NodesExplained, NotesExplained, StatusExplained
<1>3. QED
  BY <1>1, <1>2

\* Every variable keeps its type, whatever the requests do between their reads and their
\* commits; rows and requests are of cases that exist, and the store of a case is
\* explained by its trail.
THEOREM InvestigationsInvariant == Spec => []Inductive
<1>1. QED
  BY InitialState, InductiveStep, PTL DEF Spec

\* The types alone.
THEOREM InvestigationsTyped == Spec => []TypeOK
<1>1. Inductive => TypeOK
  BY DEF Inductive
<1>2. QED
  BY <1>1, InvestigationsInvariant, PTL

\* No case has a node twice, although two requests that add it both read that it is not
\* there: the unique constraint makes the later of them fail.
THEOREM NodesAreSingle == Spec => []NoNodeTwice
<1>1. Inductive => NoNodeTwice
  BY DEF Inductive
<1>2. QED
  BY <1>1, InvestigationsInvariant, PTL

\* An export explains each node, note and status in it, for any number of threads that
\* add, remove and change meanwhile: the trail is read last, and it only grows.
THEOREM ExportsExplainThemselves == Spec => []ExportIsExplained
<1>1. Inductive => ExportIsExplained
  BY DEF Inductive
<1>2. QED
  BY <1>1, InvestigationsInvariant, PTL

\* Where one thread at a time removes nodes and changes the status, and any number add,
\* the trail of a case tells its nodes and its status.
THEOREM TrailsTellCases ==
  ASSUME OneEditor
  PROVE  Spec => []TrailTellsCase
<1>1. Inductive /\ EditsStand /\ TrailTellsCase /\ [Next]_investigationVars
        => EditsStand' /\ TrailTellsCase'
  <2> SUFFICES ASSUME Inductive, EditsStand, TrailTellsCase, [Next]_investigationVars
               PROVE  EditsStand' /\ TrailTellsCase'
    OBVIOUS
  <2>1. CASE Next
    <3>1. PICK w \in Workers : Write(w) \/ Export(w)
      BY <2>1 DEF Next
    <3>2. EditsStand'
      BY <3>1, StepEditsStand DEF Inductive
    <3>3. TrailTellsCase'
      BY <3>1, StepTrailTells DEF Inductive
    <3>4. QED
      BY <3>2, <3>3
  <2>2. CASE UNCHANGED investigationVars
    BY <2>2 DEF investigationVars, caseVars, EditsStand, TrailTellsCase, Existing, NodesOf, Told,
                ToldStatus
  <2>3. QED
    BY <2>1, <2>2
<1>2. QED
  BY <1>1, InitialState, InvestigationsInvariant, PTL DEF Spec

=============================================================================
