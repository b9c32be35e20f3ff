---------------------------- MODULE Investigations ----------------------------
(***************************************************************************)
(* The local cases of the analysts: their nodes, notes, status and audit   *)
(* trail (repository/repositories.py, api/routes/investigations.py).       *)
(*                                                                         *)
(* A request of the API first reads, which locks nothing, and writes       *)
(* everything in one transaction at its commit.  Each is a step, and other *)
(* requests come between.  Node rows are deleted by their number, and      *)
(* SQLite gives the number of a deleted last row to the next one.  Events  *)
(* are kept in the order of their commits; the date that orders an export  *)
(* is taken earlier, and is left out.                                      *)
(***************************************************************************)
EXTENDS Integers, Sequences, FiniteSets

CONSTANTS
  Cases,    \* names of investigations, made up when one is created
  Gids,     \* nodes of the graph
  Statuses, \* INVESTIGATION_STATUSES
  Workers,  \* request threads of the API processes
  Editors,  \* those that remove nodes and change the status; the others only add
  MaxEvents \* bound: a case with so many audit events gets no further request

ASSUME InvestigationsAssumption ==
  /\ "new" \in Statuses /\ "absent" \notin Statuses
  /\ IsFiniteSet(Gids)
  /\ Editors \subseteq Workers
  /\ MaxEvents \in Nat

VARIABLES
  rows,    \* investigation_nodes: the node of each row number
  status,  \* investigations.status, "absent" before the case is created
  notes,   \* investigation_notes of each case, named by the number of their event
  trail,   \* audit_events of each case, in the order of their commits
  request, \* what each thread is doing
  shown    \* what the export of each thread has read

caseVars == <<rows, status, notes, trail>>
investigationVars == <<caseVars, request, shown>>

Existing == {c \in Cases : status[c] # "absent"}

NodesOf(c) == {g \in Gids : \E r \in DOMAIN rows : rows[r] = <<c, g>>}

\* An audit event: the nodes it says were added or removed, or the new status.
Event(what, gids, to) == [what |-> what, gids |-> gids, to |-> to]

Idle == [stage |-> "idle"]

NothingShown == [status |-> "new", nodes |-> {}, notes |-> {}, trail |-> << >>]

Init ==
  /\ rows = << >>
  /\ status = [c \in Cases |-> "absent"]
  /\ notes = [c \in Cases |-> {}]
  /\ trail = [c \in Cases |-> << >>]
  /\ request = [w \in Workers |-> Idle]
  /\ shown = [w \in Workers |-> NothingShown]

-----------------------------------------------------------------------------
(* What a request reads.                                                   *)

\* A request for a case that exists; one for another is answered with 404.
Begin(w, c, what) ==
  /\ request[w] = Idle
  /\ c \in Existing
  /\ Len(trail[c]) < MaxEvents
  /\ request' = [request EXCEPT ![w] = what]
  /\ UNCHANGED <<caseVars, shown>>

\* add_investigation_nodes keeps the nodes that the case does not have.
ReadForAdd(w) ==
  \E c \in Cases, gids \in SUBSET Gids \ {{}} :
    Begin(w, c, [stage |-> "adding", case |-> c, added |-> gids \ NodesOf(c)])

\* remove_investigation_node keeps the row of the node, if there is one.
ReadForRemove(w) ==
  \E c \in Cases, g \in Gids :
    LET found == {r \in DOMAIN rows : rows[r] = <<c, g>>}
    IN  /\ w \in Editors
        /\ Begin(w, c, [stage |-> "removing", case |-> c, gid |-> g, found |-> found])

\* update_investigation_status keeps the status it reads.
ReadForStatus(w) ==
  \E c \in Cases, to \in Statuses :
    /\ w \in Editors
    /\ Begin(w, c, [stage |-> "changing", case |-> c, from |-> status[c], to |-> to])

ReadForNote(w) ==
  \E c \in Cases : Begin(w, c, [stage |-> "noting", case |-> c])

Writing == {"adding", "removing", "changing", "noting"}

-----------------------------------------------------------------------------
(* What it writes, in one transaction.                                     *)

\* SQLite's next row number, without AUTOINCREMENT.
LastRow == CHOOSE n \in DOMAIN rows \cup {0} : \A r \in DOMAIN rows : r <= n

\* The table after the nodes have been inserted for the case, in some order.
WithNodes(c, gids) ==
  LET new == LastRow + 1 .. LastRow + Cardinality(gids)
  IN  {[r \in DOMAIN rows \cup new |-> IF r \in new THEN <<c, order[r]>> ELSE rows[r]] :
         order \in {f \in [new -> gids] : \A g \in gids : \E r \in new : f[r] = g}}

\* The request is committed with its event, and answered.
Commit(w, event) ==
  /\ trail' = [trail EXCEPT ![request[w].case] = Append(@, event)]
  /\ request' = [request EXCEPT ![w] = Idle]
  /\ UNCHANGED shown

\* Variation: the nodes are committed, and the request dies before its event is.
AddNodesUnaudited(w) ==
  /\ request[w].stage = "adding"
  /\ rows' \in WithNodes(request[w].case, request[w].added)
  /\ request' = [request EXCEPT ![w] = Idle]
  /\ UNCHANGED <<status, notes, trail, shown>>

\* No other request has added one of the nodes meanwhile (uq_investigation_node_gid).
AddNodes(w) ==
  /\ request[w].stage = "adding"
  /\ request[w].added \cap NodesOf(request[w].case) = {}
  /\ rows' \in WithNodes(request[w].case, request[w].added)
  /\ Commit(w, Event("nodes_added", request[w].added, "new"))
  /\ UNCHANGED <<status, notes>>

\* The row is deleted by its number; where there is none, that is not an error.
RemoveNode(w) ==
  /\ request[w].stage = "removing"
  /\ rows' = [r \in DOMAIN rows \ request[w].found |-> rows[r]]
  /\ Commit(w, Event("node_removed",
                     IF request[w].found = {} THEN {} ELSE {request[w].gid}, "new"))
  /\ UNCHANGED <<status, notes>>

\* A status equal to the one that was read is reported but not written.
ChangeStatus(w) ==
  /\ request[w].stage = "changing"
  /\ status' = IF request[w].to = request[w].from THEN status
               ELSE [status EXCEPT ![request[w].case] = request[w].to]
  /\ Commit(w, Event("status_changed", {}, request[w].to))
  /\ UNCHANGED <<rows, notes>>

AddNote(w) ==
  /\ request[w].stage = "noting"
  /\ notes' = [notes EXCEPT ![request[w].case] = @ \cup {Len(trail[request[w].case]) + 1}]
  /\ Commit(w, Event("note_added", {}, "new"))
  /\ UNCHANGED <<rows, status>>

\* The transaction is rolled back: a node has been added meanwhile, the lock was not
\* to be had in time, or the process has died.
RollBack(w) ==
  /\ request[w].stage \in Writing
  /\ request' = [request EXCEPT ![w] = Idle]
  /\ UNCHANGED <<caseVars, shown>>

\* A case is created with its first nodes. Nobody knows its name before the commit, so
\* this is one step. An approved action creates a case with a note, too, and the event
\* of the creation is the only one it writes.
CreateInvestigation(w) ==
  \E c \in Cases \ Existing, gids \in SUBSET Gids, note \in SUBSET {1} :
    /\ request[w] = Idle
    /\ status' = [status EXCEPT ![c] = "new"]
    /\ rows' \in WithNodes(c, gids)
    /\ notes' = [notes EXCEPT ![c] = note]
    /\ trail' = [trail EXCEPT ![c] = <<Event("created", gids, "new")>>]
    /\ UNCHANGED <<request, shown>>

-----------------------------------------------------------------------------
(* export_investigation: four SELECTs, each of them sees the last commit.   *)

\* The next SELECT after each (variation: the events come with the case).
EventsWithCase == [status |-> "trail", trail |-> "nodes", nodes |-> "notes", notes |-> "none"]

SelectAfter == [status |-> "nodes", nodes |-> "notes", notes |-> "trail", trail |-> "none"]

Selected(c, part) ==
  CASE part = "status" -> status[c]
    [] part = "nodes" -> NodesOf(c)
    [] part = "notes" -> notes[c]
    [] part = "trail" -> trail[c]

StartExport(w) ==
  \E c \in Existing :
    /\ request[w] = Idle
    /\ request' = [request EXCEPT ![w] = [stage |-> "exporting", case |-> c, next |-> "status"]]
    /\ UNCHANGED <<caseVars, shown>>

Select(w) ==
  /\ request[w].stage = "exporting"
  /\ request[w].next \in DOMAIN SelectAfter
  /\ shown' = [shown EXCEPT ![w][request[w].next] = Selected(request[w].case, request[w].next)]
  /\ request' = [request EXCEPT ![w].next = SelectAfter[@]]
  /\ UNCHANGED caseVars

Exported(w) == request[w].stage = "exporting" /\ request[w].next = "none"

\* The export is sent.
Send(w) ==
  /\ Exported(w)
  /\ request' = [request EXCEPT ![w] = Idle]
  /\ shown' = [shown EXCEPT ![w] = NothingShown]
  /\ UNCHANGED caseVars

Write(w) ==
  \/ ReadForAdd(w) \/ ReadForRemove(w) \/ ReadForStatus(w) \/ ReadForNote(w)
  \/ AddNodes(w) \/ RemoveNode(w) \/ ChangeStatus(w) \/ AddNote(w)
  \/ RollBack(w) \/ CreateInvestigation(w)

Export(w) == StartExport(w) \/ Select(w) \/ Send(w)

Next == \E w \in Workers : Write(w) \/ Export(w)

Spec == Init /\ [][Next]_investigationVars

-----------------------------------------------------------------------------
(* Properties.                                                             *)

Events == [what: {"created", "nodes_added", "node_removed", "status_changed", "note_added"},
           gids: SUBSET Gids, to: Statuses]

Requests ==
  {Idle}
  \cup [stage: {"adding"}, case: Cases, added: SUBSET Gids]
  \cup [stage: {"removing"}, case: Cases, gid: Gids, found: SUBSET Nat]
  \cup [stage: {"changing"}, case: Cases, from: Statuses, to: Statuses]
  \cup [stage: {"noting"}, case: Cases]
  \cup [stage: {"exporting"}, case: Cases, next: {"status", "nodes", "notes", "trail", "none"}]

\* The type of every variable.
TypeOK ==
  /\ DOMAIN rows \subseteq Nat \ {0}
  /\ rows \in [DOMAIN rows -> Cases \X Gids]
  /\ status \in [Cases -> Statuses \cup {"absent"}]
  /\ notes \in [Cases -> SUBSET Nat]
  /\ trail \in [Cases -> Seq(Events)]
  /\ request \in [Workers -> Requests]
  /\ shown \in [Workers -> [status: Statuses, nodes: SUBSET Gids, notes: SUBSET Nat,
                            trail: Seq(Events)]]

\* What a trail says of a node: that it is in the case if the last event about it added it.
Told(events, g) ==
  \E i \in DOMAIN events :
    /\ events[i].what \in {"created", "nodes_added"} /\ g \in events[i].gids
    /\ \A j \in i + 1 .. Len(events) : events[j].what = "node_removed" => g \notin events[j].gids

\* ... and of the status: it is that of the last event about it.
ToldStatus(events, to) ==
  \E i \in DOMAIN events :
    /\ events[i].what \in {"created", "status_changed"} /\ events[i].to = to
    /\ \A j \in i + 1 .. Len(events) : events[j].what # "status_changed"

\* The audit trail of a case tells its nodes and its status, whatever other requests
\* were between the read of a request and its commit. It holds where one thread at a
\* time removes nodes and changes the status, while any number add.
TrailTellsCase ==
  \A c \in Existing :
    /\ NodesOf(c) = {g \in Gids : Told(trail[c], g)}
    /\ ToldStatus(trail[c], status[c])

\* What explains, among the events of a trail, nodes, notes and a status.
NodesExplained(events, gids) ==
  \A g \in gids : \E i \in DOMAIN events :
    events[i].what \in {"created", "nodes_added"} /\ g \in events[i].gids

NotesExplained(events, ids) ==
  \A i \in ids : i \in DOMAIN events /\ events[i].what \in {"created", "note_added"}

StatusExplained(events, to) ==
  \E i \in DOMAIN events :
    events[i].what \in {"created", "status_changed"} /\ events[i].to = to

\* An export explains itself: each node, each note and the status in it has an event
\* in it, although it is put together from four snapshots.
ExportIsExplained ==
  \A w \in Workers : Exported(w) =>
    /\ NodesExplained(shown[w].trail, shown[w].nodes)
    /\ NotesExplained(shown[w].trail, shown[w].notes)
    /\ StatusExplained(shown[w].trail, shown[w].status)

-----------------------------------------------------------------------------
(* Why they hold: the parts of the inductive invariants.                   *)

\* Rows and requests are of cases that exist.
CasesExist ==
  /\ \A r \in DOMAIN rows : rows[r][1] \in Existing
  /\ \A w \in Workers : request[w].stage # "idle" => request[w].case \in Existing

\* There are finitely many rows, so there is a last one.
RowsAreBounded == \E n \in Nat : \A r \in DOMAIN rows : r <= n

\* No case has a node twice (uq_investigation_node_gid).
NoNodeTwice == \A r, s \in DOMAIN rows : rows[r] = rows[s] => r = s

\* What is stored of a case has an event in its trail.
CasesAreExplained ==
  \A c \in Existing :
    /\ NodesExplained(trail[c], NodesOf(c))
    /\ NotesExplained(trail[c], notes[c])
    /\ StatusExplained(trail[c], status[c])

\* What an export has read has an event in the trail it is going to read.
ReadingsAreExplained ==
  \A w \in Workers : request[w].stage = "exporting" =>
    LET events == trail[request[w].case]
    IN  /\ request[w].next \in {"nodes", "notes", "trail"} =>
             StatusExplained(events, shown[w].status)
        /\ request[w].next \in {"notes", "trail"} => NodesExplained(events, shown[w].nodes)
        /\ request[w].next = "trail" => NotesExplained(events, shown[w].notes)

\* Where there is one editor, what it has read to remove or to change is still so.
EditsStand ==
  \A w \in Workers :
    /\ request[w].stage \in {"removing", "changing"} => w \in Editors
    /\ request[w].stage = "removing" =>
         request[w].found \in
           {{}, {r \in DOMAIN rows : rows[r] = <<request[w].case, request[w].gid>>}}
    /\ request[w].stage = "changing" => status[request[w].case] = request[w].from

=============================================================================
