----------------------------- MODULE AutoMonitor -----------------------------
(***************************************************************************)
(* The background replay: AgenticAutoMonitor of services/auto_monitor.py.  *)
(* Every API process runs one loop that scans the source day by day, one   *)
(* day per tick, and prepares the actions of the alerts it finds.  The     *)
(* processes share one database; a claim row per day decides which of them *)
(* scans it.  Within a tick the source and the list of scans are read      *)
(* once, the scan and the proposals of each alert are separate             *)
(* transactions, and the process may die, or a step fail, between any two. *)
(***************************************************************************)
EXTENDS Integers, Sequences, FiniteSets

CONSTANTS
  Days,        \* days that may come to be in the source
  Processes,   \* API processes
  AlertsOf,    \* the alerts the rules raise for a day
  MaxLegacy,   \* bound: scans made before there were claims
  MaxScans,    \* bound: scans, beyond which no manual ones are made
  MaxMishaps,  \* bound: failures of a step and deaths, over all processes
  MaxCrashes,  \* bound: deaths among them
  NoDay        \* the day of a monitor that is not scanning

ASSUME MonitorAssumption ==
  /\ Days \subseteq Nat
  /\ IsFiniteSet(Days)
  /\ NoDay \notin Days
  /\ DOMAIN AlertsOf = Days
  /\ {MaxLegacy, MaxScans, MaxMishaps, MaxCrashes} \subseteq Nat

VARIABLES
  source,     \* days with transactions in the source
  scans,      \* monitoring_scans, in order of creation
  claims,     \* auto_monitor_claims: the claimed days
  prepared,   \* alerts that have their three actions
  monitor,    \* where each process's tick stands and what it has read
  state,      \* the state each process displays
  lastError,  \* the last error it displays, or "none"
  journal,    \* the failures each process has recorded, in order
  faults,     \* failures so far (bound)
  crashes     \* deaths so far (bound)

database == <<scans, claims, prepared>>
display == <<state, lastError, journal>>
bounds == <<faults, crashes>>
vars == <<source, database, monitor, display, bounds>>

-----------------------------------------------------------------------------
AutoScans == {n \in DOMAIN scans : scans[n].actor = "auto-monitor"}

Scanned == {scans[n].day : n \in AutoScans}

\* An alert is named by its scan and what the rules found that day.
AlertsIn(n) == {n} \X AlertsOf[scans[n].day]

Unprepared == UNION {AlertsIn(n) : n \in AutoScans} \ prepared

Waiting == [stage |-> "waiting", days |-> {}, scanned |-> {}, todo |-> {},
            day |-> NoDay]

Down == [Waiting EXCEPT !.stage = "down"]

Goto(p, m) == monitor' = [monitor EXCEPT ![p] = m]

\* Variations a change of the code could bring in are kept beside the
\* definition they vary, each breaking a property: here the error stays.
ShowKeepingError(p, s) ==
  /\ state' = [state EXCEPT ![p] = s]
  /\ UNCHANGED <<lastError, journal>>

Show(p, s) ==
  /\ state' = [state EXCEPT ![p] = s]
  /\ lastError' = [lastError EXCEPT ![p] = "none"]
  /\ UNCHANGED journal

\* The database may come from a release without claims, in which two monitors
\* could scan one day.
Init ==
  /\ source \in SUBSET Days
  /\ scans \in UNION {[1 .. n -> [day: source, actor: {"auto-monitor"}]] : n \in 0 .. MaxLegacy}
  /\ claims = {}
  /\ prepared = {}
  /\ monitor = [p \in Processes |-> Down]
  /\ state = [p \in Processes |-> "starting"]
  /\ lastError = [p \in Processes |-> "none"]
  /\ journal = [p \in Processes |-> << >>]
  /\ faults = 0
  /\ crashes = 0

-----------------------------------------------------------------------------
(* The environment.                                                        *)

\* Later transactions arrive, of a later day or an earlier one.
Arrive(d) ==
  /\ d \notin source
  /\ source' = source \cup {d}
  /\ UNCHANGED <<database, monitor, display, bounds>>

\* POST /scans: a manual replay of any day between the first and the last of the
\* source takes no claim and may repeat a day.
ManualScan(d) ==
  /\ \E first, last \in source : first <= d /\ d <= last
  /\ Len(scans) < MaxScans
  /\ scans' = Append(scans, [day |-> d, actor |-> "rules-engine"])
  /\ UNCHANGED <<source, claims, prepared, monitor, display, bounds>>

\* create_schema, with the claims of scans made before there were any.
Start(p) ==
  /\ monitor[p].stage = "down"
  /\ claims' = claims \cup Scanned
  /\ Goto(p, Waiting)
  /\ state' = [state EXCEPT ![p] = "starting"]
  /\ lastError' = [lastError EXCEPT ![p] = "none"]
  /\ UNCHANGED <<source, scans, prepared, journal, bounds>>

Crash(p) ==
  /\ monitor[p].stage # "down"
  /\ crashes < MaxCrashes /\ faults + crashes < MaxMishaps
  /\ crashes' = crashes + 1
  /\ Goto(p, Down)
  /\ UNCHANGED <<source, database, display, faults>>

-----------------------------------------------------------------------------
(* tick_once.                                                              *)

ReadSource(p) ==
  /\ monitor[p].stage = "waiting"
  /\ source # {}
  /\ Goto(p, [monitor[p] EXCEPT !.stage = "listing", !.days = source])
  /\ UNCHANGED <<source, database, display, bounds>>

\* Variation: no repair.
ListScansOnly(p) ==
  /\ monitor[p].stage = "listing"
  /\ Goto(p, [monitor[p] EXCEPT !.stage = "repairing", !.scanned = Scanned])
  /\ UNCHANGED <<source, database, display, bounds>>

\* One read tells both the alerts to repair and the days already scanned.
ListScans(p) ==
  /\ monitor[p].stage = "listing"
  /\ Goto(p, [monitor[p] EXCEPT !.stage = "repairing", !.scanned = Scanned,
                                !.todo = Unprepared])
  /\ UNCHANGED <<source, database, display, bounds>>

\* propose_actions for one alert, of an older scan or of the one just made;
\* an alert that has its actions by now keeps them.
Propose(p, alert) ==
  /\ monitor[p].stage \in {"repairing", "preparing"}
  /\ alert \in monitor[p].todo
  /\ prepared' = prepared \cup {alert}
  /\ Goto(p, [monitor[p] EXCEPT !.todo = @ \ {alert}])
  /\ UNCHANGED <<source, scans, claims, display, bounds>>

\* Variation: the replay keeps a position instead of a set of days.
MissingFromPosition(p) ==
  {d \in monitor[p].days : \A e \in monitor[p].scanned : d > e}

Missing(p) == monitor[p].days \ monitor[p].scanned

\* Nothing to scan: one pending case is enriched, if there is one.
CatchUp(p) ==
  /\ monitor[p].stage = "repairing"
  /\ monitor[p].todo = {}
  /\ Missing(p) = {}
  /\ \E s \in {"enriching", "caught_up"} : Show(p, s)
  /\ Goto(p, [Waiting EXCEPT !.days = monitor[p].days])
  /\ UNCHANGED <<source, database, bounds>>

\* The earliest day that was not scanned when the scans were listed; run_scan
\* derives its alerts, and may ask the model, before anything is written.
PickDay(p) ==
  /\ monitor[p].stage = "repairing"
  /\ monitor[p].todo = {}
  /\ \E d \in Missing(p) :
       /\ \A e \in Missing(p) : d <= e
       /\ Goto(p, [monitor[p] EXCEPT !.stage = "claiming", !.day = d])
  /\ Show(p, "scanning")
  /\ UNCHANGED <<source, database, bounds>>

\* Variations: no claim, or a claim committed before the scan.
CommitScanUnclaimed(p) ==
  LET d == monitor[p].day
      n == Len(scans) + 1
  IN  /\ monitor[p].stage = "claiming"
      /\ scans' = Append(scans, [day |-> d, actor |-> "auto-monitor"])
      /\ Goto(p, [monitor[p] EXCEPT !.stage = "preparing", !.todo = {n} \X AlertsOf[d]])
      /\ UNCHANGED <<source, claims, prepared, display, bounds>>

CommitClaimFirst(p) ==
  LET d == monitor[p].day
  IN  /\ monitor[p].stage = "claiming"
      /\ IF d \in claims
           THEN /\ scans' = Append(scans, [day |-> d, actor |-> "auto-monitor"])
                /\ Goto(p, [monitor[p] EXCEPT !.stage = "preparing"])
           ELSE UNCHANGED <<scans, monitor>>
      /\ claims' = claims \cup {d}
      /\ UNCHANGED <<source, prepared, display, bounds>>

\* create_monitoring_scan: the claim, the scan and its alerts are one
\* transaction, and the claim is inserted first.
CommitScan(p) ==
  LET d == monitor[p].day
      n == Len(scans) + 1
  IN  /\ monitor[p].stage = "claiming"
      /\ d \notin claims
      /\ claims' = claims \cup {d}
      /\ scans' = Append(scans, [day |-> d, actor |-> "auto-monitor"])
      /\ Goto(p, [monitor[p] EXCEPT !.stage = "preparing", !.todo = {n} \X AlertsOf[d]])
      /\ UNCHANGED <<source, prepared, display, bounds>>

\* IntegrityError: another process has claimed the day.
LoseClaim(p) ==
  /\ monitor[p].stage = "claiming"
  /\ monitor[p].day \in claims
  /\ Goto(p, [monitor[p] EXCEPT !.stage = "lost"])
  /\ UNCHANGED <<source, database, display, bounds>>

\* The winner's scan is returned, and left to the winner to prepare.
AcceptWinner(p) ==
  /\ monitor[p].stage = "lost"
  /\ monitor[p].day \in Scanned
  /\ Show(p, "running")
  /\ Goto(p, [Waiting EXCEPT !.days = monitor[p].days])
  /\ UNCHANGED <<source, database, bounds>>

\* Variation: one day too many counted.
FinishScanEarly(p) ==
  /\ monitor[p].stage = "preparing"
  /\ monitor[p].todo = {}
  /\ Show(p, IF Cardinality(monitor[p].scanned) + 2 >= Cardinality(monitor[p].days)
               THEN "caught_up" ELSE "running")
  /\ Goto(p, [Waiting EXCEPT !.days = monitor[p].days])
  /\ UNCHANGED <<source, database, bounds>>

FinishScan(p) ==
  /\ monitor[p].stage = "preparing"
  /\ monitor[p].todo = {}
  /\ Show(p, IF Cardinality(monitor[p].scanned) + 1 = Cardinality(monitor[p].days)
               THEN "caught_up" ELSE "running")
  /\ Goto(p, [Waiting EXCEPT !.days = monitor[p].days])
  /\ UNCHANGED <<source, database, bounds>>

\* What went wrong, as run() words it: the reason the source cannot be used, or a
\* message that gives nothing away.
Problem(p) == IF monitor[p].stage = "waiting" THEN "source unavailable" ELSE "see logs"

\* run() records a message it is not showing already (variation: only the first
\* after a success).
IsFirst(p, message) == lastError[p] = "none"

IsNews(p, message) == message # lastError[p]

\* A step of the tick raises: no claim left a winner behind, the source or the
\* database is not available, or another thread was inserting the same
\* actions.  When journaling fails too, a line in the log remains ("unwritten").
Fault(p) ==
  LET message == Problem(p)
  IN  /\ monitor[p].stage # "down"
      /\ faults + crashes < MaxMishaps
      /\ faults' = faults + 1
      /\ IF IsNews(p, message)
           THEN \E entry \in {message, "unwritten"} :
                  journal' = [journal EXCEPT ![p] = Append(@, entry)]
           ELSE UNCHANGED journal
      /\ state' = [state EXCEPT ![p] = "error"]
      /\ lastError' = [lastError EXCEPT ![p] = message]
      /\ Goto(p, [Waiting EXCEPT !.days = monitor[p].days])
      /\ UNCHANGED <<source, database, crashes>>

\* What the loop does when nothing goes wrong.
Advance(p) ==
  \/ Start(p)
  \/ ReadSource(p) \/ ListScans(p)
  \/ \E alert \in monitor[p].todo : Propose(p, alert)
  \/ CatchUp(p) \/ PickDay(p)
  \/ CommitScan(p) \/ LoseClaim(p) \/ AcceptWinner(p) \/ FinishScan(p)

Next ==
  \/ \E d \in Days : Arrive(d) \/ ManualScan(d)
  \/ \E p \in Processes : Advance(p) \/ Fault(p) \/ Crash(p)

\* run() starts the next tick whatever became of the last one, and a process
\* that dies is restarted.
Spec == Init /\ [][Next]_vars /\ \A p \in Processes : WF_vars(Advance(p))

-----------------------------------------------------------------------------
(* Properties.                                                             *)

Stages == {"down", "waiting", "listing", "repairing", "claiming", "lost", "preparing"}

Messages == {"source unavailable", "see logs"}

States == {"starting", "error", "scanning", "running", "enriching", "caught_up"}

AlertNames == UNION {AlertsOf[d] : d \in Days}

ScanRows == [day: Days, actor: {"auto-monitor", "rules-engine"}]

Ticks == [stage: Stages, days: SUBSET Days, scanned: SUBSET Days,
          todo: SUBSET (Nat \X AlertNames), day: Days \cup {NoDay}]

\* The type of every variable.
TypeOK ==
  /\ source \subseteq Days
  /\ scans \in Seq(ScanRows)
  /\ claims \subseteq Days
  /\ prepared \subseteq Nat \X AlertNames
  /\ monitor \in [Processes -> Ticks]
  /\ state \in [Processes -> States]
  /\ lastError \in [Processes -> Messages \cup {"none"}]
  /\ journal \in [Processes -> Seq(Messages \cup {"unwritten"})]
  /\ faults \in 0 .. MaxMishaps
  /\ crashes \in 0 .. MaxCrashes

\* A claim stands for a scan: whoever loses the claim of a day finds the
\* winner's scan, whatever the moment at which the winner died.
ClaimsHaveScans == claims \subseteq Scanned

RestsCaughtUp(p) == state[p] = "caught_up" /\ monitor[p].stage = "waiting"

\* A loop that rests and calls itself caught up has scanned every day it saw.  One
\* monitor keeps this; with two, a day that arrives late and is scanned by the
\* other is counted for one of its own.
CaughtUpIsTrue ==
  \A p \in Processes : RestsCaughtUp(p) => monitor[p].days \subseteq Scanned

\* However many monitors there are, caught_up is wrong only for a monitor that
\* has not seen a day that another one has scanned.
CaughtUpUnlessOvertaken ==
  \A p \in Processes :
    RestsCaughtUp(p) /\ Scanned \subseteq monitor[p].days =>
      monitor[p].days \subseteq Scanned

\* Repeated failures are journaled once, yet none is passed over: the last entry
\* of the journal is the error on display.
ErrorIsJournaled ==
  \A p \in Processes : state[p] = "error" =>
    /\ journal[p] # << >>
    /\ journal[p][Len(journal[p])] \in {lastError[p], "unwritten"}

\* No day is scanned automatically twice, by racing processes, after a crash, or
\* after an upgrade from a database without claims.
OneAutoScanPerDay ==
  [][\A d \in Scanned :
       {n \in AutoScans' : scans'[n].day = d} = {n \in AutoScans : scans[n].day = d}]_vars

\* Every day that comes to be in the source is scanned in the end, late arrivals
\* included: whatever races, dies or fails, the replay comes to have them all.
EveryDayScanned == []<>(source \subseteq Scanned)

\* Every alert of an automatic scan gets its actions in the end: what a process
\* that died, lost a race or met an error leaves undone, a later tick repairs.
EveryAlertPrepared == []<>(Unprepared = {})

\* No process displays an error for ever, once there is a source that it can read.
ErrorsClear ==
  \A p \in Processes : []<>(source = {} \/ lastError[p] = "none")

-----------------------------------------------------------------------------
(* Why the safety properties hold: the parts of the inductive invariant.   *)

\* What was scanned or read of the source is in the source.
DaysAreInSource ==
  /\ Scanned \subseteq source
  /\ \A p \in Processes : monitor[p].days \subseteq source

\* A process that is up has left no scanned day without a claim.
ScansAreClaimed == (\E p \in Processes : monitor[p].stage # "down") => Scanned \subseteq claims

\* Days once scanned stay so, and the day picked was one of those missing.
ReadingsStand ==
  \A p \in Processes :
    /\ monitor[p].scanned \subseteq Scanned
    /\ monitor[p].stage \in {"claiming", "lost", "preparing"} => monitor[p].day \in Missing(p)
    /\ monitor[p].stage = "preparing" => monitor[p].day \in Scanned

\* An error is displayed with its message, and a message once shown is on record.
MessagesAreOnRecord ==
  \A p \in Processes :
    /\ state[p] = "error" => lastError[p] # "none"
    /\ lastError[p] # "none" =>
         /\ journal[p] # << >>
         /\ journal[p][Len(journal[p])] \in {lastError[p], "unwritten"}

\* A monitor that works, or rests caught up, has seen every day that is scanned:
\* so it is where there is one monitor.
SeesEveryScan ==
  \A p \in Processes :
    monitor[p].stage \notin {"down", "waiting"} \/ RestsCaughtUp(p) =>
      Scanned \subseteq monitor[p].days

=============================================================================
