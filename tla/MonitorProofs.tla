---------------------------- MODULE MonitorProofs ----------------------------
(* Proofs about AutoMonitor, for every value of its constants.             *)
EXTENDS AutoMonitor, FiniteSetTheorems, SequenceTheorems, TLAPS

-----------------------------------------------------------------------------
(* What a new row does to the scans.                                       *)

\* A row is appended after the others, which stay as they are.
LEMMA RowAppended ==
  ASSUME scans \in Seq(ScanRows), NEW r \in ScanRows, scans' = Append(scans, r)
  PROVE  /\ scans' \in Seq(ScanRows)
         /\ Len(scans) \in Nat
         /\ DOMAIN scans = 1 .. Len(scans)
         /\ DOMAIN scans' = 1 .. Len(scans) + 1
         /\ \A n \in DOMAIN scans : scans'[n] = scans[n]
         /\ scans'[Len(scans) + 1] = r
  BY AppendProperties, LenProperties

\* An automatic scan adds its day to those scanned.
LEMMA AutoScanAppended ==
  ASSUME scans \in Seq(ScanRows), NEW d \in Days,
         scans' = Append(scans, [day |-> d, actor |-> "auto-monitor"])
  PROVE  /\ AutoScans' = AutoScans \cup {Len(scans) + 1}
         /\ Scanned' = Scanned \cup {d}
<1> DEFINE r == [day |-> d, actor |-> "auto-monitor"]
<1>1. r \in ScanRows /\ r.actor = "auto-monitor" /\ r.day = d
  BY DEF ScanRows
<1> HIDE DEF r
<1>2. /\ Len(scans) \in Nat /\ DOMAIN scans = 1 .. Len(scans)
      /\ DOMAIN scans' = DOMAIN scans \cup {Len(scans) + 1}
      /\ \A n \in DOMAIN scans : scans'[n] = scans[n]
      /\ scans'[Len(scans) + 1] = r
  BY <1>1, RowAppended DEF r
<1>3. AutoScans' = AutoScans \cup {Len(scans) + 1}
  BY <1>1, <1>2 DEF AutoScans
<1>4. \A n \in AutoScans : scans'[n].day = scans[n].day
  BY <1>2 DEF AutoScans
<1>5. Scanned' = {scans'[n].day : n \in AutoScans \cup {Len(scans) + 1}}
  BY <1>3 DEF Scanned
<1>6. scans'[Len(scans) + 1].day = d
  BY <1>1, <1>2
<1>7. Scanned' = Scanned \cup {d}
  BY <1>4, <1>5, <1>6 DEF Scanned
<1>8. QED
  BY <1>3, <1>7

\* A manual scan does not.
LEMMA ManualScanAppended ==
  ASSUME scans \in Seq(ScanRows), NEW d \in Days,
         scans' = Append(scans, [day |-> d, actor |-> "rules-engine"])
  PROVE  /\ AutoScans' = AutoScans
         /\ \A n \in AutoScans : scans'[n].day = scans[n].day
         /\ Scanned' = Scanned
<1> DEFINE r == [day |-> d, actor |-> "rules-engine"]
<1>1. r \in ScanRows /\ r.actor = "rules-engine"
  BY DEF ScanRows
<1> HIDE DEF r
<1>2. /\ Len(scans) \in Nat /\ DOMAIN scans = 1 .. Len(scans)
      /\ DOMAIN scans' = DOMAIN scans \cup {Len(scans) + 1}
      /\ \A n \in DOMAIN scans : scans'[n] = scans[n]
      /\ scans'[Len(scans) + 1] = r
  BY <1>1, RowAppended DEF r
<1>3. AutoScans' = AutoScans
  BY <1>1, <1>2 DEF AutoScans
<1>4. \A n \in AutoScans : scans'[n].day = scans[n].day
  BY <1>2 DEF AutoScans
<1>5. QED
  BY <1>3, <1>4 DEF Scanned

\* The days scanned are days, and a row keeps its place in them.
LEMMA ScannedDays ==
  ASSUME scans \in Seq(ScanRows)
  PROVE  /\ Scanned \subseteq Days
         /\ AutoScans \subseteq Nat
         /\ \A n \in DOMAIN scans : n \in Nat /\ scans[n].day \in Days
<1>1. \A n \in DOMAIN scans : n \in Nat /\ scans[n] \in ScanRows
  BY ElementOfSeq, LenProperties
<1>2. \A r \in ScanRows : r.day \in Days
  BY DEF ScanRows
<1>3. QED
  BY <1>1, <1>2 DEF AutoScans, Scanned

\* The alerts left to repair are alerts of scans.
LEMMA AlertsTyped ==
  ASSUME scans \in Seq(ScanRows)
  PROVE  /\ Unprepared \subseteq Nat \X AlertNames
         /\ \A n \in Nat, d \in Days : {n} \X AlertsOf[d] \subseteq Nat \X AlertNames
<1>1. \A d \in Days : AlertsOf[d] \subseteq AlertNames
  BY DEF AlertNames
<1>2. \A n \in Nat, d \in Days : {n} \X AlertsOf[d] \subseteq Nat \X AlertNames
  BY <1>1
<1>3. \A n \in AutoScans : AlertsIn(n) \subseteq Nat \X AlertNames
  BY <1>2, ScannedDays DEF AlertsIn, AutoScans
<1>4. QED
  BY <1>2, <1>3 DEF Unprepared

-----------------------------------------------------------------------------
(* What each step does to the monitor that takes it.                       *)

LEMMA WaitingTyped ==
  /\ Waiting \in Ticks /\ Down \in Ticks
  /\ Waiting.stage = "waiting" /\ Down.stage = "down"
  /\ Waiting.days = {} /\ Down.days = {}
  /\ Waiting.scanned = {} /\ Down.scanned = {}
  /\ \A D \in SUBSET Days :
       /\ [Waiting EXCEPT !.days = D] \in Ticks
       /\ [Waiting EXCEPT !.days = D].stage = "waiting"
       /\ [Waiting EXCEPT !.days = D].days = D
       /\ [Waiting EXCEPT !.days = D].scanned = {}
  BY DEF Waiting, Down, Ticks, Stages

\* A monitor goes to a record of its own, and no other one moves.
LEMMA GoesTo ==
  ASSUME monitor \in [Processes -> Ticks], NEW p \in Processes, NEW m \in Ticks, Goto(p, m)
  PROVE  /\ monitor' \in [Processes -> Ticks]
         /\ monitor'[p] = m
         /\ \A q \in Processes \ {p} : monitor'[q] = monitor[q]
  BY DEF Goto

LEMMA ReadSourceStep ==
  ASSUME TypeOK, NEW p \in Processes, ReadSource(p)
  PROVE  /\ monitor' \in [Processes -> Ticks]
         /\ \A q \in Processes \ {p} : monitor'[q] = monitor[q]
         /\ monitor'[p].stage = "listing"
         /\ monitor'[p].days = source
         /\ monitor'[p].scanned = monitor[p].scanned
<1> DEFINE m == [monitor[p] EXCEPT !.stage = "listing", !.days = source]
<1>1. /\ m \in Ticks /\ m.stage = "listing" /\ m.days = source
      /\ m.scanned = monitor[p].scanned
  BY DEF TypeOK, Ticks, Stages
<1>2. Goto(p, m) /\ monitor \in [Processes -> Ticks]
  BY DEF ReadSource, TypeOK
<1> HIDE DEF m
<1>3. QED
  BY <1>1, <1>2, GoesTo

LEMMA ListScansStep ==
  ASSUME TypeOK, NEW p \in Processes, ListScans(p)
  PROVE  /\ monitor' \in [Processes -> Ticks]
         /\ \A q \in Processes \ {p} : monitor'[q] = monitor[q]
         /\ monitor'[p].stage = "repairing"
         /\ monitor'[p].days = monitor[p].days
         /\ monitor'[p].scanned = Scanned
<1> DEFINE m == [monitor[p] EXCEPT !.stage = "repairing", !.scanned = Scanned,
                                   !.todo = Unprepared]
<1>1. Scanned \subseteq Days /\ Unprepared \subseteq Nat \X AlertNames
  BY ScannedDays, AlertsTyped DEF TypeOK
<1>2. /\ m \in Ticks /\ m.stage = "repairing" /\ m.days = monitor[p].days
      /\ m.scanned = Scanned
  BY <1>1 DEF TypeOK, Ticks, Stages
<1>3. Goto(p, m) /\ monitor \in [Processes -> Ticks]
  BY DEF ListScans, TypeOK
<1> HIDE DEF m
<1>4. QED
  BY <1>2, <1>3, GoesTo

LEMMA ProposeStep ==
  ASSUME TypeOK, NEW p \in Processes, NEW alert \in monitor[p].todo, Propose(p, alert)
  PROVE  /\ monitor' \in [Processes -> Ticks]
         /\ \A q \in Processes \ {p} : monitor'[q] = monitor[q]
         /\ monitor'[p].stage = monitor[p].stage
         /\ monitor'[p].days = monitor[p].days
         /\ monitor'[p].scanned = monitor[p].scanned
         /\ monitor'[p].day = monitor[p].day
<1> DEFINE m == [monitor[p] EXCEPT !.todo = @ \ {alert}]
<1>1. /\ m \in Ticks /\ m.stage = monitor[p].stage /\ m.days = monitor[p].days
      /\ m.scanned = monitor[p].scanned /\ m.day = monitor[p].day
  BY DEF TypeOK, Ticks
<1>2. Goto(p, m) /\ monitor \in [Processes -> Ticks]
  BY DEF Propose, TypeOK
<1> HIDE DEF m
<1>3. QED
  BY <1>1, <1>2, GoesTo

LEMMA PickDayStep ==
  ASSUME TypeOK, NEW p \in Processes, PickDay(p)
  PROVE  /\ monitor' \in [Processes -> Ticks]
         /\ \A q \in Processes \ {p} : monitor'[q] = monitor[q]
         /\ monitor'[p].stage = "claiming"
         /\ monitor'[p].days = monitor[p].days
         /\ monitor'[p].scanned = monitor[p].scanned
         /\ monitor'[p].day \in Missing(p)
<1>1. PICK d \in Missing(p) : Goto(p, [monitor[p] EXCEPT !.stage = "claiming", !.day = d])
  BY DEF PickDay
<1> DEFINE m == [monitor[p] EXCEPT !.stage = "claiming", !.day = d]
<1>2. d \in Days
  BY DEF TypeOK, Ticks, Missing
<1>3. /\ m \in Ticks /\ m.stage = "claiming" /\ m.days = monitor[p].days
      /\ m.scanned = monitor[p].scanned /\ m.day = d
  BY <1>2 DEF TypeOK, Ticks, Stages
<1>4. Goto(p, m) /\ monitor \in [Processes -> Ticks]
  BY <1>1 DEF TypeOK
<1> HIDE DEF m
<1>5. QED
  BY <1>3, <1>4, GoesTo

LEMMA CommitScanStep ==
  ASSUME TypeOK, ReadingsStand, NEW p \in Processes, CommitScan(p)
  PROVE  /\ monitor' \in [Processes -> Ticks]
         /\ \A q \in Processes \ {p} : monitor'[q] = monitor[q]
         /\ monitor'[p].stage = "preparing"
         /\ monitor'[p].days = monitor[p].days
         /\ monitor'[p].scanned = monitor[p].scanned
         /\ monitor'[p].day = monitor[p].day
         /\ monitor[p].day \in Days \cap Missing(p)
         /\ scans' \in Seq(ScanRows)
         /\ AutoScans' = AutoScans \cup {Len(scans) + 1}
         /\ Scanned' = Scanned \cup {monitor[p].day}
<1> DEFINE d == monitor[p].day
           n == Len(scans) + 1
           m == [monitor[p] EXCEPT !.stage = "preparing", !.todo = {n} \X AlertsOf[d]]
<1>1. d \in Days \cap Missing(p)
  BY DEF CommitScan, ReadingsStand, Missing, TypeOK, Ticks
<1>2. n \in Nat /\ scans \in Seq(ScanRows)
  BY LenProperties DEF TypeOK
<1>3. {n} \X AlertsOf[d] \subseteq Nat \X AlertNames
  BY <1>1, <1>2, AlertsTyped
<1>4. /\ m \in Ticks /\ m.stage = "preparing" /\ m.days = monitor[p].days
      /\ m.scanned = monitor[p].scanned /\ m.day = d
  BY <1>3 DEF TypeOK, Ticks, Stages
<1>5. /\ Goto(p, m) /\ monitor \in [Processes -> Ticks]
      /\ scans' = Append(scans, [day |-> d, actor |-> "auto-monitor"])
  BY DEF CommitScan, TypeOK
<1>6. [day |-> d, actor |-> "auto-monitor"] \in ScanRows
  BY <1>1 DEF ScanRows
<1>7. scans' \in Seq(ScanRows)
  BY <1>2, <1>5, <1>6, RowAppended
<1>8. AutoScans' = AutoScans \cup {n} /\ Scanned' = Scanned \cup {d}
  BY <1>1, <1>2, <1>5, AutoScanAppended
<1> HIDE DEF m
<1>9. QED
  BY <1>1, <1>4, <1>5, <1>7, <1>8, GoesTo

LEMMA LoseClaimStep ==
  ASSUME TypeOK, NEW p \in Processes, LoseClaim(p)
  PROVE  /\ monitor' \in [Processes -> Ticks]
         /\ \A q \in Processes \ {p} : monitor'[q] = monitor[q]
         /\ monitor'[p].stage = "lost"
         /\ monitor'[p].days = monitor[p].days
         /\ monitor'[p].scanned = monitor[p].scanned
         /\ monitor'[p].day = monitor[p].day
<1> DEFINE m == [monitor[p] EXCEPT !.stage = "lost"]
<1>1. /\ m \in Ticks /\ m.stage = "lost" /\ m.days = monitor[p].days
      /\ m.scanned = monitor[p].scanned /\ m.day = monitor[p].day
  BY DEF TypeOK, Ticks, Stages
<1>2. Goto(p, m) /\ monitor \in [Processes -> Ticks]
  BY DEF LoseClaim, TypeOK
<1> HIDE DEF m
<1>3. QED
  BY <1>1, <1>2, GoesTo

\* A tick that ends, well or not, leaves the monitor waiting with the days it read.
LEMMA RestStep ==
  ASSUME TypeOK, NEW p \in Processes, Goto(p, [Waiting EXCEPT !.days = monitor[p].days])
  PROVE  /\ monitor' \in [Processes -> Ticks]
         /\ \A q \in Processes \ {p} : monitor'[q] = monitor[q]
         /\ monitor'[p].stage = "waiting"
         /\ monitor'[p].days = monitor[p].days
         /\ monitor'[p].scanned = {}
<1>1. monitor[p].days \in SUBSET Days /\ monitor \in [Processes -> Ticks]
  BY DEF TypeOK, Ticks
<1> DEFINE m == [Waiting EXCEPT !.days = monitor[p].days]
<1>2. /\ m \in Ticks /\ m.stage = "waiting" /\ m.days = monitor[p].days
      /\ m.scanned = {}
  BY <1>1, WaitingTyped
<1> HIDE DEF m
<1>3. QED
  BY <1>1, <1>2, GoesTo DEF m

\* What is shown replaces an error and its message, and the journal stays.
LEMMA ShowStep ==
  ASSUME TypeOK, NEW p \in Processes, NEW s \in States, Show(p, s)
  PROVE  /\ state' \in [Processes -> States]
         /\ lastError' \in [Processes -> Messages \cup {"none"}]
         /\ state'[p] = s /\ lastError'[p] = "none"
         /\ \A q \in Processes \ {p} : state'[q] = state[q] /\ lastError'[q] = lastError[q]
         /\ journal' = journal
  BY DEF TypeOK, Show

LEMMA StartStep ==
  ASSUME TypeOK, NEW p \in Processes, Start(p)
  PROVE  /\ monitor' \in [Processes -> Ticks]
         /\ \A q \in Processes \ {p} : monitor'[q] = monitor[q]
         /\ monitor'[p] = Waiting
         /\ state' \in [Processes -> States]
         /\ lastError' \in [Processes -> Messages \cup {"none"}]
         /\ state'[p] = "starting" /\ lastError'[p] = "none"
         /\ \A q \in Processes \ {p} : state'[q] = state[q] /\ lastError'[q] = lastError[q]
<1>1. Goto(p, Waiting) /\ monitor \in [Processes -> Ticks]
  BY DEF Start, TypeOK
<1>2. "starting" \in States
  BY DEF States
<1>3. QED
  BY <1>1, <1>2, GoesTo, WaitingTyped DEF Start, TypeOK

LEMMA CrashStep ==
  ASSUME TypeOK, NEW p \in Processes, Crash(p)
  PROVE  /\ monitor' \in [Processes -> Ticks]
         /\ \A q \in Processes \ {p} : monitor'[q] = monitor[q]
         /\ monitor'[p] = Down
  BY GoesTo, WaitingTyped DEF Crash, TypeOK

\* A failure shows its message, which is then the last of the journal unless it
\* was shown before.
LEMMA FaultStep ==
  ASSUME TypeOK, NEW p \in Processes, Fault(p)
  PROVE  /\ state' \in [Processes -> States]
         /\ lastError' \in [Processes -> Messages \cup {"none"}]
         /\ journal' \in [Processes -> Seq(Messages \cup {"unwritten"})]
         /\ state'[p] = "error" /\ lastError'[p] # "none"
         /\ \/ lastError'[p] = lastError[p] /\ journal'[p] = journal[p]
            \/ /\ journal'[p] # << >>
               /\ journal'[p][Len(journal'[p])] \in {lastError'[p], "unwritten"}
         /\ \A q \in Processes \ {p} :
              state'[q] = state[q] /\ lastError'[q] = lastError[q] /\ journal'[q] = journal[q]
<1> DEFINE message == Problem(p)
           entries == Messages \cup {"unwritten"}
<1>1. message \in Messages /\ message # "none"
  BY DEF Problem, Messages
<1>2. "error" \in States
  BY DEF States
<1>3. /\ state' = [state EXCEPT ![p] = "error"]
      /\ lastError' = [lastError EXCEPT ![p] = message]
      /\ state \in [Processes -> States]
      /\ lastError \in [Processes -> Messages \cup {"none"}]
      /\ journal \in [Processes -> Seq(entries)]
  BY DEF Fault, TypeOK
<1>4. lastError'[p] = message
  BY <1>3
<1>5. CASE IsNews(p, message)
  <2>1. PICK entry \in {message, "unwritten"} :
          journal' = [journal EXCEPT ![p] = Append(@, entry)]
    BY <1>5 DEF Fault
  <2>2. entry \in entries /\ journal[p] \in Seq(entries)
    BY <1>1, <1>3
  <2> HIDE DEF entries, message
  <2>3. /\ Append(journal[p], entry) \in Seq(entries)
        /\ Append(journal[p], entry) # << >>
        /\ Append(journal[p], entry)[Len(Append(journal[p], entry))] = entry
    BY <2>2, AppendProperties
  <2>4. /\ journal' \in [Processes -> Seq(entries)]
        /\ journal'[p] = Append(journal[p], entry)
        /\ \A q \in Processes \ {p} : journal'[q] = journal[q]
    BY <1>3, <2>1, <2>3
  <2>5. QED
    BY <1>1, <1>2, <1>3, <1>4, <2>1, <2>3, <2>4 DEF entries
<1>6. CASE ~IsNews(p, message)
  <2>1. journal' = journal /\ message = lastError[p]
    BY <1>6 DEF Fault, IsNews
  <2>2. QED
    BY <1>1, <1>2, <1>3, <2>1
<1>7. QED
  BY <1>5, <1>6

-----------------------------------------------------------------------------
(* Types.                                                                  *)

\* Every step keeps the types of the variables.
LEMMA StepTyped ==
  ASSUME TypeOK, ReadingsStand, [Next]_vars
  PROVE  TypeOK'
<1> USE MonitorAssumption
<1>1. CASE UNCHANGED vars
  BY <1>1 DEF TypeOK, vars, database, display, bounds
<1>2. ASSUME NEW d \in Days, Arrive(d)
      PROVE  TypeOK'
  BY <1>2 DEF Arrive, TypeOK, database, display, bounds
<1>3. ASSUME NEW d \in Days, ManualScan(d)
      PROVE  TypeOK'
  <2>1. [day |-> d, actor |-> "rules-engine"] \in ScanRows
    BY DEF ScanRows
  <2>2. scans' \in Seq(ScanRows)
    BY <1>3, <2>1, RowAppended DEF ManualScan, TypeOK
  <2>3. QED
    BY <1>3, <2>2 DEF ManualScan, TypeOK, display, bounds
<1>4. ASSUME NEW p \in Processes, Start(p)
      PROVE  TypeOK'
  <2>1. claims' \subseteq Days
    BY <1>4, ScannedDays DEF Start, TypeOK
  <2>2. QED
    BY <1>4, <2>1, StartStep DEF Start, TypeOK, bounds
<1>5. ASSUME NEW p \in Processes, ReadSource(p)
      PROVE  TypeOK'
  BY <1>5, ReadSourceStep DEF ReadSource, TypeOK, database, display, bounds
<1>6. ASSUME NEW p \in Processes, ListScans(p)
      PROVE  TypeOK'
  BY <1>6, ListScansStep DEF ListScans, TypeOK, database, display, bounds
<1>7. ASSUME NEW p \in Processes, NEW alert \in monitor[p].todo, Propose(p, alert)
      PROVE  TypeOK'
  <2>1. alert \in Nat \X AlertNames
    BY DEF TypeOK, Ticks
  <2>2. QED
    BY <1>7, <2>1, ProposeStep DEF Propose, TypeOK, display, bounds
<1>8. ASSUME NEW p \in Processes, CatchUp(p)
      PROVE  TypeOK'
  <2>1. PICK s \in {"enriching", "caught_up"} : Show(p, s)
    BY <1>8 DEF CatchUp
  <2>2. s \in States
    BY DEF States
  <2>3. QED
    BY <1>8, <2>1, <2>2, ShowStep, RestStep DEF CatchUp, TypeOK, database, bounds
<1>9. ASSUME NEW p \in Processes, PickDay(p)
      PROVE  TypeOK'
  <2>1. "scanning" \in States /\ Show(p, "scanning")
    BY <1>9 DEF States, PickDay
  <2>2. QED
    BY <1>9, <2>1, ShowStep, PickDayStep DEF PickDay, TypeOK, database, bounds
<1>10. ASSUME NEW p \in Processes, CommitScan(p)
       PROVE  TypeOK'
  <2>1. claims' \subseteq Days
    BY <1>10, CommitScanStep DEF CommitScan, TypeOK
  <2>2. QED
    BY <1>10, <2>1, CommitScanStep DEF CommitScan, TypeOK, display, bounds
<1>11. ASSUME NEW p \in Processes, LoseClaim(p)
       PROVE  TypeOK'
  BY <1>11, LoseClaimStep DEF LoseClaim, TypeOK, database, display, bounds
<1>12. ASSUME NEW p \in Processes, AcceptWinner(p)
       PROVE  TypeOK'
  <2>1. "running" \in States /\ Show(p, "running")
    BY <1>12 DEF States, AcceptWinner
  <2>2. QED
    BY <1>12, <2>1, ShowStep, RestStep DEF AcceptWinner, TypeOK, database, bounds
<1>13. ASSUME NEW p \in Processes, FinishScan(p)
       PROVE  TypeOK'
  <2>1. PICK s \in States : Show(p, s)
    BY <1>13 DEF States, FinishScan
  <2>2. QED
    BY <1>13, <2>1, ShowStep, RestStep DEF FinishScan, TypeOK, database, bounds
<1>14. ASSUME NEW p \in Processes, Fault(p)
       PROVE  TypeOK'
  <2>1. faults' \in 0 .. MaxMishaps
    BY <1>14 DEF Fault, TypeOK
  <2>2. Goto(p, [Waiting EXCEPT !.days = monitor[p].days])
    BY <1>14 DEF Fault
  <2>3. QED
    BY <1>14, <2>1, <2>2, FaultStep, RestStep DEF Fault, TypeOK, database
<1>15. ASSUME NEW p \in Processes, Crash(p)
       PROVE  TypeOK'
  <2>1. crashes' \in 0 .. MaxCrashes
    BY <1>15 DEF Crash, TypeOK
  <2>2. QED
    BY <1>15, <2>1, CrashStep DEF Crash, TypeOK, database, display
<1>16. QED
  BY <1>1, <1>2, <1>3, <1>4, <1>5, <1>6, <1>7, <1>8, <1>9, <1>10, <1>11, <1>12,
     <1>13, <1>14, <1>15 DEF Next, Advance

-----------------------------------------------------------------------------
(* Scans, claims and what a monitor has read.                              *)

\* Only the commit of a claimed day changes the automatic scans, and it adds one.
LEMMA StepScans ==
  ASSUME TypeOK, ReadingsStand, [Next]_vars
  PROVE  /\ Scanned \subseteq Scanned'
         /\ \/ \E p \in Processes : CommitScan(p)
            \/ /\ AutoScans' = AutoScans /\ Scanned' = Scanned
               /\ \A n \in AutoScans : scans'[n].day = scans[n].day
<1>1. CASE \E p \in Processes : CommitScan(p)
  BY <1>1, CommitScanStep
<1>2. CASE \E d \in Days : ManualScan(d)
  BY <1>2, ManualScanAppended DEF ManualScan, TypeOK
<1>3. CASE scans' = scans
  BY <1>3 DEF AutoScans, Scanned
<1>4. QED
  BY <1>1, <1>2, <1>3 DEF Next, Advance, Arrive, Start, Crash, ReadSource, ListScans,
     Propose, CatchUp, PickDay, LoseClaim, AcceptWinner, FinishScan, Fault, vars, database

\* A claim is made with its scan, or for a scan there is.
LEMMA StepClaims ==
  ASSUME TypeOK, ReadingsStand, ClaimsHaveScans, [Next]_vars
  PROVE  ClaimsHaveScans'
<1>1. Scanned \subseteq Scanned'
  BY StepScans
<1>2. CASE \E p \in Processes : CommitScan(p)
  BY <1>2, CommitScanStep DEF CommitScan, ClaimsHaveScans
<1>3. CASE \E p \in Processes : Start(p)
  BY <1>1, <1>3 DEF Start, ClaimsHaveScans
<1>4. CASE claims' = claims
  BY <1>1, <1>4 DEF ClaimsHaveScans
<1>5. QED
  BY <1>2, <1>3, <1>4 DEF Next, Advance, Arrive, ManualScan, Crash, ReadSource, ListScans,
     Propose, CatchUp, PickDay, LoseClaim, AcceptWinner, FinishScan, Fault, vars, database

\* A process comes up by claiming what is scanned, and scans with a claim.
LEMMA StepScansAreClaimed ==
  ASSUME TypeOK, ReadingsStand, ScansAreClaimed, [Next]_vars
  PROVE  ScansAreClaimed'
<1>1. CASE \E p \in Processes : Start(p)
  <2>1. claims' = claims \cup Scanned /\ Scanned' = Scanned
    BY <1>1 DEF Start, Scanned, AutoScans
  <2>2. QED
    BY <2>1 DEF ScansAreClaimed
<1>2. CASE \E p \in Processes : CommitScan(p)
  <2>1. PICK p \in Processes : CommitScan(p)
    BY <1>2
  <2>2. monitor[p].stage # "down" /\ claims' = claims \cup {monitor[p].day}
    BY <2>1 DEF CommitScan
  <2>3. Scanned' = Scanned \cup {monitor[p].day}
    BY <2>1, CommitScanStep
  <2>4. QED
    BY <2>2, <2>3 DEF ScansAreClaimed
<1>3. CASE ~(\E p \in Processes : Start(p) \/ CommitScan(p))
  <2>1. claims' = claims
    BY <1>3 DEF Next, Advance, Arrive, ManualScan, Crash, ReadSource, ListScans, Propose,
       CatchUp, PickDay, LoseClaim, AcceptWinner, FinishScan, Fault, vars, database
  <2>2. Scanned' = Scanned
    BY <1>3, StepScans
  <2>3. \A q \in Processes : monitor[q].stage = "down" => monitor'[q].stage = "down"
    <3>1. CASE UNCHANGED monitor
      BY <3>1
    <3>2. ASSUME NEW p \in Processes, Crash(p)
          PROVE  \A q \in Processes : monitor[q].stage = "down" => monitor'[q].stage = "down"
      BY <3>2, CrashStep, WaitingTyped
    <3>3. ASSUME NEW p \in Processes, monitor[p].stage # "down",
                 NEW m, Goto(p, m)
          PROVE  \A q \in Processes : monitor[q].stage = "down" => monitor'[q].stage = "down"
      BY <3>3 DEF TypeOK, Goto
    <3>4. QED
      BY <1>3, <3>1, <3>2, <3>3 DEF Next, Advance, Arrive, ManualScan, ReadSource,
         ListScans, Propose, CatchUp, PickDay, LoseClaim, AcceptWinner, FinishScan, Fault, vars
  <2>4. QED
    BY <2>1, <2>2, <2>3 DEF ScansAreClaimed
<1>4. QED
  BY <1>1, <1>2, <1>3

\* The source only grows, and so do the scans, so what was read of them stands.
LEMMA StepReadings ==
  ASSUME TypeOK, ReadingsStand, DaysAreInSource, [Next]_vars
  PROVE  ReadingsStand' /\ DaysAreInSource'
<1>1. Scanned \subseteq Scanned' /\ source \subseteq source'
  <2>1. source \subseteq source'
    BY DEF Next, Advance, Arrive, ManualScan, Start, Crash, ReadSource, ListScans, Propose,
       CatchUp, PickDay, CommitScan, LoseClaim, AcceptWinner, FinishScan, Fault, vars
  <2>2. QED
    BY <2>1, StepScans
<1> DEFINE Stands(p) ==
             /\ monitor'[p].scanned \subseteq Scanned'
             /\ monitor'[p].stage \in {"claiming", "lost", "preparing"} =>
                  monitor'[p].day \in monitor'[p].days \ monitor'[p].scanned
             /\ monitor'[p].stage = "preparing" => monitor'[p].day \in Scanned'
             /\ monitor'[p].days \subseteq source'
<1>2. \A q \in Processes : monitor'[q] = monitor[q] => Stands(q)
  BY <1>1 DEF ReadingsStand, DaysAreInSource, Missing
<1> SUFFICES Scanned' \subseteq source' /\ \A q \in Processes : Stands(q)
  BY DEF ReadingsStand, DaysAreInSource, Missing
<1>3. CASE UNCHANGED monitor /\ Scanned' = Scanned
  BY <1>1, <1>2, <1>3 DEF DaysAreInSource
<1>4. ASSUME NEW p \in Processes, Start(p) \/ Crash(p)
      PROVE  Scanned' \subseteq source' /\ \A q \in Processes : Stands(q)
  <2>1. Scanned' = Scanned
    BY <1>4 DEF Start, Crash, database, Scanned, AutoScans
  <2>2. Stands(p)
    BY <1>4, StartStep, CrashStep, WaitingTyped
  <2>3. QED
    BY <1>1, <1>2, <1>4, <2>1, <2>2, StartStep, CrashStep DEF DaysAreInSource
<1>5. ASSUME NEW p \in Processes, ReadSource(p)
      PROVE  Scanned' \subseteq source' /\ \A q \in Processes : Stands(q)
  <2>1. Scanned' = Scanned /\ source' = source
    BY <1>5 DEF ReadSource, database, Scanned, AutoScans
  <2>2. monitor[p].scanned \subseteq Scanned
    BY DEF ReadingsStand
  <2>3. Stands(p)
    BY <1>5, <2>1, <2>2, ReadSourceStep
  <2>4. QED
    BY <1>2, <1>5, <2>1, <2>3, ReadSourceStep DEF DaysAreInSource
<1>6. ASSUME NEW p \in Processes, ListScans(p)
      PROVE  Scanned' \subseteq source' /\ \A q \in Processes : Stands(q)
  <2>1. Scanned' = Scanned /\ source' = source
    BY <1>6 DEF ListScans, database, Scanned, AutoScans
  <2>2. Stands(p)
    BY <1>6, <2>1, ListScansStep DEF DaysAreInSource
  <2>3. QED
    BY <1>2, <1>6, <2>1, <2>2, ListScansStep DEF DaysAreInSource
<1>7. ASSUME NEW p \in Processes, NEW alert \in monitor[p].todo, Propose(p, alert)
      PROVE  Scanned' \subseteq source' /\ \A q \in Processes : Stands(q)
  <2>1. Scanned' = Scanned /\ source' = source
    BY <1>7 DEF Propose, Scanned, AutoScans
  <2>2. Stands(p)
    BY <1>7, <2>1, ProposeStep DEF DaysAreInSource, ReadingsStand, Missing
  <2>3. QED
    BY <1>2, <1>7, <2>1, <2>2, ProposeStep DEF DaysAreInSource
<1>8. ASSUME NEW p \in Processes, PickDay(p)
      PROVE  Scanned' \subseteq source' /\ \A q \in Processes : Stands(q)
  <2>1. Scanned' = Scanned /\ source' = source
    BY <1>8 DEF PickDay, database, Scanned, AutoScans
  <2>2. Stands(p)
    BY <1>8, <2>1, PickDayStep DEF DaysAreInSource, ReadingsStand, Missing
  <2>3. QED
    BY <1>2, <1>8, <2>1, <2>2, PickDayStep DEF DaysAreInSource
<1>9. ASSUME NEW p \in Processes, CommitScan(p)
      PROVE  Scanned' \subseteq source' /\ \A q \in Processes : Stands(q)
  <2>1. source' = source
    BY <1>9 DEF CommitScan
  <2>2. /\ Scanned' = Scanned \cup {monitor[p].day}
        /\ monitor[p].day \in monitor[p].days \ monitor[p].scanned
    BY <1>9, CommitScanStep DEF Missing
  <2>3. Scanned' \subseteq source'
    BY <2>1, <2>2 DEF DaysAreInSource
  <2>4. Stands(p)
    BY <1>9, <2>1, <2>2, CommitScanStep DEF DaysAreInSource, ReadingsStand
  <2>5. QED
    BY <1>2, <1>9, <2>3, <2>4, CommitScanStep
<1>10. ASSUME NEW p \in Processes, LoseClaim(p)
       PROVE  Scanned' \subseteq source' /\ \A q \in Processes : Stands(q)
  <2>1. Scanned' = Scanned /\ source' = source /\ monitor[p].stage = "claiming"
    BY <1>10 DEF LoseClaim, database, Scanned, AutoScans
  <2>2. Stands(p)
    BY <1>10, <2>1, LoseClaimStep DEF DaysAreInSource, ReadingsStand, Missing
  <2>3. QED
    BY <1>2, <1>10, <2>1, <2>2, LoseClaimStep DEF DaysAreInSource
<1>11. ASSUME NEW p \in Processes, CatchUp(p) \/ AcceptWinner(p) \/ FinishScan(p) \/ Fault(p)
       PROVE  Scanned' \subseteq source' /\ \A q \in Processes : Stands(q)
  <2>1. Scanned' = Scanned /\ source' = source
    BY <1>11 DEF CatchUp, AcceptWinner, FinishScan, Fault, database, Scanned, AutoScans
  <2>2. Goto(p, [Waiting EXCEPT !.days = monitor[p].days])
    BY <1>11 DEF CatchUp, AcceptWinner, FinishScan, Fault
  <2>3. Stands(p)
    BY <2>1, <2>2, RestStep DEF DaysAreInSource
  <2>4. QED
    BY <1>2, <2>1, <2>2, <2>3, RestStep DEF DaysAreInSource
<1>12. ASSUME NEW d \in Days, Arrive(d) \/ ManualScan(d)
       PROVE  UNCHANGED monitor /\ Scanned' = Scanned
  BY <1>12, ManualScanAppended DEF Arrive, ManualScan, database, Scanned, AutoScans, TypeOK
<1>13. CASE UNCHANGED vars
  BY <1>3, <1>13 DEF vars, database, Scanned, AutoScans
<1> HIDE DEF Stands
<1>14. QED
  BY <1>3, <1>4, <1>5, <1>6, <1>7, <1>8, <1>9, <1>10, <1>11, <1>12, <1>13 DEF Next, Advance

-----------------------------------------------------------------------------
(* What a monitor displays.                                                *)

\* A failure is shown with its message and journaled unless it was; every other
\* display clears the message.
LEMMA StepMessages ==
  ASSUME TypeOK, MessagesAreOnRecord, [Next]_vars
  PROVE  MessagesAreOnRecord'
<1> DEFINE OnRecord(p) ==
             /\ state'[p] = "error" => lastError'[p] # "none"
             /\ lastError'[p] # "none" =>
                  /\ journal'[p] # << >>
                  /\ journal'[p][Len(journal'[p])] \in {lastError'[p], "unwritten"}
<1> SUFFICES \A q \in Processes : OnRecord(q)
  BY DEF MessagesAreOnRecord
<1>1. \A q \in Processes :
        state'[q] = state[q] /\ lastError'[q] = lastError[q] /\ journal'[q] = journal[q]
          => OnRecord(q)
  BY DEF MessagesAreOnRecord
<1>2. CASE UNCHANGED display
  BY <1>1, <1>2 DEF display
<1>3. ASSUME NEW p \in Processes, NEW s \in States \ {"error"}, Show(p, s)
      PROVE  \A q \in Processes : OnRecord(q)
  BY <1>1, <1>3, ShowStep
<1>4. ASSUME NEW p \in Processes, Start(p)
      PROVE  \A q \in Processes : OnRecord(q)
  <2>1. journal' = journal
    BY <1>4 DEF Start
  <2>2. QED
    BY <1>1, <1>4, <2>1, StartStep
<1>5. ASSUME NEW p \in Processes, Fault(p)
      PROVE  \A q \in Processes : OnRecord(q)
  <2>1. OnRecord(p)
    BY <1>5, FaultStep DEF MessagesAreOnRecord
  <2>2. QED
    BY <1>1, <1>5, <2>1, FaultStep, SMTT(30)
<1>6. ASSUME NEW p \in Processes, CatchUp(p) \/ PickDay(p) \/ AcceptWinner(p) \/ FinishScan(p)
      PROVE  \E s \in States \ {"error"} : Show(p, s)
  BY <1>6 DEF CatchUp, PickDay, AcceptWinner, FinishScan, States
<1> HIDE DEF OnRecord
<1>7. QED
  BY <1>2, <1>3, <1>4, <1>5, <1>6 DEF Next, Advance, Arrive, ManualScan, Crash, ReadSource,
     ListScans, Propose, CommitScan, LoseClaim, vars

\* The counts that FinishScan compares tell a superset of the days from the days
\* when nothing was scanned but what is among them.
LEMMA CountsAgree ==
  ASSUME NEW D \in SUBSET Days, NEW S \in SUBSET D, NEW d \in D \ S,
         Cardinality(S) + 1 = Cardinality(D)
  PROVE  D = S \cup {d}
<1>1. IsFiniteSet(D) /\ IsFiniteSet(S)
  BY MonitorAssumption, FS_Subset
<1>2. S \cup {d} \subseteq D /\ d \notin S
  OBVIOUS
<1>3. Cardinality(S \cup {d}) = Cardinality(S) + 1
  BY <1>1, <1>2, FS_AddElement
<1>4. QED
  BY <1>1, <1>2, <1>3, FS_Subset

\* A tick that comes to rest caught up has no day left, where it overlooks no scan.
LEMMA RestingStep ==
  ASSUME TypeOK, ReadingsStand, NEW p \in Processes, CatchUp(p) \/ FinishScan(p),
         RestsCaughtUp(p)', Scanned \subseteq monitor[p].days
  PROVE  monitor[p].days \subseteq Scanned
<1>1. CASE CatchUp(p)
  BY <1>1 DEF CatchUp, Missing, ReadingsStand
<1>2. CASE FinishScan(p)
  <2>1. \E s \in States : Show(p, s)
    BY <1>2 DEF FinishScan, States
  <2>2. Cardinality(monitor[p].scanned) + 1 = Cardinality(monitor[p].days)
    BY <1>2, <2>1, ShowStep DEF FinishScan, RestsCaughtUp, States, TypeOK, Show
  <2>3. /\ monitor[p].scanned \subseteq Scanned
        /\ monitor[p].day \in (monitor[p].days \ monitor[p].scanned) \cap Scanned
    BY <1>2 DEF FinishScan, ReadingsStand, Missing
  <2>4. monitor[p].days \in SUBSET Days
    BY DEF TypeOK, Ticks
  <2>5. monitor[p].days = monitor[p].scanned \cup {monitor[p].day}
    BY <2>2, <2>3, <2>4, CountsAgree
  <2>6. QED
    BY <2>3, <2>5
<1>3. QED
  BY <1>1, <1>2

\* Where a monitor does not come to rest, it shows what it did, or works.
LEMMA OtherSteps ==
  ASSUME TypeOK, [Next]_vars, NEW q \in Processes, RestsCaughtUp(q)'
  PROVE  \/ CatchUp(q) \/ FinishScan(q)
         \/ RestsCaughtUp(q) /\ monitor'[q].days = monitor[q].days
<1>1. CASE UNCHANGED <<monitor, state>>
  BY <1>1 DEF RestsCaughtUp
<1>2. ASSUME NEW p \in Processes, p # q, monitor'[q] = monitor[q], state'[q] = state[q]
      PROVE  RestsCaughtUp(q) /\ monitor'[q].days = monitor[q].days
  BY <1>2 DEF RestsCaughtUp
<1>3. ASSUME NEW p \in Processes, Start(p)
      PROVE  p # q /\ monitor'[q] = monitor[q] /\ state'[q] = state[q]
  BY <1>3, StartStep DEF RestsCaughtUp
<1>4. ASSUME NEW p \in Processes, Crash(p)
      PROVE  p # q /\ monitor'[q] = monitor[q] /\ state'[q] = state[q]
  BY <1>4, CrashStep, WaitingTyped DEF Crash, display, RestsCaughtUp
<1>5. ASSUME NEW p \in Processes, ReadSource(p)
      PROVE  p # q /\ monitor'[q] = monitor[q] /\ state'[q] = state[q]
  BY <1>5, ReadSourceStep DEF ReadSource, display, RestsCaughtUp
<1>6. ASSUME NEW p \in Processes, ListScans(p)
      PROVE  p # q /\ monitor'[q] = monitor[q] /\ state'[q] = state[q]
  BY <1>6, ListScansStep DEF ListScans, display, RestsCaughtUp
<1>7. ASSUME NEW p \in Processes, NEW alert \in monitor[p].todo, Propose(p, alert)
      PROVE  p # q /\ monitor'[q] = monitor[q] /\ state'[q] = state[q]
  <2>1. monitor'[p].stage # "waiting"
    BY <1>7, ProposeStep DEF Propose
  <2>2. QED
    BY <1>7, <2>1, ProposeStep DEF Propose, display, RestsCaughtUp
<1>8. ASSUME NEW p \in Processes, CatchUp(p) \/ FinishScan(p), p # q
      PROVE  monitor'[q] = monitor[q] /\ state'[q] = state[q]
  BY <1>8, RestStep DEF CatchUp, FinishScan, Show, TypeOK
<1>9. ASSUME NEW p \in Processes, PickDay(p)
      PROVE  p # q /\ monitor'[q] = monitor[q] /\ state'[q] = state[q]
  BY <1>9, PickDayStep DEF PickDay, Show, TypeOK, RestsCaughtUp
<1>10. ASSUME NEW p \in Processes, CommitScan(p)
       PROVE  p # q /\ monitor'[q] = monitor[q] /\ state'[q] = state[q]
  BY <1>10 DEF CommitScan, Goto, display, TypeOK, Ticks, RestsCaughtUp
<1>11. ASSUME NEW p \in Processes, LoseClaim(p)
       PROVE  p # q /\ monitor'[q] = monitor[q] /\ state'[q] = state[q]
  BY <1>11, LoseClaimStep DEF LoseClaim, display, RestsCaughtUp
<1>12. ASSUME NEW p \in Processes, AcceptWinner(p)
       PROVE  p # q /\ monitor'[q] = monitor[q] /\ state'[q] = state[q]
  BY <1>12, RestStep DEF AcceptWinner, Show, TypeOK, RestsCaughtUp
<1>13. ASSUME NEW p \in Processes, Fault(p)
       PROVE  p # q /\ monitor'[q] = monitor[q] /\ state'[q] = state[q]
  <2>1. p # q /\ state'[q] = state[q]
    BY <1>13, FaultStep DEF RestsCaughtUp
  <2>2. QED
    BY <1>13, <2>1, RestStep DEF Fault
<1>14. QED
  BY <1>1, <1>2, <1>3, <1>4, <1>5, <1>6, <1>7, <1>8, <1>9, <1>10, <1>11, <1>12, <1>13
     DEF Next, Advance, Arrive, ManualScan, display, vars

\* Whoever rests caught up stays right while the others scan what it has seen.
LEMMA StepCaughtUp ==
  ASSUME TypeOK, ReadingsStand, CaughtUpUnlessOvertaken, [Next]_vars
  PROVE  CaughtUpUnlessOvertaken'
<1> SUFFICES ASSUME NEW q \in Processes, RestsCaughtUp(q)', Scanned' \subseteq monitor'[q].days
             PROVE  monitor'[q].days \subseteq Scanned'
  BY DEF CaughtUpUnlessOvertaken
<1>1. Scanned \subseteq Scanned'
  BY StepScans
<1>2. CASE CatchUp(q) \/ FinishScan(q)
  <2>1. Goto(q, [Waiting EXCEPT !.days = monitor[q].days])
    BY <1>2 DEF CatchUp, FinishScan
  <2>2. monitor'[q].days = monitor[q].days
    BY <2>1, RestStep
  <2>3. monitor[q].days \subseteq Scanned
    BY <1>1, <1>2, <2>2, RestingStep
  <2>4. QED
    BY <1>1, <2>2, <2>3
<1>3. CASE RestsCaughtUp(q) /\ monitor'[q].days = monitor[q].days
  BY <1>1, <1>3 DEF CaughtUpUnlessOvertaken
<1>4. QED
  BY <1>2, <1>3, OtherSteps

\* The only monitor scans the days it has seen and no other, so it overlooks none.
LEMMA StepSees ==
  ASSUME \A p, q \in Processes : p = q,
         TypeOK, ReadingsStand, DaysAreInSource, SeesEveryScan, [Next]_vars
  PROVE  SeesEveryScan'
<1> SUFFICES ASSUME NEW q \in Processes,
                    monitor'[q].stage \notin {"down", "waiting"} \/ RestsCaughtUp(q)'
             PROVE  Scanned' \subseteq monitor'[q].days
  BY DEF SeesEveryScan
<1> USE DEF SeesEveryScan
<1>1. ASSUME CommitScan(q)
      PROVE  Scanned' \subseteq monitor'[q].days
  <2>1. monitor[q].stage = "claiming"
    BY <1>1 DEF CommitScan
  <2>2. Scanned \subseteq monitor[q].days
    BY <2>1
  <2>3. QED
    BY <1>1, <2>2, CommitScanStep DEF Missing
<1>2. ASSUME ~CommitScan(q)
      PROVE  Scanned' = Scanned
  BY <1>2, StepScans
<1>3. ASSUME RestsCaughtUp(q)', ~CommitScan(q)
      PROVE  Scanned' \subseteq monitor'[q].days
  <2>1. CASE CatchUp(q) \/ FinishScan(q)
    <3>1. /\ Goto(q, [Waiting EXCEPT !.days = monitor[q].days])
          /\ monitor[q].stage \in {"repairing", "preparing"}
      BY <2>1 DEF CatchUp, FinishScan
    <3>2. QED
      BY <1>2, <1>3, <3>1, RestStep
  <2>2. CASE RestsCaughtUp(q) /\ monitor'[q].days = monitor[q].days
    BY <1>2, <1>3, <2>2
  <2>3. QED
    BY <1>3, <2>1, <2>2, OtherSteps
<1>4. ASSUME monitor'[q].stage \notin {"down", "waiting"}, ~CommitScan(q)
      PROVE  Scanned' \subseteq monitor'[q].days
  <2>1. CASE ReadSource(q)
    BY <1>2, <1>4, <2>1, ReadSourceStep DEF DaysAreInSource
  <2>2. CASE ~ReadSource(q)
    <3>1. CASE UNCHANGED monitor
      BY <1>2, <1>4, <3>1
    <3>2. CASE ListScans(q)
      BY <1>2, <1>4, <3>2, ListScansStep DEF ListScans
    <3>3. ASSUME NEW alert \in monitor[q].todo, Propose(q, alert)
          PROVE  Scanned' \subseteq monitor'[q].days
      BY <1>2, <1>4, <3>3, ProposeStep DEF Propose
    <3>4. CASE PickDay(q)
      BY <1>2, <1>4, <3>4, PickDayStep DEF PickDay
    <3>5. CASE LoseClaim(q)
      BY <1>2, <1>4, <3>5, LoseClaimStep DEF LoseClaim
    <3>6. ASSUME Start(q) \/ Crash(q)
          PROVE  FALSE
      BY <1>4, <3>6, StartStep, CrashStep, WaitingTyped
    <3>7. ASSUME CatchUp(q) \/ AcceptWinner(q) \/ FinishScan(q) \/ Fault(q)
          PROVE  FALSE
      <4>1. Goto(q, [Waiting EXCEPT !.days = monitor[q].days])
        BY <3>7 DEF CatchUp, AcceptWinner, FinishScan, Fault
      <4>2. QED
        BY <1>4, <4>1, RestStep
    <3>8. \A p \in Processes : p = q
      OBVIOUS
    <3>9. QED
      BY <1>4, <2>2, <3>1, <3>2, <3>3, <3>4, <3>5, <3>6, <3>7, <3>8
         DEF Next, Advance, Arrive, ManualScan, vars
  <2>3. QED
    BY <2>1, <2>2
<1>5. QED
  BY <1>1, <1>3, <1>4

-----------------------------------------------------------------------------
(* The theorems.                                                           *)

\* Everything is well-typed at the start, whatever was scanned before there were
\* claims, and nobody is up.
LEMMA InitParts ==
  ASSUME Init
  PROVE  /\ TypeOK /\ ClaimsHaveScans /\ ScansAreClaimed
         /\ ReadingsStand /\ DaysAreInSource
         /\ MessagesAreOnRecord /\ CaughtUpUnlessOvertaken /\ SeesEveryScan
<1>1. PICK n \in 0 .. MaxLegacy : scans \in [1 .. n -> [day: source, actor: {"auto-monitor"}]]
  BY DEF Init
<1>2. n \in Nat /\ DOMAIN scans = 1 .. n
      /\ \A i \in 1 .. n : scans[i] \in ScanRows /\ scans[i].day \in source
  <2>1. n \in Nat /\ source \subseteq Days
    BY MonitorAssumption DEF Init
  <2>2. \A r \in [day: source, actor: {"auto-monitor"}] : r \in ScanRows /\ r.day \in source
    BY <2>1 DEF ScanRows
  <2>3. QED
    BY <1>1, <2>1, <2>2
<1>3. scans \in Seq(ScanRows)
  <2>1. scans \in [1 .. n -> ScanRows]
    BY <1>1, <1>2
  <2>2. QED
    BY <1>2, <2>1, SeqDef
<1>4. Scanned \subseteq source
  BY <1>2 DEF Scanned, AutoScans
<1>5. monitor = [p \in Processes |-> Down]
  BY DEF Init
<1>6. TypeOK
  <2>1. monitor \in [Processes -> Ticks]
    BY <1>5, WaitingTyped
  <2>2. journal \in [Processes -> Seq(Messages \cup {"unwritten"})]
    BY EmptySeq DEF Init
  <2>3. faults \in 0 .. MaxMishaps /\ crashes \in 0 .. MaxCrashes
    BY MonitorAssumption DEF Init
  <2>4. QED
    BY <1>3, <2>1, <2>2, <2>3 DEF Init, TypeOK, States
<1>7. QED
  BY <1>4, <1>5, <1>6, WaitingTyped DEF Init, ClaimsHaveScans, ScansAreClaimed, ReadingsStand,
     DaysAreInSource, MessagesAreOnRecord, CaughtUpUnlessOvertaken, SeesEveryScan, RestsCaughtUp

\* Every variable keeps its type, and what a monitor has read of the source and of
\* the scans stays true, whatever the other processes do meanwhile.
THEOREM MonitorTyped == Spec => [](TypeOK /\ ReadingsStand /\ DaysAreInSource)
<1>1. Init => TypeOK /\ ReadingsStand /\ DaysAreInSource
  BY InitParts
<1>2. TypeOK /\ ReadingsStand /\ DaysAreInSource /\ [Next]_vars =>
        (TypeOK /\ ReadingsStand /\ DaysAreInSource)'
  BY StepTyped, StepReadings
<1>3. QED
  BY <1>1, <1>2, PTL DEF Spec

\* Whoever loses the claim of a day finds the winner's scan: a claim is committed
\* with its scan, and the claims that create_schema makes up are for scans.
THEOREM ClaimsStandForScans == Spec => []ClaimsHaveScans
<1>1. Init => ClaimsHaveScans
  BY InitParts
<1>2. TypeOK /\ ReadingsStand /\ ClaimsHaveScans /\ [Next]_vars => ClaimsHaveScans'
  BY StepClaims
<1>3. QED
  BY <1>1, <1>2, MonitorTyped, PTL DEF Spec

\* A process that is up has left no scanned day without a claim, even in a
\* database that had none.
THEOREM EveryScanIsClaimed == Spec => []ScansAreClaimed
<1>1. Init => ScansAreClaimed
  BY InitParts
<1>2. TypeOK /\ ReadingsStand /\ ScansAreClaimed /\ [Next]_vars => ScansAreClaimed'
  BY StepScansAreClaimed
<1>3. QED
  BY <1>1, <1>2, MonitorTyped, PTL DEF Spec

\* No day is scanned automatically twice: a scanned day has a claim, the claim is
\* part of the transaction of the scan, and a second one is refused.
THEOREM NoDayTwice == Spec => OneAutoScanPerDay
<1>1. ASSUME TypeOK, ReadingsStand, ScansAreClaimed, [Next]_vars, NEW d \in Scanned
      PROVE  {n \in AutoScans' : scans'[n].day = d} = {n \in AutoScans : scans[n].day = d}
  <2>1. CASE \E p \in Processes : CommitScan(p)
    <3>1. PICK p \in Processes : CommitScan(p)
      BY <2>1
    <3>2. Scanned \subseteq claims
      BY <1>1, <3>1 DEF CommitScan, ScansAreClaimed
    <3>3. monitor[p].day # d
      BY <1>1, <3>1, <3>2 DEF CommitScan
    <3> DEFINE r == [day |-> monitor[p].day, actor |-> "auto-monitor"]
    <3>4. r \in ScanRows /\ r.day = monitor[p].day
      BY <1>1, <3>1, CommitScanStep DEF ScanRows
    <3>5. scans' = Append(scans, r) /\ scans \in Seq(ScanRows)
      BY <1>1, <3>1 DEF CommitScan, TypeOK
    <3> HIDE DEF r
    <3>6. /\ \A n \in DOMAIN scans : scans'[n] = scans[n]
          /\ scans'[Len(scans) + 1] = r
      BY <3>4, <3>5, RowAppended
    <3>7. AutoScans' = AutoScans \cup {Len(scans) + 1} /\ AutoScans \subseteq DOMAIN scans
      BY <1>1, <3>1, CommitScanStep DEF AutoScans
    <3>8. QED
      BY <1>1, <3>3, <3>4, <3>6, <3>7
  <2>2. CASE /\ AutoScans' = AutoScans /\ Scanned' = Scanned
             /\ \A n \in AutoScans : scans'[n].day = scans[n].day
    BY <2>2
  <2>3. QED
    BY <1>1, <2>1, <2>2, StepScans
<1>2. TypeOK /\ ReadingsStand /\ ScansAreClaimed /\ [Next]_vars =>
        [\A d \in Scanned :
           {n \in AutoScans' : scans'[n].day = d} = {n \in AutoScans : scans[n].day = d}]_vars
  BY <1>1
<1>3. QED
  BY <1>2, MonitorTyped, EveryScanIsClaimed, PTL DEF Spec, OneAutoScanPerDay

\* Repeated failures are journaled once, yet the last entry of the journal is the
\* error on display, or the line in the log that stands for it.
THEOREM ErrorsAreJournaled == Spec => []ErrorIsJournaled
<1>1. Init => MessagesAreOnRecord
  BY InitParts
<1>2. TypeOK /\ MessagesAreOnRecord /\ [Next]_vars => MessagesAreOnRecord'
  BY StepMessages
<1>3. MessagesAreOnRecord => ErrorIsJournaled
  BY DEF MessagesAreOnRecord, ErrorIsJournaled
<1>4. QED
  BY <1>1, <1>2, <1>3, MonitorTyped, PTL DEF Spec

\* However many processes scan, one that rests and calls itself caught up has
\* scanned every day it saw, unless a day that it did not see was scanned.
THEOREM CaughtUpOrOvertaken == Spec => []CaughtUpUnlessOvertaken
<1>1. Init => CaughtUpUnlessOvertaken
  BY InitParts
<1>2. TypeOK /\ ReadingsStand /\ CaughtUpUnlessOvertaken /\ [Next]_vars
        => CaughtUpUnlessOvertaken'
  BY StepCaughtUp
<1>3. QED
  BY <1>1, <1>2, MonitorTyped, PTL DEF Spec

\* A single process is never wrong about it, late days, crashes, failures and an
\* old database notwithstanding: it sees every day that is scanned.
THEOREM OneMonitorIsRight ==
  ASSUME \A p, q \in Processes : p = q
  PROVE  Spec => []CaughtUpIsTrue
<1>1. Init => SeesEveryScan
  BY InitParts
<1>2. TypeOK /\ ReadingsStand /\ DaysAreInSource /\ SeesEveryScan /\ [Next]_vars
        => SeesEveryScan'
  BY StepSees
<1>3. SeesEveryScan /\ CaughtUpUnlessOvertaken => CaughtUpIsTrue
  BY DEF SeesEveryScan, CaughtUpUnlessOvertaken, CaughtUpIsTrue
<1>4. QED
  BY <1>1, <1>2, <1>3, MonitorTyped, CaughtUpOrOvertaken, PTL DEF Spec

=============================================================================
