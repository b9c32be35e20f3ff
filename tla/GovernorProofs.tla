--------------------------- MODULE GovernorProofs ---------------------------
(* Proofs about Governor, for every value of its constants.                *)
EXTENDS Governor, FiniteSetTheorems, TLAPS

\* Day is the floor of a division: a day number, and monotone.
LEMMA DayMonotone ==
  ASSUME NEW a \in Int, NEW b \in Int, a <= b
  PROVE  Day(a) \in Int /\ Day(b) \in Int /\ Day(a) <= Day(b)
<1>1. DayLength \in Nat \ {0}
  BY GovernorAssumption
<1>2. /\ Day(a) \in Int /\ Day(b) \in Int
      /\ DayLength * Day(a) <= a /\ a < DayLength * Day(a) + DayLength
      /\ DayLength * Day(b) <= b /\ b < DayLength * Day(b) + DayLength
  BY <1>1 DEF Day
<1>3. SUFFICES ASSUME Day(b) + 1 <= Day(a)
               PROVE  FALSE
  BY <1>2
<1>4. DayLength * (Day(b) + 1) <= DayLength * Day(a)
  BY <1>1, <1>2, <1>3
<1>5. DayLength * (Day(b) + 1) = DayLength * Day(b) + DayLength
  BY <1>1, <1>2
<1>6. QED
  BY <1>1, <1>2, <1>4, <1>5

\* The clock and the days of its readings stay in their types.
LEMMA DayInDays ==
  ASSUME NEW t \in Times
  PROVE  Day(t) \in Days
<1>1. -Retention \in Int /\ MaxClock \in Int /\ -Retention <= t /\ t <= MaxClock /\ t \in Int
  BY GovernorAssumption DEF Times
<1>2. Day(-Retention) <= Day(t) /\ Day(t) <= Day(MaxClock)
  BY <1>1, DayMonotone
<1>3. Day(-Retention) \in Int /\ Day(t) \in Int /\ Day(MaxClock) \in Int
  BY <1>1, DayMonotone
<1>4. QED
  BY <1>2, <1>3 DEF Days

\* What a pruning transaction leaves is well typed.
LEMMA PruneType ==
  ASSUME TypeOK, NEW now \in Times
  PROVE  /\ DOMAIN PrunedCalls(now) \subseteq DOMAIN calls
         /\ PrunedCalls(now) \in [DOMAIN PrunedCalls(now) -> Row]
         /\ IsFiniteSet(DOMAIN PrunedCalls(now))
         /\ DOMAIN PrunedCache(now) \subseteq Keys
         /\ PrunedCache(now) \in [DOMAIN PrunedCache(now) -> Entry]
         /\ DOMAIN PrunedCooldown(now) \subseteq Identities
         /\ PrunedCooldown(now) \in [DOMAIN PrunedCooldown(now) -> Nat]
<1>1. DOMAIN PrunedCalls(now) \subseteq DOMAIN calls
  BY DEF PrunedCalls
<1>2. PrunedCalls(now) \in [DOMAIN PrunedCalls(now) -> Row]
  <2> SUFFICES ASSUME NEW i \in DOMAIN PrunedCalls(now)
               PROVE  PrunedCalls(now)[i] \in Row
    BY DEF PrunedCalls
  <2>1. calls[i] \in Row
    BY <1>1 DEF TypeOK
  <2>2. [calls[i] EXCEPT !.state = "failed"] \in Row
    BY <2>1 DEF Row, CallStates
  <2>3. QED
    BY <2>1, <2>2 DEF PrunedCalls
<1>3. IsFiniteSet(DOMAIN PrunedCalls(now))
  BY <1>1, FS_Subset DEF TypeOK
<1>4. /\ DOMAIN PrunedCache(now) \subseteq Keys
      /\ PrunedCache(now) \in [DOMAIN PrunedCache(now) -> Entry]
  BY DEF TypeOK, PrunedCache
<1>5. /\ DOMAIN PrunedCooldown(now) \subseteq Identities
      /\ PrunedCooldown(now) \in [DOMAIN PrunedCooldown(now) -> Nat]
  BY DEF TypeOK, PrunedCooldown
<1>6. QED
  BY <1>1, <1>2, <1>3, <1>4, <1>5

\* Typing is inductive.
LEMMA TypeStep == TypeOK /\ [Next]_vars => TypeOK'
<1> SUFFICES ASSUME TypeOK, [Next]_vars
             PROVE  TypeOK'
  OBVIOUS
<1> USE GovernorAssumption
<1> DEFINE Thread == {Idle} \cup Busy
<1>1. ASSUME NEW w \in Workers, NEW k \in Keys, StartRequest(w, k)
      PROVE  TypeOK'
  <2>1. [stage |-> "reserving", key |-> k, now |-> clock, row |-> 0] \in Thread
    BY DEF Stages, TypeOK, Busy
  <2>2. QED
    BY <1>1, <2>1 DEF StartRequest, TypeOK, tables, history
<1>2. ASSUME NEW w \in Workers, Prune(w), Refuse(w)
      PROVE  TypeOK'
  <2>1. worker[w] \in Busy /\ worker[w].now \in Times
    BY <1>2 DEF TypeOK, Prune, Idle, Busy
  <2>2. QED
    BY <1>2, <2>1, PruneType DEF Prune, Refuse, TypeOK, history
<1>3. ASSUME NEW w \in Workers, Reserve(w)
      PROVE  TypeOK'
  <2> DEFINE now == worker[w].now
             ledger == PrunedCalls(now)
             charge == [key |-> worker[w].key, day |-> Day(now), started |-> now,
                        state |-> "pending"]
  <2>1. worker[w] \in Busy /\ now \in Times /\ Day(now) \in Days
    BY <1>3, DayInDays DEF TypeOK, Prune, Reserve, Idle, Busy
  <2>2. charge \in Row
    BY <2>1 DEF Row, CallStates, Busy
  <2>3. PICK id \in RowIds :
          /\ IsNextRowId(id, ledger)
          /\ calls' = [i \in DOMAIN ledger \cup {id} |->
                         IF i = id THEN charge ELSE ledger[i]]
          /\ worker' = [worker EXCEPT ![w] = [@ EXCEPT !.stage = "reserved", !.row = id]]
    BY <1>3 DEF Reserve
  <2>4. /\ spent' = [spent EXCEPT ![Day(now)] = @ + 1]
        /\ cache' = PrunedCache(now)
        /\ cooldown' = PrunedCooldown(now)
        /\ UNCHANGED <<clock, failedAt>>
    BY <1>3 DEF Reserve, Prune
  <2>5. /\ DOMAIN ledger \subseteq RowIds /\ IsFiniteSet(DOMAIN ledger)
        /\ ledger \in [DOMAIN ledger -> Row]
        /\ DOMAIN cache' \subseteq Keys /\ cache' \in [DOMAIN cache' -> Entry]
        /\ DOMAIN cooldown' \subseteq Identities
        /\ cooldown' \in [DOMAIN cooldown' -> Nat]
    BY <2>1, <2>4, PruneType DEF TypeOK
  <2>6. [worker[w] EXCEPT !.stage = "reserved", !.row = id] \in Busy
    BY <2>1 DEF Busy, Stages
  <2> HIDE DEF now, ledger, charge
  <2>7. IsFiniteSet(DOMAIN ledger \cup {id})
    BY <2>5, FS_AddElement
  <2>8. /\ DOMAIN calls' = DOMAIN ledger \cup {id}
        /\ calls' \in [DOMAIN ledger \cup {id} -> Row]
    BY <2>2, <2>3, <2>5
  <2>9. /\ spent' \in [Days -> Nat]
        /\ worker' \in [Workers -> {Idle} \cup Busy]
    BY <2>1, <2>3, <2>4, <2>6 DEF TypeOK
  <2>10. QED
    BY <2>4, <2>5, <2>7, <2>8, <2>9 DEF TypeOK
<1>4. ASSUME NEW w \in Workers, Crash(w) \/ ReserveUnavailable(w) \/ FinishUnavailable(w)
      PROVE  TypeOK'
  BY <1>4 DEF Crash, ReserveUnavailable, FinishUnavailable, TypeOK, tables, history
<1>5. ASSUME NEW w \in Workers, Dispatch(w)
      PROVE  TypeOK'
  <2>1. worker[w] \in Busy
    BY <1>5 DEF Dispatch, TypeOK, Idle
  <2>2. [worker[w] EXCEPT !.stage = "calling"] \in Busy
    BY <2>1 DEF Busy, Stages
  <2>3. QED
    BY <1>5, <2>2 DEF Dispatch, TypeOK, tables, history
<1>6. ASSUME NEW w \in Workers, NEW o \in {"succeeding", "failing"}, Answer(w, o)
      PROVE  TypeOK'
  <2>1. worker[w] \in Busy
    BY <1>6 DEF Answer, TypeOK, Idle
  <2>2. [worker[w] EXCEPT !.stage = o, !.now = clock] \in Busy
    BY <2>1 DEF Busy, Stages, TypeOK
  <2>3. QED
    BY <1>6, <2>2 DEF Answer, TypeOK, tables, history
<1>7. ASSUME NEW r, NEW state \in CallStates, Settle(r, state)
      PROVE  calls' \in [DOMAIN calls -> Row] /\ DOMAIN calls' = DOMAIN calls
  BY <1>7 DEF Settle, TypeOK, Row
<1>8. ASSUME NEW w \in Workers, FinishSuccess(w)
      PROVE  TypeOK'
  <2> DEFINE key     == worker[w].key
             now     == worker[w].now
             entries == [k \in DOMAIN cache \cup {key} |->
                           IF k = key THEN [expires |-> now + TTL, updated |-> now]
                                      ELSE cache[k]]
  <2>1. worker[w] \in Busy /\ key \in Keys /\ now \in Times
    BY <1>8 DEF FinishSuccess, TypeOK, Idle, Busy
  <2>2. [expires |-> now + TTL, updated |-> now] \in Entry
    BY <2>1 DEF Entry, Times
  <2>3. /\ DOMAIN entries \subseteq Keys
        /\ entries \in [DOMAIN entries -> Entry]
    BY <2>1, <2>2 DEF TypeOK
  <2>4. PICK kept \in SUBSET DOMAIN entries : cache' = [k \in kept |-> entries[k]]
    BY <1>8 DEF FinishSuccess
  <2> HIDE DEF key, now, entries
  <2>5. DOMAIN cache' \subseteq Keys /\ cache' \in [DOMAIN cache' -> Entry]
    BY <2>3, <2>4
  <2>6. Settle(worker[w].row, "success")
    BY <1>8 DEF FinishSuccess
  <2>7. calls' \in [DOMAIN calls -> Row] /\ DOMAIN calls' = DOMAIN calls
    BY <1>7, <2>6 DEF CallStates
  <2>8. QED
    BY <1>8, <2>5, <2>7 DEF FinishSuccess, TypeOK, history
<1>9. ASSUME NEW w \in Workers, FinishFailure(w)
      PROVE  TypeOK'
  <2>1. worker[w] \in Busy /\ worker[w].key \in Keys /\ worker[w].now \in Times
    BY <1>9 DEF FinishFailure, TypeOK, Idle, Busy
  <2>2. IdentityOf[worker[w].key] \in Identities /\ worker[w].now + Cooldown \in Nat
    BY <2>1 DEF Times
  <2>3. DOMAIN cooldown' \subseteq Identities /\ cooldown' \in [DOMAIN cooldown' -> Nat]
    BY <1>9, <2>2 DEF FinishFailure, TypeOK
  <2>4. Settle(worker[w].row, "failed")
    BY <1>9 DEF FinishFailure
  <2>5. calls' \in [DOMAIN calls -> Row] /\ DOMAIN calls' = DOMAIN calls
    BY <1>7, <2>4 DEF CallStates
  <2>6. QED
    BY <1>9, <2>2, <2>3, <2>5 DEF FinishFailure, TypeOK
<1>10. CASE Tick
  BY <1>10 DEF Tick, TypeOK, Times, tables, history
<1>11. CASE UNCHANGED vars
  BY <1>11 DEF vars, tables, history, TypeOK
<1>12. ASSUME NEW w \in Workers, WorkerStep(w)
       PROVE  TypeOK'
  BY <1>1, <1>2, <1>3, <1>4, <1>5, <1>6, <1>8, <1>9, <1>12
     DEF WorkerStep, CacheHit, InFlight, CoolingDown, BudgetExhausted
<1>13. QED
  BY <1>10, <1>11, <1>12 DEF Next

\* Within the retention pruning loses no row, and it never loses a held one.
LEMMA PruneKeeps ==
  ASSUME LedgerInv, NEW w \in Workers, worker[w].stage = "reserving"
  PROVE  LET L == PrunedCalls(worker[w].now)
         IN  /\ DOMAIN L \subseteq DOMAIN calls
             /\ \A i \in DOMAIN L :
                  /\ L[i].key = calls[i].key
                  /\ L[i].day = calls[i].day
                  /\ L[i].started = calls[i].started
                  /\ \/ L[i].state = calls[i].state
                     \/ L[i].state = "failed" /\ calls[i].started < clock - Stale
             /\ \A d \in Days : d >= Day(clock - Retention) => RowsOf(L, d) = RowsOf(calls, d)
             /\ \A v \in Workers : worker[v].stage \in Holding => worker[v].row \in DOMAIN L
<1> USE GovernorAssumption
<1> DEFINE now == worker[w].now
           L == PrunedCalls(now)
<1>1. /\ clock \in Int /\ now \in Int /\ now <= clock
      /\ Retention \in Nat /\ Stale \in Nat /\ MaxFlight \in Nat /\ MaxLag \in Nat
  <2>1. worker[w] \in Busy
    BY DEF LedgerInv, TypeOK, Idle
  <2>2. QED
    BY <2>1 DEF LedgerInv, TypeOK, ReadingsRecent, Busy, Times
<1>2. Day(now - Retention) \in Int /\ Day(clock - Retention) \in Int
      /\ Day(now - Retention) <= Day(clock - Retention)
  BY <1>1, DayMonotone
<1>3. DOMAIN L = {i \in DOMAIN calls : calls[i].day >= Day(now - Retention)}
  BY DEF PrunedCalls
<1>4. ASSUME NEW i \in DOMAIN L
      PROVE  /\ L[i].key = calls[i].key
             /\ L[i].day = calls[i].day
             /\ L[i].started = calls[i].started
             /\ \/ L[i].state = calls[i].state
                \/ L[i].state = "failed" /\ calls[i].started < clock - Stale
  <2>1. i \in DOMAIN calls /\ calls[i] \in Row
    BY <1>3 DEF LedgerInv, TypeOK
  <2>2. CASE calls[i].state = "pending" /\ calls[i].started < now - Stale
    <3>1. L[i] = [calls[i] EXCEPT !.state = "failed"]
      BY <1>3, <2>2 DEF PrunedCalls
    <3>2. calls[i].started < clock - Stale
      BY <1>1, <2>1, <2>2 DEF Row, Times
    <3>3. QED
      BY <3>1, <3>2, <2>1 DEF Row
  <2>3. CASE ~(calls[i].state = "pending" /\ calls[i].started < now - Stale)
    BY <1>3, <2>3 DEF PrunedCalls
  <2>4. QED
    BY <2>2, <2>3
<1>5. ASSUME NEW d \in Days, d >= Day(clock - Retention)
      PROVE  RowsOf(L, d) = RowsOf(calls, d)
  <2>1. d \in Int
    BY DEF Days
  <2>2. \A i \in DOMAIN calls : calls[i].day = d => i \in DOMAIN L
    BY <1>2, <1>3, <1>5, <2>1
  <2>3. QED
    BY <1>3, <1>4, <2>2 DEF RowsOf
<1>6. ASSUME NEW v \in Workers, worker[v].stage \in Holding
      PROVE  worker[v].row \in DOMAIN L
  <2> DEFINE r == calls[worker[v].row]
  <2>1. worker[v] \in Busy
    BY <1>6 DEF LedgerInv, TypeOK, Idle, Holding
  <2>2. worker[v].row \in DOMAIN calls /\ r \in Row /\ r.day = Day(r.started)
    BY <1>6 DEF LedgerInv, RowsHeld, RowsDated, TypeOK
  <2>3. r.started \in Int /\ worker[v].now \in Int /\ worker[v].now <= clock
    BY <2>1, <2>2 DEF Row, Busy, Times, LedgerInv, ReadingsRecent
  <2>4. clock - r.started <= MaxFlight + MaxLag
    <3>1. CASE worker[v].stage \in {"reserved", "calling"}
      BY <1>1, <1>6, <2>3, <3>1 DEF LedgerInv, RowsHeld, ReadingsRecent
    <3>2. CASE worker[v].stage \in {"succeeding", "failing"}
      <4>1. worker[v].now - r.started <= MaxFlight /\ clock - worker[v].now <= MaxLag
        BY <1>6, <3>2 DEF LedgerInv, RowsHeld, ReadingsRecent, Locking
      <4>2. QED
        BY <1>1, <2>3, <4>1
    <3>3. QED
      BY <1>6, <3>1, <3>2 DEF Holding
  <2>5. now - Retention <= r.started
    BY <1>1, <2>3, <2>4
  <2>6. Day(now - Retention) <= r.day
    BY <1>1, <2>2, <2>3, <2>5, DayMonotone
  <2>7. r.day \in Int
    BY <2>2, <2>3, DayMonotone
  <2>8. QED
    BY <1>2, <1>3, <2>2, <2>6, <2>7
<1>7. QED
  BY <1>3, <1>4, <1>5, <1>6

\* A step of w that ends its request, and leaves the rows of the others and the
\* rows within the retention as they are, up to timing out.
LEMMA Release ==
  ASSUME LedgerInv, TypeOK', clock' = clock, spent' = spent,
         NEW w \in Workers, worker' = [worker EXCEPT ![w] = Idle],
         DOMAIN calls' \subseteq DOMAIN calls,
         \A i \in DOMAIN calls' : /\ calls'[i].key = calls[i].key
                                  /\ calls'[i].day = calls[i].day
                                  /\ calls'[i].started = calls[i].started,
         \A d \in Days : d >= Day(clock - Retention) => RowsOf(calls', d) = RowsOf(calls, d),
         \A v \in Workers \ {w} : worker[v].stage \in Holding =>
           /\ worker[v].row \in DOMAIN calls'
           /\ \/ calls'[worker[v].row].state = calls[worker[v].row].state
              \/ calls[worker[v].row].started < clock - Stale
  PROVE  LedgerInv'
<1>1. \A v \in Workers : worker'[v] = IF v = w THEN Idle ELSE worker[v]
  BY DEF LedgerInv, TypeOK
<1>2. Idle.stage = "idle" /\ Idle.now = 0 /\ clock >= 0
  BY DEF Idle, LedgerInv, TypeOK, Times
<1>3. ReadingsRecent'
  BY <1>1, <1>2 DEF ReadingsRecent, LedgerInv, Locking
<1>4. RowsDated'
  BY DEF RowsDated, LedgerInv
<1>5. \A v \in Workers : worker'[v].stage \in Holding => v # w /\ worker'[v] = worker[v]
  BY <1>1, <1>2 DEF Holding
<1>6. RowsHeld'
  BY <1>5 DEF RowsHeld, LedgerInv
<1>7. LedgerShowsSpending' /\ QuotaNeverExceeded'
  BY DEF LedgerShowsSpending, QuotaNeverExceeded, LedgerInv
<1>8. EveryCallIsCharged'
  BY <1>5 DEF EveryCallIsCharged, LedgerInv
<1>9. DuplicateOnlyAfterTimeout'
  BY <1>5, <1>6 DEF DuplicateOnlyAfterTimeout, RowsHeld, LedgerInv
<1>10. QED
  BY <1>3, <1>4, <1>6, <1>7, <1>8, <1>9 DEF LedgerInv

\* The requests that end without a reservation.
LEMMA RefuseStep ==
  ASSUME LedgerInv, TypeOK', NEW w \in Workers, Prune(w), Refuse(w)
  PROVE  LedgerInv'
<1>1. worker[w].stage = "reserving"
  BY DEF Prune
<1>2. calls' = PrunedCalls(worker[w].now) /\ clock' = clock /\ spent' = spent
      /\ worker' = [worker EXCEPT ![w] = Idle]
  BY DEF Refuse, history
<1>3. QED
  BY <1>1, <1>2, PruneKeeps, Release

\* The requests that end after their provider call.
LEMMA SettleStep ==
  ASSUME LedgerInv, TypeOK', NEW w \in Workers, FinishSuccess(w) \/ FinishFailure(w)
  PROVE  LedgerInv'
<1>1. PICK state \in CallStates : Settle(worker[w].row, state)
  BY DEF FinishSuccess, FinishFailure, CallStates
<1>2. worker[w].stage \in Holding
  BY DEF FinishSuccess, FinishFailure, Holding
<1>3. /\ clock' = clock /\ spent' = spent
      /\ worker' = [worker EXCEPT ![w] = Idle]
  BY DEF FinishSuccess, FinishFailure, history
<1>4. DOMAIN calls' = DOMAIN calls
  BY <1>1 DEF Settle
<1>5. ASSUME NEW i \in DOMAIN calls
      PROVE  /\ calls'[i].key = calls[i].key
             /\ calls'[i].day = calls[i].day
             /\ calls'[i].started = calls[i].started
             /\ i # worker[w].row => calls'[i] = calls[i]
  <2>1. calls[i] \in Row
    BY DEF LedgerInv, TypeOK
  <2>2. QED
    BY <1>1, <2>1 DEF Settle, Row
<1>6. \A d \in Days : RowsOf(calls', d) = RowsOf(calls, d)
  BY <1>4, <1>5 DEF RowsOf
<1>7. \A v \in Workers \ {w} : worker[v].stage \in Holding =>
        /\ worker[v].row \in DOMAIN calls'
        /\ calls'[worker[v].row].state = calls[worker[v].row].state
  BY <1>2, <1>4, <1>5 DEF LedgerInv, EveryCallIsCharged
<1>8. \A i \in DOMAIN calls' : /\ calls'[i].key = calls[i].key
                               /\ calls'[i].day = calls[i].day
                               /\ calls'[i].started = calls[i].started
  BY <1>4, <1>5
<1>9. DOMAIN calls' \subseteq DOMAIN calls
  BY <1>4
<1>10. QED
  BY <1>3, <1>6, <1>7, <1>8, <1>9, Release

\* Steps of a thread that touch no table.
LEMMA ThreadStep ==
  ASSUME LedgerInv, TypeOK', NEW w \in Workers, NEW k \in Keys,
         NEW o \in {"succeeding", "failing"},
         \/ StartRequest(w, k) \/ Dispatch(w) \/ Answer(w, o)
         \/ Crash(w) \/ ReserveUnavailable(w) \/ FinishUnavailable(w)
  PROVE  LedgerInv'
<1>1. clock' = clock /\ calls' = calls /\ spent' = spent
  BY DEF StartRequest, Dispatch, Answer, Crash, ReserveUnavailable, FinishUnavailable,
         tables, history
<1>2. CASE Crash(w) \/ ReserveUnavailable(w) \/ FinishUnavailable(w)
  <2>1. worker' = [worker EXCEPT ![w] = Idle]
    BY <1>2 DEF Crash, ReserveUnavailable, FinishUnavailable
  <2>2. \A v \in Workers : worker[v].stage \in Holding => worker[v].row \in DOMAIN calls
    BY DEF LedgerInv, RowsHeld
  <2>3. QED
    BY <1>1, <2>1, <2>2, Release
<1>3. CASE StartRequest(w, k) \/ Dispatch(w) \/ Answer(w, o)
  <2>1. RowsDated' /\ LedgerShowsSpending' /\ QuotaNeverExceeded'
    BY <1>1 DEF RowsDated, LedgerShowsSpending, QuotaNeverExceeded, LedgerInv
  <2>2. PICK new : worker' = [worker EXCEPT ![w] = new]
    BY <1>3 DEF StartRequest, Dispatch, Answer
  <2>3. \A v \in Workers : worker'[v] = IF v = w THEN new ELSE worker[v]
    BY <2>2 DEF LedgerInv, TypeOK
  <2>4. \/ /\ new.stage = "reserving" /\ new.now = clock
        \/ /\ worker[w].stage \in {"reserved", "calling"}
           /\ new.key = worker[w].key /\ new.row = worker[w].row
           /\ \/ new.stage = "calling" /\ new.now = worker[w].now
              \/ new.stage \in {"succeeding", "failing"} /\ new.now = clock
    <3>1. new = worker'[w]
      BY <2>3
    <3>2. CASE StartRequest(w, k)
      BY <3>1, <3>2 DEF StartRequest, LedgerInv, TypeOK
    <3>3. CASE Dispatch(w) \/ Answer(w, o)
      <4>1. worker[w] \in Busy
        BY <3>3 DEF Dispatch, Answer, LedgerInv, TypeOK, Idle
      <4>2. CASE Dispatch(w)
        <5>1. worker'[w] = [worker[w] EXCEPT !.stage = "calling"]
          BY <4>2 DEF Dispatch, LedgerInv, TypeOK
        <5>2. worker[w].stage = "reserved"
          BY <4>2 DEF Dispatch
        <5>3. QED
          BY <3>1, <4>1, <5>1, <5>2 DEF Busy
      <4>3. CASE Answer(w, o)
        <5>1. worker'[w] = [worker[w] EXCEPT !.stage = o, !.now = clock]
          BY <4>3 DEF Answer, LedgerInv, TypeOK
        <5>2. worker[w].stage = "calling"
          BY <4>3 DEF Answer
        <5>3. QED
          BY <3>1, <4>1, <5>1, <5>2 DEF Busy
      <4>4. QED
        BY <3>3, <4>2, <4>3
    <3>4. QED
      BY <1>3, <3>2, <3>3
  <2>5. /\ clock \in Int /\ MaxLag \in Nat /\ MaxFlight \in Nat
    BY GovernorAssumption DEF LedgerInv, TypeOK, Times
  <2>6. ReadingsRecent'
    BY <1>1, <2>3, <2>4, <2>5 DEF ReadingsRecent, LedgerInv, Locking
  <2>7. RowsHeld'
    BY <1>1, <2>3, <2>4, <2>5 DEF RowsHeld, ReadingsRecent, LedgerInv, Holding
  <2>8. \A v \in Workers : worker'[v].stage \in Holding =>
          /\ worker[v].stage \in Holding
          /\ worker'[v].key = worker[v].key /\ worker'[v].row = worker[v].row
    BY <2>3, <2>4 DEF Holding
  <2>9. EveryCallIsCharged'
    BY <1>1, <2>8 DEF EveryCallIsCharged, LedgerInv
  <2>10. DuplicateOnlyAfterTimeout'
    BY <1>1, <2>8 DEF DuplicateOnlyAfterTimeout, LedgerInv
  <2>11. QED
    BY <2>1, <2>6, <2>7, <2>9, <2>10 DEF LedgerInv
<1>4. QED
  BY <1>2, <1>3

\* A reservation: the table still shows all that was spent on the day of the
\* clock reading, so the limit it is compared with is the true one.
LEMMA ReserveStep ==
  ASSUME LedgerInv, TypeOK', NEW w \in Workers, Reserve(w)
  PROVE  LedgerInv'
<1> USE GovernorAssumption
<1> DEFINE now == worker[w].now
           L == PrunedCalls(now)
           charge == [key |-> worker[w].key, day |-> Day(now), started |-> now,
                      state |-> "pending"]
           today == Day(now)
<1>1. worker[w].stage = "reserving" /\ worker[w] \in Busy
  BY DEF Reserve, Prune, LedgerInv, TypeOK, Idle
<1>2. /\ clock \in Int /\ now \in Int /\ now \in Times
      /\ now <= clock /\ clock - now <= MaxLag
      /\ MaxLag \in Nat /\ MaxFlight \in Nat /\ Retention \in Nat /\ Stale \in Nat
      /\ MaxLag <= Retention /\ MaxLag <= MaxFlight
  BY <1>1 DEF LedgerInv, TypeOK, ReadingsRecent, Busy, Times, Locking
<1>3. /\ DOMAIN L \subseteq DOMAIN calls
      /\ \A i \in DOMAIN L :
           /\ L[i].key = calls[i].key
           /\ L[i].day = calls[i].day
           /\ L[i].started = calls[i].started
           /\ \/ L[i].state = calls[i].state
              \/ L[i].state = "failed" /\ calls[i].started < clock - Stale
      /\ \A d \in Days : d >= Day(clock - Retention) => RowsOf(L, d) = RowsOf(calls, d)
      /\ \A v \in Workers : worker[v].stage \in Holding => worker[v].row \in DOMAIN L
  BY <1>1, PruneKeeps
<1>4. PICK id \in RowIds :
        /\ IsNextRowId(id, L)
        /\ calls' = [i \in DOMAIN L \cup {id} |-> IF i = id THEN charge ELSE L[i]]
        /\ worker' = [worker EXCEPT ![w] = [@ EXCEPT !.stage = "reserved", !.row = id]]
  BY DEF Reserve
<1>5. /\ clock' = clock
      /\ spent' = [spent EXCEPT ![today] = @ + 1]
      /\ Cardinality(RowsOf(L, today)) < DailyLimit
      /\ PendingOf(L, worker[w].key) = {}
  BY DEF Reserve, SpentToday, Admissible
<1>6. today \in Days /\ today \in Int /\ today >= Day(clock - Retention)
      /\ Day(clock - Retention) \in Int
  BY <1>2, DayInDays, DayMonotone
<1>7. IsFiniteSet(DOMAIN L)
  BY <1>2, PruneType DEF LedgerInv
<1>8. /\ charge.key = worker[w].key /\ charge.day = Day(charge.started)
      /\ charge.started = now /\ charge.state = "pending" /\ charge.day = today
  OBVIOUS
<1> HIDE DEF L, charge, today
<1>9. /\ DOMAIN calls' = DOMAIN L \cup {id} /\ id \notin DOMAIN L
      /\ calls'[id] = charge
      /\ \A i \in DOMAIN L : calls'[i] = L[i]
  BY <1>4 DEF IsNextRowId
<1>10. \A v \in Workers \ {w} : worker'[v] = worker[v]
  BY <1>4 DEF LedgerInv, TypeOK
<1>11. /\ worker'[w].stage = "reserved" /\ worker'[w].row = id
       /\ worker'[w].key = worker[w].key /\ worker'[w].now = now
  <2>1. worker'[w] = [worker[w] EXCEPT !.stage = "reserved", !.row = id]
    BY <1>4 DEF LedgerInv, TypeOK
  <2>2. QED
    BY <1>1, <2>1 DEF Busy
<1>12. ReadingsRecent'
  BY <1>2, <1>5, <1>10, <1>11 DEF ReadingsRecent, LedgerInv, Locking
<1>13. RowsDated'
  BY <1>2, <1>3, <1>5, <1>8, <1>9 DEF RowsDated, LedgerInv
<1>14. ASSUME NEW v \in Workers \ {w}, worker[v].stage \in Holding
       PROVE  /\ worker[v].row \in DOMAIN L /\ worker[v].row # id
              /\ calls'[worker[v].row] = L[worker[v].row]
              /\ L[worker[v].row].key = worker[v].key
              /\ L[worker[v].row].started = calls[worker[v].row].started
              /\ \/ L[worker[v].row].state = "pending"
                 \/ calls[worker[v].row].started < clock - Stale
  BY <1>3, <1>9, <1>14 DEF LedgerInv, RowsHeld
<1>15. RowsHeld'
  <2> SUFFICES ASSUME NEW v \in Workers, worker'[v].stage \in Holding
               PROVE  LET row == calls'[worker'[v].row]
                      IN  /\ worker'[v].row \in DOMAIN calls'
                          /\ row.key = worker'[v].key
                          /\ row.state = "pending" \/ row.started < clock' - Stale
                          /\ worker'[v].stage \in {"reserved", "calling"} =>
                               row.started = worker'[v].now
                          /\ worker'[v].stage \in {"succeeding", "failing"} =>
                               /\ row.started <= worker'[v].now
                               /\ worker'[v].now - row.started <= MaxFlight
    BY DEF RowsHeld
  <2>1. CASE v = w
    BY <1>8, <1>9, <1>11, <2>1
  <2>2. CASE v # w
    BY <1>5, <1>9, <1>10, <1>14, <2>2 DEF LedgerInv, RowsHeld
  <2>3. QED
    BY <2>1, <2>2
<1>16. ASSUME NEW d \in Days
       PROVE  /\ RowsOf(calls', d) = IF d = today THEN RowsOf(L, d) \cup {id} ELSE RowsOf(L, d)
              /\ IsFiniteSet(RowsOf(L, d)) /\ id \notin RowsOf(L, d)
  <2>1. RowsOf(L, d) \subseteq DOMAIN L
    BY DEF RowsOf
  <2>2. IsFiniteSet(RowsOf(L, d))
    BY <1>7, <2>1, FS_Subset
  <2>3. QED
    BY <1>8, <1>9, <2>1, <2>2 DEF RowsOf
<1>17. \A d \in Days : spent'[d] = IF d = today THEN spent[d] + 1 ELSE spent[d]
  BY <1>5, <1>6 DEF LedgerInv, TypeOK
<1>18. LedgerShowsSpending'
  <2> SUFFICES ASSUME NEW d \in Days, d >= Day(clock' - Retention)
               PROVE  Cardinality(RowsOf(calls', d)) = spent'[d]
    BY DEF LedgerShowsSpending
  <2>1. Cardinality(RowsOf(L, d)) = spent[d]
    BY <1>3, <1>5 DEF LedgerInv, LedgerShowsSpending
  <2>2. QED
    BY <1>16, <1>17, <2>1, FS_AddElement
<1>19. QuotaNeverExceeded'
  <2>1. spent[today] < DailyLimit
    BY <1>3, <1>5, <1>6 DEF LedgerInv, LedgerShowsSpending
  <2>2. spent[today] \in Nat
    BY <1>6 DEF LedgerInv, TypeOK
  <2>3. QED
    BY <1>17, <2>1, <2>2 DEF QuotaNeverExceeded, LedgerInv
<1>20. EveryCallIsCharged'
  <2> SUFFICES ASSUME NEW v \in Workers, worker'[v].stage \in Holding,
                      NEW u \in Workers \ {v}, worker'[u].stage \in Holding
               PROVE  worker'[u].row # worker'[v].row
    BY <1>15 DEF EveryCallIsCharged, RowsHeld
  <2>1. CASE v = w
    BY <1>10, <1>11, <1>14, <2>1
  <2>2. CASE u = w
    BY <1>10, <1>11, <1>14, <2>2
  <2>3. CASE v # w /\ u # w
    BY <1>10, <2>3 DEF EveryCallIsCharged, LedgerInv
  <2>4. QED
    BY <2>1, <2>2, <2>3
<1>21. ASSUME NEW v \in Workers \ {w}, worker[v].stage \in Holding,
              worker[v].key = worker[w].key
       PROVE  now - calls'[worker[v].row].started > Stale - MaxLag
  <2>1. L[worker[v].row].state # "pending"
    BY <1>5, <1>14, <1>21 DEF PendingOf
  <2>2. calls[worker[v].row].started < clock - Stale
    BY <1>14, <1>21, <2>1
  <2>3. calls[worker[v].row].started \in Int
    BY <1>3, <1>14, <1>21 DEF LedgerInv, TypeOK, Row, Times
  <2>4. QED
    BY <1>2, <1>14, <1>21, <2>2, <2>3
<1>22. DuplicateOnlyAfterTimeout'
  <2> SUFFICES ASSUME NEW v \in Workers, NEW u \in Workers, v # u,
                      worker'[v].stage \in Holding, worker'[u].stage \in Holding,
                      worker'[v].key = worker'[u].key
               PROVE  LET s == calls'[worker'[v].row].started
                          t == calls'[worker'[u].row].started
                      IN  s - t > Stale - MaxLag \/ t - s > Stale - MaxLag
    BY DEF DuplicateOnlyAfterTimeout
  <2>1. CASE v = w
    BY <1>8, <1>9, <1>10, <1>11, <1>21, <2>1
  <2>2. CASE u = w
    BY <1>8, <1>9, <1>10, <1>11, <1>21, <2>2
  <2>3. CASE v # w /\ u # w
    <3>1. calls'[worker'[v].row].started = calls[worker[v].row].started
          /\ calls'[worker'[u].row].started = calls[worker[u].row].started
      BY <1>10, <1>14, <2>3
    <3>2. QED
      BY <1>10, <2>3, <3>1 DEF DuplicateOnlyAfterTimeout, LedgerInv
  <2>4. QED
    BY <2>1, <2>2, <2>3
<1>23. QED
  BY <1>12, <1>13, <1>15, <1>18, <1>19, <1>20, <1>22 DEF LedgerInv

\* Time passing only shrinks the retention.
LEMMA TickStep ==
  ASSUME LedgerInv, TypeOK', Tick
  PROVE  LedgerInv'
<1>1. /\ clock' = clock + 1 /\ calls' = calls /\ worker' = worker /\ spent' = spent
      /\ clock \in Int /\ Retention \in Nat /\ Stale \in Nat
      /\ MaxLag \in Nat /\ MaxFlight \in Nat
  BY GovernorAssumption DEF Tick, tables, history, LedgerInv, TypeOK, Times
<1>2. \A w \in Workers : worker[w].now \in Int
  BY DEF LedgerInv, TypeOK, Busy, Idle, Times
<1>3. \A i \in DOMAIN calls : calls[i].started \in Int
  BY DEF LedgerInv, TypeOK, Row, Times
<1>4. ReadingsRecent'
  BY <1>1, <1>2 DEF ReadingsRecent, LedgerInv, Tick
<1>5. RowsDated'
  BY <1>1, <1>3 DEF RowsDated, LedgerInv
<1>6. RowsHeld'
  BY <1>1, <1>2, <1>3 DEF RowsHeld, LedgerInv
<1>7. LedgerShowsSpending'
  <2> SUFFICES ASSUME NEW d \in Days, d >= Day(clock' - Retention)
               PROVE  Cardinality(RowsOf(calls, d)) = spent[d]
    BY <1>1 DEF LedgerShowsSpending
  <2>1. /\ Day(clock - Retention) \in Int /\ Day(clock' - Retention) \in Int
        /\ Day(clock - Retention) <= Day(clock' - Retention)
    BY <1>1, DayMonotone
  <2>2. d >= Day(clock - Retention)
    BY <2>1 DEF Days
  <2>3. QED
    BY <2>2 DEF LedgerShowsSpending, LedgerInv
<1>8. QuotaNeverExceeded' /\ EveryCallIsCharged' /\ DuplicateOnlyAfterTimeout'
  BY <1>1 DEF QuotaNeverExceeded, EveryCallIsCharged, DuplicateOnlyAfterTimeout, LedgerInv
<1>9. QED
  BY <1>4, <1>5, <1>6, <1>7, <1>8 DEF LedgerInv

LEMMA LedgerInit == Init => LedgerInv
<1> SUFFICES ASSUME Init
             PROVE  LedgerInv
  OBVIOUS
<1> USE GovernorAssumption
<1>1. \A w \in Workers : worker[w].stage = "idle" /\ worker[w].now = 0
  BY DEF Init, Idle
<1>2. DOMAIN calls = {} /\ IsFiniteSet({})
  BY FS_EmptySet DEF Init
<1>3. clock = 0 /\ 0 \in Times
  BY DEF Init, Times
<1>4. TypeOK
  BY <1>2, <1>3 DEF Init, TypeOK
<1>5. ReadingsRecent /\ RowsDated /\ RowsHeld /\ EveryCallIsCharged /\ DuplicateOnlyAfterTimeout
  BY <1>1, <1>2, <1>3 DEF ReadingsRecent, RowsDated, RowsHeld, EveryCallIsCharged,
                          DuplicateOnlyAfterTimeout, Holding, Locking
<1>6. \A d \in Days : spent[d] = 0 /\ Cardinality(RowsOf(calls, d)) = 0
  <2>1. \A d \in Days : RowsOf(calls, d) = {}
    BY <1>2 DEF RowsOf
  <2>2. QED
    BY <2>1, FS_EmptySet DEF Init
<1>7. QED
  BY <1>4, <1>5, <1>6 DEF LedgerInv, LedgerShowsSpending, QuotaNeverExceeded

LEMMA LedgerStep == LedgerInv /\ [Next]_vars => LedgerInv'
<1> SUFFICES ASSUME LedgerInv, [Next]_vars
             PROVE  LedgerInv'
  OBVIOUS
<1>1. TypeOK'
  BY TypeStep DEF LedgerInv
<1>2. ASSUME NEW w \in Workers, WorkerStep(w)
      PROVE  LedgerInv'
  <2>1. ASSUME Prune(w), Refuse(w)
        PROVE  LedgerInv'
    BY <1>1, <2>1, RefuseStep
  <2>2. CASE CacheHit(w) \/ InFlight(w) \/ CoolingDown(w) \/ BudgetExhausted(w)
    BY <2>1, <2>2 DEF CacheHit, InFlight, CoolingDown, BudgetExhausted
  <2>3. CASE Reserve(w)
    BY <1>1, <2>3, ReserveStep
  <2>4. CASE FinishSuccess(w) \/ FinishFailure(w)
    BY <1>1, <2>4, SettleStep
  <2>5. CASE \E k \in Keys : StartRequest(w, k)
    BY <1>1, <2>5, ThreadStep
  <2>6. CASE \/ Dispatch(w) \/ Crash(w) \/ ReserveUnavailable(w) \/ FinishUnavailable(w)
             \/ \E o \in {"succeeding", "failing"} : Answer(w, o)
    <3>1. worker[w] \in Busy
      BY <2>6 DEF Dispatch, Crash, ReserveUnavailable, FinishUnavailable, Answer,
                  LedgerInv, TypeOK, Idle
    <3>2. PICK k \in Keys : k = worker[w].key
      BY <3>1 DEF Busy
    <3>3. QED
      BY <1>1, <2>6, <3>2, ThreadStep
  <2>7. QED
    BY <1>2, <2>2, <2>3, <2>4, <2>5, <2>6 DEF WorkerStep
<1>3. CASE Tick
  BY <1>1, <1>3, TickStep
<1>4. CASE UNCHANGED vars
  <2>1. clock' = clock /\ calls' = calls /\ worker' = worker /\ spent' = spent
    BY <1>4 DEF vars, tables, history
  <2>2. QED
    BY <1>1, <2>1 DEF LedgerInv, ReadingsRecent, RowsDated, RowsHeld,
       LedgerShowsSpending, QuotaNeverExceeded, EveryCallIsCharged,
       DuplicateOnlyAfterTimeout
<1>5. QED
  BY <1>2, <1>3, <1>4 DEF Next

\* The governor's inductive invariant: rows, threads and the allowance agree.
THEOREM LedgerInvariant == Spec => []LedgerInv
<1>1. QED
  BY LedgerInit, LedgerStep, PTL DEF Spec

\* Every variable keeps its type.
THEOREM TypeCorrect == Spec => []TypeOK
<1>1. LedgerInv => TypeOK
  BY DEF LedgerInv
<1>2. QED
  BY <1>1, LedgerInvariant, PTL

\* However many threads and processes share the state file, and whatever
\* crashes, no UTC day is ever charged more than the daily limit.
THEOREM QuotaHolds == Spec => []QuotaNeverExceeded
<1>1. LedgerInv => QuotaNeverExceeded
  BY DEF LedgerInv
<1>2. QED
  BY <1>1, LedgerInvariant, PTL

\* A thread between its reservation and the end of its request owns a row.
THEOREM CallsAreCharged == Spec => []EveryCallIsCharged
<1>1. LedgerInv => EveryCallIsCharged
  BY DEF LedgerInv
<1>2. QED
  BY <1>1, LedgerInvariant, PTL

\* Two calls for one fingerprint overlap only across the 180-second timeout.
THEOREM DuplicatesAreTimeouts == Spec => []DuplicateOnlyAfterTimeout
<1>1. LedgerInv => DuplicateOnlyAfterTimeout
  BY DEF LedgerInv
<1>2. QED
  BY <1>1, LedgerInvariant, PTL

-----------------------------------------------------------------------------
(* The four shapes of a thread's step.                                     *)

\* A step that touches no table, and takes the thread into no call.
Moves(w) ==
  /\ UNCHANGED <<clock, tables, history>>
  /\ \E s : /\ worker' = [worker EXCEPT ![w] = s]
            /\ s.stage # "reserved"
            /\ s.stage \in Holding => worker[w].stage \in Holding /\ s.row = worker[w].row

Turns(w) == Prune(w) /\ Refuse(w)

LEMMA StepShapes ==
  ASSUME TypeOK, NEW w \in Workers, WorkerStep(w)
  PROVE  \/ Moves(w) \/ Turns(w) \/ Reserve(w)
         \/ FinishSuccess(w) \/ FinishFailure(w)
<1>1. CASE CacheHit(w) \/ InFlight(w) \/ CoolingDown(w) \/ BudgetExhausted(w)
  BY <1>1 DEF CacheHit, InFlight, CoolingDown, BudgetExhausted, Turns
<1>2. CASE ReserveUnavailable(w) \/ FinishUnavailable(w) \/ Crash(w)
  <2>1. Idle.stage # "reserved" /\ Idle.stage \notin Holding
    BY DEF Idle, Holding
  <2>2. QED
    BY <1>2, <2>1 DEF ReserveUnavailable, FinishUnavailable, Crash, Moves
<1>3. CASE \E k \in Keys : StartRequest(w, k)
  <2>1. PICK k \in Keys : StartRequest(w, k)
    BY <1>3
  <2>2. PICK s : s = [stage |-> "reserving", key |-> k, now |-> clock, row |-> 0]
    OBVIOUS
  <2>3. s.stage # "reserved" /\ s.stage \notin Holding
    BY <2>2 DEF Holding
  <2>4. QED
    BY <2>1, <2>2, <2>3 DEF StartRequest, Moves
<1>4. CASE Dispatch(w)
  <2>1. worker[w] \in Busy /\ worker[w].stage \in Holding
    BY <1>4 DEF Dispatch, TypeOK, Idle, Holding
  <2>2. PICK s : s = [worker[w] EXCEPT !.stage = "calling"]
    OBVIOUS
  <2>3. s.stage # "reserved" /\ s.row = worker[w].row
    BY <2>1, <2>2 DEF Busy
  <2>4. worker' = [worker EXCEPT ![w] = s]
    BY <1>4, <2>2 DEF Dispatch
  <2>5. QED
    BY <1>4, <2>1, <2>3, <2>4 DEF Dispatch, Moves
<1>5. CASE \E outcome \in {"succeeding", "failing"} : Answer(w, outcome)
  <2>1. PICK outcome \in {"succeeding", "failing"} : Answer(w, outcome)
    BY <1>5
  <2>2. worker[w] \in Busy /\ worker[w].stage \in Holding
    BY <2>1 DEF Answer, TypeOK, Idle, Holding
  <2>3. PICK s : s = [worker[w] EXCEPT !.stage = outcome, !.now = clock]
    OBVIOUS
  <2>4. s.stage # "reserved" /\ s.row = worker[w].row
    BY <2>2, <2>3 DEF Busy
  <2>5. worker' = [worker EXCEPT ![w] = s]
    BY <2>1, <2>3 DEF Answer
  <2>6. QED
    BY <2>1, <2>2, <2>4, <2>5 DEF Answer, Moves
<1>6. QED
  BY <1>1, <1>2, <1>3, <1>4, <1>5 DEF WorkerStep

\* The clock reading of a thread is never ahead of the clock, nor further behind
\* than the lock could be waited for.
LEMMA Reading ==
  ASSUME LedgerInv, NEW w \in Workers, worker[w].stage \in Locking
  PROVE  /\ worker[w].now \in Nat /\ clock \in Nat /\ MaxLag \in Nat /\ Cooldown \in Nat
         /\ worker[w].now <= clock /\ clock - worker[w].now <= MaxLag
         /\ worker[w].key \in Keys /\ IdentityOf[worker[w].key] \in Identities
<1>1. worker[w] \in Busy
  BY DEF LedgerInv, TypeOK, Idle, Locking
<1>2. QED
  BY <1>1, GovernorAssumption DEF LedgerInv, TypeOK, ReadingsRecent, Busy, Times

-----------------------------------------------------------------------------
(* A pause lasts.                                                          *)

\* A pruning transaction takes a pause away only when it is over.
LEMMA PausePruned ==
  ASSUME LedgerInv, PausesStand, NEW w \in Workers, Prune(w),
         NEW p \in Identities, failedAt[p] >= 0
  PROVE  \/ p \in DOMAIN cooldown' /\ cooldown'[p] >= PauseEnd(p)
         \/ clock >= PauseEnd(p)
<1>1. worker[w].now \in Nat /\ clock \in Nat /\ worker[w].now <= clock
  BY Reading DEF Prune, Locking
<1>2. failedAt[p] \in Int /\ PauseEnd(p) \in Int
  BY GovernorAssumption DEF LedgerInv, TypeOK, Times, PauseEnd
<1>3. CASE p \in DOMAIN cooldown /\ cooldown[p] >= PauseEnd(p)
  <2>1. cooldown[p] \in Nat
    BY <1>3 DEF LedgerInv, TypeOK
  <2>2. CASE cooldown[p] > worker[w].now
    BY <1>3, <2>2 DEF Prune, PrunedCooldown
  <2>3. CASE cooldown[p] <= worker[w].now
    BY <1>1, <1>2, <1>3, <2>1, <2>3
  <2>4. QED
    BY <1>1, <2>1, <2>2, <2>3
<1>4. CASE clock >= PauseEnd(p)
  BY <1>4
<1>5. QED
  BY <1>3, <1>4 DEF PausesStand

LEMMA PauseStep ==
  ASSUME LedgerInv, PausesStand, [Next]_vars
  PROVE  PausesStand'
<1>1. CASE cooldown' = cooldown /\ failedAt' = failedAt /\ clock' = clock
  BY <1>1 DEF PausesStand, PauseEnd
<1>2. CASE Tick
  <2>1. cooldown' = cooldown /\ failedAt' = failedAt /\ clock' = clock + 1
    BY <1>2 DEF Tick, tables, history
  <2>2. clock \in Int /\ \A p \in Identities : failedAt[p] \in Int /\ PauseEnd(p) \in Int
    BY GovernorAssumption DEF LedgerInv, TypeOK, Times, PauseEnd
  <2>3. \A p \in Identities : PauseEnd(p)' = PauseEnd(p)
    BY <2>1 DEF PauseEnd
  <2>4. \A p \in Identities : clock >= PauseEnd(p) => clock + 1 >= PauseEnd(p)
    BY <2>2
  <2>5. QED
    BY <2>1, <2>3, <2>4 DEF PausesStand
<1>3. ASSUME NEW w \in Workers, Turns(w) \/ Reserve(w)
      PROVE  PausesStand'
  <2>1. Prune(w) /\ clock' = clock /\ failedAt' = failedAt
    BY <1>3 DEF Turns, Refuse, Reserve, history
  <2>2. QED
    BY <2>1, PausePruned DEF PausesStand, PauseEnd
<1>4. ASSUME NEW w \in Workers, FinishFailure(w)
      PROVE  PausesStand'
  <2>1. PICK p \in Identities : p = IdentityOf[worker[w].key]
    BY <1>4, Reading DEF FinishFailure, Locking
  <2>2. /\ cooldown' = [q \in DOMAIN cooldown \cup {p} |->
                          IF q = p THEN worker[w].now + Cooldown ELSE cooldown[q]]
        /\ failedAt' = [failedAt EXCEPT ![p] = clock] /\ clock' = clock
    BY <1>4, <2>1 DEF FinishFailure
  <2>3. failedAt'[p] = clock /\ \A q \in Identities \ {p} : failedAt'[q] = failedAt[q]
    BY <2>1, <2>2 DEF LedgerInv, TypeOK
  <2>4. p \in DOMAIN cooldown' /\ cooldown'[p] >= failedAt'[p] + Cooldown - MaxLag
    <3>1. /\ worker[w].now \in Nat /\ clock \in Nat /\ MaxLag \in Nat /\ Cooldown \in Nat
          /\ clock - worker[w].now <= MaxLag
      BY <1>4, Reading DEF FinishFailure, Locking
    <3>2. cooldown'[p] = worker[w].now + Cooldown /\ p \in DOMAIN cooldown'
      BY <2>2
    <3>3. QED
      BY <2>3, <3>1, <3>2
  <2>5. \A q \in Identities \ {p} :
          (q \in DOMAIN cooldown' <=> q \in DOMAIN cooldown)
          /\ (q \in DOMAIN cooldown => cooldown'[q] = cooldown[q])
    BY <2>2
  <2>6. QED
    BY <2>2, <2>3, <2>4, <2>5 DEF PausesStand, PauseEnd
<1>5. ASSUME NEW w \in Workers, Moves(w) \/ FinishSuccess(w)
      PROVE  PausesStand'
  BY <1>1, <1>5 DEF Moves, FinishSuccess, tables, history
<1>6. CASE UNCHANGED vars
  BY <1>1, <1>6 DEF vars, tables, history
<1>7. TypeOK
  BY DEF LedgerInv
<1>8. QED
  BY <1>2, <1>3, <1>4, <1>5, <1>6, <1>7, StepShapes DEF Next

\* The pause of a failed identity is in the table until it is over, whichever
\* threads prune it, record other failures or wait for the lock meanwhile.
THEOREM PausesLast == Spec => []PausesStand
<1>1. Init => PausesStand
  BY DEF Init, PausesStand
<1>2. LedgerInv /\ PausesStand /\ [Next]_vars => PausesStand'
  BY PauseStep
<1>3. QED
  BY <1>1, <1>2, LedgerInvariant, PTL DEF Spec

\* Nothing is reserved for an identity within the pause after a recorded failure
\* of it, less the failing thread's wait for the lock.
THEOREM FailuresPause == Spec => PauseAfterFailure
<1>1. LedgerInv /\ PausesStand /\ [Next]_vars =>
        [\A w \in Workers :
           worker[w].stage = "reserving" /\ worker'[w].stage = "reserved" =>
             LET p == IdentityOf[worker[w].key]
             IN  failedAt[p] >= 0 => clock >= failedAt[p] + Cooldown - MaxLag]_vars
  <2> SUFFICES ASSUME LedgerInv, PausesStand, Next, NEW w \in Workers,
                      worker[w].stage = "reserving", worker'[w].stage = "reserved",
                      failedAt[IdentityOf[worker[w].key]] >= 0
               PROVE  clock >= PauseEnd(IdentityOf[worker[w].key])
    BY DEF PauseEnd
  <2>1. ASSUME NEW v \in Workers, WorkerStep(v)
        PROVE  Reserve(w)
    <3>1. TypeOK
      BY DEF LedgerInv
    <3>2. \E s : worker' = [worker EXCEPT ![v] = s]
      BY <2>1, <3>1, StepShapes DEF Moves, Turns, Refuse, Reserve, FinishSuccess, FinishFailure
    <3>3. v = w
      BY <3>1, <3>2 DEF TypeOK
    <3>4. ~ Moves(w)
      BY <3>1 DEF Moves, TypeOK
    <3>5. ~ (Turns(w) \/ FinishSuccess(w) \/ FinishFailure(w))
      BY <3>1 DEF Turns, Refuse, FinishSuccess, FinishFailure, TypeOK, Idle
    <3>6. QED
      BY <2>1, <3>1, <3>3, <3>4, <3>5, StepShapes
  <2>2. ~ Tick
    BY DEF Tick
  <2>3. Reserve(w)
    BY <2>1, <2>2 DEF Next
  <2>4. Prune(w) /\ IdentityOf[worker[w].key] \notin DOMAIN cooldown'
    BY <2>3 DEF Reserve
  <2>5. IdentityOf[worker[w].key] \in Identities
    BY Reading DEF Locking
  <2>6. QED
    BY <2>4, <2>5, PausePruned
<1>2. QED
  BY <1>1, LedgerInvariant, PausesLast, PTL DEF Spec, PauseAfterFailure

-----------------------------------------------------------------------------
(* Outcomes stand.                                                         *)

\* What may become of a row: nothing, a timeout, or an answer after one.
Stands(i) ==
  /\ [calls'[i] EXCEPT !.state = calls[i].state] = calls[i]
  /\ calls'[i].state # calls[i].state =>
       \/ calls[i].state = "pending"
       \/ calls[i].state = "failed" /\ calls'[i].state = "success"

LEMMA StateOnly ==
  ASSUME NEW r \in Row, NEW state
  PROVE  /\ [[r EXCEPT !.state = state] EXCEPT !.state = r.state] = r
         /\ [r EXCEPT !.state = r.state] = r
         /\ [r EXCEPT !.state = state].state = state
BY DEF Row

\* Pruning times rows out, and does nothing else to those it keeps.
LEMMA PruneStands ==
  ASSUME TypeOK, NEW now, NEW i \in DOMAIN PrunedCalls(now),
         calls'[i] = PrunedCalls(now)[i]
  PROVE  Stands(i)
<1>1. i \in DOMAIN calls /\ calls[i] \in Row
  BY DEF PrunedCalls, TypeOK
<1>2. CASE calls'[i] = calls[i]
  BY <1>1, <1>2, StateOnly DEF Stands
<1>3. CASE calls'[i] = [calls[i] EXCEPT !.state = "failed"] /\ calls[i].state = "pending"
  BY <1>1, <1>3, StateOnly DEF Stands
<1>4. QED
  BY <1>2, <1>3 DEF PrunedCalls

LEMMA SettleStands ==
  ASSUME TypeOK, NEW row, NEW state \in {"success", "failed"}, Settle(row, state),
         state = "failed" => calls[row].state # "success",
         NEW i \in DOMAIN calls
  PROVE  Stands(i)
<1>1. calls[i] \in Row /\ calls[i].state \in CallStates
  BY DEF TypeOK, Row
<1>2. CASE i = row
  <2>1. calls'[i] = [calls[i] EXCEPT !.state = state]
    BY <1>2 DEF Settle
  <2>2. /\ [[calls[i] EXCEPT !.state = state] EXCEPT !.state = calls[i].state] = calls[i]
        /\ [calls[i] EXCEPT !.state = state].state = state
    BY <1>1 DEF Row
  <2>3. QED
    BY <1>1, <1>2, <2>1, <2>2 DEF Stands, CallStates
<1>3. CASE i # row
  <2>1. calls'[i] = calls[i]
    BY <1>3 DEF Settle
  <2>2. QED
    BY <1>1, <2>1, StateOnly DEF Stands
<1>4. QED
  BY <1>2, <1>3

LEMMA UnsettledStep ==
  ASSUME LedgerInv, RowsUnsettled, [Next]_vars
  PROVE  RowsUnsettled'
<1>1. CASE calls' = calls /\ worker' = worker
  BY <1>1 DEF RowsUnsettled
<1>2. ASSUME NEW w \in Workers, Moves(w)
      PROVE  RowsUnsettled'
  <2>1. calls' = calls
    BY <1>2 DEF Moves, tables
  <2>2. PICK s : /\ worker' = [worker EXCEPT ![w] = s]
                 /\ s.stage \in Holding => worker[w].stage \in Holding /\ s.row = worker[w].row
    BY <1>2 DEF Moves
  <2>3. \A v \in Workers : worker'[v] = IF v = w THEN s ELSE worker[v]
    BY <2>2 DEF LedgerInv, TypeOK
  <2>4. QED
    BY <2>1, <2>2, <2>3 DEF RowsUnsettled
<1>3. ASSUME NEW w \in Workers, Turns(w)
      PROVE  RowsUnsettled'
  <2>1. \A v \in Workers : worker'[v] = IF v = w THEN Idle ELSE worker[v]
    BY <1>3 DEF Turns, Refuse, LedgerInv, TypeOK
  <2>2. worker[w].stage = "reserving" /\ calls' = PrunedCalls(worker[w].now)
    BY <1>3 DEF Turns, Refuse, Prune
  <2>3. \A v \in Workers : worker[v].stage \in Holding =>
          calls'[worker[v].row].state \in {calls[worker[v].row].state, "failed"}
    BY <2>2, PruneKeeps
  <2>4. QED
    BY <2>1, <2>3 DEF RowsUnsettled, Idle, Holding
<1>4. ASSUME NEW w \in Workers, Reserve(w)
      PROVE  RowsUnsettled'
  <2>1. PICK L : L = PrunedCalls(worker[w].now)
    OBVIOUS
  <2>2. worker[w].stage = "reserving" /\ worker[w] \in Busy
    BY <1>4 DEF Reserve, Prune, LedgerInv, TypeOK, Idle
  <2>3. PICK id \in RowIds :
          /\ id \notin DOMAIN L
          /\ calls' = [i \in DOMAIN L \cup {id} |->
               IF i = id THEN [key |-> worker[w].key, day |-> Day(worker[w].now),
                               started |-> worker[w].now, state |-> "pending"]
                         ELSE L[i]]
          /\ worker' = [worker EXCEPT ![w] = [@ EXCEPT !.stage = "reserved", !.row = id]]
    BY <1>4, <2>1 DEF Reserve, IsNextRowId
  <2>4. calls'[id].state = "pending" /\ \A i \in DOMAIN L : calls'[i] = L[i]
    BY <2>3
  <2>5. worker'[w].row = id /\ \A v \in Workers \ {w} : worker'[v] = worker[v]
    BY <2>2, <2>3 DEF LedgerInv, TypeOK, Busy
  <2>6. \A v \in Workers : worker[v].stage \in Holding =>
          /\ worker[v].row \in DOMAIN L
          /\ L[worker[v].row].state \in {calls[worker[v].row].state, "failed"}
    BY <2>1, <2>2, PruneKeeps
  <2>7. QED
    BY <2>4, <2>5, <2>6 DEF RowsUnsettled
<1>5. ASSUME NEW w \in Workers, FinishSuccess(w) \/ FinishFailure(w)
      PROVE  RowsUnsettled'
  <2>1. \A v \in Workers : worker'[v] = IF v = w THEN Idle ELSE worker[v]
    BY <1>5 DEF FinishSuccess, FinishFailure, LedgerInv, TypeOK
  <2>2. \A i \in DOMAIN calls : i # worker[w].row => calls'[i] = calls[i]
    BY <1>5 DEF FinishSuccess, FinishFailure, Settle
  <2>3. worker[w].stage \in Holding
    BY <1>5 DEF FinishSuccess, FinishFailure, Holding
  <2>4. \A v \in Workers \ {w} : worker[v].stage \in Holding =>
          worker[v].row \in DOMAIN calls /\ worker[v].row # worker[w].row
    BY <2>3 DEF LedgerInv, EveryCallIsCharged
  <2>5. QED
    BY <2>1, <2>2, <2>4 DEF RowsUnsettled, Idle, Holding
<1>6. CASE Tick \/ UNCHANGED vars
  BY <1>1, <1>6 DEF Tick, vars, tables
<1>7. TypeOK
  BY DEF LedgerInv
<1>8. QED
  BY <1>2, <1>3, <1>4, <1>5, <1>6, <1>7, StepShapes DEF Next

\* As long as a thread holds a row, nobody has recorded a success in it.
THEOREM OpenCallsUnsettled == Spec => []RowsUnsettled
<1>1. Init => RowsUnsettled
  BY DEF Init, RowsUnsettled, Idle, Holding
<1>2. LedgerInv /\ RowsUnsettled /\ [Next]_vars => RowsUnsettled'
  BY UnsettledStep
<1>3. QED
  BY <1>1, <1>2, LedgerInvariant, PTL DEF Spec

\* Within the retention a row keeps its key, day and start, and its outcome but
\* for a success that comes after its timeout: no late answer, no pruning and no
\* reused rowid turns a success into a failure.
THEOREM OutcomesAreFinal == Spec => OutcomesStand
<1>1. LedgerInv /\ RowsUnsettled /\ [Next]_vars =>
        [\A i \in DOMAIN calls \cap DOMAIN calls' :
           calls[i].day >= Day(clock - Retention) =>
             /\ [calls'[i] EXCEPT !.state = calls[i].state] = calls[i]
             /\ calls'[i].state # calls[i].state =>
                  \/ calls[i].state = "pending"
                  \/ calls[i].state = "failed" /\ calls'[i].state = "success"]_vars
  <2> SUFFICES ASSUME LedgerInv, RowsUnsettled, Next,
                      NEW i \in DOMAIN calls \cap DOMAIN calls',
                      calls[i].day >= Day(clock - Retention)
               PROVE  Stands(i)
    BY DEF Stands
  <2>1. TypeOK /\ calls[i] \in Row
    BY DEF LedgerInv, TypeOK
  <2>2. ASSUME calls' = calls
        PROVE  Stands(i)
    BY <2>1, <2>2, StateOnly DEF Stands
  <2>3. ASSUME NEW w \in Workers, WorkerStep(w)
        PROVE  Stands(i)
    <3>1. CASE Moves(w)
      BY <2>2, <3>1 DEF Moves, tables
    <3>2. CASE Turns(w)
      BY <2>1, <3>2, PruneStands DEF Turns, Refuse
    <3>3. CASE Reserve(w)
      <4>1. PICK L : L = PrunedCalls(worker[w].now)
        OBVIOUS
      <4>2. i \in DOMAIN L
        <5>1. RowsOf(L, calls[i].day) = RowsOf(calls, calls[i].day)
          BY <2>1, <3>3, <4>1, PruneKeeps DEF Reserve, Prune, Row
        <5>2. QED
          BY <5>1 DEF RowsOf
      <4>3. calls'[i] = L[i]
        BY <3>3, <4>1, <4>2 DEF Reserve, IsNextRowId
      <4>4. QED
        BY <2>1, <4>1, <4>2, <4>3, PruneStands
    <3>4. CASE FinishSuccess(w)
      BY <2>1, <3>4, SettleStands DEF FinishSuccess
    <3>5. CASE FinishFailure(w)
      <4>1. calls[worker[w].row].state # "success"
        BY <3>5 DEF FinishFailure, RowsUnsettled, Holding
      <4>2. QED
        BY <2>1, <3>5, <4>1, SettleStands DEF FinishFailure
    <3>6. QED
      BY <2>1, <2>3, <3>1, <3>2, <3>3, <3>4, <3>5, StepShapes
  <2>4. CASE Tick
    BY <2>2, <2>4 DEF Tick, tables
  <2>5. QED
    BY <2>3, <2>4 DEF Next
<1>2. QED
  BY <1>1, LedgerInvariant, OpenCallsUnsettled, PTL DEF Spec, OutcomesStand

\* A request is turned away as in flight only for a reservation that is within
\* the timeout.
THEOREM OnlyFreshCallsBlock == Spec => BlockedOnlyWhileFresh
<1>1. LedgerInv /\ [Next]_vars =>
        [\A w \in Workers :
           InFlight(w) =>
             \E i \in PendingOf(calls, worker[w].key) :
               calls[i].started >= worker[w].now - Stale]_vars
  <2> SUFFICES ASSUME LedgerInv, NEW w \in Workers, InFlight(w)
               PROVE  \E i \in PendingOf(calls, worker[w].key) :
                        calls[i].started >= worker[w].now - Stale
    OBVIOUS
  <2>1. PICK i : i \in PendingOf(PrunedCalls(worker[w].now), worker[w].key)
    BY DEF InFlight
  <2>2. /\ i \in DOMAIN calls
        /\ PrunedCalls(worker[w].now)[i].state = "pending"
        /\ PrunedCalls(worker[w].now)[i].key = worker[w].key
    BY <2>1 DEF PendingOf, PrunedCalls
  <2>3. calls[i] \in Row /\ calls[i].started \in Int
    BY <2>2 DEF LedgerInv, TypeOK, Row, Times
  <2>4. i \in DOMAIN PrunedCalls(worker[w].now)
    BY <2>1 DEF PendingOf
  <2>5. CASE calls[i].state = "pending" /\ calls[i].started < worker[w].now - Stale
    <3>1. PrunedCalls(worker[w].now)[i] = [calls[i] EXCEPT !.state = "failed"]
      BY <2>4, <2>5 DEF PrunedCalls
    <3>2. [calls[i] EXCEPT !.state = "failed"].state = "failed"
      BY <2>3 DEF Row
    <3>3. QED
      BY <2>2, <3>1, <3>2
  <2>6. CASE ~ (calls[i].state = "pending" /\ calls[i].started < worker[w].now - Stale)
    <3>1. PrunedCalls(worker[w].now)[i] = calls[i]
      BY <2>4, <2>6 DEF PrunedCalls
    <3>2. i \in PendingOf(calls, worker[w].key)
      BY <2>2, <3>1 DEF PendingOf
    <3>3. worker[w].now \in Nat /\ Stale \in Nat
      BY Reading, GovernorAssumption DEF InFlight, Prune, Locking
    <3>4. calls[i].started >= worker[w].now - Stale
      BY <2>2, <2>3, <2>6, <3>1, <3>3
    <3>5. QED
      BY <3>2, <3>4
  <2>7. QED
    BY <2>5, <2>6
<1>2. QED
  BY <1>1, LedgerInvariant, PTL DEF Spec, BlockedOnlyWhileFresh

-----------------------------------------------------------------------------
(* The governor implements the bare allowance.                             *)

Permits == {w \in Workers : worker[w].stage = "reserved"}

LEMMA AllowanceInit == Init => Allowance!Init
<1> SUFFICES ASSUME Init
             PROVE  Allowance!Init
  OBVIOUS
<1>1. \A w \in Workers : worker[w].stage = "idle"
  BY DEF Init, Idle
<1>2. QED
  BY <1>1 DEF Init, Allowance!Init

LEMMA AllowanceStep ==
  LedgerInv /\ [Next]_vars => [Allowance!Next]_(Allowance!vars)
<1> SUFFICES ASSUME LedgerInv, [Next]_vars
             PROVE  Allowance!Next \/ (spent' = spent /\ Permits' = Permits)
  BY DEF Allowance!vars, Permits
<1>1. ASSUME NEW w \in Workers, NEW new, worker' = [worker EXCEPT ![w] = new],
             spent' = spent,
             new.stage = "reserved" => worker[w].stage = "reserved"
      PROVE  Allowance!Next \/ (spent' = spent /\ Permits' = Permits)
  <2>1. \A v \in Workers : worker'[v] = IF v = w THEN new ELSE worker[v]
    BY <1>1 DEF LedgerInv, TypeOK
  <2>2. CASE worker[w].stage = "reserved" /\ new.stage # "reserved"
    <3>1. w \in Permits /\ Permits' = Permits \ {w}
      BY <2>1, <2>2 DEF Permits
    <3>2. Allowance!Use(w)
      BY <1>1, <3>1 DEF Allowance!Use, Permits
    <3>3. QED
      BY <3>2 DEF Allowance!Next
  <2>3. CASE worker[w].stage # "reserved" \/ new.stage = "reserved"
    <3>1. Permits' = Permits
      BY <1>1, <2>1, <2>3 DEF Permits
    <3>2. QED
      BY <1>1, <3>1
  <2>4. QED
    BY <2>2, <2>3
<1>2. ASSUME NEW w \in Workers, Reserve(w)
      PROVE  Allowance!Next
  <2> DEFINE today == Day(worker[w].now)
  <2>1. worker[w].stage = "reserving" /\ worker[w] \in Busy /\ worker[w].now \in Times
    BY <1>2 DEF Reserve, Prune, LedgerInv, TypeOK, Idle, Busy
  <2>2. /\ clock \in Int /\ worker[w].now \in Int /\ worker[w].now <= clock
        /\ clock - worker[w].now <= MaxLag /\ MaxLag \in Nat /\ Retention \in Nat
        /\ MaxLag <= Retention
    BY <2>1, GovernorAssumption DEF LedgerInv, TypeOK, ReadingsRecent, Locking, Times
  <2>3. today \in Days /\ today >= Day(clock - Retention)
    BY <2>1, <2>2, DayInDays, DayMonotone
  <2>4. spent[today] < DailyLimit
    <3>1. Cardinality(RowsOf(calls, today)) = spent[today]
      BY <2>3 DEF LedgerInv, LedgerShowsSpending
    <3>2. RowsOf(PrunedCalls(worker[w].now), today) = RowsOf(calls, today)
      BY <2>1, <2>3, PruneKeeps
    <3>3. QED
      BY <1>2, <3>1, <3>2 DEF Reserve, SpentToday
  <2>5. spent' = [spent EXCEPT ![today] = @ + 1]
    BY <1>2 DEF Reserve
  <2>6. PICK id \in RowIds :
          worker' = [worker EXCEPT ![w] = [@ EXCEPT !.stage = "reserved", !.row = id]]
    BY <1>2 DEF Reserve
  <2>7. worker'[w].stage = "reserved"
    <3>1. worker'[w] = [worker[w] EXCEPT !.stage = "reserved", !.row = id]
      BY <2>6 DEF LedgerInv, TypeOK
    <3>2. QED
      BY <2>1, <3>1 DEF Busy
  <2>8. \A v \in Workers \ {w} : worker'[v] = worker[v]
    BY <2>6 DEF LedgerInv, TypeOK
  <2>9. w \notin Permits /\ Permits' = Permits \cup {w}
    BY <2>1, <2>7, <2>8 DEF Permits
  <2> HIDE DEF today
  <2>10. \E d \in Days : Allowance!Acquire(w, d)
    BY <2>3, <2>4, <2>5, <2>9 DEF Allowance!Acquire, Permits
  <2>11. QED
    BY <2>10 DEF Allowance!Next
<1>3. ASSUME NEW w \in Workers, WorkerStep(w)
      PROVE  Allowance!Next \/ (spent' = spent /\ Permits' = Permits)
  <2>1. CASE Reserve(w)
    BY <1>2, <2>1
  <2>2. CASE \/ CacheHit(w) \/ InFlight(w) \/ CoolingDown(w) \/ BudgetExhausted(w)
             \/ FinishSuccess(w) \/ FinishFailure(w)
             \/ Crash(w) \/ ReserveUnavailable(w) \/ FinishUnavailable(w)
    <3>1. worker' = [worker EXCEPT ![w] = Idle] /\ spent' = spent
      BY <2>2 DEF CacheHit, InFlight, CoolingDown, BudgetExhausted, Refuse,
         FinishSuccess, FinishFailure, Crash, ReserveUnavailable, FinishUnavailable, history
    <3>2. Idle.stage # "reserved"
      BY DEF Idle
    <3>3. QED
      BY <1>1, <3>1, <3>2
  <2>3. CASE \E k \in Keys : StartRequest(w, k)
    <3>1. PICK k \in Keys : StartRequest(w, k)
      BY <2>3
    <3> DEFINE new == [stage |-> "reserving", key |-> k, now |-> clock, row |-> 0]
    <3>2. worker' = [worker EXCEPT ![w] = new] /\ spent' = spent
      BY <3>1 DEF StartRequest, history
    <3>3. new.stage # "reserved"
      OBVIOUS
    <3>4. QED
      BY <1>1, <3>2, <3>3
  <2>4. CASE Dispatch(w) \/ \E o \in {"succeeding", "failing"} : Answer(w, o)
    <3>1. PICK new : /\ worker' = [worker EXCEPT ![w] = new] /\ spent' = spent
                     /\ new = worker'[w]
      BY <2>4 DEF Dispatch, Answer, history, LedgerInv, TypeOK
    <3>2. worker[w] \in Busy
      BY <2>4 DEF Dispatch, Answer, LedgerInv, TypeOK, Idle
    <3>3. new.stage # "reserved"
      <4>1. CASE Dispatch(w)
        <5>1. worker'[w] = [worker[w] EXCEPT !.stage = "calling"]
          BY <4>1 DEF Dispatch, LedgerInv, TypeOK
        <5>2. QED
          BY <3>1, <3>2, <5>1 DEF Busy
      <4>2. CASE \E o \in {"succeeding", "failing"} : Answer(w, o)
        <5>1. PICK o \in {"succeeding", "failing"} :
                worker'[w] = [worker[w] EXCEPT !.stage = o, !.now = clock]
          BY <4>2 DEF Answer, LedgerInv, TypeOK
        <5>2. QED
          BY <3>1, <3>2, <5>1 DEF Busy
      <4>3. QED
        BY <2>4, <4>1, <4>2
    <3>4. QED
      BY <1>1, <3>1, <3>3
  <2>5. QED
    BY <1>3, <2>1, <2>2, <2>3, <2>4 DEF WorkerStep
<1>4. CASE Tick \/ UNCHANGED vars
  BY <1>4 DEF Tick, vars, history, Permits
<1>5. QED
  BY <1>3, <1>4 DEF Next

\* Every behaviour of the governor is a behaviour of the allowance: a paid call
\* uses up a unit taken from its day, and no unit comes back.
THEOREM GovernorImplementsAllowance == Spec => ImplementsAllowance
<1>1. QED
  BY AllowanceInit, AllowanceStep, LedgerInvariant, PTL
     DEF Spec, ImplementsAllowance, Allowance!Spec

=============================================================================
