------------------------------ MODULE Governor ------------------------------
(***************************************************************************)
(* The admission control of paid AI calls: GovernedProvider of             *)
(* src/moneygraph/ai/governance.py.  Every API process and every request   *)
(* thread builds its own GovernedProvider, but all of them share one       *)
(* SQLite file.  A worker below is one such thread serving one request     *)
(* after another; the tables of the file are shared state.                 *)
(*                                                                         *)
(* Each transaction of the code starts with BEGIN IMMEDIATE, so a          *)
(* transaction is one atomic step here.  What is NOT atomic is what the    *)
(* code does around them: the clock is read before the write lock is       *)
(* obtained, the provider is called between two transactions, and a        *)
(* process may die at any point.                                           *)
(***************************************************************************)
EXTENDS Integers, FiniteSets

CONSTANTS
  Workers,      \* threads of API processes that call the provider
  Keys,         \* request fingerprints (request_key)
  Identities,   \* provider and model fingerprints (provider_key)
  IdentityOf,   \* the identity each request fingerprint was computed with
  RowIds,       \* an initial segment of the rowids of ai_calls (bound)
  DailyLimit,   \* daily_call_limit
  MaxEntries,   \* max_cache_entries
  TTL,          \* cache_ttl_seconds
  DayLength,    \* one UTC day, 86400 seconds in the code
  Retention,    \* 90 * 86400 seconds in the code
  Cooldown,     \* 60 seconds in the code
  Stale,        \* 180 seconds in the code
  MaxLag,       \* longest wait from a clock reading to the write lock
  MaxFlight,    \* longest time from a reservation to the provider's answer
  MaxClock,     \* bound of the clock
  NoKey         \* the request of an idle worker

(***************************************************************************)
(* A thread does not outlive the 90 days a ledger row is kept, and neither *)
(* does a cached answer.                                                   *)
(***************************************************************************)
ASSUME GovernorAssumption ==
  /\ IdentityOf \in [Keys -> Identities]
  /\ RowIds \subseteq Nat
  /\ NoKey \notin Keys
  /\ DailyLimit \in Nat
  /\ {MaxEntries, TTL, DayLength, Cooldown, Stale, MaxFlight} \subseteq Nat \ {0}
  /\ {Retention, MaxLag, MaxClock} \subseteq Nat
  /\ MaxLag <= MaxFlight
  /\ MaxFlight + MaxLag + TTL <= Retention

VARIABLES
  clock,     \* wall-clock time
  calls,     \* ai_calls: rowid -> row
  cache,     \* ai_cache: request_key -> entry
  cooldown,  \* ai_cooldown: provider_key -> until
  worker,    \* what each thread is doing
  spent,     \* history: reservations ever made for a UTC day
  failedAt   \* history: when an identity's last failure was recorded, or -1

tables == <<calls, cache, cooldown>>
history == <<spent, failedAt>>
vars == <<clock, tables, worker, history>>

-----------------------------------------------------------------------------
(* Days, rows and workers.                                                 *)

Day(t) == t \div DayLength

Days == Day(-Retention) .. Day(MaxClock)

Times == 0 .. MaxClock

CallStates == {"pending", "success", "failed"}

Row == [key: Keys, day: Days, started: Times, state: CallStates]

Entry == [expires: Nat, updated: Times]

Stages == {"idle", "reserving", "reserved", "calling", "succeeding", "failing"}

\* Stages that wait for the write lock after reading the clock.
Locking == {"reserving", "succeeding", "failing"}

\* Stages between a committed reservation and the end of its request.
Holding == {"reserved", "calling", "succeeding", "failing"}

\* What a thread remembers between requests: nothing.
Idle == [stage |-> "idle", key |-> NoKey, now |-> 0, row |-> 0]

\* What it remembers during one.
Busy == [stage: Stages \ {"idle"}, key: Keys, now: Times, row: RowIds \cup {0}]

RowsOf(ledger, d) == {i \in DOMAIN ledger : ledger[i].day = d}

\* Variation: no look for a pending call of the same key.
PendingOfNobody(ledger, k) == {}

PendingOf(ledger, k) ==
  {i \in DOMAIN ledger : ledger[i].key = k /\ ledger[i].state = "pending"}

\* SQLite gives a new row the largest rowid in the table plus one.
IsNextRowId(i, ledger) ==
  /\ i \notin DOMAIN ledger
  /\ \A j \in DOMAIN ledger : j < i
  /\ i = 1 \/ i - 1 \in DOMAIN ledger

(* _prune: the first statements of every reservation transaction.          *)

\* Variations a change of the code could bring in, each breaking a property:
\* pruning forgets an abandoned reservation, or times out any old row, or none.
PrunedCallsForgetting(now) ==
  [i \in {i \in DOMAIN calls :
           /\ calls[i].day >= Day(now - Retention)
           /\ ~ (calls[i].state = "pending" /\ calls[i].started < now - Stale)} |->
     calls[i]]

PrunedCallsFailingAll(now) ==
  [i \in {i \in DOMAIN calls : calls[i].day >= Day(now - Retention)} |->
     IF calls[i].started < now - Stale
       THEN [calls[i] EXCEPT !.state = "failed"]
       ELSE calls[i]]

PrunedCallsKeepingPending(now) ==
  [i \in {i \in DOMAIN calls : calls[i].day >= Day(now - Retention)} |-> calls[i]]

PrunedCalls(now) ==
  [i \in {i \in DOMAIN calls : calls[i].day >= Day(now - Retention)} |->
     IF calls[i].state = "pending" /\ calls[i].started < now - Stale
       THEN [calls[i] EXCEPT !.state = "failed"]
       ELSE calls[i]]

PrunedCache(now) ==
  [k \in {k \in DOMAIN cache : cache[k].expires > now} |-> cache[k]]

PrunedCooldown(now) ==
  [p \in {p \in DOMAIN cooldown : cooldown[p] > now} |-> cooldown[p]]

-----------------------------------------------------------------------------
Init ==
  /\ clock = 0
  /\ calls = [i \in {} |-> 0]
  /\ cache = [k \in {} |-> 0]
  /\ cooldown = [p \in {} |-> 0]
  /\ worker = [w \in Workers |-> Idle]
  /\ spent = [d \in Days |-> 0]
  /\ failedAt = [p \in Identities |-> -1]

(* _run up to the clock reading of _reserve. *)
StartRequest(w, k) ==
  /\ worker[w].stage = "idle"
  /\ worker' = [worker EXCEPT ![w] =
       [stage |-> "reserving", key |-> k, now |-> clock, row |-> 0]]
  /\ UNCHANGED <<clock, tables, history>>

(* The transaction of _reserve, one action per answer.  All of them commit *)
(* what _prune did.                                                        *)
Refuse(w) ==
  /\ calls' = PrunedCalls(worker[w].now)
  /\ worker' = [worker EXCEPT ![w] = Idle]
  /\ UNCHANGED <<clock, history>>

Prune(w) ==
  /\ worker[w].stage = "reserving"
  /\ cache' = PrunedCache(worker[w].now)
  /\ cooldown' = PrunedCooldown(worker[w].now)

\* The request ends with the cached answer, or with state_unavailable when it
\* no longer validates: nothing is paid and no state differs.
CacheHit(w) ==
  /\ Prune(w)
  /\ worker[w].key \in DOMAIN cache'
  /\ Refuse(w)

InFlight(w) ==
  /\ Prune(w)
  /\ worker[w].key \notin DOMAIN cache'
  /\ PendingOf(PrunedCalls(worker[w].now), worker[w].key) # {}
  /\ Refuse(w)

Admissible(w) ==
  /\ worker[w].key \notin DOMAIN PrunedCache(worker[w].now)
  /\ PendingOf(PrunedCalls(worker[w].now), worker[w].key) = {}

CoolingDown(w) ==
  /\ Prune(w)
  /\ Admissible(w)
  /\ IdentityOf[worker[w].key] \in DOMAIN cooldown'
  /\ Refuse(w)

\* Variation: failures are refunded.
SpentRefundingFailures(w) ==
  LET ledger == PrunedCalls(worker[w].now)
  IN  Cardinality({i \in RowsOf(ledger, Day(worker[w].now)) :
                     ledger[i].state # "failed"})

SpentToday(w) ==
  Cardinality(RowsOf(PrunedCalls(worker[w].now), Day(worker[w].now)))

BudgetExhausted(w) ==
  /\ Prune(w)
  /\ Admissible(w)
  /\ IdentityOf[worker[w].key] \notin DOMAIN cooldown'
  /\ SpentToday(w) >= DailyLimit
  /\ Refuse(w)

Reserve(w) ==
  LET now    == worker[w].now
      ledger == PrunedCalls(now)
      charge == [key |-> worker[w].key, day |-> Day(now), started |-> now,
                 state |-> "pending"]
  IN  /\ Prune(w)
      /\ Admissible(w)
      /\ IdentityOf[worker[w].key] \notin DOMAIN cooldown'
      /\ SpentToday(w) < DailyLimit
      /\ \E id \in RowIds :
           /\ IsNextRowId(id, ledger)
           /\ calls' = [i \in DOMAIN ledger \cup {id} |->
                          IF i = id THEN charge ELSE ledger[i]]
           /\ worker' = [worker EXCEPT ![w] = [@ EXCEPT !.stage = "reserved", !.row = id]]
      /\ spent' = [spent EXCEPT ![Day(now)] = @ + 1]
      /\ UNCHANGED <<clock, failedAt>>

\* The transaction fails (lock timeout, I/O or a corrupt entry) and is rolled back.
ReserveUnavailable(w) ==
  /\ worker[w].stage = "reserving"
  /\ worker' = [worker EXCEPT ![w] = Idle]
  /\ UNCHANGED <<clock, tables, history>>

(* The provider call of _run, outside any transaction. *)
Dispatch(w) ==
  /\ worker[w].stage = "reserved"
  /\ worker' = [worker EXCEPT ![w].stage = "calling"]
  /\ UNCHANGED <<clock, tables, history>>

\* The call returns, its result validates ("succeeding") or not ("failing"),
\* and the clock is read for the accounting transaction.
Answer(w, outcome) ==
  /\ worker[w].stage = "calling"
  /\ worker' = [worker EXCEPT ![w] = [@ EXCEPT !.stage = outcome, !.now = clock]]
  /\ UNCHANGED <<clock, tables, history>>

\* UPDATE ai_calls ... WHERE id=?: no condition on the row's present state.
Settle(row, state) ==
  calls' = [i \in DOMAIN calls |->
              IF i = row THEN [calls[i] EXCEPT !.state = state] ELSE calls[i]]

\* The entries kept by ORDER BY updated DESC, rowid DESC LIMIT ?: the entry
\* just written wins ties; ties between older entries are left open.
Keeps(kept, entries, newest) ==
  /\ \/ kept = DOMAIN entries /\ Cardinality(kept) <= MaxEntries
     \/ Cardinality(kept) = MaxEntries
  /\ \A k \in kept, e \in DOMAIN entries \ kept :
       \/ entries[k].updated > entries[e].updated
       \/ entries[k].updated = entries[e].updated /\ e # newest

FinishSuccess(w) ==
  LET key     == worker[w].key
      now     == worker[w].now
      entries == [k \in DOMAIN cache \cup {key} |->
                    IF k = key THEN [expires |-> now + TTL, updated |-> now]
                               ELSE cache[k]]
  IN  /\ worker[w].stage = "succeeding"
      /\ Settle(worker[w].row, "success")
      /\ \E kept \in SUBSET DOMAIN entries :
           /\ Keeps(kept, entries, key)
           /\ cache' = [k \in kept |-> entries[k]]
      /\ worker' = [worker EXCEPT ![w] = Idle]
      /\ UNCHANGED <<clock, cooldown, history>>

\* Variation: INSERT OR IGNORE keeps the pause of an earlier failure.
FinishFailureIgnoring(w) ==
  LET p == IdentityOf[worker[w].key]
  IN  /\ worker[w].stage = "failing"
      /\ Settle(worker[w].row, "failed")
      /\ cooldown' = [q \in DOMAIN cooldown \cup {p} |->
                        IF q \in DOMAIN cooldown THEN cooldown[q]
                                                 ELSE worker[w].now + Cooldown]
      /\ worker' = [worker EXCEPT ![w] = Idle]
      /\ failedAt' = [failedAt EXCEPT ![p] = clock]
      /\ UNCHANGED <<clock, cache, spent>>

FinishFailure(w) ==
  LET p == IdentityOf[worker[w].key]
  IN  /\ worker[w].stage = "failing"
      /\ Settle(worker[w].row, "failed")
      /\ cooldown' = [q \in DOMAIN cooldown \cup {p} |->
                        IF q = p THEN worker[w].now + Cooldown ELSE cooldown[q]]
      /\ worker' = [worker EXCEPT ![w] = Idle]
      /\ failedAt' = [failedAt EXCEPT ![p] = clock]
      /\ UNCHANGED <<clock, cache, spent>>

\* The outcome cannot be recorded: the reservation stays pending.
FinishUnavailable(w) ==
  /\ worker[w].stage \in {"succeeding", "failing"}
  /\ worker' = [worker EXCEPT ![w] = Idle]
  /\ UNCHANGED <<clock, tables, history>>

\* The process dies; only the tables survive.
Crash(w) ==
  /\ worker[w].stage # "idle"
  /\ worker' = [worker EXCEPT ![w] = Idle]
  /\ UNCHANGED <<clock, tables, history>>

\* Time passes, but no thread waits for the lock longer than SQLite's busy
\* timeout and no call stays open longer than MaxFlight.
Tick ==
  /\ clock < MaxClock
  /\ \A w \in Workers :
       /\ worker[w].stage \in Locking => clock - worker[w].now < MaxLag
       /\ worker[w].stage \in {"reserved", "calling"} =>
            clock - worker[w].now < MaxFlight
  /\ clock' = clock + 1
  /\ UNCHANGED <<tables, worker, history>>

WorkerStep(w) ==
  \/ \E k \in Keys : StartRequest(w, k)
  \/ CacheHit(w) \/ InFlight(w) \/ CoolingDown(w) \/ BudgetExhausted(w)
  \/ Reserve(w) \/ ReserveUnavailable(w)
  \/ Dispatch(w)
  \/ \E outcome \in {"succeeding", "failing"} : Answer(w, outcome)
  \/ FinishSuccess(w) \/ FinishFailure(w) \/ FinishUnavailable(w)
  \/ Crash(w)

Next == Tick \/ \E w \in Workers : WorkerStep(w)

Spec == Init /\ [][Next]_vars

-----------------------------------------------------------------------------
(* Properties.                                                             *)

\* The type of every variable.
TypeOK ==
  /\ clock \in Times
  /\ DOMAIN calls \subseteq RowIds
  /\ IsFiniteSet(DOMAIN calls)
  /\ calls \in [DOMAIN calls -> Row]
  /\ DOMAIN cache \subseteq Keys
  /\ cache \in [DOMAIN cache -> Entry]
  /\ DOMAIN cooldown \subseteq Identities
  /\ cooldown \in [DOMAIN cooldown -> Nat]
  /\ worker \in [Workers -> {Idle} \cup Busy]
  /\ spent \in [Days -> Nat]
  /\ failedAt \in [Identities -> Times \cup {-1}]

\* The daily allowance: over the whole life of the state file, whatever the
\* number of processes, their crashes, late answers and pruned rows, no more
\* than DailyLimit calls are ever reserved against one UTC day.
QuotaNeverExceeded ==
  \A d \in Days : spent[d] <= DailyLimit

\* No call reaches the provider uncharged: from its reservation to the end of
\* its request a thread owns a ledger row of its own, for its own key, that
\* neither pruning nor another thread has taken away.
EveryCallIsCharged ==
  \A w \in Workers : worker[w].stage \in Holding =>
    /\ worker[w].row \in DOMAIN calls
    /\ calls[worker[w].row].key = worker[w].key
    /\ \A v \in Workers \ {w} :
         worker[v].stage \in Holding => worker[v].row # worker[w].row

\* Identical requests are not paid twice at once: two threads hold a call for
\* the same fingerprint only when the younger reservation was made more than
\* 180 seconds after the older one, less one wait for the write lock (a third
\* thread with a later clock reading may have timed the older one out).
DuplicateOnlyAfterTimeout ==
  \A v, w \in Workers :
    /\ v # w
    /\ worker[v].stage \in Holding /\ worker[w].stage \in Holding
    /\ worker[v].key = worker[w].key
    => LET s == calls[worker[v].row].started
           t == calls[worker[w].row].started
       IN  s - t > Stale - MaxLag \/ t - s > Stale - MaxLag

\* After a recorded failure of an identity nothing is reserved for it for 60
\* seconds, less the time the failing thread waited for the write lock: its
\* clock reading, not the time of the commit, starts the pause.
PauseAfterFailure ==
  [][\A w \in Workers :
       worker[w].stage = "reserving" /\ worker'[w].stage = "reserved" =>
         LET p == IdentityOf[worker[w].key]
         IN  failedAt[p] >= 0 => clock >= failedAt[p] + Cooldown - MaxLag]_vars

\* Outcomes are final, except that an answer that comes after its reservation
\* timed out is still recorded as a success: success is never lost, nothing
\* becomes pending again, and a row keeps its key, day and start.  (Once every
\* row is older than the retention, SQLite may hand out the same rowids anew.)
OutcomesStand ==
  [][\A i \in DOMAIN calls \cap DOMAIN calls' :
     calls[i].day >= Day(clock - Retention) =>
       /\ [calls'[i] EXCEPT !.state = calls[i].state] = calls[i]
       /\ calls'[i].state # calls[i].state =>
            \/ calls[i].state = "pending"
            \/ calls[i].state = "failed" /\ calls'[i].state = "success"]_vars

\* An abandoned call does not block its key for ever: a request is turned away
\* as in_flight only for a reservation at most 180 seconds old.
BlockedOnlyWhileFresh ==
  [][\A w \in Workers :
       InFlight(w) =>
         \E i \in PendingOf(calls, worker[w].key) :
           calls[i].started >= worker[w].now - Stale]_vars

\* The detailed governor implements the bare allowance: a permit is a reserved
\* row whose call has not been placed yet.
Allowance == INSTANCE CallAllowance WITH
  Holders <- Workers, Limit <- DailyLimit,
  permits <- {w \in Workers : worker[w].stage = "reserved"}

ImplementsAllowance == Allowance!Spec

-----------------------------------------------------------------------------
(* Why the allowance holds.                                                *)

\* Clock readings are recent: the busy timeout bounds the wait for the lock and
\* MaxFlight the provider call.
ReadingsRecent ==
  \A w \in Workers :
    /\ worker[w].now <= clock
    /\ worker[w].stage \in Locking => clock - worker[w].now <= MaxLag
    /\ worker[w].stage \in {"reserved", "calling"} =>
         clock - worker[w].now <= MaxFlight

\* Rows are charged to the day they started in, never to a future one.
RowsDated ==
  \A i \in DOMAIN calls :
    calls[i].day = Day(calls[i].started) /\ calls[i].started <= clock

\* A thread's row is its own, and either pending or timed out by _prune.
RowsHeld ==
  \A w \in Workers : worker[w].stage \in Holding =>
    LET row == calls[worker[w].row]
    IN  /\ worker[w].row \in DOMAIN calls
        /\ row.key = worker[w].key
        /\ row.state = "pending" \/ row.started < clock - Stale
        /\ worker[w].stage \in {"reserved", "calling"} => row.started = worker[w].now
        /\ worker[w].stage \in {"succeeding", "failing"} =>
             row.started <= worker[w].now /\ worker[w].now - row.started <= MaxFlight

\* For every day within the retention the table still shows all it was charged,
\* which is what the next reservation compares with the limit.
LedgerShowsSpending ==
  \A d \in Days :
    d >= Day(clock - Retention) => Cardinality(RowsOf(calls, d)) = spent[d]

\* The inductive invariant behind the quota and the ownership of rows.
LedgerInv ==
  /\ TypeOK
  /\ ReadingsRecent
  /\ RowsDated
  /\ RowsHeld
  /\ LedgerShowsSpending
  /\ QuotaNeverExceeded
  /\ EveryCallIsCharged
  /\ DuplicateOnlyAfterTimeout

-----------------------------------------------------------------------------
(* Why a pause and an outcome last.                                        *)

\* When a pause has to end, whoever recorded the failure.
PauseEnd(p) == failedAt[p] + Cooldown - MaxLag

\* The pause of a failed identity is in the table until it is over.
PausesStand ==
  \A p \in Identities : failedAt[p] >= 0 =>
    \/ p \in DOMAIN cooldown /\ cooldown[p] >= PauseEnd(p)
    \/ clock >= PauseEnd(p)

\* Nobody but its owner records the success of a call.
RowsUnsettled ==
  \A w \in Workers : worker[w].stage \in Holding =>
    calls[worker[w].row].state # "success"

=============================================================================
