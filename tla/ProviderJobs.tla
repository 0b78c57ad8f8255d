---------------------------- MODULE ProviderJobs ----------------------------
(***************************************************************************)
(* Provider jobs: lib/phase1/provider-jobs.ts (the operations on a job and *)
(* its runs), provider-worker.ts (the queue), provider-live-execution.ts   *)
(* (plan, invoke, apply) and provider-worker-runner.ts (the tick).         *)
(*                                                                         *)
(* The application state is one snapshot, and every transaction maps it to *)
(* the next one (SnapshotStore is about how it does so); what interleaves  *)
(* is the transactions of the ticks and of the operators.  A provider call *)
(* is made between two of them, so a lease can run out under a slow call.  *)
(*                                                                         *)
(* One workspace, one provider connection, one day of its budget.  A call  *)
(* is paid for by the records it returns, and the price of one is a unit.  *)
(***************************************************************************)
EXTENDS Integers, FiniteSets, Sequences, SequencesExt

CONSTANTS Jobs,         \* provider jobs, one per idempotency key
          Workers,      \* processes running worker ticks or a live execution
          MaxAttempts,  \* job.maxAttempts
          RateLimit,    \* connection.rateLimitPerMinute, 0 for no limit
          Budget,       \* connection.dailyBudgetCents, in units
          MaxUnits,     \* bound on the records one call returns
          MockUnits,    \* records a mocked call of the operation returns
          BatchSize,    \* runs a queue transaction claims
          MaxLiveRuns,  \* options.maxLiveRuns of a tick
          Manual,       \* whether operators start and settle runs by hand
          MaxRuns,      \* bound on provider job runs
          MaxSlips      \* bound on slips (see below)

ASSUME ProviderAssumption ==
  /\ IsFiniteSet(Jobs) /\ IsFiniteSet(Workers)
  /\ MaxAttempts \in Nat \ {0} /\ {MaxLiveRuns, BatchSize, MaxUnits} \subseteq Nat \ {0}
  /\ MockUnits \in 1..MaxUnits
  /\ {RateLimit, Budget, MaxRuns, MaxSlips} \subseteq Nat
  /\ Manual \in BOOLEAN

VARIABLES
  db,    \* the snapshot: jobs, runs in creation order, the usage ledger
  live,  \* resolveProviderExecutionMode(connection.executionMode) = "live"
  pc,    \* pc[w]: idle, or the next transaction of w's tick
  plans, \* plans[w]: the runs w has planned and not yet settled
  slips  \* lease expiries, manual steps and doubled live executions so far
vars == <<db, live, pc, plans, slips>>

Statuses == {"Queued", "Running", "Retry scheduled", "Completed", "Failed", "Skipped"}
Active   == {"Queued", "Running"}
Executed == {"Completed", "Failed", "Retry scheduled"}
Leases   == {"none", "held", "expired"}   \* lockExpiresAt: unset, ahead, past

Runs     == [job : Jobs, status : Statuses, attempt : 1..MaxAttempts,
             lease : Leases, recent : BOOLEAN]   \* updatedAt is in the rate window
JobRows  == [status : Statuses \union {"absent"},
             retryAt : {"none", "ahead", "due"},  \* nextRetryAt
             latest : 0..MaxRuns]                 \* the run with the greatest updatedAt

TypeOK ==
  /\ db.jobs \in [Jobs -> JobRows]
  /\ db.runs \in Seq(Runs) /\ Len(db.runs) <= MaxRuns
  /\ db.ledger \subseteq (DOMAIN db.runs) \X (0..MaxUnits)
  /\ live \in BOOLEAN
  /\ pc \in [Workers -> {"idle", "queue", "plan", "call"}]
  /\ \A w \in Workers : plans[w] \in Seq(DOMAIN db.runs)
  /\ slips \in 0..MaxSlips

Init ==
  /\ db = [jobs |-> [j \in Jobs |-> [status |-> "absent", retryAt |-> "none", latest |-> 0]],
           runs |-> <<>>, ledger |-> {}]
  /\ live \in BOOLEAN
  /\ pc = [w \in Workers |-> "idle"]
  /\ plans = [w \in Workers |-> <<>>]
  /\ slips = 0

-----------------------------------------------------------------------------
\* Reading the snapshot.

RunsIn(d, S) == {i \in DOMAIN d.runs : d.runs[i].status \in S}
Newest(S) == CHOOSE i \in S : \A k \in S : k <= i

\* Mutant: every running run counts as abandoned.
LeaseNeverAsked(d, i) == d.runs[i].status = "Running"

LeaseRanOut(d, i) == d.runs[i].status = "Running" /\ d.runs[i].lease = "expired"

RetryIsDue(d, j) == d.jobs[j].status = "Retry scheduled" /\ d.jobs[j].retryAt = "due"

\* Mutant: the latest run may still be active.
RetryableWhileActive(d, j) == d.runs[d.jobs[j].latest].attempt < MaxAttempts

\* retryProviderJobRun looks at the run updated last, not at the job.
Retryable(d, j) ==
  LET previous == d.runs[d.jobs[j].latest] IN
    previous.attempt < MaxAttempts /\ previous.status \in {"Failed", "Retry scheduled"}

CallsInWindow(d, i) ==
  Cardinality({k \in RunsIn(d, Executed) \ {i} : d.runs[k].recent})

RateLimited(d, i) == RateLimit > 0 /\ CallsInWindow(d, i) >= RateLimit

\* The one Actual entry of run i in the usage ledger: <<i, 0>> is the entry,
\* <<i, u>> the u-th unit it charges.
Entry(i, units) == {i} \X (0..units)
Charged(d)      == {i \in DOMAIN d.runs : <<i, 0>> \in d.ledger}
Spent(d)        == Cardinality({p \in d.ledger : p[2] > 0})

\* Mutant: a budget spent to the last unit lets one more through.
BudgetAllowsTheLast(d, units) == Spent(d) + units <= Budget + 1

BudgetAllows(d, units) == Spent(d) + units <= Budget

HasClaimableRun(d) == RunsIn(d, {"Queued"}) # {}

-----------------------------------------------------------------------------
\* Writing the snapshot.  Every operation that touches a run gives the job the
\* same status and makes the run the one updated last.

\* Mutant: updatedAt stays what it was.
PutUntouched(d, i, status, lease) ==
  [d EXCEPT !.runs[i] = [@ EXCEPT !.status = status, !.lease = lease,
                                  !.recent = status \in Executed],
            !.jobs[d.runs[i].job] = [@ EXCEPT !.status = status]]

Put(d, i, status, lease) ==
  LET j == d.runs[i].job IN
    [d EXCEPT !.runs[i] = [@ EXCEPT !.status = status, !.lease = lease,
                                    !.recent = status \in Executed],
              !.jobs[j] = [@ EXCEPT !.status = status, !.latest = i]]

\* Runs updated with one timestamp: the sort by updatedAt keeps the newest first.
Together(d, S) ==
  [d EXCEPT !.jobs = [j \in Jobs |->
    LET mine == {i \in S : d.runs[i].job = j} IN
      IF mine = {} THEN @[j]
      ELSE [@[j] EXCEPT !.latest = Newest(mine)]]]

NewRun(d, j, status, attempt) ==
  [d EXCEPT !.runs = Append(@, [job |-> j, status |-> status, attempt |-> attempt,
                                lease |-> "none", recent |-> FALSE]),
            !.jobs[j].status = status,
            !.jobs[j].latest = Len(d.runs) + 1]

\* Mutant: one ledger entry per job instead of one per run.
CompleteChargedPerJob(d, i, units) ==
  LET others == {k \in Charged(d) : d.runs[k].job = d.runs[i].job} IN
    [Put(d, i, "Completed", "none") EXCEPT !.ledger = IF others = {} THEN @ \union Entry(i, units) ELSE @]

\* A run completed again has its entry overwritten.
Complete(d, i, units) ==
  [Put(d, i, "Completed", "none") EXCEPT
     !.ledger = {p \in @ : p[1] # i} \union Entry(i, units)]

\* Mutant: a retry is scheduled whenever one is asked for.
FailAlwaysRetryable(d, i, retry) ==
  [Put(d, i, IF retry THEN "Retry scheduled" ELSE "Failed", "none")
     EXCEPT !.jobs[d.runs[i].job].retryAt = IF retry THEN "ahead" ELSE "none"]

Fail(d, i, retry) ==
  LET retryable == retry /\ d.runs[i].attempt < MaxAttempts IN
    [Put(d, i, IF retryable THEN "Retry scheduled" ELSE "Failed", "none")
       EXCEPT !.jobs[d.runs[i].job].retryAt = IF retry THEN "ahead" ELSE "none"]

\* The workers ask for a retry only while attempts are left.
FailByWorker(d, i) == Fail(d, i, d.runs[i].attempt < MaxAttempts)

\* The retries of the jobs in a sequence, each one run behind the last.
Retry(d, due) ==
  LET again(k) == [job |-> due[k], status |-> "Queued", lease |-> "none", recent |-> FALSE,
                   attempt |-> d.runs[d.jobs[due[k]].latest].attempt + 1]
      slot(j)  == Len(d.runs) + CHOOSE k \in DOMAIN due : due[k] = j
  IN [d EXCEPT !.runs = @ \o [k \in DOMAIN due |-> again(k)],
               !.jobs = [j \in Jobs |->
                 IF j \in Range(due) THEN [status |-> "Queued", retryAt |-> "none", latest |-> slot(j)]
                 ELSE @[j]]]

\* Oldest first, one run after the other.
Recover(d) ==
  LET recovered[i \in 0..Len(d.runs)] ==
        IF i = 0 THEN d
        ELSE IF LeaseRanOut(d, i) THEN Put(recovered[i - 1], i, "Queued", "none")
        ELSE recovered[i - 1]
  IN recovered[Len(d.runs)]

-----------------------------------------------------------------------------
\* processProviderJobQueue, one transaction: recover expired leases, queue the
\* due retries, claim a batch and serve it.  One retry that throws throws the
\* whole transaction away.

DueJobs(d) == {j \in Jobs : RetryIsDue(d, j)}

Poisoned(d) == \E j \in DueJobs(d) : ~Retryable(d, j)

QueueRetries(d) == Retry(d, SetToSeq(DueJobs(d)))

\* A run put back carries the time the transaction began at, so that a run of
\* the job served before it may still be the one updated last.  d0 is the
\* snapshot the batch was claimed in; tied says that the two times are equal.
Defer(d0, d, i, tied) ==
  LET j    == d.runs[i].job
      last == d.jobs[j].latest
      served == d0.runs[last].status = "Queued" /\ d.runs[last].status \notin Active
  IN [Put(d, i, "Queued", "none") EXCEPT
        !.jobs[j].latest = IF served /\ ~tied THEN last ELSE @]

\* A claimed run over the rate limit or of a live connection goes back to the
\* queue; any other is executed on the spot, if the budget allows its price,
\* which a mocked call knows before it is made: nothing when it fails.
Serve(d0, d, i, succeeds, tied) ==
  CASE RateLimited(d, i) \/ live -> Defer(d0, d, i, tied)
    [] ~(RateLimited(d, i) \/ live) /\ ~BudgetAllows(d, IF succeeds THEN MockUnits ELSE 0)
         -> Put(d, i, "Skipped", "none")
    [] OTHER -> IF succeeds THEN Complete(d, i, MockUnits) ELSE FailByWorker(d, i)

\* The batch is the oldest of the queued runs.
Claimed(d) ==
  LET queue == RunsIn(d, {"Queued"})
  IN {i \in queue : Cardinality({k \in queue : k <= i}) <= BatchSize}

ServeBatch(d, succeeds, tied) ==
  LET claimed == Claimed(d)
      served[i \in 0..Len(d.runs)] ==
        IF i = 0 THEN d
        ELSE IF i \in claimed THEN Serve(d, served[i - 1], i, d.runs[i].job \in succeeds, tied)
        ELSE served[i - 1]
  IN served[Len(d.runs)]

\* The snapshots a queue transaction may leave; succeeds is the set of jobs
\* without inputSummary.forceMockFailure.
AfterQueue(d, succeeds, tied) ==
  LET r == Recover(d) IN
    IF Poisoned(r) THEN d ELSE ServeBatch(QueueRetries(r), succeeds, tied)

\* A live connection executes nothing here, so neither choice matters.
Outcomes == IF live THEN {Jobs} ELSE SUBSET Jobs
Clocks   == IF live \/ RateLimit = 0 THEN {TRUE} ELSE BOOLEAN

QueueFits == Len(db.runs) + Cardinality(DueJobs(db)) <= MaxRuns

-----------------------------------------------------------------------------
\* planLiveProviderRun: claim a queued run, or join a running one as it is; a
\* spent budget skips it, a missing credential fails it for good.  The price is
\* not known yet: the plan asks the budget for one unit.

\* Mutant: the claim does not set lockExpiresAt.
PlanUnlocked(d, i, credential) ==
  CASE ~BudgetAllows(d, 1) -> Put(d, i, "Skipped", "none")
    [] BudgetAllows(d, 1) /\ ~credential -> Fail(d, i, FALSE)
    [] OTHER -> IF d.runs[i].status = "Queued" THEN Put(d, i, "Running", "none") ELSE d

PlanRun(d, i, credential) ==
  CASE ~BudgetAllows(d, 1) -> Put(d, i, "Skipped", "none")
    [] BudgetAllows(d, 1) /\ ~credential -> Fail(d, i, FALSE)
    [] OTHER -> IF d.runs[i].status = "Queued" THEN Put(d, i, "Running", "held") ELSE d

\* collectDueLiveProviderPlans: the rate limit and the budget look at what has
\* been executed, so a run planned earlier in the loop does not count.
PlanStep(acc, i, credential) ==
  IF ~live \/ Len(acc.plans) >= MaxLiveRuns \/ RateLimited(acc.db, i) THEN acc
  ELSE LET e == PlanRun(acc.db, i, credential) IN
         [db    |-> e,
          plans |-> IF e.runs[i].status = "Running" THEN Append(acc.plans, i) ELSE acc.plans]

\* Newest first: round k is about the run k places from the end.
AfterPlan(d, credential) ==
  LET n == Len(d.runs)
      planned[k \in 0..n] ==
        IF k = 0 THEN [db |-> d, plans |-> <<>>]
        ELSE IF d.runs[n + 1 - k].status = "Queued"
        THEN PlanStep(planned[k - 1], n + 1 - k, credential)
        ELSE planned[k - 1]
      end == planned[n]
      touched == {i \in DOMAIN d.runs : d.runs[i].status # end.db.runs[i].status}
  IN [end EXCEPT !.db = Together(@, touched)]

-----------------------------------------------------------------------------
\* A worker tick (runProviderWorkerTick).

\* The idle-skip: with nothing queued the tick does nothing.
TickBegins(w) ==
  /\ pc[w] = "idle"
  /\ HasClaimableRun(db)
  /\ pc' = [pc EXCEPT ![w] = "queue"]
  /\ UNCHANGED <<db, live, plans, slips>>

TickQueue(w) ==
  /\ pc[w] = "queue"
  /\ QueueFits
  /\ \E succeeds \in Outcomes, tied \in Clocks : db' = AfterQueue(db, succeeds, tied)
  /\ pc' = [pc EXCEPT ![w] = IF Poisoned(Recover(db)) THEN "idle" ELSE "plan"]
  /\ UNCHANGED <<live, plans, slips>>

TickPlan(w) ==
  /\ pc[w] = "plan"
  /\ \E credential \in BOOLEAN :
       LET planned == AfterPlan(db, credential) IN
         /\ db' = planned.db
         /\ plans' = [plans EXCEPT ![w] = planned.plans]
         /\ pc' = [pc EXCEPT ![w] = IF planned.plans = <<>> THEN "idle" ELSE "call"]
  /\ UNCHANGED <<live, slips>>

\* The provider call of the first plan and applyLiveProviderRunOutcome, which
\* looks neither at the run's status nor at its lease, and charges a unit for
\* each record that came back, one at least, without asking the budget again.
Outcome(w) ==
  /\ pc[w] = "call"
  /\ LET i == Head(plans[w]) IN
       \/ \E units \in 1..MaxUnits : db' = Complete(db, i, units)
       \/ db' = FailByWorker(db, i)
       \/ db' = Fail(db, i, FALSE)        \* no adapter registered
  /\ plans' = [plans EXCEPT ![w] = Tail(@)]
  /\ pc' = [pc EXCEPT ![w] = IF Len(plans[w]) = 1 THEN "idle" ELSE "call"]
  /\ UNCHANGED <<live, slips>>

Crash(w) ==
  /\ pc[w] # "idle"
  /\ pc' = [pc EXCEPT ![w] = "idle"]
  /\ plans' = [plans EXCEPT ![w] = <<>>]
  /\ UNCHANGED <<db, live, slips>>

-----------------------------------------------------------------------------
\* Operators (provider-job-service.ts).

Slip == slips < MaxSlips /\ slips' = slips + 1

CreateProviderJob(j, startImmediately) ==
  /\ db.jobs[j].status = "absent"          \* an existing key is a replay
  /\ Len(db.runs) < MaxRuns
  /\ IF startImmediately THEN Manual /\ Slip ELSE UNCHANGED slips
  /\ db' = NewRun(db, j, IF startImmediately THEN "Running" ELSE "Queued", 1)
  /\ UNCHANGED <<live, pc, plans>>

RetryJob(j) ==
  /\ db.jobs[j].status # "absent"
  /\ Retryable(db, j)
  /\ Len(db.runs) < MaxRuns
  /\ db' = Retry(db, <<j>>)
  /\ UNCHANGED <<live, pc, plans, slips>>

ProcessQueue ==
  /\ QueueFits
  /\ \E succeeds \in Outcomes, tied \in Clocks : db' = AfterQueue(db, succeeds, tied)
  /\ UNCHANGED <<live, pc, plans, slips>>

\* executeLiveProviderExecutionRun asks neither for the mode nor for the rate
\* limit, and joins a run another worker may be executing.
ExecuteLive(w, i) ==
  /\ pc[w] = "idle"
  /\ db.runs[i].status \in Active
  /\ IF db.runs[i].status = "Running" THEN Slip ELSE UNCHANGED slips
  /\ \E credential \in BOOLEAN :
       LET e == PlanRun(db, i, credential) IN
         /\ db' = e
         /\ IF e.runs[i].status = "Running"
            THEN /\ plans' = [plans EXCEPT ![w] = <<i>>]
                 /\ pc' = [pc EXCEPT ![w] = "call"]
            ELSE UNCHANGED <<plans, pc>>
  /\ UNCHANGED live

\* startProviderJobRun, completeProviderJobRun and failProviderJobRun by hand:
\* none of them asks what the run's status was, nor the budget.
StartRun(i) ==
  /\ Manual /\ Slip
  /\ db' = Put(db, i, "Running", db.runs[i].lease)
  /\ UNCHANGED <<live, pc, plans>>

SettleRun(i) ==
  /\ Manual /\ Slip
  /\ \/ \E units \in 0..MaxUnits : db' = Complete(db, i, units)
     \/ \E retry \in BOOLEAN : db' = Fail(db, i, retry)
  /\ UNCHANGED <<live, pc, plans>>

SwitchMode ==
  /\ live' = ~live
  /\ UNCHANGED <<db, pc, plans, slips>>

-----------------------------------------------------------------------------
\* Time.

LeaseExpires(i) ==
  /\ db.runs[i].lease = "held"
  /\ Slip
  /\ db' = [db EXCEPT !.runs[i].lease = "expired"]
  /\ UNCHANGED <<live, pc, plans>>

RetryFallsDue(j) ==
  /\ db.jobs[j].retryAt = "ahead"
  /\ db' = [db EXCEPT !.jobs[j].retryAt = "due"]
  /\ UNCHANGED <<live, pc, plans, slips>>

WindowPasses(i) ==
  /\ db.runs[i].recent
  /\ db' = [db EXCEPT !.runs[i].recent = FALSE]
  /\ UNCHANGED <<live, pc, plans, slips>>

Tick(w) == TickBegins(w) \/ TickQueue(w) \/ TickPlan(w) \/ Outcome(w)

Operator ==
  \/ \E j \in Jobs : (\E now \in BOOLEAN : CreateProviderJob(j, now)) \/ RetryJob(j)
  \/ ProcessQueue
  \/ \E i \in DOMAIN db.runs : StartRun(i) \/ SettleRun(i) \/ \E w \in Workers : ExecuteLive(w, i)
  \/ SwitchMode

Time ==
  \/ \E i \in DOMAIN db.runs : LeaseExpires(i) \/ WindowPasses(i)
  \/ \E j \in Jobs : RetryFallsDue(j)

Next == (\E w \in Workers : Tick(w) \/ Crash(w)) \/ Operator \/ Time

Spec == Init /\ [][Next]_vars

-----------------------------------------------------------------------------
(* A job shows the status of the run updated last, or Queued while a run   *)
(* of it is: no interleaving of ticks, late outcomes and operators leaves  *)
(* a job saying one thing and its runs another.  Retries rely on it: they  *)
(* pick the job by its own status and judge its latest run.                *)
JobMirrorsLatestRun ==
  \A j \in Jobs : db.jobs[j].status # "absent" =>
    \/ db.jobs[j].status = db.runs[db.jobs[j].latest].status
    \/ /\ db.jobs[j].status = "Queued"
       /\ \E i \in RunsIn(db, {"Queued"}) : db.runs[i].job = j

(* A retry that is due never throws.  queueDueProviderRetries picks jobs,  *)
(* retryProviderJobRun judges runs; if they ever disagreed, that one job   *)
(* would abort the queue transaction of every later tick.                  *)
DueRetriesNeverThrow == ~Poisoned(db)

(* While a run's lease holds, no tick puts the run back on the queue, so   *)
(* no second worker is handed the same provider call.                      *)
LeaseKeepsTheRun ==
  [][\A i \in DOMAIN db.runs :
       db.runs[i].status = "Running" /\ db'.runs[i].status = "Queued"
         => db.runs[i].lease = "expired"]_vars

(* A job has one active run, and one more at most for every time a lease   *)
(* ran out under its worker or somebody stepped in by hand: retries alone  *)
(* never fan out.                                                          *)
OneActiveRunPerSlip ==
  \A j \in Jobs :
    Cardinality({i \in RunsIn(db, Active) : db.runs[i].job = j}) <= 1 + slips

(* What the budget rule reads is complete: a run that shows Completed, by  *)
(* whatever path, has its entry in the usage ledger.                       *)
CompletedIsCharged == RunsIn(db, {"Completed"}) \subseteq Charged(db)

(* A plan asks the budget for the price of one record, and for none of the *)
(* calls under way; its call is charged for every record it returns.  So   *)
(* workers overshoot the budget together, by more than one unit a call;    *)
(* but what they overshoot it by does not add up.  Beyond the budget there *)
(* is at most a full answer for each call that the workers can have under *)
(* way at once, and for each slip.                                         *)
CallsUnderWay(ps) == UNION {{w} \X (DOMAIN ps[w]) : w \in Workers}

OverspendIsBounded ==
  Spent(db) + MaxUnits * Cardinality(CallsUnderWay(plans))
    <= Budget + MaxUnits * (Cardinality(Workers) * MaxLiveRuns + slips)

(* A running run without a lock expiry is recovered by nobody.  Whatever   *)
(* ticks, retries and recoveries do, it takes a start by hand to make one, *)
(* and every start makes one at most.                                      *)
Stranded(d) == {i \in RunsIn(d, {"Running"}) : d.runs[i].lease = "none"}

StrandedByHandOnly ==
  /\ Cardinality(Stranded(db)) <= slips
  /\ ~Manual => Stranded(db) = {}

(* provider-worker-runner.ts says of the idle-skip that with nothing       *)
(* queued "the tick has no work": no lease to recover, no retry to queue.  *)
IdleTickHasNoWork ==
  ~HasClaimableRun(db) =>
    /\ \A i \in DOMAIN db.runs : ~LeaseRanOut(db, i)
    /\ DueJobs(db) = {}

(* docs/M1_PROVIDER_EXECUTION.md: the tick claims and plans runs "within   *)
(* the per-minute rate limit", runs beyond it "are deferred": what a tick  *)
(* sets out to call fits into what the window has left.                    *)
RateLimitEnforced ==
  [][\A w \in Workers : pc[w] = "plan" /\ RateLimit > 0 /\ plans'[w] # <<>> =>
       Cardinality({i \in RunsIn(db, Executed) : db.runs[i].recent}) + Len(plans'[w])
         <= RateLimit]_vars
=============================================================================
