# Lead Engine CRM: specifications, model checking and proofs

TLA+ modules for the parts of the CRM whose correctness depends on order: what
happens between two transactions, two workers, two people or two releases. Paths
are relative to the repository; line numbers of every definition are in
`PROJECT.json` under `map`.

To check a run: `tlc -config <run>.cfg <module>.tla`. To check the proofs:
`tlapm <module>.tla`.

## 1. The system

A Next.js application over one PostgreSQL database, with background worker
processes and an external chat service, the Syncore Bot.

| Component | State | Operations | Talks to |
|---|---|---|---|
| Store (`lib/phase1/store.ts`, `persistence-projection.ts`) | the snapshot row (`AppStateSnapshot`: state, version, writeSeq), its projection into tables | readState, writeState, updateState, updateAuthState, self-heal, projection | everything in `lib/phase1` |
| Seats and sessions (`auth-fast-path.ts`, `auth-service.ts`) | identity tables, written past the snapshot | login and lockout, logout, invite and accept, reset by token or by an admin, change, deactivate, remove | store (its rows are merged on read) |
| Provider jobs (`provider-jobs.ts`, `provider-worker.ts`, `provider-live-execution.ts`, `provider-worker-runner.ts`) | jobs and runs in the snapshot, leases, usage ledger | create, retry, start, complete, fail, queue transaction, plan / invoke / apply, tick | store (a transaction per step), providers (a call between two) |
| Growth tables (`lib/growth`): requests, research runs, briefs, approvals, campaigns, stage runs | normalized rows | create, claim, complete, decide, revise, launch | outbox (rows in the same transaction) |
| Financial ledger (`lib/growth/repositories/financial-ledger-repository.ts`) | append-only `cost_entries` | record an estimate, an authorization, an actual; adjust, reverse; totals | campaigns, read models |
| Notification outbox (`lib/growth/notify-outbox.ts`) | `NotifyOutbox` rows: attempts, retry time, claim | enqueue, sweep, claim, post, settle | the Bot over HTTP |
| Contacts and compliance (`normalization.ts`, `verification.ts`, `compliance.ts`, `contact-details.ts`, `dedupe.ts`, `webhooks.ts`, `outreach.ts`) | contacts, suppression list, data subject requests, webhooks in the snapshot | import, verify, edit, merge, suppress, lift, e-mail and SMS events, unsubscribe, requests | sends (which read what these write) |
| Direct sends (`direct-email-send.ts`, `direct-sms-send.ts`, `direct-send-outbox.ts`, `outreach-send.ts`) | claims, e-mail and SMS events in the snapshot | plan, claim, post, record, simulate | mail and SMS providers, contacts |
| SDR calling (`sdr.ts`, `call-wrapup-idempotency.ts`) | assignments, reminders, wrap-up receipts in the snapshot | assign, route, touch, wrap-up, call cycle, complete a reminder, reassign | contacts, browser |
| Browser softphone (`components/softphone-button.tsx`) | one SIP session, timers and refs of a tab | start, ring, answer, hang up, inbound, ring-out, reset, unmount, log | RingCentral SDK, call log |
| Waterfall enrichment (`waterfall-*.ts`) | templates, field sources, contacts in the snapshot | run (read, paid asks, write), edit contact, edit template | enrichment providers |
| Lead jobs (`jobs.ts`, `lead-job-worker.ts`) | jobs, runs, idempotency records in the snapshot | upload, create, retry, tick | contacts (the import) |
| Scoring, export, drafting, reports, read models | none of their own | data transformation | store |

What is hard here:

* **Leases and late answers.** The outbox and the provider queue both hand work
  to a process that makes a slow call outside any transaction. The lease may run
  out under it, and its answer arrives after somebody else has taken over.
* **Whole-state writes.** Every mutation of `lib/phase1` rewrites one row. A
  compare-and-set protects it, some writers bypass it, and the tables derived
  from it have writers of their own: an account can be disabled past the store
  while the store still holds, and will write, the account as it was.
* **Replays.** An approval can be tapped twice, on two surfaces, by two people,
  while it is being revised, and every replay runs the same side effects again.
* **Copies that age.** Sends, waterfall runs and logins read first, wait for a
  provider or a password hash, and write what they decided on what they read.
* **Callbacks in a tab.** The softphone's start is a chain of awaits; a timer, the
  session's callbacks, inbound calls and buttons run between any two of them, each
  in the closure of the render that made it, and effects run on what a render shows.
* **Moving configuration.** Attempt limits, approval thresholds, deadlines and
  execution modes change between two steps of the same work.

## 2. What makes each component correct

* *Outbox*: an event settles exactly once and always settles; "delivered" is true;
  a lease is respected; giving up happens at the limit and nowhere else.
* *Approvals*: costly approvals have two distinct approvers; decisions are final;
  the chain of revisions has neither hole nor fork and the brief follows it; a
  campaign exists exactly for an approved niche test; what the outbox says of an
  approval is what the row says. Seen from a research run, all of this is one gate:
  a draft, one or two approvers who saw that draft, one campaign for it.
* *Provider jobs*: a lease keeps a run to its worker; retries do not multiply; no
  job blocks the queue; what is completed has been charged; limits bind, or are
  passed by a bounded amount; no run is left behind but by hand.
* *Store*: acknowledged mutations are applied one by one and stay, unless a plain
  read that migrates the state puts back what it read; a refused one leaves nothing;
  the tables hold nothing that was not committed.
* *Research*: one winner per queueing; no brief before research completes; a
  request says what its runs and briefs say.
* *Contacts*: who opted out stays opted out whatever rewrites the contact, until a
  manager lifts it.
* *Direct sends*: one request hands one message for a person to its adapter, once; the
  history says "sent" only of what the provider took.
* *Financial ledger*: an event is booked once under any key; the totals, the rows
  that stand and the column read models add up agree.
* *SDR calling*: nobody leaves a batch without both calls, and no second call comes
  before everybody's first; an account has one rep, a contact one next step, with
  that rep.
* *Lead jobs*: "Completed" means that every row went in.
* *Softphone*: one live call, the one the buttons act on; a log for every call dialled
  for a contact, which says what happened and, while the contact on the screen stays,
  to whom.
* *Waterfall*: a run that has a verdict leaves the contact with the address it is
  about; a run stays in its budget.
* *Seats*: no session outlives a password change or the loss of its seat, until the
  store puts an older account back.

## 3. Modules

| Module | Models | State and actions |
|---|---|---|
| `NotifyDelivery` | the promise of the outbox | per event: absent, pending, delivered, dead; what the Bot has |
| `NotifyOutbox` | `notify-outbox.ts` | a row per event (`status`, `attempts`, `claim`, `lease`, `retry`), a program counter per worker; every SQL statement of the drain is an action |
| `NotifyOutboxProofs` | - | TLAPS proofs about `NotifyOutbox` |
| `NicheGate` | the promise of the approval of a niche test | per research run: the state of its gate, its draft and first approver; its campaigns; the drafts that need two |
| `ApprovalWorkflow` | approvals, niche briefs, the launch of campaigns, their outbox rows | every handler is one SERIALIZABLE transaction, so one action |
| `ApprovalWorkflowProofs` | - | TLAPS proofs about `ApprovalWorkflow` |
| `ResearchQueue` | niche requests, research runs, the brief that ends one | a row per request and run; a handler that reads before it writes is two actions, `call` is what its open transaction has read |
| `ResearchQueueProofs` | - | TLAPS proofs about `ResearchQueue` |
| `ProviderJobs` | provider jobs, queue, live execution, tick | `db` is the snapshot; operations are operators from snapshot to snapshot, transactions are actions, `pc` and `plans` are what a tick carries between them |
| `ProviderJobsProofs` | - | TLAPS proofs about `ProviderJobs` |
| `SerialStore` | the promise of the store | a log of mutations, an outcome per call |
| `SnapshotStore` | `store.ts`, the projection, `acceptInvite` | the snapshot row, the tables, the copy each call holds; statements that become visible separately are separate actions |
| `SnapshotStoreProofs` | - | TLAPS proofs about `SnapshotStore` |
| `ContactHygiene` | contacts, suppression list, webhooks, data subject requests | a row per contact (address, flags, grade, priority); every operation one transaction, one action; `optedOut` is what the person asked for |
| `ContactHygieneProofs` | - | TLAPS proofs about `ContactHygiene` and `DirectSends` |
| `DirectSends` | one-to-one, bulk, campaign and simulated sends; EXTENDS `ContactHygiene` | `clicks` is what a server action carries between plan, claim, post and record; `claims` and `sent` are the rows; contacts change in between |
| `FinancialLedger` | the ledger repository | a row per idempotency key; the five commands, each SERIALIZABLE, one action |
| `SdrCalling` | assignment, routing, call cycle, wrap-up receipts, reminders | a row per contact: rep, active, first and second call; its open reminders by owner; every handler is one action; the account of a contact is constant (`mergeCompanies`, which moves contacts, is left out) |
| `LeadJobs` | jobs, runs and records of imports; the worker's tick | runs oldest first, a job's status computed from them as the code does |
| `Softphone` | the call engine of a tab | the refs of the component, the runs of `startCall` with what each awaits and the contact of the render it began in, the sessions and their callbacks; every step runs between two awaits, with the render and the effects it causes |
| `Waterfall` | the e-mail track of a waterfall run | the contact, its sources, the template; a run is a read, paid asks and a write |
| `WorkspaceSeats` | accounts, memberships, sessions, invites, reset tokens; the store as a writer of these rows | a request is a read and a write; what it read is in `authCalls`, what the store has read and may write in `copy` |
| `OperationsProofs` | - | TLAPS proofs about seats, lead jobs, waterfall, softphone, SDR calling and the ledger, and about their composition in `MCOperations` |
| `IterationLemmas` | - | induction over the rounds of a loop, cardinalities of images, sums over finite sets, for the proofs |
| `MC*` | - | instances for TLC; `MCGrowthWorkflow` composes approvals and research, `MCOperations` the daily operations, from `ContactHygiene` down to `WorkspaceSeats` |

Composition in the code and here: `ProviderJobs` runs its transactions atomically on
the snapshot, which is what `SnapshotStore` establishes for `updateAuthState`
(`ImplementsSerialStore`). The self-heal that this excepts can undo such a
transaction, which `ProviderJobs` does not model. `ApprovalWorkflow` writes outbox
rows in its transactions; what becomes of such a row is `NotifyOutbox`, which starts
at the enqueue. `ApprovalWorkflow!ResearchMoves` stands for everything research runs
can do to an approval's context, stale writes included; `ResearchQueue` is where those
writes come from. `SnapshotStore` has what the store does to the snapshot and to one
invite; what its full projection does to seats, sessions and memberships is in
`WorkspaceSeats`. `DirectSends` runs on the contacts of `ContactHygiene`, whose every
action may come between two of its steps. The other operations share no state that
their properties read, and `MCOperations` runs them side by side.

Definitions named as a fault ("Fault model", "Mutant") belong to no specification.
Each replaces one definition and must break one property; `PROJECT.json` pairs
them under `mutants`.

### Modelling notes

**NotifyOutbox.** Dates are ticks left. A drain call reads its configuration once,
at its start, so `limit[w]` is the call's `maxAttempts` and `Reconfigure` changes
what the next call reads. The claim is one `UPDATE ... FROM (... FOR UPDATE SKIP
LOCKED)`; one claim per statement means that skipping a locked row is the claim
taken a moment later. A row that cannot be decoded fails before it is sent.
Abandoned posts may reach the Bot later, at any time. Faults are a settlement that
throws after or before it is applied, a crash at any point, a shutdown, and time
that passes while a worker is behind. The Bot deduplicates by event id, which the
contract of the outbox requires; a second arrival adds nothing to `botSeen`.

**ApprovalWorkflow.** A payload, its requester and its cost are one element of
`Docs`. Users are already resolved; permissions are checked before these handlers.
A handler that throws or returns without writing (not found, expired, same
approver twice, invalid chain) is no step. A declined niche test leaves its brief
`pending_approval`, as the code does. `ResearchMoves` may take any run or request
to or from its final status. `Gate` maps these rows to `NicheGate`: the gate of a run
is the row its brief points at, its launches are the campaigns of its approvals,
and a draft is costly if the threshold in force says so.

**ResearchQueue.** `enqueueResearchRun`, `claimNextResearchRun` and
`failResearchRun` run at READ COMMITTED and lock nothing: a read action and a write
action. The writes of one transaction become visible together. The claim's write
is conditional; those of enqueue and fail are by id, so a stale failure may undo a
completion and a second enqueue may take a briefed request back: the model does
both. The brief's transaction is SERIALIZABLE and locks the run, one action. No
handler asks which agent calls; any run that was handed out may be reported on, at
any time and any number of times. A dead agent is one that never reports. `puts`
and `handouts` are history variables that nothing reads.

**ProviderJobs.** One workspace, one connection, one day, equal priorities. A plan asks
the budget for the price of one record, the unit; its outcome is charged
`result.data.length` of them, here any number up to `MaxUnits`. A mocked call returns
and is charged `MockUnits` if it succeeds, and costs nothing if its failure is forced.
The ledger is the set of units charged, by run. The budget is the daily budget of the
provider. The lead-job cap is the same rule with a ledger that also holds the demo
entries of `ensureMoneyLedgerDefaults`, which count a cost twice and so make it bind
earlier. Within a transaction a released run carries the time the
transaction began at, a served run a later or the same one (`tied`). A *slip* is
what makes a second active run of a job possible: a lease that runs out, a run
started or settled by hand, a live execution that joins a running one. Slips are
counted, so that properties can say what they allow. Mock failures are the choice
of the set `succeeds` of a queue transaction. The loops of a transaction (recover the
expired, serve the batch, plan the queued) are recursive functions over the runs in
the order the code visits them: round `i` makes the snapshot that round `i + 1` reads.
Due retries are appended in one order of the jobs, which the code takes from the
array; no property tells the orders apart.

**SnapshotStore.** A state is the sequence of the mutations that made it, which is
what tells a lost update from a kept one. `old` says that `migrateState` would change
it. It may be so at the start, after a release, and after any write of a call in
`Raising`: the default ledger entry of a lead job whose cost was raised
(`money.ts:190` by `store.ts:1267-1270`) is missing until the next read completes it,
and completing one thing may leave the next to do. The proofs hold for every
such set. The transaction of an update is READ
COMMITTED and its writes appear together: reading, merging the identity rows and
committing are three steps. The self-heal inside it writes first and compares
later, in one transaction, under the row lock: `Commit` writes both. For scripts
and pages (`readState`, `writeState`) each statement is a step. One invite and its
account stand for the identity rows. Seeding an empty database, and call logs and
notes (append-only rows outside the snapshot), are left out.

**ContactHygiene.** A contact has one address; the list holds an address or the
company's domain. `optedOut` distinguishes a full opt-out (both flags set) from
the paths that record less. The grade keeps only what decides a send: A to C, D, S.
Phone numbers are left out, and with them the record that an SMS opt-out adds: it
could only suppress more than the model does.

**DirectSends.** A click plans from one copy of the state and posts to one recipient
after the other. `Post` is one call of an adapter. `amazon-ses.ts` builds its client
with the retry of the SDK left on (three attempts on a timeout, a reset or a 5xx), so
one e-mail may be taken up to `SdkAttempts` times inside one call, and be reported as
failed all the same; `ringcentral-sms.ts` makes one request. The claim table guards
one-to-one sends when the outbox is on; it is off by default, and bulk and campaign
sends take none. `posted` and `accepted` are ghosts for what the adapter was handed
and how often the provider took it.

**FinancialLedger.** A command that throws is no step. A row's id is a hash of its
key, so rows are a function of keys. `answers` remembers what was answered to whom.

**SdrCalling.** `assignWorkspaceLeads` walks the contacts in array order: `run[i]` is
the state after `i` of them, `AssignLead` one round. A target of 2 stands for the
code's 150. Wrap-ups carry request ids; the browser may send one twice. Each handler
completes, replaces or moves the open reminders itself; `Prompted` are the contacts
whose priority or status dates a first step, so that a new assignment starts with a
reminder. Due dates are left out.

**LeadJobs.** A tick is one transaction, so a crash in it undoes it. `rowsIn` says
whether the rows of a file went in wholly or partly.

**Softphone.** Statements between two awaits are one step, and a step that changes the
contact on the screen contains the render and its effects. The effect that is there
for the unmount depends on `finalize`, which is remade with the contact: such a
render runs its cleanup, so it hangs up the session and logs it (`TearDown`). Callbacks
keep the contact of the render that made them (`drawn`): `logCall` falls back on it
when the ref is empty, as it is after an inbound call. `cleanupSession` leaves
listeners on an unanswered session (`doomed`), which hang it up if it is answered.
Two ghosts say where the properties end. An abandoned start is one whose `endedRef` is
set; `reset`, a new start or an inbound call clears the ref, and the old start then
believes it may go on: `revived` records that. `retargeted` has the calls under which
the contact changed. Starts that got no session are logged in the code and not here.

**Waterfall.** One contact is followed; contacts of a run share its first and last
transaction only. A step lists its eligible providers in order, as `rankProviders`
gives them. A verdict is valid, catch-all, risky, invalid or unknown; unknown writes
no grade. Templates without a budget are left out, and so is the stop after fifty calls,
which it takes fifty pairs of step and provider to reach.

**WorkspaceSeats.** Statements of one transaction that write are one step, its
reads an earlier one, as READ COMMITTED allows. Of a password only whether it fits
matters. `outdated`, `overtaken` and `offboarded` are ghosts. A session that a
crossing login opens after a reset is opened after it: the code checks nothing
again and the property does not claim it does. The store reads the identity rows when
it reads the snapshot (`StoreReads`) and may write all of them back later, by a
self-heal, an update without `normalizedTables` or `writeState` (`StoreProjects`): the
accounts it read with status and password, the memberships, sessions and invites it
read and no others. Columns that are missing in its copy, as a lock or a revocation
that came later, stay in the table; reset tokens are not projected. `rewound` has the
users whose account it wrote in an older state. One copy is under way at a time, and
its projection is one step, as it is inside `updateState`.

## 4. Runs

| Run | Instance | Question | Result |
|---|---|---|---|
| `outbox` | 2 rows (1 malformed), 2 workers, 3 tokens, batch 1, lease 2, timeout 1, limits 1 and 2, 1 fault, fair | do races, faults and reconfiguration break the row's life, does every event settle, and does the outbox implement `NotifyDelivery`? | 171k states, holds |
| `growth` | *approvals*: 3 rows, 1 run, 1 key, 2 users, a cheap and a dear document; *research*: 2 requests, 2 runs, 2 open transactions, one of the runs queued twice | two-person rule, lineage, launches, notifications, deadlines; do the rows implement `NicheGate`? do racing claims, enqueues and reports break a run or its request? | 253k states, holds |
| `provider_jobs` | 2 jobs, 2 workers, 4 runs, 2 attempts, rate limit 1, budget 2, at most 1 record a call, 1 slip | jobs and runs agree, nothing blocks, nothing multiplies | 767k states, holds |
| `provider_budget` | 4 jobs, 2 workers, 4 runs, 1 attempt, no rate limit, budget 3, up to 2 records a call, 1 live run per tick, no slips | by how much do workers overspend together? | 80k states, holds |
| `provider_idle_skip` | as `provider_jobs` with 3 runs and no limit | has an idle tick no work? | violated |
| `provider_rate_limit` | as `provider_jobs` with 3 runs and no slips | does the limit bind a tick? | violated |
| `store` | 2 updates (1 unscoped), 2 scripts, 2 tries, an update and a script leave a state to migrate, fair | is the store serial but for the self-heal, does every update settle? | 647k states, holds |
| `store_self_heal` | 2 updates, 1 script | does a committed mutation stay? | violated |
| `store_invite` | 2 updates, 1 script | does an accepted invite stay accepted? | violated |
| `operations` | see below | do the daily operations keep their promises under each other's steps, crashes and second clicks? | 351k states, holds |
| `softphone_drop` | 2 sessions, 2 starts, 2 callees and a stranger | is a live call never dropped? | violated |
| `optout_merge` | 2 contacts, 2 addresses, 3 steps | is an opted-out person blocked? | violated |

The type invariant of every module is proved for every instance (section 6) and no
run repeats it. The same goes for `DeliveredWasAccepted`, which the abstract delivery
of `ImplementsDelivery` has as a guard, and for `WithinBudget`.

### The parts of `operations`

One component moves in a behaviour, chosen by `part` at the start (`growth` is built
in the same way); the others keep their initial state. The sum of the state spaces is
explored, not their product, and nothing is lost, for no property reads two
components, but for sends and contacts, which move together.

| Part | Instance | What it lets happen |
|---|---|---|
| one per request (`r1`, `s1`, `q`, `Campaign`) | 2 clicks, 2 contacts, 2 posts in flight, 1 change of the contacts | a second click before, during and after the first; a crash between any two steps; a recipient merged, edited or opted out under the send |
| `contacts` | 2 contacts, 2 addresses, 3 operations | any three operations; import, opt-out, and what rewrites the row (the proof has no bound) |
| `ledger` | 3 keys, 2 sources, 2 campaigns, amounts 1 and -1, 4 answers | a replay by key, by source, after a correction; a correction of a correction |
| `sdr` | 3 leads of 2 accounts, 2 reps, 3 wrap-ups, batches of 2, 4 steps | a batch closes and refills; a wrap-up is repeated; a lead changes hands with its reminder; an e-mail event or opt-out reaches a row |
| `jobs` | 2 uploads, 1 form job, 3 runs, 2 attempts | a scheduled and a manual retry of one import; one run fails beside one that completes |
| `dialling` | 2 sessions, 2 starts, 2 callees | a start beside a start; with one start, another contact opened under the call |
| `caller` | 2 sessions, 1 of them a caller's, 1 start, 2 callees and a stranger | a call after a caller or under one, the match of the caller, contacts opened under both |
| `waterfall` | the live e-mail template, 3 providers, budget 25, 2 runs or 1 edit | the budget stops the last ask; a run writes after another one, or after an edit |
| `seats` | 1 user, 2 sessions, 2 requests, 1 invite, 1 reset link | every pair of login, reset, change, admin reset, accept around a deactivation or removal |
| `store` | the same with 1 request, no failed logins, and the store | a copy read before and written after any of them, and requests that cross it |

`CHECK_DEADLOCK FALSE`, because the bounded counters do stop the parts. The bound
on `seats` of one user is enough: no rule there relates two users, but for the
admins, who are others. Symmetry is of contacts and clicks only. `GradeIsOfTheAddress`
and `NobodyIsSkipped` are action properties, for which symmetry is sound: their
formulas treat the permuted values alike.

### Why the bounds are enough to be interesting

Two workers and two rows are what a takeover needs: one worker late, one taking over,
one row that competes for the batch. Two limits make every reconfiguration a raise or
a lowering. Three tokens are enough for two rows and a worker that comes back with a
lost claim. The fault is a stall, a crash, or a settlement that throws; a drain of one
row is enough for its limit to be stale when it settles. The proofs of the outbox's
safety have none of these bounds. Three approval rows give a revision of a revision,
or a revision beside an independent approval. In `provider_jobs`, four runs let both
jobs have a retry, or a job reach a third run through the slip while another job
competes; rate limit 1 and budget 2 are both reached. In `provider_budget` a call may
return two records where one was planned for, so one worker alone passes the budget,
two together pass it further, and the bound is met: three units spent, and two calls
under way that may charge four more. In the research part of `growth`, two open
transactions are two claims, two enqueues, or a failure beside either, and two runs
let one request have both or a requeued run overtake a younger one. In `operations`,
two attempts stand for the three of the SDK: one that the provider took and one that
repeats it. In `store`, two scripts and two updates are the smallest case where a late
projection meets a later commit. Symmetry is used only in runs without liveness
properties.

### What each property says

Every property is stated in a comment above its definition, with the code it is
about. The ones worth arguing over:

* `SettledOnce`, `LeaseRespected`: claims change hands by expiry only, and a worker
  that lost its claim writes nothing, even when its settlement fails half-way.
* `DeadLetterAtTheLimit`: the limit is the one of the call that gives up.
* `TwoPersonRule`: judged at the threshold in force at the decision; revision
  starts over without approvers.
* `RevisionChain`: superseded if and only if there is a successor; one successor;
  the brief points at the row that is live or decided.
* `HandedOutOnce`: per queueing, not per run: a stale failure may requeue a run that
  an agent still works on, and that counts as a second queueing.
* `BriefBehindResearch`, `CompletedIsWhole`: about the report and about rows that read
  completed, not about the status, which a stale failure can take back after the brief
  was made. `RequestFollowsItsRuns` allows the second enqueue that takes a briefed
  request back to researching.
* `CompletedIsCharged`: that a charge is there, not that a call is charged or made once.
* `DeadlineBinds`: nothing is decided after its deadline; that a row is stranded by it
  is what the code does.
* `DueRetriesNeverThrow`: jobs are picked by the job's status and judged by the
  run updated last. If these disagreed, one job would abort every queue
  transaction. `JobMirrorsLatestRun` says how far they agree: a job may read
  Queued beside a settled latest run while another run of it is queued.
* `OneActiveRunPerSlip`: retries alone never run a job twice.
* `OverspendIsBounded`: the budget is asked before a call, for one record, and charged
  after it, for all it returned, so it does not bind; the property says that the
  overshoot is one round of full answers to the calls under way, whatever the number
  of ticks, and one full answer per slip. Nothing in this code bounds an answer;
  `MaxUnits` names what the providers' page size does.
* `StrandedByHandOnly`: retries, recoveries, live executions and lost leases all write
  the lock of a run; only a start by hand leaves a running run without one.
* `ImplementsNicheGate`: refinement of `NicheGate`. A revision must drop the first
  approver, a second tap must find the threshold of the moment, and the campaign is in
  the name of who approved last, for the draft that stood then.
* `ImplementsSerialStore`: refinement of `SerialStore`, with one exception that is
  in the formula: the self-heal of a read outside a transaction may take the log back
  to what it read, at any time that `migrateState` has something to do. No update, no
  refused write and no projection may, and what is put back was acknowledged.
* `TablesNeverAhead`: no row of the tables stems from a call that was refused or is
  open. After a self-heal the tables may hold what the snapshot has lost.

* `OptOutSticks`: for opt-outs recorded by the full path. Three paths record less
  and may be undone; that is what `optout_merge` and item 6 below are about.
* `AtMostOnce`: one-to-one sends with the outbox on are handed to their adapter once;
  `Sent` rows always. A text message then goes out once at most, an e-mail as often as
  the SDK tries within that one send. Without claims a second send is what the code does.
* `NobodyIsSkipped`: an action property about the closing of a contact's cycle, over
  wrap-ups that come twice and batches that change under the rep.
* `OneRepOneStep`: eight handlers touch the reminders, each in its own code; the
  routing of a refill asks rows that the same transaction wrote.
* `TotalsCountWhatStands`: totals computed three ways, over any order of corrections.
* `OneLiveCall`, `LogTellsTheCall`: invariants over every interleaving of the awaits,
  the callbacks of older renders included, until an abandoned start comes back
  (`revived`); what happens from there on is not covered. A call under which the
  contact changed (`retargeted`) may be logged on another contact and leave the screen
  in-call; a call dialled with no contact on the screen may have no log.
* `WithinBudget`: what is counted is what was asked, once for each step, whether the
  answer was of use or not; the budget is the one the run began with.
* `GradeIsOfTheAddress`: about the write of a run that has a verdict, and of templates
  that find only what is missing. Such a run rewrites the address it read, which looks
  like a lost update, and is what keeps address and grade together. It does not say
  that every grade is of the address beside it: a run without a verdict writes its
  address beside the grade of another run, and an edit made during a run is
  overwritten (`waterfall-runner.ts:143`).
* `NoOldWayIn`: over stale reads of two requests at a time, and over the store's writes
  of older rows, of which it says that they are the only way back: for a user whose
  account the store has rewound nothing is claimed until the next reset, change,
  deactivation or removal, which end it.

### Disagreements between the code and what is said of it

1. **Idle-skip** (`provider-worker-runner.ts:38-48`). The comment says that with
   nothing queued a tick has no work. It would have recovered expired leases and
   queued due retries. In the trace, one job fails, its retry falls due, nothing
   else is queued: every tick from now on is skipped.
2. **Rate limit** (`docs/M1_PROVIDER_EXECUTION.md:23,26`). Runs planned in a tick do
   not count until they are executed, so one tick plans as many calls as it has
   queued runs (up to `maxLiveRuns`) into a window whose limit is one.
3. **Self-heal** (`store.ts:554-561`). A plain `readState` that finds the snapshot in
   need of migration writes back unconditionally and reverts a commit made since it
   read. That is so after a release, and in ordinary operation whenever a raised cost
   has left a ledger entry to be made (`money.ts:190`). The test
   `store-write-seq-cas.test.ts:35` promises no lost write; within `updateState` the
   promise holds.
4. **Invites** (`store.ts:548-550`). The comment says every write merges the identity
   rows again. Only reads do; a full projection resets an invite accepted since.
   Later reads repair their copy from the active account.
5. **A live call is never dropped** (`softphone-button.tsx:1385-1386`). The cleanup of
   the effect at 1048-1060 hangs up, and runs whenever the contact on the screen
   changes: another contact opened under a call, or the caller recognised by number,
   drops it; the screen stays in-call. The render of a caller who rings while a contact
   is on the screen drops that call at once.
6. **Opt-outs and merges** (`dedupe.ts:262` against `docs/SDR_GUIDE.md:137`). A merge
   keeps `isSuppressed` of the duplicate and neither its `doNotContact` nor its
   address; the next verification frees the survivor.

Seen while modelling, and kept in the models as the code has it, without a run of
their own:

* `admin reset`: "force the target to re-authenticate everywhere with the new
  password" (`auth-fast-path.ts:554`) revokes what is committed by then; a login that
  checked the old password before opens its session after. An admin reset that read
  a seat as Invited re-activates one that was disabled since. A reset link or an
  invite that two requests read at once is used twice.
* The SES client retries (`amazon-ses.ts:90-104`, nothing sets `maxAttempts`) where
  `direct-send-outbox.ts:6-9,40-43` counts on one post per claim: a lost answer may
  mail twice under one claim.
* The full projection writes accounts, sessions and memberships as they were merged
  (`persistence-projection.ts:187-193, 296-311`): a seat disabled since is active
  again, an old password opens it, and a user removed since is back, with sessions.
* A live plan asks the budget for one record and the outcome charges all that came
  (`provider-live-execution.ts:125-136`, `229-242`). The lead-job cap counts the demo
  entry of a job beside the actual one (`money.ts:177-210`).
* `openCall` (`softphone-button.tsx:1390`) moves the log of a running call to the
  contact it opens; `openCallInline` refuses. A caller whom nobody knows is logged on
  the contact opened before, although "not attached to an unrelated record"
  (`softphone-button.tsx:536-537`); a call dialled after such a caller has an empty ref
  and may have no log. The render that shows a contact dialled from the dock clears
  the connect timer of that very call.
* The field sources of one waterfall run carry one time, and the first of them in
  the array is the status of the next run: it verifies the address again, where
  `docs/CAMPAIGN_WATERFALLS.md` says verified fields are skipped. An answer that the
  gate refuses is paid and not booked. A manual edit keeps the old status.
* The wrap-up of a second call completes the reminder it has just left (`sdr.ts:430`
  and `:507`), so a follow-up date the rep gave remains as a task only; any open or
  click of an old e-mail makes an ended assignment active again (`outreach.ts:926`).
* A manual retry of a scheduled import retry leaves two runs due; both run. A failed
  first run keeps the job Failed when its retry completes (`jobs.ts:473`).

## 5. Fairness

`outbox`: weak fairness of each worker's own steps, because the background
worker calls the drain in a loop (`background-worker-runner.ts`), and of time. The
Bot owes no answer: an unanswered post times out. No fairness for faults,
enqueueing, or late arrivals. `store`: weak fairness of the attempts of a call
that has been made (`runWithWriteConflictRetry` loops until it returns or throws);
none for scripts, pages or invitations. `operations` has safety properties only: a
click, a tab or a provider owes no next step.

## 6. Proofs

All proofs hold for every value of the constants under the named assumptions of
the modules, which TLC evaluates on each run.

**`NotifyOutboxProofs`.** Assumptions: rows are numbered, `NoClaim` and `NoWork` are
no claims or work items, and the configuration passes the checks of
`resolveNotifyDeliveryConfig` (`EventsAssumption`, `NoClaimAssumption`,
`ConfigAssumption`). None of the safety properties is inductive. `Inv` adds: a
worker is busy exactly while it carries a row (`WorkInv`); a row whose claim it
still holds is pending with the attempts it read, so that settling writes what
nobody changed; settled rows carry no claim (`SettledRowsAreFree`), so a stale
holder cannot match one; late posts are of enqueued rows; and, before the first
fault, a claim outlives its send (`HealthyLease`: `timer < lease`), which is where
`leaseMs > timeoutMs` enters. `InvStep` proves that every action keeps `Inv`, one
step per action. From it follow `TypeCorrect`, `DeliveredOnlyWhatTheBotHas`,
`HealthyClaims`, the action properties `SettledOnceHolds`,
`DeadLetterAtTheLimitHolds`, `LeaseRespectedHolds`, and
`ImplementsDeliverySteps`: initial states map to initial states, and each step to
a step of `NotifyDelivery` or a stutter. Freshness of tokens among those still
carried is a guard of the claim, as `randomUUID` provides it.

**`SnapshotStoreProofs`.** Assumption: `StoreAssumption` (updates and scripts are
disjoint, at least one try). `IInv` relates each copy to the row: a copy never has a
sequence number from the future, and a copy with the row's number holds the row's log,
which needs every write, conditional or not, to move the number. It also keeps the
log, each copy's log and the tables free of calls that have not committed
(`OnlyCommitted`), so that applying one is a step of `SerialStore` and a self-heal
puts back acknowledged mutations only. From it: `TypeCorrect`, `CompareAndSetIsSound`,
`TablesStayBehind`, `SerialStoreImplemented`.

**`ResearchQueueProofs`.** Assumptions: `Nothing` is no run, agent, row or open
transaction, and the two bounds are positive. `IInv` is the conjunction of the
properties with two facts they lean on: an open claim or failure is about an
existing row (rows are never deleted), and a row that does not exist has no
history. Two lemmas say what rewriting one row keeps (`OneRow`, `WholeRow`), and
each step is shown to rewrite one row, or none. From it: `TypeCorrect`,
`HandedOutOnceHolds`, `RequestFollowsItsRunsHolds`, `BriefBehindResearchHolds`,
`CompletedIsWholeHolds`. `MaxPuts` bounds the instance only and is not used.

**`ApprovalWorkflowProofs`.** Assumptions: the four named ones of the module. `IInv`
adds that an approved row names who decided it and, if it is a niche test, has had
its side effects, so that a replay finds nothing left to write. One step per
handler shows what it keeps of the row it writes (`RowStep`); from it follow
`TypeCorrect` and the action properties `TwoPersonRuleHolds`, `DecisionsStay`,
`DeadlineHolds`. The state invariants are kept together, for each needs the others:
`AuditInv` is `RevisionChain`, `LaunchedOnce`, `EventsTellTheTruth` and
`RowsAreFiled`, which says that a row was filed under the key of what it is about,
so that a replay by key finds the row it was meant for, and that a brief points at
a row of its own run. Two facts carry the events: a step announces what it writes,
and a replay announces what is already there, so it adds nothing. From it:
`RevisionChainHolds`, `LaunchedOnceHolds`, `EventsTellTheTruthHolds`.

`ImplementsNicheGateHolds` is the refinement, one lemma per handler (`HoldGate`,
`DeclineGate`, `ReviseGate`, ...) from the same `AuditInv`: a pending niche row is the
one its run's brief points at (`PendingIsShown`), so that deciding it is a step of
that run's gate and of no other (`RowGate`); a revision moves the pointer and so
redrafts the gate; an approval launches the only campaign of its run (`OneLaunch`),
for had there been another, the brief would point at the row that launched it; a
replay, a row that is no niche test, a deadline and what research does leave every
gate where it was.

**`ContactHygieneProofs`.** Assumptions: `HygieneAssumption`, `RowsAssumption` (the
markers of absent and merged contacts are no rows) and `SendsAssumption`. For the
contacts, `IInv` adds that a contact not yet imported has no opt-out, so that its
import cannot lose one. Lemmas say which operations on a row keep the flags
(`SuppressedRow`, `VerifiedRow`, ...), and each action is shown to be made of these.
From it: `HygieneTypeCorrect`, `OptOutSticksHolds`. For the sends, which run on these
contacts, `AtMostOnce` alone is not inductive: nothing in it says why a second click
cannot post. `ClaimIsKept` does: a recipient that is being posted belongs to one
click, its claim reads "Sending" from the claim until that click records, and what was
ever posted has a claim, in any state, that every later claim finds and skips.
`ClickInOrder` says that what a click will record as sent the provider took. What the
provider took is at most `Attempts` for each send handed over. From these:
`SendsTypeCorrect`, `AtMostOnceHolds`, `HistoryTellsTheTruthHolds`, and
`OptOutSticksBesideSends`.

**`ProviderJobsProofs`.** Assumption: `ProviderAssumption` (finite jobs and workers,
positive attempts and batches). `Sound` is what every transaction keeps of a
snapshot: a job and its latest run agree as `JobMirrorsLatestRun` says, the latest
run is the job's own, a retry is scheduled only while attempts are left, completed
runs are charged. `Moved` is what any operation on one run may do to a snapshot;
each operation is shown to be one (`CompleteMoves`, `FailMoves`, `PutMoves`, ...) and
one lemma shows that such a step keeps `Sound`. The loops of a transaction are
carried round by round: after `i` rounds the snapshot is sound and only the runs
visited have moved.

`OneActiveRunPerSlip` needs more, for a run that is not active now may come back. The
invariant counts *tokens*, the ways a job may still be executed: a plan of one of its
runs in a worker's hand; a run that nobody holds and that the queue or a recovery
will serve; the retry of a job that may be retried. An active run has a token of its
own (so active runs are no more than tokens), each step hands a token on or drops it,
and only a slip makes one: tokens are at most one more than the slips. This is
where the checks of `retryProviderJobRun` enter: a retry spends the token that
scheduling it made. From it: `TypeCorrect`, `JobMirrorsLatestRunHolds`,
`DueRetriesNeverThrowHolds`, `CompletedIsChargedHolds`, `OneActiveRunPerSlipHolds`, and
the action property `LeaseKeepsTheRunHolds`.

`SpendInv` serves the other two. It is the properties with one fact more, that no
worker holds more than `MaxLiveRuns` plans (`Short`). What is `Owed` are the units spent
and `MaxUnits` for each call under way. Two accounts are kept of every
step. Either the units spent are within the budget afterwards, and then the calls that
the workers can hold (`CallsAreFew`), answered in full, are all there can be beyond it;
or what is owed has grown by no more than `MaxUnits` for each slip (`Within`): past the
budget nothing new is planned, and an outcome turns a call into `MaxUnits` at most. And no
run becomes stranded but by a slip of a person (`Strands`). From it:
`OverspendIsBoundedHolds`, `StrandedByHandOnlyHolds`.

**`OperationsProofs`.** The other daily operations, each with the assumptions of its
module and an invariant of its own.

* *Seats* (`SeatsInv`): no live session is outdated, and a deactivated seat stays
  disabled, but for users whose account the store rewound; what a request under way
  has read, once a deactivation has made it stale, is marked (`ReadsAreMarked`), so
  that the late write of an admin reset is told from a fresh one; and so is what the
  store has read (`CopyInOrder`): of a deactivated user its copy has a disabled
  account or is stale, so that writing it leaves the user disabled or rewound. From
  it: `SeatsTypeCorrect`, `NoOldWayInHolds`.
* *Lead jobs* (`JobsInv`): a run that failed has used up its attempts and a scheduled
  one has not (`AttemptsCount`), so a failed run is never followed by a retry
  and its job never completes. From it: `JobsTypeCorrect`, `ImportIsWholeHolds`.
* *Waterfall* (`WaterfallInv`): if a template looks for addresses only where one is
  missing, every verdict that a run under way has heard is about the address it
  read, which is the one it will write (`AboutTheLead`). Runs of other templates are
  not graded by it, as the property says. A step of a run asks nobody, or one
  provider it has not asked at that step of its template, whose price it adds
  (`AsksOnce`), so that the count is the sum. From it: `WaterfallTypeCorrect`,
  `GradeIsOfTheAddressHolds`, `WithinBudgetHolds`.
* *Softphone* (`PhoneInv`): unless an abandoned start has come back (`revived`), the
  refs are in order (`Calm`): one start at most is under way, only the engine's
  session is heard, any other open session hangs up when answered, what the
  engine knows of its call is true, and a call has the log it deserves as soon as
  it is no longer the engine's (`LogInOrder`). The last needs the contact on the screen
  and the one its callbacks kept: whichever of them `logCall` takes is the party's, or
  the call was `retargeted`. From it: `PhoneTypeCorrect`, `OneLiveCallHolds`,
  `LogTellsTheCallHolds`.
* *SDR calling* (`SdrInv`): a counted call left a receipt, contacts of an account that
  nobody reassigned have one rep, and the open step of a contact is its rep's. An
  assignment run is carried contact by contact: routing asks the rows that the run
  itself has written. From it: `SdrTypeCorrect`, `OneRepOneStepHolds`, and the
  action property `NobodyIsSkippedHolds`.
* *Ledger* (`TotalsInv`): a source has one row of each kind, which is where a replay by
  key and one by source meet (`LInv`); a reversal points at a row of its campaign that
  is no reversal itself and that no other points at (`ReversesOnce`); a row's
  `totalCents` is its effect on the actual spend (`ColumnIsEffect`). The total is then
  summed in two goes (`ReversalsTakeOff`): first the rows that are no reversals, then
  the reversals one by one, each of which takes off the amount of its target. From it:
  `LedgerTypeCorrect`, `BookedOnceHolds`, `TotalsCountWhatStandsHolds`.

* *The composition* (`MCOperations`): a step of one component leaves the variables of
  the others alone, and the initial states it narrows are initial states of each, so
  a behaviour of the whole is a behaviour of each part (`OperationsAreTheirParts`). What
  is proved of the parts is then proved of the whole, side by side and with its own
  type invariant: `OperationsTypeCorrect`, `OperationsKeepTheirPromises`.

**Loops.** The induction theorems of the library take an operator, which the provers
cannot be given. `IterationLemmas` states induction about sets instead: a set of
round numbers that holds 0, and `i` whenever it holds `i - 1`, holds them all
(`EveryRound`, from the least element of a set of naturals, `LeastNatural`). A loop is
a recursive function on the rounds `0..n`, which exists by `RoundsExist`; its invariant
is taken as the set of rounds after which it holds. The cardinality lemmas
(`NoMoreValues`, `MemberExchanged`, ...) serve the count of tokens.

A sum over a finite set is a fold that takes elements by CHOOSE. A function on the
subsets `Adds` if it is 0 on none and grows by `f[x]` whichever `x` is put in: one
exists (`SumsExist`), and it is the fold (`OneByOneIsTheSum`), by induction over the
subsets (`EverySubset`). With it a sum may be split wherever an argument needs it.

**Only model-checked.** Liveness (`EveryEventSettles`, the fairness part of
`ImplementsDelivery`, `EveryUpdateSettles`): fairness and ENABLED are out of the
prover's reach. Every invariant and every other action property of the passing runs is
a theorem. The `violation` runs refute what they check, so nothing is to be proved there.

## 7. Not modelled, and why

`PROJECT.json` lists every component. More than half of the repository's lines are
pages and components that render, read models that query, types, and the mapping
of the snapshot's records to table columns; they hold no state whose order could
be wrong. Of the rest:

* **Stage runs** (`transitionStageRun`) have no caller outside the tests. It reads,
  asserts and writes by id at READ COMMITTED, so two transitions can both start
  from one state; what a scheduler would make of that is not in the code yet.
* **Call reports, calling sessions and the recording worker** were examined. Few
  things hold of them that are worth stating: a session's report counts wrap-ups and
  logs that arrive in either order, and its completion may overtake wrap-ups still
  queued in the browser (`focus-workspace.tsx`). Tasks follow their owner and
  nothing reads them. The recording worker repeats an
  idempotent download.
* **Signatures, hashing, parsing, templates of messages, scoring, exports, drafting**
  are functions of their input within one transaction.
* **Roles, rate limits, profile and telephony fields** are single statements or
  process-local counters.
* **Phone and discovery tracks of the waterfall** repeat the e-mail track with other
  fields; **phone numbers of contacts** repeat the addresses; **audio, transfer,
  recording and notes of the softphone** change nothing the engine reads.

## 8. Plan

Every safety property of the passing runs is a theorem, and so is every refinement but
for its fairness. What is left would widen the models:

1. Waterfall: the phone and discovery tracks, and the budget over a batch of contacts.
2. Store: the other writers past the snapshot (call logs, notes, profile fields).
3. SDR calling: tasks, the calling session and the daily report.
4. Stage runs, once a scheduler calls `transitionStageRun`.
