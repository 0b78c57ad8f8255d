------------------------- MODULE ProviderJobsProofs -------------------------
(***************************************************************************)
(* Proofs about ProviderJobs: the types, the agreement of a job with its   *)
(* runs, the due retries that never throw, the runs charged for, the lease *)
(* that keeps a run, the count of active runs, the overshoot of the budget *)
(* and the runs that are left behind.                                      *)
(*                                                                         *)
(* Everything about a transaction is said of snapshots: Good(n) are those  *)
(* with n runs that are sound, and the three loops of a tick (Recover,     *)
(* ServeBatch, AfterPlan) stay in it round by round.                       *)
(***************************************************************************)
EXTENDS ProviderJobs, IterationLemmas, SequenceTheorems

\* The snapshots with n runs, and what their ledger may hold.
Entries(n) == (1..n) \X (0..MaxUnits)

Snapshots(n) == [jobs : [Jobs -> JobRows], runs : [1..n -> Runs], ledger : SUBSET Entries(n)]

LEMMA Constants ==
  /\ IsFiniteSet(Jobs) /\ IsFiniteSet(Workers)
  /\ MaxAttempts \in Nat /\ MaxAttempts >= 1
  /\ MaxLiveRuns \in Nat /\ MaxLiveRuns >= 1 /\ BatchSize \in Nat /\ BatchSize >= 1
  /\ RateLimit \in Nat /\ Budget \in Nat /\ MaxRuns \in Nat /\ MaxSlips \in Nat
  /\ Manual \in BOOLEAN
  /\ MaxUnits \in Nat /\ MaxUnits >= 1 /\ MockUnits \in 1..MaxUnits /\ MockUnits \in 0..MaxUnits
BY ProviderAssumption

LEMMA RunFields ==
  ASSUME NEW r \in Runs
  PROVE  /\ r.job \in Jobs /\ r.status \in Statuses /\ r.attempt \in 1..MaxAttempts
         /\ r.lease \in Leases /\ r.recent \in BOOLEAN
BY DEF Runs

LEMMA MadeRun ==
  ASSUME NEW j \in Jobs, NEW s \in Statuses, NEW a \in 1..MaxAttempts, NEW l \in Leases, NEW b \in BOOLEAN
  PROVE  LET r == [job |-> j, status |-> s, attempt |-> a, lease |-> l, recent |-> b] IN
         /\ r \in Runs
         /\ r.job = j /\ r.status = s /\ r.attempt = a /\ r.lease = l /\ r.recent = b
BY DEF Runs

LEMMA RowFields ==
  ASSUME NEW r \in JobRows
  PROVE  /\ r.status \in Statuses \union {"absent"} /\ r.retryAt \in {"none", "ahead", "due"}
         /\ r.latest \in 0..MaxRuns
BY DEF JobRows

LEMMA MadeRow ==
  ASSUME NEW s \in Statuses \union {"absent"}, NEW a \in {"none", "ahead", "due"}, NEW i \in 0..MaxRuns
  PROVE  LET r == [status |-> s, retryAt |-> a, latest |-> i] IN
         /\ r \in JobRows /\ r.status = s /\ r.retryAt = a /\ r.latest = i
BY DEF JobRows

LEMMA SnapshotFields ==
  ASSUME NEW n \in Nat, NEW d \in Snapshots(n)
  PROVE  /\ d.jobs \in [Jobs -> JobRows] /\ d.runs \in [1..n -> Runs] /\ d.ledger \in SUBSET Entries(n)
         /\ DOMAIN d.runs = 1..n /\ d.runs \in Seq(Runs) /\ Len(d.runs) = n
<1>1. d.jobs \in [Jobs -> JobRows] /\ d.runs \in [1..n -> Runs] /\ d.ledger \in SUBSET Entries(n)
  BY DEF Snapshots
<1>2. d.runs \in Seq(Runs)
  BY <1>1, SeqDef
<1>3. DOMAIN d.runs = 1..n
  BY <1>1
<1>4. Len(d.runs) \in Nat /\ DOMAIN d.runs = 1..Len(d.runs)
  BY <1>2, LenProperties
<1>5. Len(d.runs) = n
  BY <1>3, <1>4
<1> QED BY <1>1, <1>2, <1>3, <1>5

LEMMA MadeSnapshot ==
  ASSUME NEW n \in Nat, NEW rows \in [Jobs -> JobRows], NEW runs \in [1..n -> Runs], NEW paid \in SUBSET Entries(n)
  PROVE  LET d == [jobs |-> rows, runs |-> runs, ledger |-> paid] IN
         d \in Snapshots(n) /\ d.jobs = rows /\ d.runs = runs /\ d.ledger = paid
BY DEF Snapshots

-----------------------------------------------------------------------------
\* What Put, Complete, Fail and Defer do to a snapshot: run i and its job take
\* one status, everything else stays.

Settled(status, a) ==
  /\ status \in Statuses
  /\ status = "Retry scheduled" => a < MaxAttempts

Moved(d, e, i) ==
  LET j == d.runs[i].job IN
  /\ \A k \in DOMAIN d.runs \ {i} : e.runs[k] = d.runs[k]
  /\ e.runs[i].job = j /\ e.runs[i].attempt = d.runs[i].attempt
  /\ Settled(e.runs[i].status, e.runs[i].attempt)
  /\ \A other \in Jobs \ {j} : e.jobs[other] = d.jobs[other]
  /\ e.jobs[j].status = e.runs[i].status
  /\ \/ e.jobs[j].latest = i
     \/ e.jobs[j].latest = d.jobs[j].latest /\ e.runs[i].status = "Queued"
  /\ \A k : <<k, 0>> \in d.ledger => <<k, 0>> \in e.ledger
  /\ e.runs[i].status = "Completed" => <<i, 0>> \in e.ledger

\* e is d with a status and a lease put on run i.
Wrote(n, d, e, i, status, lease) ==
  LET j == d.runs[i].job IN
  /\ j \in Jobs /\ e \in Snapshots(n) /\ e.ledger = d.ledger
  /\ \A k \in (1..n) \ {i} : e.runs[k] = d.runs[k]
  /\ e.runs[i].job = j /\ e.runs[i].attempt = d.runs[i].attempt
  /\ e.runs[i].status = status /\ e.runs[i].lease = lease
  /\ \A other \in Jobs \ {j} : e.jobs[other] = d.jobs[other]
  /\ e.jobs[j].status = status /\ e.jobs[j].retryAt = d.jobs[j].retryAt /\ e.jobs[j].latest = i

LEMMA PutIs ==
  ASSUME NEW n \in 0..MaxRuns, NEW d \in Snapshots(n), NEW i \in 1..n,
         NEW status \in Statuses, NEW lease \in Leases
  PROVE  Wrote(n, d, Put(d, i, status, lease), i, status, lease)
<1> DEFINE e == Put(d, i, status, lease)
           j == d.runs[i].job
           r == [d.runs[i] EXCEPT !.status = status, !.lease = lease, !.recent = status \in Executed]
           w == [d.jobs[j] EXCEPT !.status = status, !.latest = i]
<1>1. n \in Nat /\ i \in 0..MaxRuns
  BY Constants
<1>2. d.runs[i] \in Runs
  BY <1>1, SnapshotFields
<1>3. j \in Jobs
  BY <1>2, RunFields
<1>4. d.jobs[j] \in JobRows
  BY <1>1, <1>3, SnapshotFields
<1>5. r \in Runs /\ r.job = j /\ r.attempt = d.runs[i].attempt /\ r.status = status /\ r.lease = lease
  <2>1. \A b \in BOOLEAN :
          LET x == [d.runs[i] EXCEPT !.status = status, !.lease = lease, !.recent = b] IN
          x \in Runs /\ x.job = j /\ x.attempt = d.runs[i].attempt /\ x.status = status /\ x.lease = lease
    BY <1>2 DEF Runs
  <2>2. (status \in Executed) \in BOOLEAN
    OBVIOUS
  <2> QED BY <2>1, <2>2
<1>6. w \in JobRows /\ w.status = status /\ w.retryAt = d.jobs[j].retryAt /\ w.latest = i
  BY <1>1, <1>4 DEF JobRows
<1>7. e = [d EXCEPT !.runs[i] = r, !.jobs[j] = w]
  BY DEF Put
<1> HIDE DEF r, w, e
<1>8. n \in Nat /\ r \in Runs /\ j \in Jobs /\ w \in JobRows /\ e = [d EXCEPT !.runs[i] = r, !.jobs[j] = w]
  BY <1>1, <1>3, <1>5, <1>6, <1>7
<1>9. /\ e \in Snapshots(n) /\ e.ledger = d.ledger
      /\ e.runs[i] = r /\ \A k \in (1..n) \ {i} : e.runs[k] = d.runs[k]
      /\ e.jobs[j] = w /\ \A other \in Jobs \ {j} : e.jobs[other] = d.jobs[other]
  <2> HIDE DEF j
  <2> QED BY <1>8 DEF Snapshots
<1>10. Wrote(n, d, e, i, status, lease)
  BY <1>3, <1>5, <1>6, <1>9 DEF Wrote
<1> QED BY <1>10 DEF e

LEMMA StatusesAre ==
  /\ "Queued" \in Statuses /\ "Running" \in Statuses /\ "Retry scheduled" \in Statuses
  /\ "Completed" \in Statuses /\ "Failed" \in Statuses /\ "Skipped" \in Statuses
  /\ "none" \in Leases /\ "held" \in Leases /\ "expired" \in Leases
BY DEF Statuses, Leases

\* Put, with what a reader of Moved asks.
LEMMA PutMoves ==
  ASSUME NEW n \in 0..MaxRuns, NEW d \in Snapshots(n), NEW i \in 1..n,
         NEW status \in Statuses, NEW lease \in Leases,
         Settled(status, d.runs[i].attempt), status = "Completed" => <<i, 0>> \in d.ledger
  PROVE  LET e == Put(d, i, status, lease) IN
         /\ e \in Snapshots(n) /\ Moved(d, e, i) /\ e.runs[i].status = status /\ e.runs[i].lease = lease
         /\ e.ledger = d.ledger
<1> DEFINE e == Put(d, i, status, lease)
<1>1. DOMAIN d.runs = 1..n
  BY Constants, SnapshotFields
<1>2. /\ d.runs[i].job \in Jobs /\ e \in Snapshots(n) /\ e.ledger = d.ledger
      /\ \A k \in (1..n) \ {i} : e.runs[k] = d.runs[k]
      /\ e.runs[i].job = d.runs[i].job /\ e.runs[i].attempt = d.runs[i].attempt
      /\ e.runs[i].status = status /\ e.runs[i].lease = lease
      /\ \A other \in Jobs \ {d.runs[i].job} : e.jobs[other] = d.jobs[other]
      /\ e.jobs[d.runs[i].job].status = status /\ e.jobs[d.runs[i].job].latest = i
  BY PutIs DEF Wrote
<1> HIDE DEF e
<1>3. Moved(d, e, i)
  BY <1>1, <1>2 DEF Moved
<1> QED BY <1>2, <1>3 DEF e

\* The same with another entry in the ledger, another time of retry, or the
\* run that was updated last left as it was.
LEMMA CompleteMoves ==
  ASSUME NEW n \in 0..MaxRuns, NEW d \in Snapshots(n), NEW i \in 1..n, NEW units \in 0..MaxUnits
  PROVE  LET e == Complete(d, i, units) IN
         /\ e \in Snapshots(n) /\ Moved(d, e, i) /\ e.runs[i].status = "Completed"
         /\ e.ledger = {q \in d.ledger : q[1] # i} \union Entry(i, units)
<1> DEFINE e == Complete(d, i, units)
           p == Put(d, i, "Completed", "none")
<1>1. DOMAIN d.runs = 1..n
  BY Constants, SnapshotFields
<1> DEFINE rest == {q \in p.ledger : q[1] # i} \union Entry(i, units)
<1>3. e = [p EXCEPT !.ledger = rest]
  BY DEF Complete
<1> HIDE DEF p, e
<1>2. /\ d.runs[i].job \in Jobs /\ p \in Snapshots(n) /\ p.ledger = d.ledger
      /\ \A k \in (1..n) \ {i} : p.runs[k] = d.runs[k]
      /\ p.runs[i].job = d.runs[i].job /\ p.runs[i].attempt = d.runs[i].attempt
      /\ p.runs[i].status = "Completed"
      /\ \A other \in Jobs \ {d.runs[i].job} : p.jobs[other] = d.jobs[other]
      /\ p.jobs[d.runs[i].job].status = "Completed" /\ p.jobs[d.runs[i].job].latest = i
  <2>1. Wrote(n, d, p, i, "Completed", "none")
    BY PutIs, StatusesAre DEF p
  <2> QED BY <2>1 DEF Wrote
<1>7. rest \in SUBSET Entries(n) /\ \A k : <<k, 0>> \in d.ledger => <<k, 0>> \in rest
  <2>1. p.ledger \in SUBSET Entries(n)
    BY <1>2, Constants, SnapshotFields
  <2>2. units \in Nat /\ units <= MaxUnits /\ MaxUnits \in Nat
    BY Constants
  <2>3. Entry(i, units) \subseteq Entries(n) /\ <<i, 0>> \in Entry(i, units)
    BY <2>2 DEF Entry, Entries
  <2> QED BY <2>1, <2>3, <1>2
<1>8. <<i, 0>> \in rest
  <2>1. units \in Nat
    BY Constants
  <2> QED BY <2>1 DEF Entry
<1>9. rest = {q \in d.ledger : q[1] # i} \union Entry(i, units)
  BY <1>2
<1> HIDE DEF rest
<1>4. e \in Snapshots(n) /\ e.runs = p.runs /\ e.jobs = p.jobs /\ e.ledger = rest
  BY <1>2, <1>3, <1>7 DEF Snapshots
<1>5. Settled("Completed", d.runs[i].attempt)
  BY StatusesAre DEF Settled
<1>6. Moved(d, e, i)
  BY <1>1, <1>2, <1>4, <1>5, <1>7, <1>8 DEF Moved
<1> QED BY <1>2, <1>4, <1>6, <1>9 DEF e

LEMMA FailMoves ==
  ASSUME NEW n \in 0..MaxRuns, NEW d \in Snapshots(n), NEW i \in 1..n, NEW retry \in BOOLEAN
  PROVE  LET e == Fail(d, i, retry) IN
         /\ e \in Snapshots(n) /\ Moved(d, e, i)
         /\ e.runs[i].status = IF retry /\ d.runs[i].attempt < MaxAttempts THEN "Retry scheduled" ELSE "Failed"
         /\ e.runs[i].lease = "none" /\ e.ledger = d.ledger
<1> DEFINE e == Fail(d, i, retry)
           j == d.runs[i].job
           status == IF retry /\ d.runs[i].attempt < MaxAttempts THEN "Retry scheduled" ELSE "Failed"
           time == IF retry THEN "ahead" ELSE "none"
           p == Put(d, i, status, "none")
           w == [p.jobs[j] EXCEPT !.retryAt = time]
<1>1. DOMAIN d.runs = 1..n
  BY Constants, SnapshotFields
<1>s. status \in Statuses /\ Settled(status, d.runs[i].attempt) /\ status # "Completed"
  BY StatusesAre DEF Settled
<1>t. time \in {"none", "ahead", "due"}
  OBVIOUS
<1>3. e = [p EXCEPT !.jobs[j] = w]
  BY DEF Fail
<1> HIDE DEF status, time, p, e
<1>2. /\ j \in Jobs /\ p \in Snapshots(n) /\ p.ledger = d.ledger
      /\ \A k \in (1..n) \ {i} : p.runs[k] = d.runs[k]
      /\ p.runs[i].job = j /\ p.runs[i].attempt = d.runs[i].attempt
      /\ p.runs[i].status = status /\ p.runs[i].lease = "none"
      /\ \A other \in Jobs \ {j} : p.jobs[other] = d.jobs[other]
      /\ p.jobs[j].status = status /\ p.jobs[j].latest = i
  <2>1. Wrote(n, d, p, i, status, "none")
    BY <1>s, PutIs, StatusesAre DEF p
  <2> QED BY <2>1 DEF Wrote
<1>4. w \in JobRows /\ w.status = status /\ w.latest = i
  <2>1. p.jobs[j] \in JobRows
    BY <1>2, Constants, SnapshotFields
  <2> QED BY <2>1, <1>2, <1>t DEF JobRows
<1> HIDE DEF w, j
<1>5. /\ e \in Snapshots(n) /\ e.runs = p.runs /\ e.ledger = d.ledger
      /\ \A other \in Jobs \ {j} : e.jobs[other] = p.jobs[other]
      /\ e.jobs[j] = w
  BY <1>2, <1>3, <1>4 DEF Snapshots
<1>6. Moved(d, e, i)
  BY <1>1, <1>2, <1>4, <1>5, <1>s DEF Moved, j
<1> QED BY <1>2, <1>5, <1>6 DEF status, e

LEMMA DeferMoves ==
  ASSUME NEW n \in 0..MaxRuns, NEW d \in Snapshots(n), NEW i \in 1..n, NEW d0, NEW tied
  PROVE  LET e == Defer(d0, d, i, tied) IN
         e \in Snapshots(n) /\ Moved(d, e, i) /\ e.runs[i].status = "Queued" /\ e.ledger = d.ledger
<1> DEFINE e == Defer(d0, d, i, tied)
           j == d.runs[i].job
           p == Put(d, i, "Queued", "none")
<1>1. DOMAIN d.runs = 1..n
  BY Constants, SnapshotFields
<1>3. PICK last \in {d.jobs[j].latest, p.jobs[j].latest} :
        e = [p EXCEPT !.jobs[j] = [p.jobs[j] EXCEPT !.latest = last]]
  BY DEF Defer
<1> DEFINE w == [p.jobs[j] EXCEPT !.latest = last]
<1>w. e = [p EXCEPT !.jobs[j] = w]
  BY <1>3
<1> HIDE DEF p, e
<1>2. /\ j \in Jobs /\ p \in Snapshots(n) /\ p.ledger = d.ledger
      /\ \A k \in (1..n) \ {i} : p.runs[k] = d.runs[k]
      /\ p.runs[i].job = j /\ p.runs[i].attempt = d.runs[i].attempt
      /\ p.runs[i].status = "Queued"
      /\ \A other \in Jobs \ {j} : p.jobs[other] = d.jobs[other]
      /\ p.jobs[j].status = "Queued" /\ p.jobs[j].latest = i
  <2>1. Wrote(n, d, p, i, "Queued", "none")
    BY PutIs, StatusesAre DEF p
  <2> QED BY <2>1 DEF Wrote
<1>4. w \in JobRows /\ w.status = "Queued" /\ w.latest = last /\ last \in {d.jobs[j].latest, i}
  <2>1. p.jobs[j] \in JobRows /\ d.jobs[j] \in JobRows
    BY <1>2, Constants, SnapshotFields
  <2>2. last \in 0..MaxRuns /\ last \in {d.jobs[j].latest, i}
    <3>1. last \in {d.jobs[j].latest, p.jobs[j].latest}
      BY <1>3
    <3> QED BY <3>1, <2>1, <1>2, RowFields
  <2> QED BY <2>1, <2>2, <1>2 DEF JobRows
<1> HIDE DEF w, j
<1>5. /\ e \in Snapshots(n) /\ e.runs = p.runs /\ e.ledger = d.ledger
      /\ \A other \in Jobs \ {j} : e.jobs[other] = p.jobs[other]
      /\ e.jobs[j] = w
  BY <1>2, <1>w, <1>4 DEF Snapshots
<1>s. Settled("Queued", d.runs[i].attempt)
  BY StatusesAre DEF Settled
<1>6. Moved(d, e, i)
  BY <1>1, <1>2, <1>4, <1>5, <1>s DEF Moved, j
<1> QED BY <1>2, <1>5, <1>6 DEF e

-----------------------------------------------------------------------------
\* What keeps jobs and runs together.

\* A retry is scheduled only while attempts are left.
AttemptsLeft(d) ==
  \A i \in DOMAIN d.runs : d.runs[i].status = "Retry scheduled" => d.runs[i].attempt < MaxAttempts

NoneOfAbsent(d) == \A i \in DOMAIN d.runs : d.jobs[d.runs[i].job].status # "absent"

LatestIsOwn(d) ==
  \A j \in Jobs : d.jobs[j].status # "absent" =>
    d.jobs[j].latest \in DOMAIN d.runs /\ d.runs[d.jobs[j].latest].job = j

\* JobMirrorsLatestRun and CompletedIsCharged, of a snapshot.
Mirrors(d) ==
  \A j \in Jobs : d.jobs[j].status # "absent" =>
    \/ d.jobs[j].status = d.runs[d.jobs[j].latest].status
    \/ /\ d.jobs[j].status = "Queued"
       /\ \E i \in RunsIn(d, {"Queued"}) : d.runs[i].job = j

ChargedWhole(d) == \A i \in RunsIn(d, {"Completed"}) : <<i, 0>> \in d.ledger

Sound(d) == AttemptsLeft(d) /\ NoneOfAbsent(d) /\ LatestIsOwn(d) /\ Mirrors(d) /\ ChargedWhole(d)

Good(n) == {d \in Snapshots(n) : Sound(d)}

LEMMA GoodIs ==
  ASSUME NEW n, NEW d
  PROVE  d \in Good(n) <=> d \in Snapshots(n) /\ Sound(d)
BY DEF Good

\* A run that moves takes its job along.
LEMMA MovedStaysSound ==
  ASSUME NEW n \in 0..MaxRuns, NEW d \in Good(n), NEW e \in Snapshots(n), NEW i \in 1..n, Moved(d, e, i)
  PROVE  e \in Good(n)
<1> DEFINE j == d.runs[i].job
<1>1. /\ d \in Snapshots(n) /\ Sound(d)
      /\ DOMAIN d.runs = 1..n /\ DOMAIN e.runs = 1..n
      /\ d.runs[i] \in Runs /\ j \in Jobs
  BY GoodIs, Constants, SnapshotFields, RunFields
<1>2. /\ \A k \in (1..n) \ {i} : e.runs[k] = d.runs[k]
      /\ e.runs[i].job = j /\ e.runs[i].attempt = d.runs[i].attempt
      /\ Settled(e.runs[i].status, e.runs[i].attempt)
      /\ \A other \in Jobs \ {j} : e.jobs[other] = d.jobs[other]
      /\ e.jobs[j].status = e.runs[i].status
      /\ \/ e.jobs[j].latest = i
         \/ e.jobs[j].latest = d.jobs[j].latest /\ e.runs[i].status = "Queued"
      /\ \A k : <<k, 0>> \in d.ledger => <<k, 0>> \in e.ledger
      /\ e.runs[i].status = "Completed" => <<i, 0>> \in e.ledger
  BY <1>1 DEF Moved
<1>3. \A k \in 1..n : e.runs[k].job = d.runs[k].job /\ e.runs[k].attempt = d.runs[k].attempt
  BY <1>2
<1>4. e.jobs[j].status # "absent"
  BY <1>2 DEF Settled, Statuses
<1>5. d.jobs[j].status # "absent" /\ d.jobs[j].latest \in 1..n /\ d.runs[d.jobs[j].latest].job = j
  BY <1>1 DEF Sound, NoneOfAbsent, LatestIsOwn
<1>6. AttemptsLeft(e)
  BY <1>1, <1>2 DEF Sound, AttemptsLeft, Settled
<1>7. NoneOfAbsent(e)
  <2> SUFFICES ASSUME NEW k \in 1..n PROVE e.jobs[e.runs[k].job].status # "absent"
    BY <1>1 DEF NoneOfAbsent
  <2>1. d.jobs[d.runs[k].job].status # "absent" /\ d.runs[k].job \in Jobs
    BY <1>1, Constants, SnapshotFields, RunFields, SMTT(60) DEF Sound, NoneOfAbsent
  <2> QED BY <2>1, <1>2, <1>3, <1>4
<1>8. LatestIsOwn(e)
  <2> SUFFICES ASSUME NEW other \in Jobs, e.jobs[other].status # "absent"
               PROVE  e.jobs[other].latest \in 1..n /\ e.runs[e.jobs[other].latest].job = other
    BY <1>1 DEF LatestIsOwn
  <2>1. CASE other = j
    BY <2>1, <1>2, <1>3, <1>5
  <2>2. CASE other # j
    <3>1. d.jobs[other].latest \in 1..n /\ d.runs[d.jobs[other].latest].job = other
      BY <2>2, <1>1, <1>2 DEF Sound, LatestIsOwn
    <3> QED BY <3>1, <2>2, <1>2, <1>3
  <2> QED BY <2>1, <2>2
<1>9. Mirrors(e)
  <2> SUFFICES ASSUME NEW other \in Jobs, e.jobs[other].status # "absent"
               PROVE  \/ e.jobs[other].status = e.runs[e.jobs[other].latest].status
                      \/ /\ e.jobs[other].status = "Queued"
                         /\ \E k \in RunsIn(e, {"Queued"}) : e.runs[k].job = other
    BY DEF Mirrors
  <2>1. CASE other = j /\ e.jobs[j].latest = i
    BY <2>1, <1>2
  <2>2. CASE other = j /\ e.runs[i].status = "Queued"
    <3>1. i \in RunsIn(e, {"Queued"})
      BY <2>2, <1>1 DEF RunsIn
    <3> QED BY <2>2, <3>1, <1>2
  <2>3. CASE other # j
    <3>1. /\ e.jobs[other] = d.jobs[other]
          /\ d.jobs[other].latest \in 1..n /\ d.runs[d.jobs[other].latest].job = other
      BY <2>3, <1>1, <1>2 DEF Sound, LatestIsOwn
    <3>2. e.runs[d.jobs[other].latest] = d.runs[d.jobs[other].latest]
      BY <2>3, <3>1, <1>2
    <3>3. CASE d.jobs[other].status = d.runs[d.jobs[other].latest].status
      BY <3>1, <3>2, <3>3
    <3>4. CASE d.jobs[other].status = "Queued" /\ \E k \in RunsIn(d, {"Queued"}) : d.runs[k].job = other
      <4>1. PICK k \in RunsIn(d, {"Queued"}) : d.runs[k].job = other
        BY <3>4
      <4>2. k \in 1..n /\ d.runs[k].status = "Queued" /\ e.runs[k] = d.runs[k]
        BY <4>1, <2>3, <1>1, <1>2 DEF RunsIn
      <4>3. k \in RunsIn(e, {"Queued"})
        BY <4>2, <1>1 DEF RunsIn
      <4> QED BY <3>1, <3>4, <4>1, <4>2, <4>3
    <3> QED BY <3>1, <3>3, <3>4, <1>1 DEF Sound, Mirrors
  <2> QED BY <2>1, <2>2, <2>3, <1>2
<1>10. ChargedWhole(e)
  <2> SUFFICES ASSUME NEW k \in RunsIn(e, {"Completed"}) PROVE <<k, 0>> \in e.ledger
    BY DEF ChargedWhole
  <2>1. k \in 1..n /\ e.runs[k].status = "Completed"
    BY <1>1 DEF RunsIn
  <2>2. CASE k = i
    BY <2>1, <2>2, <1>2
  <2>3. CASE k # i
    <3>1. k \in RunsIn(d, {"Completed"})
      BY <2>1, <2>3, <1>1, <1>2 DEF RunsIn
    <3> QED BY <3>1, <1>1, <1>2 DEF Sound, ChargedWhole
  <2> QED BY <2>2, <2>3
<1> QED BY <1>6, <1>7, <1>8, <1>9, <1>10, GoodIs DEF Sound

-----------------------------------------------------------------------------
\* Recover: round i is about run i.

RecoveredUpto(d, e, i) ==
  /\ e.ledger = d.ledger
  /\ \A k \in DOMAIN d.runs :
       IF k <= i /\ LeaseRanOut(d, k)
       THEN e.runs[k].job = d.runs[k].job /\ e.runs[k].status = "Queued"
       ELSE e.runs[k] = d.runs[k]
  /\ \A j \in Jobs :
       \/ e.jobs[j] = d.jobs[j]
       \/ /\ e.jobs[j].status = "Queued" /\ e.jobs[j].retryAt = d.jobs[j].retryAt
          /\ e.jobs[j].latest \in DOMAIN d.runs
          /\ e.runs[e.jobs[j].latest].status = "Queued"

RecoverRound(d, acc, i) == IF LeaseRanOut(d, i) THEN Put(acc, i, "Queued", "none") ELSE acc

LEMMA RecoverStep ==
  ASSUME NEW n \in 0..MaxRuns, NEW d \in Good(n), NEW acc \in Good(n), NEW i \in 1..n,
         RecoveredUpto(d, acc, i - 1)
  PROVE  LET e == RecoverRound(d, acc, i) IN e \in Good(n) /\ RecoveredUpto(d, e, i)
<1> DEFINE e == RecoverRound(d, acc, i)
           j == acc.runs[i].job
<1>1. /\ d \in Snapshots(n) /\ acc \in Snapshots(n)
      /\ DOMAIN d.runs = 1..n /\ DOMAIN acc.runs = 1..n
  BY GoodIs, Constants, SnapshotFields
<1>n. n \in Nat /\ i \in Nat /\ i \in 1..n
  BY Constants
<1>2. /\ acc.ledger = d.ledger
      /\ \A k \in 1..n :
           IF k <= i - 1 /\ LeaseRanOut(d, k)
           THEN acc.runs[k].job = d.runs[k].job /\ acc.runs[k].status = "Queued"
           ELSE acc.runs[k] = d.runs[k]
      /\ \A other \in Jobs :
           \/ acc.jobs[other] = d.jobs[other]
           \/ /\ acc.jobs[other].status = "Queued" /\ acc.jobs[other].retryAt = d.jobs[other].retryAt
              /\ acc.jobs[other].latest \in 1..n
              /\ acc.runs[acc.jobs[other].latest].status = "Queued"
  BY <1>1 DEF RecoveredUpto
<1>3. acc.runs[i] = d.runs[i]
  <2>1. ~(i <= i - 1)
    BY <1>n
  <2> QED BY <2>1, <1>2, <1>n
<1>4. CASE LeaseRanOut(d, i)
  <2>1. e = Put(acc, i, "Queued", "none")
    BY <1>4 DEF RecoverRound
  <2>2. Wrote(n, acc, e, i, "Queued", "none")
    BY <2>1, <1>1, PutIs, StatusesAre
  <2>s. Settled("Queued", acc.runs[i].attempt)
    BY StatusesAre DEF Settled
  <2> HIDE DEF e
  <2>3. /\ j \in Jobs /\ e \in Snapshots(n) /\ e.ledger = acc.ledger
        /\ \A k \in (1..n) \ {i} : e.runs[k] = acc.runs[k]
        /\ e.runs[i].job = j /\ e.runs[i].attempt = acc.runs[i].attempt
        /\ e.runs[i].status = "Queued"
        /\ \A other \in Jobs \ {j} : e.jobs[other] = acc.jobs[other]
        /\ e.jobs[j].status = "Queued" /\ e.jobs[j].retryAt = acc.jobs[j].retryAt /\ e.jobs[j].latest = i
    BY <2>2 DEF Wrote
  <2>4. Moved(acc, e, i)
    BY <1>1, <2>3, <2>s DEF Moved
  <2>5. e \in Good(n)
    BY <2>3, <2>4, MovedStaysSound
  <2>6. ASSUME NEW k \in 1..n
        PROVE  IF k <= i /\ LeaseRanOut(d, k)
               THEN e.runs[k].job = d.runs[k].job /\ e.runs[k].status = "Queued"
               ELSE e.runs[k] = d.runs[k]
    <3>1. CASE k = i
      BY <3>1, <1>3, <1>4, <1>n, <2>3
    <3>2. CASE k # i
      <4>1. k <= i <=> k <= i - 1
        BY <3>2, <1>n
      <4>2. e.runs[k] = acc.runs[k]
        BY <3>2, <2>3
      <4> QED BY <4>1, <4>2, <1>2
    <3> QED BY <3>1, <3>2
  <2>7. ASSUME NEW other \in Jobs
        PROVE  \/ e.jobs[other] = d.jobs[other]
               \/ /\ e.jobs[other].status = "Queued" /\ e.jobs[other].retryAt = d.jobs[other].retryAt
                  /\ e.jobs[other].latest \in 1..n
                  /\ e.runs[e.jobs[other].latest].status = "Queued"
    <3>1. CASE other = j
      <4>1. acc.jobs[j].retryAt = d.jobs[j].retryAt
        BY <1>2, <2>3
      <4> QED BY <3>1, <4>1, <2>3
    <3>2. CASE other # j
      <4>1. e.jobs[other] = acc.jobs[other]
        BY <3>2, <2>3
      <4>2. \A k \in 1..n : acc.runs[k].status = "Queued" => e.runs[k].status = "Queued"
        BY <2>3
      <4> QED BY <4>1, <4>2, <1>2
    <3> QED BY <3>1, <3>2
  <2>8. RecoveredUpto(d, e, i)
    BY <1>1, <1>2, <2>3, <2>6, <2>7 DEF RecoveredUpto
  <2> QED BY <2>5, <2>8 DEF e
<1>5. CASE ~LeaseRanOut(d, i)
  <2>1. e = acc
    BY <1>5 DEF RecoverRound
  <2>2. \A k \in 1..n : LeaseRanOut(d, k) => (k <= i <=> k <= i - 1)
    BY <1>5, <1>n
  <2>3. RecoveredUpto(d, acc, i)
    BY <1>1, <1>2, <2>2 DEF RecoveredUpto
  <2> QED BY <2>1, <2>3
<1> QED BY <1>4, <1>5

LEMMA RecoverStays ==
  ASSUME NEW n \in 0..MaxRuns, NEW d \in Good(n), NEW acc \in Good(n), NEW i \in 1..n
  PROVE  RecoverRound(d, acc, i) \in Good(n)
<1> DEFINE e == Put(acc, i, "Queued", "none")
<1>1. acc \in Snapshots(n)
  BY GoodIs
<1>2. Settled("Queued", acc.runs[i].attempt)
  BY StatusesAre DEF Settled
<1>3. e \in Snapshots(n) /\ Moved(acc, e, i)
  BY <1>1, <1>2, PutMoves, StatusesAre
<1> HIDE DEF e
<1>4. e \in Good(n)
  BY <1>3, MovedStaysSound
<1> QED BY <1>4 DEF RecoverRound, e

LEMMA RecoverIs ==
  ASSUME NEW n \in 0..MaxRuns, NEW d \in Good(n)
  PROVE  Recover(d) \in Good(n) /\ RecoveredUpto(d, Recover(d), n)
<1> DEFINE round == [p \in (1..n) \X Good(n) |-> RecoverRound(d, p[2], p[1])]
           IsRun(f) == f = [i \in 0..n |-> IF i = 0 THEN d ELSE RecoverRound(d, f[i - 1], i)]
           run      == CHOOSE f : IsRun(f)
<1>n. n \in Nat
  BY Constants
<1>1. d \in Snapshots(n) /\ Len(d.runs) = n /\ DOMAIN d.runs = 1..n
  BY <1>n, GoodIs, SnapshotFields
<1>2. Recover(d) = run[n]
  BY <1>1 DEF Recover, RecoverRound
<1>3. round \in RoundsOn(n, Good(n))
  <2>1. ASSUME NEW p \in (1..n) \X Good(n) PROVE RecoverRound(d, p[2], p[1]) \in Good(n)
    <3>1. p[1] \in 1..n /\ p[2] \in Good(n)
      OBVIOUS
    <3> QED BY <3>1, RecoverStays
  <2> QED BY <2>1 DEF RoundsOn
<1>4. \A i \in 1..n, acc \in Good(n) : round[<<i, acc>>] = RecoverRound(d, acc, i)
  <2>1. ASSUME NEW i \in 1..n, NEW acc \in Good(n)
        PROVE  round[<<i, acc>>] = RecoverRound(d, acc, i)
    <3>1. <<i, acc>> \in (1..n) \X Good(n) /\ <<i, acc>>[1] = i /\ <<i, acc>>[2] = acc
      OBVIOUS
    <3> QED BY <3>1
  <2> QED BY <2>1
<1> HIDE DEF round
<1>5. PICK f : IsLoop(f, n, Good(n), d, round)
  BY <1>n, <1>3, RoundsExist
<1>6. f \in [0..n -> Good(n)] /\ f[0] = d /\ \A i \in 1..n : f[i] = round[<<i, f[i - 1]>>]
  BY <1>5 DEF IsLoop
<1>7. \A i \in 0..n : f[i] = IF i = 0 THEN d ELSE RecoverRound(d, f[i - 1], i)
  <2>1. ASSUME NEW i \in 1..n PROVE f[i] = RecoverRound(d, f[i - 1], i)
    <3>1. i - 1 \in 0..n
      BY <1>n
    <3>2. f[i - 1] \in Good(n)
      BY <1>6, <3>1
    <3> QED BY <1>4, <1>6, <3>2
  <2>2. \A i \in 0..n : i # 0 => i \in 1..n
    BY <1>n
  <2> QED BY <1>6, <2>1, <2>2
<1>8. IsRun(run)
  <2>1. IsRun(f)
    BY <1>6, <1>7
  <2> HIDE DEF IsRun
  <2> QED BY <2>1
<1>9. run[0] = d /\ \A i \in 1..n : run[i] = RecoverRound(d, run[i - 1], i)
  <2>1. 0 \in 0..n /\ \A i \in 1..n : i \in 0..n /\ i # 0
    BY <1>n
  <2> HIDE DEF run
  <2> QED BY <1>8, <2>1
<1> HIDE DEF run
<1> DEFINE T == {i \in 0..n : run[i] \in Good(n) /\ RecoveredUpto(d, run[i], i)}
<1>10. 0 \in T
  <2>1. \A k \in 1..n : ~(k <= 0)
    OBVIOUS
  <2>2. RecoveredUpto(d, d, 0)
    BY <1>1, <2>1 DEF RecoveredUpto
  <2>3. 0 \in 0..n
    BY <1>n
  <2> QED BY <2>2, <2>3, <1>9
<1>11. ASSUME NEW i \in 1..n, i - 1 \in T PROVE i \in T
  <2>1. i \in 0..n
    BY <1>n
  <2>2. run[i - 1] \in Good(n) /\ RecoveredUpto(d, run[i - 1], i - 1)
    BY <1>11
  <2>3. run[i] \in Good(n) /\ RecoveredUpto(d, run[i], i)
    BY <2>2, <1>9, RecoverStep
  <2> QED BY <2>1, <2>3
<1> HIDE DEF T
<1>12. n \in T
  <2>1. \A i \in 1..n : i - 1 \in T => i \in T
    BY <1>11
  <2>2. n \in 0..n
    BY <1>n
  <2> QED BY <1>n, <1>10, <2>1, <2>2, EveryRound
<1> QED BY <1>2, <1>12 DEF T

-----------------------------------------------------------------------------
\* Who may still execute a run of a job: every worker that holds a plan of it,
\* the queue (or whoever recovers the run) while nobody does, and the retry of
\* a job that can be retried.  A step hands such a token on; only a slip makes
\* one.

Holders(ps, i) == {w \in Workers : i \in Range(ps[w])}

Loose(d, ps, i) ==
  \/ d.runs[i].status = "Queued"
  \/ d.runs[i].status = "Running" /\ (d.runs[i].lease = "expired" \/ Holders(ps, i) = {})

IsToken(d, ps, j, holder, i) ==
  \/ /\ i \in DOMAIN d.runs /\ d.runs[i].job = j
     /\ \/ holder = {} /\ Loose(d, ps, i)
        \/ \E w \in Holders(ps, i) : holder = {w}
  \/ /\ holder = {} /\ i = 0
     /\ d.jobs[j].status # "absent" /\ Retryable(d, j)

Tokens(d, ps, j) ==
  {t \in (SUBSET Workers) \X (0..Len(d.runs)) : IsToken(d, ps, j, t[1], t[2])}

LEMMA TokenIs ==
  ASSUME NEW n \in Nat, NEW d \in Snapshots(n), NEW ps, NEW j
  PROVE  /\ \A holder, i : <<holder, i>> \in Tokens(d, ps, j)
              <=> holder \in SUBSET Workers /\ i \in 0..n /\ IsToken(d, ps, j, holder, i)
         /\ \A t \in Tokens(d, ps, j) : t = <<t[1], t[2]>>
         /\ IsFiniteSet(Tokens(d, ps, j)) /\ Cardinality(Tokens(d, ps, j)) \in Nat
<1>1. Len(d.runs) = n
  BY SnapshotFields
<1>2. \A holder, i : <<holder, i>> \in Tokens(d, ps, j)
        <=> holder \in SUBSET Workers /\ i \in 0..n /\ IsToken(d, ps, j, holder, i)
  <2> TAKE holder, i
  <2>1. <<holder, i>> \in (SUBSET Workers) \X (0..n) <=> holder \in SUBSET Workers /\ i \in 0..n
    OBVIOUS
  <2>2. <<holder, i>>[1] = holder /\ <<holder, i>>[2] = i
    OBVIOUS
  <2> QED BY <1>1, <2>1, <2>2 DEF Tokens
<1>3. \A t \in Tokens(d, ps, j) : t = <<t[1], t[2]>>
  <2> TAKE t \in Tokens(d, ps, j)
  <2>1. t \in (SUBSET Workers) \X (0..n)
    BY <1>1 DEF Tokens
  <2> QED BY <2>1
<1>4. IsFiniteSet((SUBSET Workers) \X (0..n))
  <2>1. IsFiniteSet(SUBSET Workers)
    BY Constants, FS_SUBSET
  <2>2. IsFiniteSet(0..n)
    BY FS_Interval
  <2> QED BY <2>1, <2>2, FS_Product
<1>5. Tokens(d, ps, j) \subseteq (SUBSET Workers) \X (0..n)
  BY <1>1 DEF Tokens
<1>6. IsFiniteSet(Tokens(d, ps, j)) /\ Cardinality(Tokens(d, ps, j)) \in Nat
  BY <1>4, <1>5, FS_Subset, FS_CardinalityType
<1> QED BY <1>2, <1>3, <1>6

LEMMA MovedTokens ==
  ASSUME NEW n \in 0..MaxRuns, NEW d \in Good(n), NEW e \in Good(n), NEW i \in 1..n, Moved(d, e, i),
         NEW ps, NEW j \in Jobs
  PROVE  /\ d.runs[i].job # j => Tokens(e, ps, j) \subseteq Tokens(d, ps, j)
         /\ e.runs[i].status \in Active =>
              Tokens(e, ps, j) \subseteq (Tokens(d, ps, j) \ {<<{}, i>>}) \union {<<{}, i>>}
         /\ e.runs[i].status \notin Active =>
              Tokens(e, ps, j) \subseteq (Tokens(d, ps, j) \ {<<{}, i>>}) \union {<<{}, 0>>}
<1>n. n \in Nat /\ i # 0
  BY Constants
<1>1. /\ d \in Snapshots(n) /\ e \in Snapshots(n) /\ Sound(d) /\ Sound(e)
      /\ DOMAIN d.runs = 1..n /\ DOMAIN e.runs = 1..n
  BY <1>n, GoodIs, SnapshotFields
<1>2. /\ \A k \in (1..n) \ {i} : e.runs[k] = d.runs[k]
      /\ e.runs[i].job = d.runs[i].job
      /\ \A other \in Jobs \ {d.runs[i].job} : e.jobs[other] = d.jobs[other]
      /\ \/ e.jobs[d.runs[i].job].latest = i
         \/ e.jobs[d.runs[i].job].latest = d.jobs[d.runs[i].job].latest
  BY <1>1 DEF Moved
<1>3. ASSUME NEW holder, NEW k, <<holder, k>> \in Tokens(e, ps, j)
      PROVE  \/ <<holder, k>> \in Tokens(d, ps, j) /\ <<holder, k>> # <<{}, i>>
             \/ /\ d.runs[i].job = j /\ e.runs[i].status \in Active
                /\ <<holder, k>> = <<{}, i>>
             \/ /\ d.runs[i].job = j /\ e.runs[i].status \notin Active
                /\ <<holder, k>> = <<{}, 0>>
  <2>1. holder \in SUBSET Workers /\ k \in 0..n /\ IsToken(e, ps, j, holder, k)
    BY <1>1, <1>3, <1>n, TokenIs
  <2>2. CASE k \in 1..n /\ e.runs[k].job = j /\ \E w \in Holders(ps, k) : holder = {w}
    <3>1. d.runs[k].job = j
      BY <2>2, <1>2
    <3>2. holder # {}
      BY <2>2
    <3>3. IsToken(d, ps, j, holder, k)
      BY <2>2, <3>1, <1>1 DEF IsToken
    <3> QED BY <2>1, <3>2, <3>3, <1>1, <1>n, TokenIs
  <2>3. CASE k \in 1..n /\ e.runs[k].job = j /\ holder = {} /\ Loose(e, ps, k)
    <3>1. CASE k = i
      BY <3>1, <2>3, <1>2 DEF Loose, Active
    <3>2. CASE k # i
      <4>1. e.runs[k] = d.runs[k]
        BY <3>2, <2>3, <1>2
      <4>2. Loose(d, ps, k)
        BY <4>1, <2>3 DEF Loose
      <4>3. IsToken(d, ps, j, holder, k)
        BY <4>1, <4>2, <2>3, <1>1 DEF IsToken
      <4> QED BY <4>3, <3>2, <2>1, <1>1, <1>n, TokenIs
    <3> QED BY <3>1, <3>2
  <2>4. CASE holder = {} /\ k = 0 /\ e.jobs[j].status # "absent" /\ Retryable(e, j)
    <3>1. ASSUME d.runs[i].job # j \/ e.runs[i].status \in Active
          PROVE  d.jobs[j].status # "absent" /\ Retryable(d, j)
      <4>1. e.runs[e.jobs[j].latest].status \in {"Failed", "Retry scheduled"}
            /\ e.jobs[j].latest \in 1..n /\ e.runs[e.jobs[j].latest].job = j
        BY <2>4, <1>1 DEF Retryable, Sound, LatestIsOwn
      <4>2. e.jobs[j].latest # i
        BY <3>1, <4>1, <1>2 DEF Active
      <4>3. e.jobs[j].latest = d.jobs[j].latest
        BY <4>2, <1>2
      <4>4. e.runs[e.jobs[j].latest] = d.runs[d.jobs[j].latest]
        BY <4>1, <4>2, <4>3, <1>2
      <4>5. d.runs[d.jobs[j].latest].job = j /\ d.jobs[j].latest \in 1..n
        BY <4>1, <4>3, <4>4
      <4>6. d.jobs[j].status # "absent"
        BY <4>5, <1>1 DEF Sound, NoneOfAbsent
      <4>7. Retryable(d, j)
        BY <2>4, <4>4 DEF Retryable
      <4> QED BY <4>6, <4>7
    <3>2. CASE d.runs[i].job # j \/ e.runs[i].status \in Active
      <4>1. IsToken(d, ps, j, holder, k)
        BY <3>1, <3>2, <2>4 DEF IsToken
      <4> QED BY <4>1, <2>4, <2>1, <1>1, <1>n, TokenIs
    <3> QED BY <3>2, <2>4
  <2> QED BY <2>1, <2>2, <2>3, <2>4, <1>1 DEF IsToken
<1>4. \A t \in Tokens(e, ps, j) : t = <<t[1], t[2]>>
  BY <1>1, <1>n, TokenIs
<1> QED BY <1>3, <1>4

\* A queued run that is served or put back hands its token on.
LEMMA QueuedMoves ==
  ASSUME NEW n \in 0..MaxRuns, NEW d \in Good(n), NEW e \in Good(n), NEW i \in 1..n, Moved(d, e, i),
         d.runs[i].status = "Queued", NEW ps, NEW j \in Jobs
  PROVE  Cardinality(Tokens(e, ps, j)) <= Cardinality(Tokens(d, ps, j))
<1>n. n \in Nat /\ i \in 0..n
  BY Constants
<1>1. /\ d \in Snapshots(n) /\ DOMAIN d.runs = 1..n
  BY <1>n, GoodIs, SnapshotFields
<1>2. IsFiniteSet(Tokens(d, ps, j))
  BY <1>1, <1>n, TokenIs
<1>3. CASE d.runs[i].job # j
  BY <1>2, <1>3, MovedTokens, NoMoreMembers
<1>4. CASE d.runs[i].job = j
  <2>1. IsToken(d, ps, j, {}, i)
    BY <1>4, <1>1 DEF IsToken, Loose
  <2>2. <<{}, i>> \in Tokens(d, ps, j)
    BY <2>1, <1>1, <1>n, TokenIs
  <2>3. PICK new : Tokens(e, ps, j) \subseteq (Tokens(d, ps, j) \ {<<{}, i>>}) \union {new}
    <3>1. \/ Tokens(e, ps, j) \subseteq (Tokens(d, ps, j) \ {<<{}, i>>}) \union {<<{}, i>>}
          \/ Tokens(e, ps, j) \subseteq (Tokens(d, ps, j) \ {<<{}, i>>}) \union {<<{}, 0>>}
      BY MovedTokens
    <3> QED BY <3>1
  <2> QED BY <1>2, <2>2, <2>3, MemberExchanged
<1> QED BY <1>3, <1>4

\* Any other run that moves makes one token at most.
LEMMA SlipMoves ==
  ASSUME NEW n \in 0..MaxRuns, NEW d \in Good(n), NEW e \in Good(n), NEW i \in 1..n, Moved(d, e, i),
         NEW ps, NEW j \in Jobs
  PROVE  Cardinality(Tokens(e, ps, j)) <= Cardinality(Tokens(d, ps, j)) + 1
<1>1. IsFiniteSet(Tokens(d, ps, j))
  BY Constants, GoodIs, TokenIs
<1>2. PICK new : Tokens(e, ps, j) \subseteq Tokens(d, ps, j) \union {new}
  <2>1. \/ Tokens(e, ps, j) \subseteq (Tokens(d, ps, j) \ {<<{}, i>>}) \union {<<{}, i>>}
        \/ Tokens(e, ps, j) \subseteq (Tokens(d, ps, j) \ {<<{}, i>>}) \union {<<{}, 0>>}
    BY MovedTokens
  <2> QED BY <2>1
<1> QED BY <1>1, <1>2, OneMoreMember

LEMMA RecoverTokens ==
  ASSUME NEW n \in 0..MaxRuns, NEW d \in Good(n), NEW ps, NEW j \in Jobs
  PROVE  Tokens(Recover(d), ps, j) \subseteq Tokens(d, ps, j)
<1> DEFINE e == Recover(d)
<1>n. n \in Nat
  BY Constants
<1>0. e \in Good(n) /\ RecoveredUpto(d, e, n)
  BY RecoverIs
<1> HIDE DEF e
<1>1. /\ d \in Snapshots(n) /\ e \in Snapshots(n) /\ Sound(e)
      /\ DOMAIN d.runs = 1..n /\ DOMAIN e.runs = 1..n
  BY <1>0, <1>n, GoodIs, SnapshotFields
<1>2. ASSUME NEW k \in 1..n
      PROVE  \/ LeaseRanOut(d, k) /\ e.runs[k].job = d.runs[k].job /\ e.runs[k].status = "Queued"
             \/ e.runs[k] = d.runs[k]
  <2>1. k <= n
    BY <1>n
  <2> QED BY <2>1, <1>0, <1>1 DEF RecoveredUpto
<1>3. ASSUME NEW holder, NEW k, <<holder, k>> \in Tokens(e, ps, j)
      PROVE  <<holder, k>> \in Tokens(d, ps, j)
  <2>1. holder \in SUBSET Workers /\ k \in 0..n /\ IsToken(e, ps, j, holder, k)
    BY <1>1, <1>3, <1>n, TokenIs
  <2>2. CASE k \in 1..n /\ e.runs[k].job = j /\ \E w \in Holders(ps, k) : holder = {w}
    <3>1. d.runs[k].job = j
      BY <2>2, <1>2
    <3> QED BY <2>1, <2>2, <3>1, <1>1, <1>n, TokenIs DEF IsToken
  <2>3. CASE k \in 1..n /\ e.runs[k].job = j /\ holder = {} /\ Loose(e, ps, k)
    <3>1. d.runs[k].job = j
      BY <2>3, <1>2
    <3>2. Loose(d, ps, k)
      BY <2>3, <1>2 DEF Loose, LeaseRanOut
    <3> QED BY <2>1, <2>3, <3>1, <3>2, <1>1, <1>n, TokenIs DEF IsToken
  <2>4. CASE holder = {} /\ k = 0 /\ e.jobs[j].status # "absent" /\ Retryable(e, j)
    <3>1. /\ e.jobs[j].latest \in 1..n
          /\ e.runs[e.jobs[j].latest].status \in {"Failed", "Retry scheduled"}
      BY <2>4, <1>1 DEF Retryable, Sound, LatestIsOwn
    <3>2. e.runs[e.jobs[j].latest] = d.runs[e.jobs[j].latest]
      BY <3>1, <1>2
    <3>3. e.jobs[j] = d.jobs[j]
      BY <3>1, <1>0 DEF RecoveredUpto
    <3>4. Retryable(d, j) /\ d.jobs[j].status # "absent"
      BY <2>4, <3>2, <3>3 DEF Retryable
    <3> QED BY <2>1, <2>4, <3>4, <1>1, <1>n, TokenIs DEF IsToken
  <2> QED BY <2>1, <2>2, <2>3, <2>4, <1>1 DEF IsToken
<1>4. \A t \in Tokens(e, ps, j) : t = <<t[1], t[2]>>
  BY <1>1, <1>n, TokenIs
<1> QED BY <1>3, <1>4 DEF e

-----------------------------------------------------------------------------
\* ServeBatch: round i is about run i.

LEMMA FailByWorkerMoves ==
  ASSUME NEW n \in 0..MaxRuns, NEW d \in Snapshots(n), NEW i \in 1..n
  PROVE  LET e == FailByWorker(d, i) IN
         /\ e \in Snapshots(n) /\ Moved(d, e, i) /\ e.runs[i].status \in {"Failed", "Retry scheduled"}
         /\ e.ledger = d.ledger
<1>1. (d.runs[i].attempt < MaxAttempts) \in BOOLEAN
  OBVIOUS
<1>2. PICK retry \in BOOLEAN : FailByWorker(d, i) = Fail(d, i, retry)
  BY <1>1 DEF FailByWorker
<1>3. /\ Fail(d, i, retry) \in Snapshots(n) /\ Moved(d, Fail(d, i, retry), i)
      /\ Fail(d, i, retry).runs[i].status
           = IF retry /\ d.runs[i].attempt < MaxAttempts THEN "Retry scheduled" ELSE "Failed"
      /\ Fail(d, i, retry).ledger = d.ledger
  BY FailMoves
<1> QED BY <1>2, <1>3

\* The ledger is as it was, or within the budget.
Paid(d, e) == e.ledger = d.ledger \/ Spent(e) <= Budget

UnitsOf(d) == {p \in d.ledger : p[2] > 0}

LEMMA SpentIs ==
  ASSUME NEW n \in Nat, NEW d \in Snapshots(n)
  PROVE  Spent(d) = Cardinality(UnitsOf(d)) /\ IsFiniteSet(UnitsOf(d)) /\ Spent(d) \in Nat
<1>1. IsFiniteSet(1..n) /\ IsFiniteSet(0..MaxUnits)
  BY Constants, FS_Interval
<1>2. IsFiniteSet(Entries(n))
  BY <1>1, FS_Product DEF Entries
<1>3. UnitsOf(d) \subseteq Entries(n)
  BY SnapshotFields DEF UnitsOf
<1>4. IsFiniteSet(UnitsOf(d)) /\ Cardinality(UnitsOf(d)) \in Nat
  BY <1>2, <1>3, FS_Subset, FS_CardinalityType
<1> QED BY <1>4 DEF Spent, UnitsOf

\* An entry adds its units at most: it takes the place of one the run had.
LEMMA EntrySpends ==
  ASSUME NEW n \in Nat, NEW d \in Snapshots(n), NEW e \in Snapshots(n), NEW i \in 1..n,
         NEW units \in 0..MaxUnits,
         e.ledger = {p \in d.ledger : p[1] # i} \union Entry(i, units)
  PROVE  Spent(e) \in Nat /\ Spent(d) \in Nat /\ Spent(e) <= Spent(d) + units
<1>1. units \in Nat /\ units \in Int /\ 1 \in Int
  BY Constants
<1>2. IsFiniteSet(1..units) /\ Cardinality(1..units) = units
  <2>1. Cardinality(1..units) = IF 1 > units THEN 0 ELSE units - 1 + 1
    BY <1>1, FS_Interval
  <2>2. IsFiniteSet(1..units)
    BY <1>1, FS_Interval
  <2> QED BY <1>1, <2>1, <2>2
<1>3. IsFiniteSet({i}) /\ Cardinality({i}) = 1
  BY FS_Singleton
<1> DEFINE new == {i} \X (1..units)
<1>4. IsFiniteSet(new) /\ Cardinality(new) = units
  <2>1. IsFiniteSet(new) /\ Cardinality(new) = Cardinality({i}) * Cardinality(1..units)
    BY <1>2, <1>3, FS_Product
  <2> QED BY <1>1, <1>2, <1>3, <2>1
<1>5. UnitsOf(e) \subseteq UnitsOf(d) \union new
  <2> SUFFICES ASSUME NEW p \in UnitsOf(e), p \notin UnitsOf(d) PROVE p \in new
    OBVIOUS
  <2>1. p \in Entry(i, units) /\ p[2] > 0
    BY DEF UnitsOf
  <2>2. p = <<i, p[2]>> /\ p[2] \in 0..units
    BY <2>1 DEF Entry
  <2>3. p[2] \in 1..units
    BY <1>1, <2>1, <2>2
  <2> QED BY <2>2, <2>3
<1> HIDE DEF new
<1>6. Spent(d) = Cardinality(UnitsOf(d)) /\ IsFiniteSet(UnitsOf(d)) /\ Spent(d) \in Nat
      /\ Spent(e) = Cardinality(UnitsOf(e)) /\ Spent(e) \in Nat
  BY SpentIs
<1>7. /\ IsFiniteSet(UnitsOf(d) \union new)
      /\ Cardinality(UnitsOf(d) \union new)
           = Cardinality(UnitsOf(d)) + Cardinality(new) - Cardinality(UnitsOf(d) \intersect new)
  BY <1>4, <1>6, FS_Union
<1>8. Cardinality(UnitsOf(d) \intersect new) \in Nat
  BY <1>6, FS_Intersection, FS_CardinalityType
<1>9. Cardinality(UnitsOf(e)) <= Cardinality(UnitsOf(d) \union new)
  BY <1>5, <1>7, NoMoreMembers
<1> QED BY <1>1, <1>4, <1>6, <1>7, <1>8, <1>9

LEMMA SameSpent ==
  ASSUME NEW d, NEW e, e.ledger = d.ledger
  PROVE  Spent(e) = Spent(d)
BY DEF Spent

LEMMA ServeMoves ==
  ASSUME NEW n \in 0..MaxRuns, NEW d \in Good(n), NEW i \in 1..n, NEW d0, NEW succeeds, NEW tied
  PROVE  LET e == Serve(d0, d, i, succeeds, tied) IN
         e \in Good(n) /\ Moved(d, e, i) /\ e.runs[i].status # "Running" /\ Paid(d, e)
<1> DEFINE e == Serve(d0, d, i, succeeds, tied)
<1>1. d \in Snapshots(n)
  BY GoodIs
<1>2. \/ e \in {Defer(d0, d, i, tied), Put(d, i, "Skipped", "none"), FailByWorker(d, i)}
      \/ e = Complete(d, i, MockUnits) /\ BudgetAllows(d, MockUnits)
  <2>1. CASE succeeds
    BY <2>1 DEF Serve
  <2>2. CASE ~succeeds
    BY <2>2 DEF Serve
  <2> QED BY <2>1, <2>2
<1> HIDE DEF e
<1>3. e \in Snapshots(n) /\ Moved(d, e, i) /\ e.runs[i].status # "Running" /\ Paid(d, e)
  <2>1. CASE e = Defer(d0, d, i, tied)
    BY <2>1, <1>1, DeferMoves DEF Paid
  <2>2. CASE e = Put(d, i, "Skipped", "none")
    <3>1. Settled("Skipped", d.runs[i].attempt)
      BY StatusesAre DEF Settled
    <3> DEFINE p == Put(d, i, "Skipped", "none")
    <3>2. p \in Snapshots(n) /\ Moved(d, p, i) /\ p.runs[i].status = "Skipped" /\ p.ledger = d.ledger
      <4>1. "Skipped" \in Statuses /\ "none" \in Leases /\ "Skipped" # "Completed"
        BY StatusesAre
      <4>2. p \in Snapshots(n) /\ Moved(d, p, i)
        BY <3>1, <4>1, <1>1, PutMoves
      <4>3. Wrote(n, d, p, i, "Skipped", "none")
        BY <4>1, <1>1, PutIs
      <4> HIDE DEF p
      <4> QED BY <4>2, <4>3 DEF Wrote
    <3> HIDE DEF p
    <3> QED BY <2>2, <3>2 DEF p, Paid
  <2>3. CASE e = Complete(d, i, MockUnits) /\ BudgetAllows(d, MockUnits)
    <3>1. n \in Nat /\ Budget \in Nat /\ MockUnits \in 0..MaxUnits
      BY Constants
    <3>2. /\ e \in Snapshots(n) /\ Moved(d, e, i) /\ e.runs[i].status = "Completed"
          /\ e.ledger = {q \in d.ledger : q[1] # i} \union Entry(i, MockUnits)
      <4> DEFINE c == Complete(d, i, MockUnits)
      <4>1. /\ c \in Snapshots(n) /\ Moved(d, c, i) /\ c.runs[i].status = "Completed"
            /\ c.ledger = {q \in d.ledger : q[1] # i} \union Entry(i, MockUnits)
        BY <3>1, <1>1, CompleteMoves
      <4>2. e = c
        BY <2>3
      <4> HIDE DEF c
      <4> QED BY <4>1, <4>2
    <3>3. Spent(e) \in Nat /\ Spent(d) \in Nat /\ Spent(e) <= Spent(d) + MockUnits
      BY <3>1, <3>2, <1>1, EntrySpends
    <3>4. Spent(d) + MockUnits <= Budget
      BY <2>3 DEF BudgetAllows
    <3>5. Spent(e) <= Budget
      BY <3>1, <3>3, <3>4
    <3> QED BY <3>2, <3>5 DEF Paid
  <2>4. CASE e = FailByWorker(d, i)
    BY <2>4, <1>1, FailByWorkerMoves DEF Paid
  <2> QED BY <1>2, <2>1, <2>2, <2>3, <2>4
<1>4. e \in Good(n)
  BY <1>3, MovedStaysSound
<1> QED BY <1>3, <1>4 DEF e

ServeRound(d, acc, i, succeeds, tied) ==
  IF i \in Claimed(d) THEN Serve(d, acc, i, d.runs[i].job \in succeeds, tied) ELSE acc

\* Up to run i the claimed ones are served, and neither a token nor a call
\* beyond the budget came of it.
ServedUpto(d, e, i) ==
  /\ \A k \in DOMAIN d.runs : k > i \/ k \notin Claimed(d) => e.runs[k] = d.runs[k]
  /\ \A k \in DOMAIN d.runs : e.runs[k] = d.runs[k] \/ e.runs[k].status # "Running"
  /\ Paid(d, e)
  /\ \A ps : \A j \in Jobs : Cardinality(Tokens(e, ps, j)) <= Cardinality(Tokens(d, ps, j))

LEMMA ServeStep ==
  ASSUME NEW n \in 0..MaxRuns, NEW d \in Good(n), NEW acc \in Good(n), NEW i \in 1..n,
         NEW succeeds, NEW tied
  PROVE  LET e == ServeRound(d, acc, i, succeeds, tied) IN
         e \in Good(n) /\ (ServedUpto(d, acc, i - 1) => ServedUpto(d, e, i))
<1> DEFINE e == ServeRound(d, acc, i, succeeds, tied)
<1>n. n \in Nat /\ i \in Nat /\ i > i - 1
  BY Constants
<1>1. /\ d \in Snapshots(n) /\ acc \in Snapshots(n)
      /\ DOMAIN d.runs = 1..n /\ DOMAIN acc.runs = 1..n
  BY GoodIs, <1>n, SnapshotFields
<1>2. CASE i \in Claimed(d)
  <2>1. PICK ok : e = Serve(d, acc, i, ok, tied)
    BY <1>2 DEF ServeRound
  <2> HIDE DEF e
  <2>2. e \in Good(n) /\ Moved(acc, e, i) /\ e.runs[i].status # "Running" /\ Paid(acc, e)
    BY <2>1, ServeMoves
  <2>3. ASSUME ServedUpto(d, acc, i - 1) PROVE ServedUpto(d, e, i)
    <3>1. acc.runs[i] = d.runs[i]
      BY <2>3, <1>n, <1>1 DEF ServedUpto
    <3>2. d.runs[i].status = "Queued"
      BY <1>2 DEF Claimed, RunsIn
    <3>3. ASSUME NEW k \in 1..n, k > i \/ k \notin Claimed(d) PROVE e.runs[k] = d.runs[k]
      <4>1. k # i /\ (k > i - 1 \/ k \notin Claimed(d))
        BY <3>3, <1>2, <1>n
      <4>2. acc.runs[k] = d.runs[k]
        BY <4>1, <2>3, <1>1 DEF ServedUpto
      <4> QED BY <4>1, <4>2, <2>2, <1>1 DEF Moved
    <3>4. ASSUME NEW ps, NEW j \in Jobs
          PROVE  Cardinality(Tokens(e, ps, j)) <= Cardinality(Tokens(d, ps, j))
      <4>1. Cardinality(Tokens(e, ps, j)) <= Cardinality(Tokens(acc, ps, j))
        BY <2>2, <3>1, <3>2, QueuedMoves
      <4>2. Cardinality(Tokens(acc, ps, j)) <= Cardinality(Tokens(d, ps, j))
        BY <2>3 DEF ServedUpto
      <4>3. e \in Snapshots(n)
        BY <2>2, GoodIs
      <4>4. /\ Cardinality(Tokens(e, ps, j)) \in Nat /\ Cardinality(Tokens(acc, ps, j)) \in Nat
            /\ Cardinality(Tokens(d, ps, j)) \in Nat
        BY <4>3, <1>1, <1>n, TokenIs
      <4> QED BY <4>1, <4>2, <4>4
    <3>5. ASSUME NEW k \in 1..n PROVE e.runs[k] = d.runs[k] \/ e.runs[k].status # "Running"
      <4>1. acc.runs[k] = d.runs[k] \/ acc.runs[k].status # "Running"
        BY <2>3, <1>1 DEF ServedUpto
      <4>2. k = i \/ e.runs[k] = acc.runs[k]
        BY <2>2, <1>1 DEF Moved
      <4> QED BY <4>1, <4>2, <2>2
    <3>6. Paid(d, e)
      BY <2>2, <2>3, SameSpent DEF Paid, ServedUpto
    <3> QED BY <3>3, <3>4, <3>5, <3>6, <1>1 DEF ServedUpto
  <2> QED BY <2>2, <2>3 DEF e
<1>3. CASE i \notin Claimed(d)
  <2>1. e = acc
    BY <1>3 DEF ServeRound
  <2>2. ASSUME ServedUpto(d, acc, i - 1) PROVE ServedUpto(d, acc, i)
    <3>1. ASSUME NEW k \in 1..n, k > i \/ k \notin Claimed(d) PROVE k > i - 1 \/ k \notin Claimed(d)
      BY <3>1, <1>n
    <3> QED BY <2>2, <3>1, <1>1 DEF ServedUpto
  <2> QED BY <2>1, <2>2
<1> QED BY <1>2, <1>3

LEMMA ServeBatchIs ==
  ASSUME NEW n \in 0..MaxRuns, NEW d \in Good(n), NEW succeeds, NEW tied
  PROVE  LET e == ServeBatch(d, succeeds, tied) IN e \in Good(n) /\ ServedUpto(d, e, n)
<1> DEFINE round == [p \in (1..n) \X Good(n) |-> ServeRound(d, p[2], p[1], succeeds, tied)]
           IsRun(f) == f = [i \in 0..n |-> IF i = 0 THEN d ELSE ServeRound(d, f[i - 1], i, succeeds, tied)]
           run      == CHOOSE f : IsRun(f)
<1>n. n \in Nat
  BY Constants
<1>1. d \in Snapshots(n) /\ Len(d.runs) = n /\ DOMAIN d.runs = 1..n
  BY <1>n, GoodIs, SnapshotFields
<1>2. ServeBatch(d, succeeds, tied) = run[n]
  BY <1>1 DEF ServeBatch, ServeRound
<1>3. round \in RoundsOn(n, Good(n))
  <2>1. ASSUME NEW p \in (1..n) \X Good(n) PROVE ServeRound(d, p[2], p[1], succeeds, tied) \in Good(n)
    <3>1. p[1] \in 1..n /\ p[2] \in Good(n)
      OBVIOUS
    <3> QED BY <3>1, ServeStep
  <2> QED BY <2>1 DEF RoundsOn
<1>4. \A i \in 1..n, acc \in Good(n) : round[<<i, acc>>] = ServeRound(d, acc, i, succeeds, tied)
  <2>1. ASSUME NEW i \in 1..n, NEW acc \in Good(n)
        PROVE  round[<<i, acc>>] = ServeRound(d, acc, i, succeeds, tied)
    <3>1. <<i, acc>> \in (1..n) \X Good(n) /\ <<i, acc>>[1] = i /\ <<i, acc>>[2] = acc
      OBVIOUS
    <3> QED BY <3>1
  <2> QED BY <2>1
<1> HIDE DEF round
<1>5. PICK f : IsLoop(f, n, Good(n), d, round)
  BY <1>n, <1>3, RoundsExist
<1>6. f \in [0..n -> Good(n)] /\ f[0] = d /\ \A i \in 1..n : f[i] = round[<<i, f[i - 1]>>]
  BY <1>5 DEF IsLoop
<1>7. \A i \in 0..n : f[i] = IF i = 0 THEN d ELSE ServeRound(d, f[i - 1], i, succeeds, tied)
  <2>1. ASSUME NEW i \in 1..n PROVE f[i] = ServeRound(d, f[i - 1], i, succeeds, tied)
    <3>1. i - 1 \in 0..n
      BY <1>n
    <3>2. f[i - 1] \in Good(n)
      BY <1>6, <3>1
    <3> QED BY <1>4, <1>6, <3>2
  <2>2. \A i \in 0..n : i # 0 => i \in 1..n
    BY <1>n
  <2> QED BY <1>6, <2>1, <2>2
<1>8. IsRun(run)
  <2>1. IsRun(f)
    BY <1>6, <1>7
  <2> HIDE DEF IsRun
  <2> QED BY <2>1
<1>9. run[0] = d /\ \A i \in 1..n : run[i] = ServeRound(d, run[i - 1], i, succeeds, tied)
  <2>1. 0 \in 0..n /\ \A i \in 1..n : i \in 0..n /\ i # 0
    BY <1>n
  <2> HIDE DEF run
  <2> QED BY <1>8, <2>1
<1> HIDE DEF run
<1> DEFINE T == {i \in 0..n : run[i] \in Good(n) /\ ServedUpto(d, run[i], i)}
<1>10. 0 \in T
  <2>1. \A ps, j : Cardinality(Tokens(d, ps, j)) \in Nat
    BY <1>1, <1>n, TokenIs
  <2>2. ServedUpto(d, d, 0)
    BY <2>1 DEF ServedUpto, Paid
  <2>3. 0 \in 0..n
    BY <1>n
  <2> QED BY <2>2, <2>3, <1>9
<1>11. ASSUME NEW i \in 1..n, i - 1 \in T PROVE i \in T
  <2>1. i \in 0..n
    BY <1>n
  <2>2. run[i - 1] \in Good(n) /\ ServedUpto(d, run[i - 1], i - 1)
    BY <1>11
  <2>3. run[i] \in Good(n) /\ ServedUpto(d, run[i], i)
    BY <2>2, <1>9, ServeStep
  <2> QED BY <2>1, <2>3
<1> HIDE DEF T
<1>12. n \in T
  <2>1. \A i \in 1..n : i - 1 \in T => i \in T
    BY <1>11
  <2>2. n \in 0..n
    BY <1>n
  <2> QED BY <1>n, <1>10, <2>1, <2>2, EveryRound
<1> QED BY <1>2, <1>12 DEF T

-----------------------------------------------------------------------------
\* Retry: a queued run more for every job of the sequence.

LEMMA InOrder ==
  ASSUME NEW S, IsFiniteSet(S)
  PROVE  /\ Cardinality(S) \in Nat
         /\ SetToSeq(S) \in [1..Cardinality(S) -> S] /\ IsInjective(SetToSeq(S))
<1>1. Cardinality(S) \in Nat /\ ExistsBijection(1..Cardinality(S), S)
  BY FS_CardinalityType
<1>2. PICK f : f \in Bijection(1..Cardinality(S), S)
  BY <1>1 DEF ExistsBijection
<1>3. f \in [1..Cardinality(S) -> S] /\ IsInjective(f)
  BY <1>2 DEF Bijection, Injection
<1> QED BY <1>1, <1>3 DEF SetToSeq

\* e is d with another run for the jobs of due, which are m.
Requeued(n, m, d, e, due) ==
  /\ e \in Snapshots(n + m) /\ e.ledger = d.ledger
  /\ \A k \in 1..n : e.runs[k] = d.runs[k]
  /\ \A k \in 1..m : /\ e.runs[n + k].job = due[k] /\ e.runs[n + k].status = "Queued"
                     /\ e.jobs[due[k]].status = "Queued" /\ e.jobs[due[k]].latest = n + k
  /\ \A j \in Jobs : (\A k \in 1..m : due[k] # j) => e.jobs[j] = d.jobs[j]

LEMMA RetryIs ==
  ASSUME NEW n \in Nat, NEW m \in Nat, n + m <= MaxRuns, NEW d \in Good(n),
         NEW due \in [1..m -> Jobs], IsInjective(due),
         \A k \in 1..m : d.jobs[due[k]].status # "absent" /\ Retryable(d, due[k])
  PROVE  Requeued(n, m, d, Retry(d, due), due)
<1> DEFINE again(k) == [job |-> due[k], status |-> "Queued", lease |-> "none", recent |-> FALSE,
                        attempt |-> d.runs[d.jobs[due[k]].latest].attempt + 1]
           slot(j) == n + CHOOSE k \in 1..m : due[k] = j
           more == [k \in 1..m |-> again(k)]
           runs == d.runs \o more
           rows == [j \in Jobs |->
                     IF j \in Range(due) THEN [status |-> "Queued", retryAt |-> "none", latest |-> slot(j)]
                     ELSE d.jobs[j]]
           e == Retry(d, due)
<1>1. /\ d \in Snapshots(n) /\ Sound(d) /\ d.jobs \in [Jobs -> JobRows] /\ d.runs \in [1..n -> Runs]
      /\ d.ledger \in SUBSET Entries(n) /\ DOMAIN d.runs = 1..n /\ d.runs \in Seq(Runs) /\ Len(d.runs) = n
  BY GoodIs, SnapshotFields
<1>2. DOMAIN due = 1..m
  OBVIOUS
<1>3. ASSUME NEW k \in 1..m PROVE again(k) \in Runs
  <2>1. d.jobs[due[k]].latest \in 1..n
    BY <1>1 DEF Sound, LatestIsOwn
  <2>2. d.runs[d.jobs[due[k]].latest] \in Runs
    BY <2>1, <1>1
  <2>3. d.runs[d.jobs[due[k]].latest].attempt \in 1..MaxAttempts
    BY <2>2, RunFields
  <2>4. d.runs[d.jobs[due[k]].latest].attempt < MaxAttempts
    BY DEF Retryable
  <2>5. d.runs[d.jobs[due[k]].latest].attempt + 1 \in 1..MaxAttempts
    <3> DEFINE x == d.runs[d.jobs[due[k]].latest].attempt
    <3>1. x \in 1..MaxAttempts /\ x < MaxAttempts /\ MaxAttempts \in Nat
      BY <2>3, <2>4, Constants
    <3> HIDE DEF x
    <3>2. x + 1 \in 1..MaxAttempts
      BY <3>1
    <3> QED BY <3>2 DEF x
  <2> QED BY <2>5, StatusesAre DEF Runs
<1>4. ASSUME NEW k \in 1..m PROVE slot(due[k]) = n + k
  <2>1. \A l \in 1..m : due[l] = due[k] => l = k
    BY <1>2 DEF IsInjective
  <2> QED BY <2>1
<1>5. more \in [1..m -> Runs]
  BY <1>3
<1>6. more \in Seq(Runs) /\ Len(more) = m
  <2>1. more \in Seq(Runs)
    BY <1>5, SeqDef
  <2>2. DOMAIN more = 1..m
    OBVIOUS
  <2> HIDE DEF more
  <2>3. Len(more) \in Nat /\ DOMAIN more = 1..Len(more)
    BY <2>1, LenProperties
  <2>4. Len(more) = m
    BY <2>2, <2>3
  <2> QED BY <2>1, <2>4
<1>7. \A k \in 1..m : more[k].job = due[k] /\ more[k].status = "Queued"
  OBVIOUS
<1>8. e = [d EXCEPT !.runs = runs, !.jobs = rows]
  BY <1>1, <1>2 DEF Retry
<1> HIDE DEF again, more, e
<1>9. /\ runs \in Seq(Runs) /\ Len(runs) = n + m
      /\ \A k \in 1..(n + m) : runs[k] = IF k <= n THEN d.runs[k] ELSE more[k - n]
  <2>1. d.runs \in Seq(Runs) /\ more \in Seq(Runs)
    BY <1>1, <1>6
  <2>2. /\ runs \in Seq(Runs) /\ Len(runs) = Len(d.runs) + Len(more)
        /\ \A k \in 1..(Len(d.runs) + Len(more)) :
             runs[k] = IF k <= Len(d.runs) THEN d.runs[k] ELSE more[k - Len(d.runs)]
    BY <2>1, ConcatProperties
  <2> QED BY <2>2, <1>1, <1>6
<1> HIDE DEF runs
<1>10. runs \in [1..(n + m) -> Runs]
  BY <1>9, LenProperties
<1>11. \A j \in Jobs : j \in Range(due) => \E k \in 1..m : due[k] = j
  BY <1>2 DEF Range
<1>12. \A k \in 1..m : due[k] \in Range(due)
  BY <1>2 DEF Range
<1>13. rows \in [Jobs -> JobRows]
  <2>1. ASSUME NEW j \in Jobs, j \in Range(due)
        PROVE  [status |-> "Queued", retryAt |-> "none", latest |-> slot(j)] \in JobRows
    <3>1. PICK k \in 1..m : due[k] = j
      BY <2>1, <1>11
    <3>2. slot(j) = n + k
      BY <3>1, <1>4
    <3>3. slot(j) \in 0..MaxRuns
      BY <3>2, Constants
    <3> HIDE DEF slot
    <3> QED BY <3>3, StatusesAre DEF JobRows
  <2> HIDE DEF slot
  <2> QED BY <2>1, <1>1
<1>14. \A k \in 1..m : rows[due[k]].status = "Queued" /\ rows[due[k]].latest = n + k
  <2> TAKE k \in 1..m
  <2>1. due[k] \in Jobs /\ due[k] \in Range(due)
    BY <1>12
  <2>2. rows[due[k]] = [status |-> "Queued", retryAt |-> "none", latest |-> slot(due[k])]
    BY <2>1
  <2> QED BY <2>2, <1>4
<1>15. \A j \in Jobs : (\A k \in 1..m : due[k] # j) => rows[j] = d.jobs[j]
  BY <1>11
<1> HIDE DEF rows, slot
<1>16. e \in Snapshots(n + m) /\ e.runs = runs /\ e.jobs = rows /\ e.ledger = d.ledger
  <2>1. d.ledger \in SUBSET Entries(n + m)
    <3>1. d.ledger \in SUBSET Entries(n) /\ \A k \in 1..n : k \in 1..(n + m)
      BY <1>1
    <3> QED BY <3>1 DEF Entries
  <2> QED BY <1>1, <1>8, <1>10, <1>13, <2>1 DEF Snapshots
<1>17. \A k \in 1..n : e.runs[k] = d.runs[k]
  BY <1>9, <1>16
<1>18. \A k \in 1..m : e.runs[n + k].job = due[k] /\ e.runs[n + k].status = "Queued"
  <2> TAKE k \in 1..m
  <2>1. n + k \in 1..(n + m) /\ ~(n + k <= n) /\ (n + k) - n = k
    OBVIOUS
  <2>2. e.runs[n + k] = more[k]
    BY <2>1, <1>9, <1>16
  <2> QED BY <2>2, <1>7
<1>19. Requeued(n, m, d, e, due)
  BY <1>14, <1>15, <1>16, <1>17, <1>18 DEF Requeued
<1> QED BY <1>19 DEF e

LEMMA RequeuedStaysSound ==
  ASSUME NEW n \in Nat, NEW m \in Nat, n + m <= MaxRuns, NEW d \in Good(n),
         NEW due \in [1..m -> Jobs], NEW e, Requeued(n, m, d, e, due)
  PROVE  e \in Good(n + m)
<1>1. /\ d \in Snapshots(n) /\ Sound(d) /\ DOMAIN d.runs = 1..n
      /\ e \in Snapshots(n + m) /\ DOMAIN e.runs = 1..(n + m) /\ n + m \in Nat
  <2>1. d \in Snapshots(n) /\ Sound(d) /\ DOMAIN d.runs = 1..n
    BY GoodIs, SnapshotFields
  <2>2. e \in Snapshots(n + m) /\ n + m \in Nat
    BY DEF Requeued
  <2> QED BY <2>1, <2>2, SnapshotFields
<1>2. /\ e.ledger = d.ledger
      /\ \A k \in 1..n : e.runs[k] = d.runs[k]
      /\ \A k \in 1..m : /\ e.runs[n + k].job = due[k] /\ e.runs[n + k].status = "Queued"
                         /\ e.jobs[due[k]].status = "Queued" /\ e.jobs[due[k]].latest = n + k
      /\ \A j \in Jobs : (\A k \in 1..m : due[k] # j) => e.jobs[j] = d.jobs[j]
  BY DEF Requeued
<1>3. ASSUME NEW i \in 1..(n + m)
      PROVE  (i \in 1..n /\ e.runs[i] = d.runs[i])
             \/ \E k \in 1..m : i = n + k /\ e.runs[i].job = due[k] /\ e.runs[i].status = "Queued"
  <2>1. CASE i <= n
    BY <2>1, <1>2
  <2>2. CASE ~(i <= n)
    <3>1. i - n \in 1..m /\ i = n + (i - n)
      BY <2>2
    <3> QED BY <3>1, <1>2
  <2> QED BY <2>1, <2>2
<1>4. ASSUME NEW j \in Jobs
      PROVE  e.jobs[j] = d.jobs[j]
             \/ \E k \in 1..m : due[k] = j /\ e.jobs[j].status = "Queued" /\ e.jobs[j].latest = n + k
  BY <1>2
<1>5. \A k \in 1..m : n + k \in 1..(n + m)
  OBVIOUS
<1>6. \A k \in 1..n : k \in 1..(n + m)
  OBVIOUS
<1>7. AttemptsLeft(e)
  BY <1>1, <1>3 DEF Sound, AttemptsLeft
<1>8. NoneOfAbsent(e)
  <2> SUFFICES ASSUME NEW i \in 1..(n + m) PROVE e.jobs[e.runs[i].job].status # "absent"
    BY <1>1 DEF NoneOfAbsent
  <2>1. CASE i \in 1..n /\ e.runs[i] = d.runs[i]
    <3>1. d.runs[i].job \in Jobs /\ d.jobs[d.runs[i].job].status # "absent"
      <4>1. d.runs[i] \in Runs
        BY <2>1, <1>1, SnapshotFields
      <4> QED BY <2>1, <4>1, <1>1, RunFields DEF Sound, NoneOfAbsent
    <3> QED BY <2>1, <3>1, <1>4
  <2>2. CASE \E k \in 1..m : i = n + k /\ e.runs[i].job = due[k] /\ e.runs[i].status = "Queued"
    BY <2>2, <1>2
  <2> QED BY <2>1, <2>2, <1>3
<1>9. LatestIsOwn(e)
  <2> SUFFICES ASSUME NEW j \in Jobs, e.jobs[j].status # "absent"
               PROVE  e.jobs[j].latest \in 1..(n + m) /\ e.runs[e.jobs[j].latest].job = j
    BY <1>1 DEF LatestIsOwn
  <2>1. CASE e.jobs[j] = d.jobs[j]
    <3>1. d.jobs[j].latest \in 1..n /\ d.runs[d.jobs[j].latest].job = j
      BY <2>1, <1>1 DEF Sound, LatestIsOwn
    <3> QED BY <2>1, <3>1, <1>2, <1>6
  <2>2. CASE \E k \in 1..m : due[k] = j /\ e.jobs[j].status = "Queued" /\ e.jobs[j].latest = n + k
    BY <2>2, <1>2, <1>5
  <2> QED BY <2>1, <2>2, <1>4
<1>10. Mirrors(e)
  <2> SUFFICES ASSUME NEW j \in Jobs, e.jobs[j].status # "absent"
               PROVE  \/ e.jobs[j].status = e.runs[e.jobs[j].latest].status
                      \/ /\ e.jobs[j].status = "Queued"
                         /\ \E k \in RunsIn(e, {"Queued"}) : e.runs[k].job = j
    BY DEF Mirrors
  <2>1. CASE e.jobs[j] = d.jobs[j]
    <3>1. d.jobs[j].latest \in 1..n
      BY <2>1, <1>1 DEF Sound, LatestIsOwn
    <3>2. CASE d.jobs[j].status = d.runs[d.jobs[j].latest].status
      BY <2>1, <3>1, <3>2, <1>2
    <3>3. CASE d.jobs[j].status = "Queued" /\ \E k \in RunsIn(d, {"Queued"}) : d.runs[k].job = j
      <4>1. PICK k \in RunsIn(d, {"Queued"}) : d.runs[k].job = j
        BY <3>3
      <4>2. k \in 1..n /\ e.runs[k] = d.runs[k] /\ d.runs[k].status = "Queued"
        BY <4>1, <1>1, <1>2 DEF RunsIn
      <4>3. k \in RunsIn(e, {"Queued"})
        BY <4>2, <1>1, <1>6 DEF RunsIn
      <4> QED BY <2>1, <3>3, <4>1, <4>2, <4>3
    <3> QED BY <2>1, <3>2, <3>3, <1>1 DEF Sound, Mirrors
  <2>2. CASE \E k \in 1..m : due[k] = j /\ e.jobs[j].status = "Queued" /\ e.jobs[j].latest = n + k
    BY <2>2, <1>2
  <2> QED BY <2>1, <2>2, <1>4
<1>11. ChargedWhole(e)
  <2> SUFFICES ASSUME NEW i \in RunsIn(e, {"Completed"}) PROVE <<i, 0>> \in e.ledger
    BY DEF ChargedWhole
  <2>1. i \in 1..(n + m) /\ e.runs[i].status = "Completed"
    BY <1>1 DEF RunsIn
  <2>2. i \in 1..n /\ e.runs[i] = d.runs[i]
    BY <2>1, <1>3
  <2>3. i \in RunsIn(d, {"Completed"})
    BY <2>1, <2>2, <1>1 DEF RunsIn
  <2> QED BY <2>3, <1>1, <1>2 DEF Sound, ChargedWhole
<1> QED BY <1>1, <1>7, <1>8, <1>9, <1>10, <1>11, GoodIs DEF Sound

LEMMA RequeuedTokens ==
  ASSUME NEW n \in Nat, NEW m \in Nat, n + m <= MaxRuns, NEW d \in Good(n), NEW e \in Good(n + m),
         NEW due \in [1..m -> Jobs], IsInjective(due),
         \A k \in 1..m : d.jobs[due[k]].status # "absent" /\ Retryable(d, due[k]),
         Requeued(n, m, d, e, due),
         NEW ps, \A i : Holders(ps, i) # {} => i \in 1..n,
         NEW j \in Jobs
  PROVE  Cardinality(Tokens(e, ps, j)) <= Cardinality(Tokens(d, ps, j))
<1>1. /\ d \in Snapshots(n) /\ Sound(d) /\ DOMAIN d.runs = 1..n
      /\ e \in Snapshots(n + m) /\ Sound(e) /\ DOMAIN e.runs = 1..(n + m) /\ n + m \in Nat
  BY GoodIs, SnapshotFields
<1>2. /\ \A k \in 1..n : e.runs[k] = d.runs[k]
      /\ \A k \in 1..m : /\ e.runs[n + k].job = due[k] /\ e.runs[n + k].status = "Queued"
                         /\ e.jobs[due[k]].status = "Queued" /\ e.jobs[due[k]].latest = n + k
      /\ \A other \in Jobs : (\A k \in 1..m : due[k] # other) => e.jobs[other] = d.jobs[other]
  BY DEF Requeued
<1>3. IsFiniteSet(Tokens(d, ps, j))
  BY <1>1, TokenIs
<1>4. ASSUME NEW holder, NEW i, <<holder, i>> \in Tokens(e, ps, j)
      PROVE  \/ i \in 1..n /\ <<holder, i>> \in Tokens(d, ps, j)
             \/ i \notin 1..n /\ holder = {} /\ \E k \in 1..m : i = n + k /\ due[k] = j
             \/ i = 0 /\ <<holder, i>> \in Tokens(d, ps, j) /\ \A k \in 1..m : due[k] # j
  <2>1. holder \in SUBSET Workers /\ i \in 0..(n + m) /\ IsToken(e, ps, j, holder, i)
    BY <1>1, <1>4, TokenIs
  <2>2. CASE i \in 1..n /\ e.runs[i].job = j /\ ((holder = {} /\ Loose(e, ps, i)) \/ \E w \in Holders(ps, i) : holder = {w})
    <3>1. e.runs[i] = d.runs[i] /\ i \in 0..n
      BY <2>2, <1>2
    <3>2. IsToken(d, ps, j, holder, i)
      BY <2>2, <3>1, <1>1 DEF IsToken, Loose
    <3> QED BY <2>1, <2>2, <3>1, <3>2, <1>1, TokenIs
  <2>3. CASE /\ i \in 1..(n + m) /\ i \notin 1..n /\ e.runs[i].job = j
             /\ ((holder = {} /\ Loose(e, ps, i)) \/ \E w \in Holders(ps, i) : holder = {w})
    <3>1. i - n \in 1..m /\ i = n + (i - n)
      BY <2>3
    <3>2. due[i - n] = j
      BY <2>3, <3>1, <1>2
    <3>3. Holders(ps, i) = {}
      BY <2>3
    <3> QED BY <2>3, <3>1, <3>2, <3>3
  <2>4. CASE holder = {} /\ i = 0 /\ e.jobs[j].status # "absent" /\ Retryable(e, j)
    <3>1. ASSUME NEW k \in 1..m, due[k] = j PROVE FALSE
      <4>1. e.jobs[j].latest = n + k /\ e.runs[n + k].status = "Queued"
        BY <3>1, <1>2
      <4> QED BY <4>1, <2>4 DEF Retryable
    <3>2. e.jobs[j] = d.jobs[j]
      BY <3>1, <1>2
    <3>3. d.jobs[j].latest \in 1..n
      BY <2>4, <3>2, <1>1 DEF Sound, LatestIsOwn
    <3>4. d.jobs[j].status # "absent" /\ Retryable(d, j)
      BY <2>4, <3>2, <3>3, <1>2, ZenonT(60) DEF Retryable
    <3>5. 0 \in 0..n
      OBVIOUS
    <3>6. <<holder, i>> \in Tokens(d, ps, j)
      BY <2>1, <2>4, <3>4, <3>5, <1>1, TokenIs DEF IsToken
    <3> QED BY <3>1, <3>6, <2>4
  <2> QED BY <2>1, <2>2, <2>3, <2>4, <1>1 DEF IsToken
<1>5. \A t \in Tokens(e, ps, j) : t = <<t[1], t[2]>>
  BY <1>1, TokenIs
<1>6. CASE \A k \in 1..m : due[k] # j
  <2>1. Tokens(e, ps, j) \subseteq Tokens(d, ps, j)
    BY <1>4, <1>5, <1>6
  <2> QED BY <1>3, <2>1, NoMoreMembers
<1>7. CASE \E k \in 1..m : due[k] = j
  <2>1. PICK k \in 1..m : due[k] = j
    BY <1>7
  <2>2. \A l \in 1..m : due[l] = j => l = k
    BY <2>1 DEF IsInjective
  <2>3. Tokens(e, ps, j) \subseteq (Tokens(d, ps, j) \ {<<{}, 0>>}) \union {<<{}, n + k>>}
    <3>1. ASSUME NEW holder, NEW i, <<holder, i>> \in Tokens(e, ps, j)
          PROVE  <<holder, i>> \in (Tokens(d, ps, j) \ {<<{}, 0>>}) \union {<<{}, n + k>>}
      BY <3>1, <1>4, <2>1, <2>2
    <3> QED BY <3>1, <1>5
  <2>4. <<{}, 0>> \in Tokens(d, ps, j)
    <3>1. IsToken(d, ps, j, {}, 0)
      BY <2>1 DEF IsToken
    <3>2. 0 \in 0..n
      OBVIOUS
    <3> QED BY <3>1, <3>2, <1>1, TokenIs
  <2> QED BY <1>3, <2>3, <2>4, MemberExchanged
<1> QED BY <1>6, <1>7

-----------------------------------------------------------------------------
\* A queue transaction.

\* What is due can be retried: the job shows its latest run, and that run has
\* an attempt left.
LEMMA DueIsRetryable ==
  ASSUME NEW n \in Nat, NEW d \in Good(n), NEW j \in DueJobs(d)
  PROVE  j \in Jobs /\ d.jobs[j].status # "absent" /\ Retryable(d, j)
<1>1. d \in Snapshots(n) /\ Sound(d) /\ DOMAIN d.runs = 1..n
  BY GoodIs, SnapshotFields
<1>2. j \in Jobs /\ d.jobs[j].status = "Retry scheduled"
  BY DEF DueJobs, RetryIsDue
<1>3. d.jobs[j].latest \in 1..n /\ d.runs[d.jobs[j].latest].status = "Retry scheduled"
  BY <1>1, <1>2 DEF Sound, LatestIsOwn, Mirrors
<1>4. d.runs[d.jobs[j].latest].attempt < MaxAttempts
  BY <1>1, <1>3 DEF Sound, AttemptsLeft
<1> QED BY <1>2, <1>3, <1>4 DEF Retryable

LEMMA AfterQueueIs ==
  ASSUME NEW n \in 0..MaxRuns, NEW d \in Good(n), n + Cardinality(DueJobs(d)) <= MaxRuns,
         NEW ps, \A i : Holders(ps, i) # {} => i \in 1..n, NEW succeeds, NEW tied,
         NEW after, after = AfterQueue(d, succeeds, tied)
  PROVE  \E m \in n..MaxRuns :
           /\ after \in Good(m)
           /\ \A j \in Jobs : Cardinality(Tokens(after, ps, j)) <= Cardinality(Tokens(d, ps, j))
           /\ \A i \in 1..n : d.runs[i].status = "Running" /\ after.runs[i].status = "Queued"
                                => d.runs[i].lease = "expired"
           /\ Stranded(after) \subseteq Stranded(d) /\ Paid(d, after)
<1> DEFINE r   == Recover(d)
           due == SetToSeq(DueJobs(r))
           m   == Cardinality(DueJobs(r))
           q   == Retry(r, due)
           e   == ServeBatch(q, succeeds, tied)
<1>n. n \in Nat /\ MaxRuns \in Nat
  BY Constants
<1>1. r \in Good(n) /\ RecoveredUpto(d, r, n)
  BY RecoverIs
<1>r. \A j \in Jobs : Tokens(r, ps, j) \subseteq Tokens(d, ps, j)
  BY RecoverTokens
<1>e. AfterQueue(d, succeeds, tied) = e
  <2>1. ~Poisoned(r)
    <3> HIDE DEF r
    <3> QED BY <1>1, <1>n, DueIsRetryable DEF Poisoned
  <2> QED BY <2>1 DEF AfterQueue, QueueRetries
<1> HIDE DEF r
<1>2. /\ d \in Snapshots(n) /\ r \in Snapshots(n) /\ DOMAIN d.runs = 1..n /\ DOMAIN r.runs = 1..n
  BY <1>1, <1>n, GoodIs, SnapshotFields
<1>3. IsFiniteSet(DueJobs(d)) /\ DueJobs(r) \subseteq DueJobs(d)
  <2>1. DueJobs(d) \subseteq Jobs
    BY DEF DueJobs
  <2>2. \A j \in Jobs : RetryIsDue(r, j) => RetryIsDue(d, j)
    BY <1>1 DEF RecoveredUpto, RetryIsDue
  <2> QED BY <2>1, <2>2, Constants, FS_Subset DEF DueJobs
<1>4. /\ IsFiniteSet(DueJobs(r)) /\ m \in Nat /\ n + m <= MaxRuns
  <2>1. IsFiniteSet(DueJobs(r)) /\ m <= Cardinality(DueJobs(d))
    BY <1>3, FS_Subset
  <2>2. m \in Nat /\ Cardinality(DueJobs(d)) \in Nat
    BY <2>1, <1>3, FS_CardinalityType
  <2> HIDE DEF m
  <2> QED BY <2>1, <2>2, <1>n
<1>5. /\ due \in [1..m -> Jobs] /\ IsInjective(due)
      /\ \A k \in 1..m : r.jobs[due[k]].status # "absent" /\ Retryable(r, due[k])
  <2>1. due \in [1..m -> DueJobs(r)] /\ IsInjective(due)
    BY <1>4, InOrder
  <2> HIDE DEF due, m
  <2>2. \A k \in 1..m : due[k] \in DueJobs(r)
    BY <2>1
  <2>3. due \in [1..m -> Jobs]
    BY <2>1 DEF DueJobs
  <2> QED BY <2>1, <2>2, <2>3, <1>1, <1>n, DueIsRetryable
<1> HIDE DEF due, m
<1>6. Requeued(n, m, r, q, due)
  BY <1>1, <1>4, <1>5, <1>n, RetryIs
<1> HIDE DEF q
<1>7. q \in Good(n + m)
  BY <1>1, <1>4, <1>5, <1>6, <1>n, RequeuedStaysSound
<1>8. n + m \in 0..MaxRuns /\ n + m \in n..MaxRuns /\ n + m \in Nat
  BY <1>4, <1>n
<1>9. e \in Good(n + m) /\ ServedUpto(q, e, n + m)
  BY <1>7, <1>8, ServeBatchIs
<1> HIDE DEF e
<1>10. /\ q \in Snapshots(n + m) /\ e \in Snapshots(n + m)
       /\ DOMAIN q.runs = 1..(n + m)
  BY <1>7, <1>9, <1>8, GoodIs, SnapshotFields
<1>11. ASSUME NEW j \in Jobs PROVE Cardinality(Tokens(e, ps, j)) <= Cardinality(Tokens(d, ps, j))
  <2>1. /\ Cardinality(Tokens(e, ps, j)) \in Nat /\ Cardinality(Tokens(q, ps, j)) \in Nat
        /\ Cardinality(Tokens(r, ps, j)) \in Nat /\ Cardinality(Tokens(d, ps, j)) \in Nat
        /\ IsFiniteSet(Tokens(d, ps, j))
    BY <1>2, <1>10, <1>8, <1>n, TokenIs
  <2>2. Cardinality(Tokens(e, ps, j)) <= Cardinality(Tokens(q, ps, j))
    BY <1>9 DEF ServedUpto
  <2>3. Cardinality(Tokens(q, ps, j)) <= Cardinality(Tokens(r, ps, j))
    BY <1>1, <1>4, <1>5, <1>6, <1>7, <1>n, RequeuedTokens
  <2>4. Cardinality(Tokens(r, ps, j)) <= Cardinality(Tokens(d, ps, j))
    BY <1>r, <2>1, NoMoreMembers
  <2> QED BY <2>1, <2>2, <2>3, <2>4
<1>12. ASSUME NEW i \in 1..n, d.runs[i].status = "Running", e.runs[i].status = "Queued"
       PROVE  d.runs[i].lease = "expired"
  <2> SUFFICES ASSUME ~LeaseRanOut(d, i) PROVE FALSE
    BY <1>12 DEF LeaseRanOut
  <2>1. r.runs[i] = d.runs[i]
    BY <1>1, <1>2 DEF RecoveredUpto
  <2>2. q.runs[i] = r.runs[i] /\ i \in 1..(n + m)
    BY <1>6, <1>4, <1>n DEF Requeued
  <2>3. i \notin Claimed(q)
    BY <2>1, <2>2, <1>12 DEF Claimed, RunsIn
  <2>4. e.runs[i] = q.runs[i]
    BY <2>2, <2>3, <1>9, <1>10 DEF ServedUpto
  <2> QED BY <2>1, <2>2, <2>4, <1>12
<1>14. Stranded(e) \subseteq Stranded(d)
  <2> SUFFICES ASSUME NEW i \in Stranded(e) PROVE i \in Stranded(d)
    OBVIOUS
  <2>1. i \in 1..(n + m) /\ e.runs[i].status = "Running" /\ e.runs[i].lease = "none"
    BY <1>10, <1>8, SnapshotFields DEF Stranded, RunsIn
  <2>2. e.runs[i] = q.runs[i]
    BY <2>1, <1>9, <1>10 DEF ServedUpto
  <2>3. i \in 1..n
    <3> SUFFICES ASSUME i \notin 1..n PROVE FALSE
      OBVIOUS
    <3>1. i - n \in 1..m /\ i = n + (i - n)
      BY <2>1, <1>4, <1>n
    <3>2. q.runs[n + (i - n)].status = "Queued"
      BY <3>1, <1>6 DEF Requeued
    <3> QED BY <3>1, <3>2, <2>1, <2>2
  <2>4. q.runs[i] = r.runs[i] /\ i <= n
    BY <2>3, <1>6, <1>n DEF Requeued
  <2>5. r.runs[i] = d.runs[i]
    BY <2>1, <2>2, <2>3, <2>4, <1>1, <1>2 DEF RecoveredUpto
  <2> QED BY <2>1, <2>2, <2>3, <2>4, <2>5, <1>2 DEF Stranded, RunsIn
<1>15. Paid(d, e)
  <2>1. q.ledger = r.ledger /\ r.ledger = d.ledger
    BY <1>1, <1>6 DEF Requeued, RecoveredUpto
  <2> QED BY <2>1, <1>9 DEF Paid, ServedUpto
<1>13. \E l \in n..MaxRuns :
         /\ e \in Good(l)
         /\ \A j \in Jobs : Cardinality(Tokens(e, ps, j)) <= Cardinality(Tokens(d, ps, j))
         /\ \A i \in 1..n : d.runs[i].status = "Running" /\ e.runs[i].status = "Queued"
                              => d.runs[i].lease = "expired"
         /\ Stranded(e) \subseteq Stranded(d) /\ Paid(d, e)
  BY <1>8, <1>9, <1>11, <1>12, <1>14, <1>15
<1> QED BY <1>13, <1>e

-----------------------------------------------------------------------------
\* Planning.  What becomes of every queued run that a transaction plans: the
\* budget and the credential are the same for all of them.
Fate(d, credential) ==
  IF ~BudgetAllows(d, 1) THEN "Skipped" ELSE IF ~credential THEN "Failed" ELSE "Running"

LEMMA PlanRunIs ==
  ASSUME NEW n \in 0..MaxRuns, NEW d \in Snapshots(n), NEW i \in 1..n, NEW credential \in BOOLEAN
  PROVE  LET e == PlanRun(d, i, credential) IN
         /\ e \in Snapshots(n) /\ e.ledger = d.ledger
         /\ \/ /\ e = d /\ Fate(d, credential) = "Running" /\ d.runs[i].status # "Queued"
            \/ /\ Moved(d, e, i) /\ e.runs[i].status = Fate(d, credential)
               /\ Fate(d, credential) = "Running" => d.runs[i].status = "Queued" /\ e.runs[i].lease = "held"
<1> DEFINE e == PlanRun(d, i, credential)
           s == Put(d, i, "Skipped", "none")
           r == Put(d, i, "Running", "held")
           f == Fail(d, i, FALSE)
<1>1. CASE ~BudgetAllows(d, 1)
  <2>1. e = s /\ Fate(d, credential) = "Skipped"
    BY <1>1 DEF PlanRun, Fate
  <2>2. /\ "Skipped" \in Statuses /\ "none" \in Leases /\ "Skipped" # "Completed"
        /\ Settled("Skipped", d.runs[i].attempt)
    BY StatusesAre DEF Settled
  <2>3. Moved(d, s, i)
    BY <2>2, PutMoves
  <2>4. Wrote(n, d, s, i, "Skipped", "none")
    BY <2>2, PutIs
  <2> HIDE DEF e, s
  <2>5. s \in Snapshots(n) /\ s.ledger = d.ledger /\ s.runs[i].status = "Skipped"
    BY <2>4 DEF Wrote
  <2> QED BY <2>1, <2>3, <2>5 DEF e
<1>2. CASE BudgetAllows(d, 1) /\ ~credential
  <2>1. e = f /\ Fate(d, credential) = "Failed"
    BY <1>2 DEF PlanRun, Fate
  <2>2. FALSE \in BOOLEAN
    OBVIOUS
  <2>3. /\ f \in Snapshots(n) /\ Moved(d, f, i) /\ f.ledger = d.ledger
        /\ f.runs[i].status = IF FALSE /\ d.runs[i].attempt < MaxAttempts THEN "Retry scheduled" ELSE "Failed"
    BY <2>2, FailMoves
  <2> HIDE DEF e, f
  <2>4. f.runs[i].status = "Failed"
    BY <2>3
  <2> QED BY <2>1, <2>3, <2>4 DEF e
<1>3. CASE BudgetAllows(d, 1) /\ credential /\ d.runs[i].status = "Queued"
  <2>1. e = r /\ Fate(d, credential) = "Running"
    BY <1>3 DEF PlanRun, Fate
  <2>2. /\ "Running" \in Statuses /\ "held" \in Leases /\ "Running" # "Completed"
        /\ Settled("Running", d.runs[i].attempt)
    BY StatusesAre DEF Settled
  <2>3. Moved(d, r, i)
    BY <2>2, PutMoves
  <2>4. Wrote(n, d, r, i, "Running", "held")
    BY <2>2, PutIs
  <2> HIDE DEF e, r
  <2>5. r \in Snapshots(n) /\ r.ledger = d.ledger /\ r.runs[i].status = "Running" /\ r.runs[i].lease = "held"
    BY <2>4 DEF Wrote
  <2> QED BY <1>3, <2>1, <2>3, <2>5 DEF e
<1>4. CASE BudgetAllows(d, 1) /\ credential /\ d.runs[i].status # "Queued"
  <2>1. e = d /\ Fate(d, credential) = "Running"
    BY <1>4 DEF PlanRun, Fate
  <2> HIDE DEF e
  <2> QED BY <1>4, <2>1 DEF e
<1> QED BY <1>1, <1>2, <1>3, <1>4

PlanSpace(n) == [db : Snapshots(n), plans : Seq(1..n)]

LEMMA PlanFields ==
  ASSUME NEW n, NEW a \in PlanSpace(n)
  PROVE  a.db \in Snapshots(n) /\ a.plans \in Seq(1..n)
BY DEF PlanSpace

LEMMA MadePlan ==
  ASSUME NEW n, NEW d \in Snapshots(n), NEW ps \in Seq(1..n)
  PROVE  LET a == [db |-> d, plans |-> ps] IN a \in PlanSpace(n) /\ a.db = d /\ a.plans = ps
BY DEF PlanSpace

PlanRound(d, acc, i, credential) ==
  IF d.runs[i].status = "Queued" THEN PlanStep(acc, i, credential) ELSE acc

\* Run i of d is planned in e.
Planned(d, e, i, fate) ==
  /\ d.runs[i].status = "Queued" /\ e.runs[i].status = fate
  /\ e.runs[i].job = d.runs[i].job /\ e.runs[i].attempt = d.runs[i].attempt
  /\ fate = "Running" => e.runs[i].lease = "held"

\* The runs of d from low on were looked at; round k is about run n + 1 - k.
PlannedFrom(n, d, acc, fate, low) ==
  /\ acc.db.ledger = d.ledger /\ Len(acc.plans) <= MaxLiveRuns
  /\ \A i \in 1..n : acc.db.runs[i] = d.runs[i] \/ (i >= low /\ Planned(d, acc.db, i, fate))
  /\ \A j \in Jobs :
       \/ /\ acc.db.jobs[j] = d.jobs[j]
          /\ \A i \in 1..n : d.runs[i].job = j => acc.db.runs[i] = d.runs[i]
       \/ /\ acc.db.jobs[j].status = fate
          /\ \E i \in 1..n : d.runs[i].job = j /\ Planned(d, acc.db, i, fate)
  /\ \A p, q \in DOMAIN acc.plans : acc.plans[p] = acc.plans[q] => p = q
  /\ \A p \in DOMAIN acc.plans : acc.plans[p] >= low /\ fate = "Running" /\ Planned(d, acc.db, acc.plans[p], fate)
  /\ fate = "Running" =>
       \A i \in 1..n : Planned(d, acc.db, i, fate) => \E p \in DOMAIN acc.plans : acc.plans[p] = i

LEMMA PlanStepIs ==
  ASSUME NEW n \in 0..MaxRuns, NEW d \in Snapshots(n), NEW acc \in PlanSpace(n), NEW i \in 1..n,
         NEW credential \in BOOLEAN
  PROVE  LET a == PlanRound(d, acc, i, credential) IN
         /\ a \in PlanSpace(n)
         /\ PlannedFrom(n, d, acc, Fate(d, credential), i + 1) => PlannedFrom(n, d, a, Fate(d, credential), i)
<1> DEFINE a    == PlanRound(d, acc, i, credential)
           fate == Fate(d, credential)
           e    == PlanRun(acc.db, i, credential)
           more == IF e.runs[i].status = "Running" THEN Append(acc.plans, i) ELSE acc.plans
<1>n. n \in Nat /\ i \in Nat
  BY Constants
<1>1. /\ acc.db \in Snapshots(n) /\ acc.plans \in Seq(1..n)
      /\ DOMAIN d.runs = 1..n /\ DOMAIN acc.db.runs = 1..n
      /\ acc.db.runs[i].job \in Jobs
  <2>1. acc.db \in Snapshots(n) /\ acc.plans \in Seq(1..n)
    BY PlanFields
  <2>2. DOMAIN d.runs = 1..n /\ DOMAIN acc.db.runs = 1..n /\ acc.db.runs[i] \in Runs
    BY <2>1, <1>n, SnapshotFields
  <2> QED BY <2>1, <2>2, RunFields
<1>2. CASE a = acc
  <2>1. ASSUME PlannedFrom(n, d, acc, fate, i + 1) PROVE PlannedFrom(n, d, acc, fate, i)
    <3>1. \A k \in 1..n : k >= i + 1 => k >= i
      BY <1>n
    <3>2. \A p \in DOMAIN acc.plans : acc.plans[p] \in 1..n
      BY <1>1, LenProperties, ElementOfSeq
    <3> HIDE DEF fate
    <3> QED BY <2>1, <3>1, <3>2 DEF PlannedFrom
  <2> HIDE DEF a
  <2> QED BY <1>2, <2>1 DEF a
<1>3. CASE a # acc
  <2>1. d.runs[i].status = "Queued" /\ a = [db |-> e, plans |-> more] /\ ~(Len(acc.plans) >= MaxLiveRuns)
    BY <1>3 DEF PlanRound, PlanStep
  <2>2. /\ e \in Snapshots(n) /\ e.ledger = acc.db.ledger
        /\ \/ /\ e = acc.db /\ Fate(acc.db, credential) = "Running" /\ acc.db.runs[i].status # "Queued"
           \/ /\ Moved(acc.db, e, i) /\ e.runs[i].status = Fate(acc.db, credential)
              /\ Fate(acc.db, credential) = "Running" => acc.db.runs[i].status = "Queued" /\ e.runs[i].lease = "held"
    BY <1>1, PlanRunIs
  <2> HIDE DEF e
  <2>3. more \in Seq(1..n)
    BY <1>1, AppendProperties
  <2>4. a \in PlanSpace(n) /\ a.db = e /\ a.plans = more
    <3> HIDE DEF more, a
    <3> QED BY <2>1, <2>2, <2>3, MadePlan
  <2>5. ASSUME PlannedFrom(n, d, acc, fate, i + 1) PROVE PlannedFrom(n, d, a, fate, i)
    <3>1. /\ acc.db.ledger = d.ledger /\ acc.db.runs[i] = d.runs[i]
      <4>1. ~(i >= i + 1)
        BY <1>n
      <4> QED BY <2>5, <4>1 DEF PlannedFrom
    <3>2. Fate(acc.db, credential) = fate
      BY <3>1, SameSpent DEF Fate, BudgetAllows
    <3>3. /\ Moved(acc.db, e, i) /\ e.runs[i].status = fate
          /\ fate = "Running" => e.runs[i].lease = "held"
      <4> HIDE DEF fate
      <4> QED BY <2>1, <2>2, <3>1, <3>2
    <3> DEFINE j == d.runs[i].job
    <3>4. /\ \A k \in (1..n) \ {i} : e.runs[k] = acc.db.runs[k]
          /\ e.runs[i].job = j /\ e.runs[i].attempt = d.runs[i].attempt
          /\ \A other \in Jobs \ {j} : e.jobs[other] = acc.db.jobs[other]
          /\ e.jobs[j].status = fate
      BY <3>1, <3>3, <1>1 DEF Moved
    <3>5. Planned(d, e, i, fate) /\ j \in Jobs
      BY <2>1, <3>1, <3>3, <3>4, <1>1 DEF Planned
    <3> HIDE DEF fate, more, a, j
    <3>6. \A k \in (1..n) \ {i} : Planned(d, acc.db, k, fate) <=> Planned(d, e, k, fate)
      BY <3>4 DEF Planned
    <3>7. \A k \in 1..n : e.runs[k] = d.runs[k] \/ (k >= i /\ Planned(d, e, k, fate))
      <4>1. \A k \in 1..n : acc.db.runs[k] = d.runs[k] \/ (k >= i + 1 /\ Planned(d, acc.db, k, fate))
        BY <2>5 DEF PlannedFrom
      <4> QED BY <4>1, <3>4, <3>5, <3>6, <1>n
    <3>8. ASSUME NEW other \in Jobs
          PROVE  \/ /\ e.jobs[other] = d.jobs[other]
                    /\ \A k \in 1..n : d.runs[k].job = other => e.runs[k] = d.runs[k]
                 \/ /\ e.jobs[other].status = fate
                    /\ \E k \in 1..n : d.runs[k].job = other /\ Planned(d, e, k, fate)
      <4>1. CASE other = j
        BY <4>1, <3>4, <3>5 DEF j
      <4>2. CASE other # j
        <5>1. \/ /\ acc.db.jobs[other] = d.jobs[other]
                 /\ \A k \in 1..n : d.runs[k].job = other => acc.db.runs[k] = d.runs[k]
              \/ /\ acc.db.jobs[other].status = fate
                 /\ \E k \in 1..n : d.runs[k].job = other /\ Planned(d, acc.db, k, fate)
          BY <2>5 DEF PlannedFrom
        <5>2. \A k \in 1..n : d.runs[k].job = other => k # i
          BY <4>2 DEF j
        <5> QED BY <5>1, <5>2, <4>2, <3>4, <3>6
      <4> QED BY <4>1, <4>2
    <3>9. /\ \A p, q \in DOMAIN acc.plans : acc.plans[p] = acc.plans[q] => p = q
          /\ \A p \in DOMAIN acc.plans : /\ acc.plans[p] \in 1..n /\ acc.plans[p] >= i /\ acc.plans[p] # i
                                         /\ fate = "Running" /\ Planned(d, e, acc.plans[p], fate)
      <4>1. \A p \in DOMAIN acc.plans : acc.plans[p] \in 1..n
        BY <1>1, LenProperties, ElementOfSeq
      <4>2. \A p, q \in DOMAIN acc.plans : acc.plans[p] = acc.plans[q] => p = q
        BY <2>5 DEF PlannedFrom
      <4>3. \A p \in DOMAIN acc.plans :
              acc.plans[p] >= i + 1 /\ fate = "Running" /\ Planned(d, acc.db, acc.plans[p], fate)
        BY <2>5 DEF PlannedFrom
      <4>4. \A k \in 1..n : k >= i + 1 => k >= i /\ k # i
        BY <1>n
      <4> QED BY <4>1, <4>2, <4>3, <4>4, <3>6
    <3>10. fate = "Running" =>
             \A k \in 1..n : Planned(d, acc.db, k, fate) => \E p \in DOMAIN acc.plans : acc.plans[p] = k
      BY <2>5 DEF PlannedFrom
    <3>11. CASE fate # "Running"
      <4>1. more = acc.plans /\ Len(acc.plans) <= MaxLiveRuns
        BY <2>5, <3>3, <3>11 DEF more, PlannedFrom
      <4> QED BY <4>1, <3>1, <3>7, <3>8, <3>9, <3>11, <2>2, <2>4 DEF PlannedFrom
    <3>12. CASE fate = "Running"
      <4>1. more = Append(acc.plans, i)
        BY <3>3, <3>12 DEF more
      <4>2. /\ Len(acc.plans) \in Nat /\ DOMAIN acc.plans = 1..Len(acc.plans)
            /\ DOMAIN more = 1..(Len(acc.plans) + 1)
            /\ \A p \in DOMAIN acc.plans : p \in DOMAIN more /\ more[p] = acc.plans[p]
            /\ more[Len(acc.plans) + 1] = i
            /\ Len(more) <= MaxLiveRuns
        <5>1. /\ Len(acc.plans) \in Nat /\ DOMAIN acc.plans = 1..Len(acc.plans)
          BY <1>1, LenProperties
        <5>2. /\ Len(more) = Len(acc.plans) + 1 /\ more \in Seq(1..n)
              /\ \A p \in 1..Len(acc.plans) : more[p] = acc.plans[p]
              /\ more[Len(acc.plans) + 1] = i
          BY <4>1, <1>1, AppendProperties
        <5>3. DOMAIN more = 1..Len(more)
          BY <5>2, LenProperties
        <5>4. Len(more) <= MaxLiveRuns
          BY <5>1, <5>2, <2>1, Constants
        <5> QED BY <5>1, <5>2, <5>3, <5>4
      <4> DEFINE last == Len(acc.plans) + 1
      <4>3. \A p \in DOMAIN more : p \in DOMAIN acc.plans \/ p = last
        BY <4>2
      <4>4. last \in DOMAIN more
        BY <4>2
      <4> HIDE DEF last
      <4>5. \A p \in DOMAIN more : (p \in DOMAIN acc.plans /\ more[p] = acc.plans[p]) \/ (p = last /\ more[p] = i)
        BY <4>2, <4>3 DEF last
      <4>6. \A p, q \in DOMAIN more : more[p] = more[q] => p = q
        BY <4>5, <3>9
      <4>7. \A p \in DOMAIN more : more[p] >= i /\ fate = "Running" /\ Planned(d, e, more[p], fate)
        BY <4>5, <3>5, <3>9, <3>12, <1>n
      <4>8. \A k \in 1..n : Planned(d, e, k, fate) => \E p \in DOMAIN more : more[p] = k
        <5> TAKE k \in 1..n
        <5>1. CASE k = i
          BY <5>1, <4>4, <4>2 DEF last
        <5>2. CASE k # i
          BY <5>2, <3>6, <3>10, <3>12, <4>2
        <5> QED BY <5>1, <5>2
      <4> QED BY <4>2, <4>6, <4>7, <4>8, <3>1, <3>7, <3>8, <2>2, <2>4 DEF PlannedFrom
    <3> QED BY <3>11, <3>12
  <2> QED BY <2>4, <2>5
<1> QED BY <1>2, <1>3

LEMMA TogetherIs ==
  ASSUME NEW n \in 0..MaxRuns, NEW d \in Snapshots(n), NEW S \in SUBSET (1..n)
  PROVE  LET e == Together(d, S) IN
         /\ e \in Snapshots(n) /\ e.runs = d.runs /\ e.ledger = d.ledger
         /\ \A j \in Jobs :
              \/ e.jobs[j] = d.jobs[j] /\ \A i \in S : d.runs[i].job # j
              \/ /\ e.jobs[j].status = d.jobs[j].status
                 /\ e.jobs[j].latest \in S /\ d.runs[e.jobs[j].latest].job = j
<1> DEFINE e       == Together(d, S)
           mine(j) == {i \in S : d.runs[i].job = j}
           row(j)  == [d.jobs[j] EXCEPT !.latest = Newest(mine(j))]
           rows    == [j \in Jobs |-> IF mine(j) = {} THEN d.jobs[j] ELSE row(j)]
<1>n. n \in Nat
  BY Constants
<1>1. /\ d.jobs \in [Jobs -> JobRows] /\ d.runs \in [1..n -> Runs] /\ d.ledger \in SUBSET Entries(n)
  BY <1>n, SnapshotFields
<1>2. e = [d EXCEPT !.jobs = rows]
  BY DEF Together
<1>3. ASSUME NEW j \in Jobs, mine(j) # {} PROVE Newest(mine(j)) \in mine(j)
  <2>1. mine(j) \in SUBSET (1..n)
    OBVIOUS
  <2> HIDE DEF mine
  <2>2. \E x \in mine(j) : \A y \in mine(j) : y <= x
    BY <1>3, <2>1, <1>n, GreatestNatural
  <2> QED BY <2>2 DEF Newest
<1>4. ASSUME NEW j \in Jobs, mine(j) # {}
      PROVE  row(j) \in JobRows /\ row(j).status = d.jobs[j].status /\ row(j).latest = Newest(mine(j))
  <2>1. Newest(mine(j)) \in 0..MaxRuns
    <3>1. Newest(mine(j)) \in mine(j)
      BY <1>3, <1>4
    <3>2. mine(j) \subseteq 1..n
      OBVIOUS
    <3> HIDE DEF mine
    <3>3. Newest(mine(j)) \in 1..n
      BY <3>1, <3>2
    <3> QED BY <3>3, <1>n, Constants
  <2>2. d.jobs[j] \in JobRows
    BY <1>1
  <2> HIDE DEF mine
  <2> QED BY <2>1, <2>2 DEF JobRows
<1>5. \A j \in Jobs : mine(j) # {} => Newest(mine(j)) \in S /\ d.runs[Newest(mine(j))].job = j
  BY <1>3
<1>6. \A j \in Jobs : mine(j) = {} => \A i \in S : d.runs[i].job # j
  OBVIOUS
<1> HIDE DEF mine, row, e
<1>7. rows \in [Jobs -> JobRows]
  BY <1>1, <1>4
<1>8. \A j \in Jobs : rows[j] = IF mine(j) = {} THEN d.jobs[j] ELSE row(j)
  OBVIOUS
<1> HIDE DEF rows
<1>9. e \in Snapshots(n) /\ e.runs = d.runs /\ e.ledger = d.ledger /\ e.jobs = rows
  BY <1>2, <1>7 DEF Snapshots
<1>10. ASSUME NEW j \in Jobs
       PROVE  \/ e.jobs[j] = d.jobs[j] /\ \A i \in S : d.runs[i].job # j
              \/ /\ e.jobs[j].status = d.jobs[j].status
                 /\ e.jobs[j].latest \in S /\ d.runs[e.jobs[j].latest].job = j
  BY <1>4, <1>5, <1>6, <1>8, <1>9
<1> QED BY <1>9, <1>10 DEF e

\* What a planning transaction leaves, as the proofs need it.
PlannedAll(n, d, a, fate) ==
  /\ a.db \in Snapshots(n) /\ a.plans \in Seq(1..n) /\ a.db.ledger = d.ledger
  /\ Len(a.plans) <= MaxLiveRuns
  /\ \A i \in 1..n : a.db.runs[i] = d.runs[i] \/ Planned(d, a.db, i, fate)
  /\ \A j \in Jobs :
       \/ /\ a.db.jobs[j] = d.jobs[j]
          /\ \A i \in 1..n : d.runs[i].job = j => a.db.runs[i] = d.runs[i]
       \/ /\ a.db.jobs[j].status = fate /\ a.db.jobs[j].latest \in 1..n
          /\ d.runs[a.db.jobs[j].latest].job = j /\ Planned(d, a.db, a.db.jobs[j].latest, fate)
  /\ \A p, q \in DOMAIN a.plans : a.plans[p] = a.plans[q] => p = q
  /\ \A p \in DOMAIN a.plans : fate = "Running" /\ Planned(d, a.db, a.plans[p], fate)
  /\ fate = "Running" =>
       \A i \in 1..n : Planned(d, a.db, i, fate) => \E p \in DOMAIN a.plans : a.plans[p] = i

LEMMA PlanningEnds ==
  ASSUME NEW n \in 0..MaxRuns, NEW d \in Snapshots(n), NEW end \in PlanSpace(n),
         NEW fate, fate # "Queued", PlannedFrom(n, d, end, fate, 1)
  PROVE  PlannedAll(n, d, [end EXCEPT !.db = Together(@, {i \in DOMAIN d.runs :
                                                           d.runs[i].status # end.db.runs[i].status})], fate)
<1> DEFINE S == {i \in DOMAIN d.runs : d.runs[i].status # end.db.runs[i].status}
           e == Together(end.db, S)
           a == [end EXCEPT !.db = e]
<1>n. n \in Nat
  BY Constants
<1>1. end.db \in Snapshots(n) /\ end.plans \in Seq(1..n) /\ DOMAIN d.runs = 1..n
  BY <1>n, PlanFields, SnapshotFields
<1>2. /\ end.db.ledger = d.ledger /\ Len(end.plans) <= MaxLiveRuns
      /\ \A i \in 1..n : end.db.runs[i] = d.runs[i] \/ Planned(d, end.db, i, fate)
      /\ \A j \in Jobs :
           \/ /\ end.db.jobs[j] = d.jobs[j]
              /\ \A i \in 1..n : d.runs[i].job = j => end.db.runs[i] = d.runs[i]
           \/ /\ end.db.jobs[j].status = fate
              /\ \E i \in 1..n : d.runs[i].job = j /\ Planned(d, end.db, i, fate)
      /\ \A p, q \in DOMAIN end.plans : end.plans[p] = end.plans[q] => p = q
      /\ \A p \in DOMAIN end.plans : fate = "Running" /\ Planned(d, end.db, end.plans[p], fate)
      /\ fate = "Running" =>
           \A i \in 1..n : Planned(d, end.db, i, fate) => \E p \in DOMAIN end.plans : end.plans[p] = i
  BY DEF PlannedFrom
<1>3. \A i \in 1..n : i \in S <=> Planned(d, end.db, i, fate)
  BY <1>1, <1>2 DEF Planned
<1>4. S \in SUBSET (1..n)
  BY <1>1
<1> HIDE DEF S
<1>5. /\ e \in Snapshots(n) /\ e.runs = end.db.runs /\ e.ledger = end.db.ledger
      /\ \A j \in Jobs :
           \/ e.jobs[j] = end.db.jobs[j] /\ \A i \in S : end.db.runs[i].job # j
           \/ /\ e.jobs[j].status = end.db.jobs[j].status
              /\ e.jobs[j].latest \in S /\ end.db.runs[e.jobs[j].latest].job = j
  BY <1>1, <1>4, TogetherIs
<1> HIDE DEF e
<1>6. a.db = e /\ a.plans = end.plans
  BY DEF PlanSpace
<1>7. \A i : Planned(d, end.db, i, fate) <=> Planned(d, e, i, fate)
  BY <1>5 DEF Planned
<1>8. ASSUME NEW j \in Jobs
      PROVE  \/ /\ e.jobs[j] = d.jobs[j]
                /\ \A i \in 1..n : d.runs[i].job = j => e.runs[i] = d.runs[i]
             \/ /\ e.jobs[j].status = fate /\ e.jobs[j].latest \in 1..n
                /\ d.runs[e.jobs[j].latest].job = j /\ Planned(d, e, e.jobs[j].latest, fate)
  <2>1. \A i \in 1..n : end.db.runs[i].job = d.runs[i].job
    BY <1>2 DEF Planned
  <2>2. CASE \A i \in S : end.db.runs[i].job # j
    <3>1. \A i \in 1..n : d.runs[i].job = j => ~Planned(d, end.db, i, fate)
      BY <2>1, <2>2, <1>3
    <3>2. /\ end.db.jobs[j] = d.jobs[j]
          /\ \A i \in 1..n : d.runs[i].job = j => end.db.runs[i] = d.runs[i]
      BY <3>1, <1>2
    <3>3. e.jobs[j] = end.db.jobs[j]
      BY <2>2, <1>5
    <3> QED BY <3>2, <3>3, <1>5
  <2>3. CASE \E i \in S : end.db.runs[i].job = j
    <3>1. PICK i \in S : end.db.runs[i].job = j
      BY <2>3
    <3>2. i \in 1..n /\ Planned(d, end.db, i, fate) /\ d.runs[i].job = j /\ end.db.runs[i] # d.runs[i]
      BY <3>1, <1>3, <1>4, <2>1 DEF Planned
    <3>3. end.db.jobs[j].status = fate
      BY <3>2, <1>2
    <3>4. /\ e.jobs[j].status = end.db.jobs[j].status
          /\ e.jobs[j].latest \in S /\ end.db.runs[e.jobs[j].latest].job = j
      BY <3>1, <1>5
    <3>5. e.jobs[j].latest \in 1..n /\ Planned(d, end.db, e.jobs[j].latest, fate)
      BY <3>4, <1>3, <1>4
    <3> QED BY <3>3, <3>4, <3>5, <2>1, <1>7
  <2> QED BY <2>2, <2>3
<1> HIDE DEF a
<1>9. PlannedAll(n, d, a, fate)
  BY <1>1, <1>2, <1>5, <1>6, <1>7, <1>8 DEF PlannedAll
<1> QED BY <1>9 DEF a, e, S

LEMMA AfterPlanIs ==
  ASSUME NEW n \in 0..MaxRuns, NEW d \in Snapshots(n), NEW credential \in BOOLEAN
  PROVE  PlannedAll(n, d, AfterPlan(d, credential), Fate(d, credential))
<1> DEFINE fate     == Fate(d, credential)
           start    == [db |-> d, plans |-> <<>>]
           round    == [p \in (1..n) \X PlanSpace(n) |-> PlanRound(d, p[2], n + 1 - p[1], credential)]
           IsRun(f) == f = [k \in 0..n |-> IF k = 0 THEN start
                                           ELSE PlanRound(d, f[k - 1], n + 1 - k, credential)]
           run      == CHOOSE f : IsRun(f)
<1>n. n \in Nat
  BY Constants
<1>1. Len(d.runs) = n /\ DOMAIN d.runs = 1..n
  BY <1>n, SnapshotFields
<1>2. AfterPlan(d, credential) = [run[n] EXCEPT !.db = Together(@, {i \in DOMAIN d.runs :
                                     d.runs[i].status # run[n].db.runs[i].status})]
  BY <1>1 DEF AfterPlan, PlanRound
<1>s. start \in PlanSpace(n) /\ start.db = d /\ start.plans = <<>>
  <2>1. <<>> \in Seq(1..n)
    OBVIOUS
  <2> QED BY <2>1, MadePlan
<1>b. \A k \in 1..n : n + 1 - k \in 1..n
  BY <1>n
<1>3. round \in RoundsOn(n, PlanSpace(n))
  <2>1. ASSUME NEW p \in (1..n) \X PlanSpace(n) PROVE PlanRound(d, p[2], n + 1 - p[1], credential) \in PlanSpace(n)
    <3>1. n + 1 - p[1] \in 1..n /\ p[2] \in PlanSpace(n)
      BY <1>b
    <3> QED BY <3>1, PlanStepIs
  <2> QED BY <2>1 DEF RoundsOn
<1>4. \A k \in 1..n, acc \in PlanSpace(n) : round[<<k, acc>>] = PlanRound(d, acc, n + 1 - k, credential)
  <2>1. ASSUME NEW k \in 1..n, NEW acc \in PlanSpace(n)
        PROVE  round[<<k, acc>>] = PlanRound(d, acc, n + 1 - k, credential)
    <3>1. <<k, acc>> \in (1..n) \X PlanSpace(n) /\ <<k, acc>>[1] = k /\ <<k, acc>>[2] = acc
      OBVIOUS
    <3> QED BY <3>1
  <2> QED BY <2>1
<1> HIDE DEF round, start
<1>5. PICK f : IsLoop(f, n, PlanSpace(n), start, round)
  BY <1>n, <1>s, <1>3, RoundsExist
<1>6. f \in [0..n -> PlanSpace(n)] /\ f[0] = start /\ \A k \in 1..n : f[k] = round[<<k, f[k - 1]>>]
  BY <1>5 DEF IsLoop
<1>7. \A k \in 0..n : f[k] = IF k = 0 THEN start ELSE PlanRound(d, f[k - 1], n + 1 - k, credential)
  <2>1. ASSUME NEW k \in 1..n PROVE f[k] = PlanRound(d, f[k - 1], n + 1 - k, credential)
    <3>1. k - 1 \in 0..n
      BY <1>n
    <3>2. f[k - 1] \in PlanSpace(n)
      BY <1>6, <3>1
    <3> QED BY <1>4, <1>6, <3>2
  <2>2. \A k \in 0..n : k # 0 => k \in 1..n
    BY <1>n
  <2> QED BY <1>6, <2>1, <2>2
<1>8. IsRun(run)
  <2>1. IsRun(f)
    BY <1>6, <1>7
  <2> HIDE DEF IsRun
  <2> QED BY <2>1
<1>9. run[0] = start /\ \A k \in 1..n : run[k] = PlanRound(d, run[k - 1], n + 1 - k, credential)
  <2>1. 0 \in 0..n /\ \A k \in 1..n : k \in 0..n /\ k # 0
    BY <1>n
  <2> HIDE DEF run
  <2> QED BY <1>8, <2>1
<1> HIDE DEF run, fate
<1> DEFINE T == {k \in 0..n : run[k] \in PlanSpace(n) /\ PlannedFrom(n, d, run[k], fate, n + 1 - k)}
<1>10. 0 \in T
  <2>1. PlannedFrom(n, d, start, fate, n + 1 - 0)
    <3>1. \A i \in 1..n : fate = "Running" => ~Planned(d, d, i, fate)
      BY DEF Planned
    <3>2. DOMAIN <<>> = {} /\ Len(<<>>) <= MaxLiveRuns
      BY Constants
    <3> QED BY <1>s, <3>1, <3>2 DEF PlannedFrom
  <2>2. 0 \in 0..n
    BY <1>n
  <2> QED BY <2>1, <2>2, <1>9, <1>s
<1>11. ASSUME NEW k \in 1..n, k - 1 \in T PROVE k \in T
  <2>1. k \in 0..n /\ n + 1 - k \in 1..n /\ n + 1 - (k - 1) = (n + 1 - k) + 1
    BY <1>n
  <2>2. run[k - 1] \in PlanSpace(n) /\ PlannedFrom(n, d, run[k - 1], fate, (n + 1 - k) + 1)
    BY <1>11, <2>1
  <2>3. run[k] \in PlanSpace(n) /\ PlannedFrom(n, d, run[k], fate, n + 1 - k)
    BY <2>1, <2>2, <1>9, PlanStepIs DEF fate
  <2> QED BY <2>1, <2>3
<1> HIDE DEF T
<1>12. n \in T
  <2>1. \A k \in 1..n : k - 1 \in T => k \in T
    BY <1>11
  <2>2. n \in 0..n
    BY <1>n
  <2> QED BY <1>n, <1>10, <2>1, <2>2, EveryRound
<1>13. run[n] \in PlanSpace(n) /\ PlannedFrom(n, d, run[n], fate, 1)
  <2>1. n + 1 - n = 1
    BY <1>n
  <2> QED BY <1>12, <2>1 DEF T
<1>14. fate # "Queued"
  BY DEF fate, Fate
<1>15. PlannedAll(n, d, AfterPlan(d, credential), fate)
  BY <1>2, <1>13, <1>14, PlanningEnds
<1> QED BY <1>15 DEF fate

LEMMA PlannedStaysSound ==
  ASSUME NEW n \in 0..MaxRuns, NEW d \in Good(n), NEW a, NEW fate \in {"Skipped", "Failed", "Running"},
         PlannedAll(n, d, a, fate)
  PROVE  a.db \in Good(n)
<1> DEFINE e == a.db
<1>1. /\ d \in Snapshots(n) /\ Sound(d) /\ DOMAIN d.runs = 1..n
      /\ e \in Snapshots(n) /\ DOMAIN e.runs = 1..n /\ e.ledger = d.ledger
  BY Constants, GoodIs, SnapshotFields DEF PlannedAll
<1>2. \A i \in 1..n : e.runs[i] = d.runs[i] \/ Planned(d, e, i, fate)
  BY DEF PlannedAll
<1>3. ASSUME NEW j \in Jobs
      PROVE  \/ /\ e.jobs[j] = d.jobs[j]
                /\ \A i \in 1..n : d.runs[i].job = j => e.runs[i] = d.runs[i]
             \/ /\ e.jobs[j].status = fate /\ e.jobs[j].latest \in 1..n
                /\ d.runs[e.jobs[j].latest].job = j /\ Planned(d, e, e.jobs[j].latest, fate)
  BY DEF PlannedAll
<1> HIDE DEF e
<1>4. \A i \in 1..n : e.runs[i].job = d.runs[i].job
  BY <1>2 DEF Planned
<1>5. \A i \in 1..n : d.runs[i].job \in Jobs /\ d.jobs[d.runs[i].job].status # "absent"
  <2> TAKE i \in 1..n
  <2>1. d.runs[i] \in Runs
    BY <1>1, Constants, SnapshotFields
  <2> QED BY <2>1, <1>1, RunFields DEF Sound, NoneOfAbsent
<1>6. AttemptsLeft(e)
  BY <1>1, <1>2 DEF AttemptsLeft, Sound, Planned
<1>7. NoneOfAbsent(e)
  <2> SUFFICES ASSUME NEW i \in 1..n PROVE e.jobs[e.runs[i].job].status # "absent"
    BY <1>1 DEF NoneOfAbsent
  <2>1. d.runs[i].job \in Jobs /\ d.jobs[d.runs[i].job].status # "absent"
    BY <1>5
  <2>2. e.jobs[d.runs[i].job].status # "absent"
    BY <2>1, <1>3
  <2> QED BY <2>2, <1>4
<1>8. LatestIsOwn(e)
  <2> SUFFICES ASSUME NEW j \in Jobs, e.jobs[j].status # "absent"
               PROVE  e.jobs[j].latest \in 1..n /\ e.runs[e.jobs[j].latest].job = j
    BY <1>1 DEF LatestIsOwn
  <2>1. CASE e.jobs[j] = d.jobs[j]
    <3>1. d.jobs[j].latest \in 1..n /\ d.runs[d.jobs[j].latest].job = j
      BY <2>1, <1>1 DEF Sound, LatestIsOwn
    <3> QED BY <2>1, <3>1, <1>4
  <2>2. CASE e.jobs[j] # d.jobs[j]
    BY <2>2, <1>3, <1>4
  <2> QED BY <2>1, <2>2
<1>9. Mirrors(e)
  <2> SUFFICES ASSUME NEW j \in Jobs, e.jobs[j].status # "absent"
               PROVE  \/ e.jobs[j].status = e.runs[e.jobs[j].latest].status
                      \/ /\ e.jobs[j].status = "Queued"
                         /\ \E i \in RunsIn(e, {"Queued"}) : e.runs[i].job = j
    BY DEF Mirrors
  <2>1. CASE e.jobs[j] = d.jobs[j] /\ \A i \in 1..n : d.runs[i].job = j => e.runs[i] = d.runs[i]
    <3>1. d.jobs[j].latest \in 1..n /\ d.runs[d.jobs[j].latest].job = j
      BY <2>1, <1>1 DEF Sound, LatestIsOwn
    <3>2. CASE d.jobs[j].status = d.runs[d.jobs[j].latest].status
      BY <2>1, <3>1, <3>2
    <3>3. CASE d.jobs[j].status = "Queued" /\ \E i \in RunsIn(d, {"Queued"}) : d.runs[i].job = j
      <4>1. PICK i \in RunsIn(d, {"Queued"}) : d.runs[i].job = j
        BY <3>3
      <4>2. i \in 1..n /\ e.runs[i] = d.runs[i] /\ d.runs[i].status = "Queued"
        BY <4>1, <2>1, <1>1 DEF RunsIn
      <4>3. i \in RunsIn(e, {"Queued"})
        BY <4>2, <1>1 DEF RunsIn
      <4> QED BY <2>1, <3>3, <4>1, <4>2, <4>3
    <3> QED BY <2>1, <3>2, <3>3, <1>1 DEF Sound, Mirrors
  <2>2. CASE e.jobs[j].status = fate /\ e.jobs[j].latest \in 1..n /\ Planned(d, e, e.jobs[j].latest, fate)
    BY <2>2 DEF Planned
  <2> QED BY <2>1, <2>2, <1>3
<1>10. ChargedWhole(e)
  <2> SUFFICES ASSUME NEW i \in RunsIn(e, {"Completed"}) PROVE <<i, 0>> \in e.ledger
    BY DEF ChargedWhole
  <2>1. i \in 1..n /\ e.runs[i].status = "Completed"
    BY <1>1 DEF RunsIn
  <2>2. e.runs[i] = d.runs[i]
    BY <2>1, <1>2 DEF Planned
  <2>3. i \in RunsIn(d, {"Completed"})
    BY <2>1, <2>2, <1>1 DEF RunsIn
  <2> QED BY <2>3, <1>1 DEF Sound, ChargedWhole
<1>11. e \in Good(n)
  BY <1>1, <1>6, <1>7, <1>8, <1>9, <1>10, GoodIs DEF Sound
<1> QED BY <1>11 DEF e

-----------------------------------------------------------------------------
\* What the workers hold.

Plans(n) == [Workers -> Seq(1..n)]

LEMMA HoldersAre ==
  ASSUME NEW n \in Nat, NEW ps \in Plans(n), NEW w \in Workers, NEW p \in Seq(1..n), NEW i
  PROVE  /\ [ps EXCEPT ![w] = p] \in Plans(n)
         /\ \A v \in Workers : v \in Holders([ps EXCEPT ![w] = p], i) <=> i \in Range(IF v = w THEN p ELSE ps[v])
         /\ \A v \in Workers : v \in Holders(ps, i) <=> i \in Range(ps[v])
         /\ Holders(ps, i) \subseteq Workers /\ Holders([ps EXCEPT ![w] = p], i) \subseteq Workers
         /\ Holders(ps, i) # {} => i \in 1..n
<1>1. ps \in [Workers -> Seq(1..n)]
  BY DEF Plans
<1>2. Holders(ps, i) # {} => i \in 1..n
  <2> SUFFICES ASSUME NEW v \in Workers, i \in Range(ps[v]) PROVE i \in 1..n
    BY DEF Holders
  <2>1. ps[v] \in Seq(1..n)
    BY <1>1
  <2>2. PICK k \in DOMAIN ps[v] : ps[v][k] = i
    BY DEF Range
  <2> QED BY <2>1, <2>2, LenProperties, ElementOfSeq
<1> QED BY <1>1, <1>2 DEF Plans, Holders

LEMMA PlansGrow ==
  ASSUME NEW n \in Nat, NEW m \in Nat, n <= m, NEW ps \in Plans(n)
  PROVE  ps \in Plans(m)
<1>1. ASSUME NEW s \in Seq(1..n) PROVE s \in Seq(1..m)
  <2>1. Len(s) \in Nat /\ s \in [1..Len(s) -> 1..n]
    BY LenProperties
  <2>2. s \in [1..Len(s) -> 1..m]
    BY <2>1
  <2> QED BY <2>1, <2>2, SeqDef
<1> QED BY <1>1 DEF Plans

\* A token of the queue goes to the worker that plans the run.
LEMMA PlannedTokens ==
  ASSUME NEW n \in 0..MaxRuns, NEW d \in Good(n), NEW a, NEW fate \in {"Skipped", "Failed", "Running"},
         PlannedAll(n, d, a, fate), NEW ps \in Plans(n), NEW w \in Workers, ps[w] = <<>>, NEW j \in Jobs
  PROVE  Cardinality(Tokens(a.db, [ps EXCEPT ![w] = a.plans], j)) <= Cardinality(Tokens(d, ps, j))
<1> DEFINE e   == a.db
           new == [ps EXCEPT ![w] = a.plans]
           S   == Tokens(d, ps, j)
           f   == [t \in S |-> IF t[1] = {} /\ t[2] \in 1..n /\ Planned(d, e, t[2], fate)
                               THEN IF fate = "Running" THEN <<{w}, t[2]>> ELSE <<{}, 0>>
                               ELSE t]
<1>n. n \in Nat /\ 0 \in 0..n /\ 0 \notin 1..n /\ 1..n \subseteq 0..n
  BY Constants
<1>1. /\ d \in Snapshots(n) /\ DOMAIN d.runs = 1..n
      /\ e \in Good(n) /\ e \in Snapshots(n) /\ DOMAIN e.runs = 1..n
  BY <1>n, PlannedStaysSound, GoodIs, SnapshotFields
<1>2. /\ \A i \in 1..n : e.runs[i] = d.runs[i] \/ Planned(d, e, i, fate)
      /\ a.plans \in Seq(1..n)
      /\ \A p \in DOMAIN a.plans : fate = "Running" /\ Planned(d, e, a.plans[p], fate)
      /\ fate = "Running" => \A i \in 1..n : Planned(d, e, i, fate) => \E p \in DOMAIN a.plans : a.plans[p] = i
  BY DEF PlannedAll
<1>3. \/ /\ e.jobs[j] = d.jobs[j]
         /\ \A i \in 1..n : d.runs[i].job = j => e.runs[i] = d.runs[i]
      \/ /\ e.jobs[j].status = fate /\ e.jobs[j].latest \in 1..n
         /\ d.runs[e.jobs[j].latest].job = j /\ Planned(d, e, e.jobs[j].latest, fate)
  BY DEF PlannedAll
<1>4. \A i : i \in Range(a.plans) => fate = "Running" /\ Planned(d, e, i, fate)
  BY <1>2 DEF Range
<1>5. \A i \in 1..n : fate = "Running" /\ Planned(d, e, i, fate) => i \in Range(a.plans)
  BY <1>2 DEF Range
<1>6. \A i : i \notin Range(<<>>)
  BY DEF Range
<1> HIDE DEF e
<1>7. \A i \in 1..n : e.runs[i].job = d.runs[i].job
  BY <1>2 DEF Planned
<1>8. ASSUME NEW i
      PROVE  /\ \A v \in Workers : v \in Holders(new, i) <=> i \in Range(IF v = w THEN a.plans ELSE ps[v])
             /\ \A v \in Workers : v \in Holders(ps, i) <=> i \in Range(ps[v])
             /\ Holders(ps, i) \subseteq Workers /\ Holders(new, i) \subseteq Workers
  <2> DEFINE p == a.plans
  <2>1. p \in Seq(1..n) /\ new = [ps EXCEPT ![w] = p]
    BY <1>2
  <2> HIDE DEF p
  <2>2. /\ \A v \in Workers : v \in Holders([ps EXCEPT ![w] = p], i) <=> i \in Range(IF v = w THEN p ELSE ps[v])
        /\ \A v \in Workers : v \in Holders(ps, i) <=> i \in Range(ps[v])
        /\ Holders(ps, i) \subseteq Workers /\ Holders([ps EXCEPT ![w] = p], i) \subseteq Workers
    BY <2>1, <1>n, HoldersAre
  <2> QED BY <2>1, <2>2 DEF p
<1> HIDE DEF new
<1>9. ASSUME NEW i \in 1..n, d.runs[i].job = j, Planned(d, e, i, fate) PROVE <<{}, i>> \in S
  <2>1. IsToken(d, ps, j, {}, i)
    BY <1>9, <1>1 DEF IsToken, Loose, Planned
  <2> QED BY <2>1, <1>1, <1>n, TokenIs
<1>10. ASSUME NEW holder, NEW i, <<holder, i>> \in Tokens(e, new, j)
       PROVE  \E t \in S : <<holder, i>> = f[t]
  <2>1. holder \in SUBSET Workers /\ i \in 0..n /\ IsToken(e, new, j, holder, i)
    BY <1>1, <1>10, <1>n, TokenIs
  <2>2. \A h, k : <<h, k>>[1] = h /\ <<h, k>>[2] = k
    OBVIOUS
  <2>3. ASSUME <<holder, i>> \in S, holder # {} \/ i = 0 \/ ~Planned(d, e, i, fate) PROVE <<holder, i>> = f[<<holder, i>>]
    BY <2>2, <2>3, <1>n
  <2>4. ASSUME i \in 1..n, d.runs[i].job = j, Planned(d, e, i, fate), fate = "Running"
        PROVE  <<{}, i>> \in S /\ f[<<{}, i>>] = <<{w}, i>>
    BY <2>2, <2>4, <1>9
  <2>5. ASSUME NEW k \in 1..n, d.runs[k].job = j, Planned(d, e, k, fate), fate # "Running"
        PROVE  <<{}, k>> \in S /\ f[<<{}, k>>] = <<{}, 0>>
    BY <2>2, <2>5, <1>9
  <2> HIDE DEF f
  <2>6. CASE i \in 1..n /\ e.runs[i].job = j /\ \E v \in Holders(new, i) : holder = {v}
    <3>1. PICK v \in Holders(new, i) : holder = {v}
      BY <2>6
    <3>2. v \in Workers /\ d.runs[i].job = j
      BY <3>1, <2>6, <1>7, <1>8
    <3>3. CASE v = w
      <4>1. i \in Range(a.plans)
        BY <3>2, <3>3, <1>8
      <4> QED BY <4>1, <3>1, <3>2, <3>3, <2>4, <2>6, <1>4
    <3>4. CASE v # w
      <4>1. v \in Holders(ps, i)
        BY <3>2, <3>4, <1>8
      <4>2. IsToken(d, ps, j, holder, i)
        BY <4>1, <3>1, <3>2, <2>6, <1>1 DEF IsToken
      <4>3. <<holder, i>> \in S
        BY <4>2, <2>1, <1>1, <1>n, TokenIs
      <4> QED BY <4>3, <3>1, <2>3
    <3> QED BY <3>3, <3>4
  <2>7. CASE i \in 1..n /\ e.runs[i].job = j /\ holder = {} /\ Loose(e, new, i)
    <3>1. d.runs[i].job = j
      BY <2>7, <1>7
    <3>2. ~Planned(d, e, i, fate)
      <4> SUFFICES ASSUME Planned(d, e, i, fate) PROVE FALSE
        OBVIOUS
      <4>1. e.runs[i].status = "Running" /\ e.runs[i].lease = "held" /\ fate = "Running"
        BY <2>7 DEF Planned, Loose
      <4>2. w \in Holders(new, i)
        BY <4>1, <2>7, <1>5, <1>8
      <4> QED BY <4>1, <4>2, <2>7 DEF Loose
    <3>3. e.runs[i] = d.runs[i]
      BY <2>7, <3>2, <1>2
    <3>4. Holders(ps, i) \subseteq Holders(new, i)
      BY <1>6, <1>8
    <3>5. Loose(d, ps, i)
      BY <2>7, <3>3, <3>4 DEF Loose
    <3>6. <<holder, i>> \in S
      BY <2>1, <2>7, <3>1, <3>5, <1>1, <1>n, TokenIs DEF IsToken
    <3> QED BY <3>2, <3>6, <2>3
  <2>8. CASE holder = {} /\ i = 0 /\ e.jobs[j].status # "absent" /\ Retryable(e, j)
    <3>1. CASE e.jobs[j] = d.jobs[j] /\ \A k \in 1..n : d.runs[k].job = j => e.runs[k] = d.runs[k]
      <4>1. d.jobs[j].latest \in 1..n /\ d.runs[d.jobs[j].latest].job = j
        BY <3>1, <2>8, GoodIs, <1>1 DEF Sound, LatestIsOwn
      <4>2. d.jobs[j].status # "absent" /\ Retryable(d, j)
        BY <2>8, <3>1, <4>1 DEF Retryable
      <4>3. <<holder, i>> \in S
        BY <2>1, <2>8, <4>2, <1>1, <1>n, TokenIs DEF IsToken
      <4> QED BY <4>3, <2>3, <2>8
    <3>2. CASE /\ e.jobs[j].latest \in 1..n /\ d.runs[e.jobs[j].latest].job = j
               /\ Planned(d, e, e.jobs[j].latest, fate)
      <4>1. fate # "Running"
        BY <3>2, <2>8 DEF Retryable, Planned
      <4> QED BY <3>2, <4>1, <2>5, <2>8
    <3> QED BY <3>1, <3>2, <1>3
  <2> QED BY <2>1, <2>6, <2>7, <2>8, <1>1 DEF IsToken
<1>11. \A t \in Tokens(e, new, j) : t = <<t[1], t[2]>>
  BY <1>1, <1>n, TokenIs
<1>12. Tokens(e, new, j) \subseteq {f[t] : t \in S}
  <2> HIDE DEF f
  <2> QED BY <1>10, <1>11
<1>13. IsFiniteSet(S)
  BY <1>1, <1>n, TokenIs
<1> HIDE DEF f, S
<1>14. Cardinality(Tokens(e, new, j)) <= Cardinality(S)
  BY <1>12, <1>13, NoMoreValues
<1> QED BY <1>14 DEF e, new, S

\* A worker that joins run i holds it; a lease that is not over is no token
\* of the queue then.
LEMMA JoinedTokens ==
  ASSUME NEW n \in 0..MaxRuns, NEW d \in Good(n), NEW ps \in Plans(n), NEW w \in Workers, ps[w] = <<>>,
         NEW i \in 1..n, NEW j \in Jobs
  PROVE  LET new == [ps EXCEPT ![w] = <<i>>] IN
         /\ new \in Plans(n)
         /\ d.runs[i].job # j => Tokens(d, new, j) \subseteq Tokens(d, ps, j)
         /\ Tokens(d, new, j) \subseteq Tokens(d, ps, j) \union {<<{w}, i>>}
         /\ d.runs[i].status = "Running" /\ d.runs[i].lease # "expired" =>
              Tokens(d, new, j) \subseteq (Tokens(d, ps, j) \ {<<{}, i>>}) \union {<<{w}, i>>}
<1> DEFINE p   == <<i>>
           new == [ps EXCEPT ![w] = p]
<1>n. n \in Nat
  BY Constants
<1>1. d \in Snapshots(n) /\ DOMAIN d.runs = 1..n
  BY <1>n, GoodIs, SnapshotFields
<1>2. p \in Seq(1..n) /\ \A k : k \in Range(p) <=> k = i
  <2>1. p \in Seq(1..n) /\ DOMAIN p = {1} /\ p[1] = i
    OBVIOUS
  <2> HIDE DEF p
  <2> QED BY <2>1 DEF Range
<1>3. \A k : k \notin Range(<<>>)
  BY DEF Range
<1> HIDE DEF p
<1>4. ASSUME NEW k
      PROVE  /\ \A v \in Workers : v \in Holders(new, k) <=> k \in Range(IF v = w THEN p ELSE ps[v])
             /\ \A v \in Workers : v \in Holders(ps, k) <=> k \in Range(ps[v])
             /\ Holders(ps, k) \subseteq Workers /\ Holders(new, k) \subseteq Workers
  BY <1>2, <1>n, HoldersAre
<1>5. new \in Plans(n)
  BY <1>2, <1>n, HoldersAre
<1> HIDE DEF new
<1>6. \A k : Holders(ps, k) \subseteq Holders(new, k)
  BY <1>3, <1>4
<1>7. ASSUME NEW holder, NEW k, <<holder, k>> \in Tokens(d, new, j)
      PROVE  \/ holder = {w} /\ k = i /\ d.runs[i].job = j
             \/ /\ <<holder, k>> \in Tokens(d, ps, j)
                /\ d.runs[i].status = "Running" /\ d.runs[i].lease # "expired" => <<holder, k>> # <<{}, i>>
  <2>1. holder \in SUBSET Workers /\ k \in 0..n /\ IsToken(d, new, j, holder, k)
    BY <1>1, <1>7, <1>n, TokenIs
  <2>2. CASE k \in 1..n /\ d.runs[k].job = j /\ \E v \in Holders(new, k) : holder = {v}
    <3>1. PICK v \in Holders(new, k) : holder = {v}
      BY <2>2
    <3>2. v \in Workers
      BY <1>4
    <3>3. CASE v = w
      BY <3>1, <3>2, <3>3, <2>2, <1>2, <1>4
    <3>4. CASE v # w
      <4>1. v \in Holders(ps, k)
        BY <3>2, <3>4, <1>4
      <4>2. IsToken(d, ps, j, holder, k)
        BY <4>1, <3>1, <2>2, <1>1 DEF IsToken
      <4> QED BY <4>2, <3>1, <2>1, <1>1, <1>n, TokenIs
    <3> QED BY <3>3, <3>4
  <2>3. CASE k \in 1..n /\ d.runs[k].job = j /\ holder = {} /\ Loose(d, new, k)
    <3>1. Loose(d, ps, k)
      BY <2>3, <1>6 DEF Loose
    <3>2. <<holder, k>> \in Tokens(d, ps, j)
      BY <2>1, <2>3, <3>1, <1>1, <1>n, TokenIs DEF IsToken
    <3>3. w \in Holders(new, i)
      BY <1>2, <1>4
    <3> QED BY <2>3, <3>2, <3>3 DEF Loose
  <2>4. CASE holder = {} /\ k = 0 /\ d.jobs[j].status # "absent" /\ Retryable(d, j)
    <3>1. <<holder, k>> \in Tokens(d, ps, j) /\ k # i
      BY <2>1, <2>4, <1>1, <1>n, TokenIs DEF IsToken
    <3> QED BY <3>1
  <2> QED BY <2>1, <2>2, <2>3, <2>4, <1>1 DEF IsToken
<1>8. \A t \in Tokens(d, new, j) : t = <<t[1], t[2]>>
  BY <1>1, <1>n, TokenIs
<1>9. d.runs[i].job # j => Tokens(d, new, j) \subseteq Tokens(d, ps, j)
  BY <1>7, <1>8
<1>10. Tokens(d, new, j) \subseteq Tokens(d, ps, j) \union {<<{w}, i>>}
  BY <1>7, <1>8
<1>11. ASSUME d.runs[i].status = "Running", d.runs[i].lease # "expired"
       PROVE  Tokens(d, new, j) \subseteq (Tokens(d, ps, j) \ {<<{}, i>>}) \union {<<{w}, i>>}
  BY <1>7, <1>8, <1>11
<1> QED BY <1>5, <1>9, <1>10, <1>11 DEF new, p

LEMMA HeadAndTail ==
  ASSUME NEW n \in Nat, NEW q \in Seq(1..n), q # <<>>, \A k, l \in DOMAIN q : q[k] = q[l] => k = l
  PROVE  /\ Tail(q) \in Seq(1..n) /\ Head(q) \in 1..n /\ Head(q) \in Range(q)
         /\ \A k : k \in Range(Tail(q)) <=> k \in Range(q) /\ k # Head(q)
         /\ \A k, l \in DOMAIN Tail(q) : Tail(q)[k] = Tail(q)[l] => k = l
         /\ Len(q) = 1 <=> Tail(q) = <<>>
<1>1. Len(q) \in Nat /\ DOMAIN q = 1..Len(q) /\ Len(q) # 0
  BY LenProperties, EmptySeq
<1>2. /\ Tail(q) \in Seq(1..n) /\ Len(Tail(q)) = Len(q) - 1
      /\ \A k \in 1..Len(Tail(q)) : Tail(q)[k] = q[k + 1]
      /\ Head(q) = q[1] /\ Head(q) \in 1..n
  BY HeadTailProperties
<1>3. DOMAIN Tail(q) = 1..(Len(q) - 1)
  BY <1>2, LenProperties
<1>4. ASSUME NEW k \in Range(Tail(q)) PROVE k \in Range(q) /\ k # Head(q)
  <2>1. PICK l \in 1..(Len(q) - 1) : Tail(q)[l] = k
    BY <1>3 DEF Range
  <2>2. l + 1 \in DOMAIN q /\ 1 \in DOMAIN q /\ l + 1 # 1 /\ q[l + 1] = k
    BY <2>1, <1>1, <1>2
  <2> QED BY <2>2, <1>2 DEF Range
<1>5. ASSUME NEW k \in Range(q), k # Head(q) PROVE k \in Range(Tail(q))
  <2>1. PICK l \in DOMAIN q : q[l] = k
    BY DEF Range
  <2>2. l # 1
    BY <2>1, <1>2, <1>5
  <2>3. l - 1 \in 1..(Len(q) - 1) /\ (l - 1) + 1 = l
    BY <2>2, <1>1
  <2>4. Tail(q)[l - 1] = k
    BY <2>1, <2>3, <1>2
  <2> QED BY <2>3, <2>4, <1>3 DEF Range
<1>6. ASSUME NEW k \in DOMAIN Tail(q), NEW l \in DOMAIN Tail(q), Tail(q)[k] = Tail(q)[l] PROVE k = l
  <2>1. k + 1 \in DOMAIN q /\ l + 1 \in DOMAIN q /\ q[k + 1] = q[l + 1]
    BY <1>1, <1>2, <1>3, <1>6, SMTT(60)
  <2>2. k + 1 = l + 1
    BY <2>1
  <2> QED BY <2>2, <1>3
<1>7. Len(q) = 1 <=> Tail(q) = <<>>
  <2>1. Len(Tail(q)) = 0 <=> Tail(q) = <<>>
    BY <1>2, EmptySeq
  <2> QED BY <2>1, <1>1, <1>2, SMTT(60)
<1>8. Head(q) \in Range(q)
  BY <1>1, <1>2 DEF Range
<1> QED BY <1>2, <1>4, <1>5, <1>6, <1>7, <1>8

\* The settled run is the first that the worker holds.
LEMMA SettledTokens ==
  ASSUME NEW n \in 0..MaxRuns, NEW d \in Good(n), NEW ps \in Plans(n), NEW w \in Workers, ps[w] # <<>>,
         \A k, l \in DOMAIN ps[w] : ps[w][k] = ps[w][l] => k = l,
         d.runs[Head(ps[w])].status \notin Active, NEW j \in Jobs
  PROVE  LET new == [ps EXCEPT ![w] = Tail(ps[w])] IN
         /\ new \in Plans(n)
         /\ Tokens(d, new, j) \subseteq Tokens(d, ps, j) \ {<<{w}, Head(ps[w])>>}
<1> DEFINE i   == Head(ps[w])
           p   == Tail(ps[w])
           new == [ps EXCEPT ![w] = p]
<1>n. n \in Nat
  BY Constants
<1>1. d \in Snapshots(n) /\ DOMAIN d.runs = 1..n
  BY <1>n, GoodIs, SnapshotFields
<1>2. ps[w] \in Seq(1..n)
  BY DEF Plans
<1>3. /\ p \in Seq(1..n) /\ i \in 1..n
      /\ \A k : k \in Range(p) <=> k \in Range(ps[w]) /\ k # i
  BY <1>n, <1>2, HeadAndTail
<1> HIDE DEF p, i
<1>4. ASSUME NEW k
      PROVE  /\ \A v \in Workers : v \in Holders(new, k) <=> k \in Range(IF v = w THEN p ELSE ps[v])
             /\ \A v \in Workers : v \in Holders(ps, k) <=> k \in Range(ps[v])
             /\ Holders(ps, k) \subseteq Workers /\ Holders(new, k) \subseteq Workers
  BY <1>3, <1>n, HoldersAre
<1>5. new \in Plans(n)
  BY <1>3, <1>n, HoldersAre
<1> HIDE DEF new
<1>6. ASSUME NEW holder, NEW k, <<holder, k>> \in Tokens(d, new, j)
      PROVE  <<holder, k>> \in Tokens(d, ps, j) /\ <<holder, k>> # <<{w}, i>>
  <2>1. holder \in SUBSET Workers /\ k \in 0..n /\ IsToken(d, new, j, holder, k)
    BY <1>1, <1>6, <1>n, TokenIs
  <2>2. CASE k \in 1..n /\ d.runs[k].job = j /\ \E v \in Holders(new, k) : holder = {v}
    <3>1. PICK v \in Holders(new, k) : holder = {v}
      BY <2>2
    <3>2. v \in Workers
      BY <1>4
    <3>3. v \in Holders(ps, k) /\ (v = w => k # i)
      BY <3>2, <1>3, <1>4
    <3>4. IsToken(d, ps, j, holder, k)
      BY <3>1, <3>3, <2>2, <1>1 DEF IsToken
    <3>5. <<holder, k>> # <<{w}, i>>
      BY <3>1, <3>3
    <3> QED BY <3>4, <3>5, <2>1, <1>1, <1>n, TokenIs
  <2>3. CASE k \in 1..n /\ d.runs[k].job = j /\ holder = {} /\ Loose(d, new, k)
    <3>1. k # i
      BY <2>3 DEF Loose, Active, i
    <3>2. Holders(ps, k) \subseteq Holders(new, k)
      BY <3>1, <1>3, <1>4
    <3>3. Loose(d, ps, k)
      BY <2>3, <3>2 DEF Loose
    <3> QED BY <2>1, <2>3, <3>3, <1>1, <1>n, TokenIs DEF IsToken
  <2>4. CASE holder = {} /\ k = 0 /\ d.jobs[j].status # "absent" /\ Retryable(d, j)
    BY <2>1, <2>4, <1>1, <1>n, TokenIs DEF IsToken
  <2> QED BY <2>1, <2>2, <2>3, <2>4, <1>1 DEF IsToken
<1>7. \A t \in Tokens(d, new, j) : t = <<t[1], t[2]>>
  BY <1>1, <1>n, TokenIs
<1>8. Tokens(d, new, j) \subseteq Tokens(d, ps, j) \ {<<{w}, i>>}
  BY <1>6, <1>7
<1> QED BY <1>5, <1>8 DEF new, p, i

\* What a worker held when it died is recovered by somebody.
LEMMA DroppedTokens ==
  ASSUME NEW n \in 0..MaxRuns, NEW d \in Good(n), NEW ps \in Plans(n), NEW w \in Workers, NEW j \in Jobs
  PROVE  LET new == [ps EXCEPT ![w] = <<>>] IN
         /\ new \in Plans(n)
         /\ Cardinality(Tokens(d, new, j)) <= Cardinality(Tokens(d, ps, j))
<1> DEFINE p   == <<>>
           new == [ps EXCEPT ![w] = p]
           S   == Tokens(d, ps, j)
           f   == [t \in S |-> IF t[1] = {w} THEN <<{}, t[2]>> ELSE t]
<1>n. n \in Nat
  BY Constants
<1>1. d \in Snapshots(n) /\ DOMAIN d.runs = 1..n
  BY <1>n, GoodIs, SnapshotFields
<1>2. p \in Seq(1..n) /\ \A k : k \notin Range(p)
  BY DEF Range
<1> HIDE DEF p
<1>3. ASSUME NEW k
      PROVE  /\ \A v \in Workers : v \in Holders(new, k) <=> k \in Range(IF v = w THEN p ELSE ps[v])
             /\ \A v \in Workers : v \in Holders(ps, k) <=> k \in Range(ps[v])
             /\ Holders(ps, k) \subseteq Workers /\ Holders(new, k) \subseteq Workers
  BY <1>2, <1>n, HoldersAre
<1>4. new \in Plans(n)
  BY <1>2, <1>n, HoldersAre
<1> HIDE DEF new
<1>5. \A k : \A v \in Workers : v \in Holders(new, k) <=> v # w /\ v \in Holders(ps, k)
  BY <1>2, <1>3
<1>6. ASSUME NEW holder, NEW k, <<holder, k>> \in Tokens(d, new, j)
      PROVE  \E t \in S : <<holder, k>> = f[t]
  <2>1. holder \in SUBSET Workers /\ k \in 0..n /\ IsToken(d, new, j, holder, k)
    BY <1>1, <1>6, <1>n, TokenIs
  <2>2. \A h, l : <<h, l>>[1] = h /\ <<h, l>>[2] = l
    OBVIOUS
  <2>3. ASSUME <<holder, k>> \in S, holder # {w} PROVE <<holder, k>> = f[<<holder, k>>]
    BY <2>2, <2>3
  <2>4. ASSUME <<{w}, k>> \in S PROVE f[<<{w}, k>>] = <<{}, k>>
    BY <2>2, <2>4
  <2> HIDE DEF f
  <2>5. CASE k \in 1..n /\ d.runs[k].job = j /\ \E v \in Holders(new, k) : holder = {v}
    <3>1. PICK v \in Holders(new, k) : holder = {v}
      BY <2>5
    <3>2. v \in Holders(ps, k) /\ v # w
      BY <1>3, <1>5
    <3>3. <<holder, k>> \in S
      BY <3>1, <3>2, <2>1, <2>5, <1>1, <1>n, TokenIs DEF IsToken
    <3>4. holder # {w}
      BY <3>1, <3>2
    <3> QED BY <3>3, <3>4, <2>3
  <2>6. CASE k \in 1..n /\ d.runs[k].job = j /\ holder = {} /\ Loose(d, new, k)
    <3>1. CASE Loose(d, ps, k)
      <4>1. <<holder, k>> \in S
        BY <3>1, <2>1, <2>6, <1>1, <1>n, TokenIs DEF IsToken
      <4> QED BY <4>1, <2>3, <2>6
    <3>2. CASE ~Loose(d, ps, k)
      <4>1. Holders(new, k) = {} /\ Holders(ps, k) # {}
        BY <3>2, <2>6 DEF Loose
      <4>2. w \in Holders(ps, k)
        BY <4>1, <1>3, <1>5
      <4>3. {w} \in SUBSET Workers
        OBVIOUS
      <4>4. <<{w}, k>> \in S
        BY <4>2, <4>3, <2>1, <2>6, <1>1, <1>n, TokenIs DEF IsToken
      <4> QED BY <4>4, <2>4, <2>6
    <3> QED BY <3>1, <3>2
  <2>7. CASE holder = {} /\ k = 0 /\ d.jobs[j].status # "absent" /\ Retryable(d, j)
    <3>1. <<holder, k>> \in S
      BY <2>1, <2>7, <1>1, <1>n, TokenIs DEF IsToken
    <3> QED BY <3>1, <2>3, <2>7
  <2> QED BY <2>1, <2>5, <2>6, <2>7, <1>1 DEF IsToken
<1>7. \A t \in Tokens(d, new, j) : t = <<t[1], t[2]>>
  BY <1>1, <1>n, TokenIs
<1>8. Tokens(d, new, j) \subseteq {f[t] : t \in S}
  <2> HIDE DEF f
  <2> QED BY <1>6, <1>7
<1>9. IsFiniteSet(S)
  BY <1>1, <1>n, TokenIs
<1> HIDE DEF f, S
<1>10. Cardinality(Tokens(d, new, j)) <= Cardinality(S)
  BY <1>8, <1>9, NoMoreValues
<1> QED BY <1>4, <1>10 DEF S, new, p

-----------------------------------------------------------------------------
\* Time passes: leases, windows and times of retry change, nothing else.

Touched(n, d, e) ==
  /\ e \in Snapshots(n) /\ e.ledger = d.ledger
  /\ \A k \in 1..n : /\ e.runs[k].job = d.runs[k].job /\ e.runs[k].status = d.runs[k].status
                     /\ e.runs[k].attempt = d.runs[k].attempt
  /\ \A j \in Jobs : e.jobs[j].status = d.jobs[j].status /\ e.jobs[j].latest = d.jobs[j].latest

LEMMA TouchedStaysSound ==
  ASSUME NEW n \in 0..MaxRuns, NEW d \in Good(n), NEW e, Touched(n, d, e)
  PROVE  e \in Good(n)
<1>1. /\ d \in Snapshots(n) /\ Sound(d) /\ DOMAIN d.runs = 1..n
      /\ e \in Snapshots(n) /\ DOMAIN e.runs = 1..n
  BY Constants, GoodIs, SnapshotFields DEF Touched
<1>2. /\ e.ledger = d.ledger
      /\ \A k \in 1..n : /\ e.runs[k].job = d.runs[k].job /\ e.runs[k].status = d.runs[k].status
                         /\ e.runs[k].attempt = d.runs[k].attempt
      /\ \A j \in Jobs : e.jobs[j].status = d.jobs[j].status /\ e.jobs[j].latest = d.jobs[j].latest
  BY DEF Touched
<1>3. AttemptsLeft(e)
  BY <1>1, <1>2 DEF Sound, AttemptsLeft
<1>4. NoneOfAbsent(e)
  <2> SUFFICES ASSUME NEW k \in 1..n PROVE e.jobs[e.runs[k].job].status # "absent"
    BY <1>1 DEF NoneOfAbsent
  <2>1. d.runs[k] \in Runs
    BY <1>1, Constants, SnapshotFields
  <2>2. d.runs[k].job \in Jobs /\ d.jobs[d.runs[k].job].status # "absent"
    BY <2>1, <1>1, RunFields DEF Sound, NoneOfAbsent
  <2> QED BY <2>2, <1>2
<1>5. LatestIsOwn(e)
  BY <1>1, <1>2 DEF Sound, LatestIsOwn
<1>6. \A S : RunsIn(e, S) = RunsIn(d, S)
  BY <1>1, <1>2 DEF RunsIn
<1>7. Mirrors(e)
  <2> SUFFICES ASSUME NEW j \in Jobs, e.jobs[j].status # "absent"
               PROVE  \/ e.jobs[j].status = e.runs[e.jobs[j].latest].status
                      \/ /\ e.jobs[j].status = "Queued"
                         /\ \E i \in RunsIn(e, {"Queued"}) : e.runs[i].job = j
    BY DEF Mirrors
  <2>1. d.jobs[j].latest \in 1..n
    BY <1>1, <1>2 DEF Sound, LatestIsOwn
  <2>2. \A i \in RunsIn(d, {"Queued"}) : e.runs[i].job = d.runs[i].job
    BY <1>1, <1>2 DEF RunsIn
  <2>3. \/ d.jobs[j].status = d.runs[d.jobs[j].latest].status
        \/ /\ d.jobs[j].status = "Queued"
           /\ \E i \in RunsIn(d, {"Queued"}) : d.runs[i].job = j
    BY <1>1, <1>2 DEF Sound, Mirrors
  <2> QED BY <2>1, <2>2, <2>3, <1>2, <1>6
<1>8. ChargedWhole(e)
  BY <1>1, <1>2, <1>6 DEF Sound, ChargedWhole
<1> QED BY <1>1, <1>3, <1>4, <1>5, <1>7, <1>8, GoodIs DEF Sound

LEMMA TouchedTokens ==
  ASSUME NEW n \in 0..MaxRuns, NEW d \in Good(n), NEW e, Touched(n, d, e), NEW ps, NEW j \in Jobs, NEW i \in 0..n,
         \A k \in (1..n) \ {i} : e.runs[k].lease = d.runs[k].lease
  PROVE  /\ i = 0 => Tokens(e, ps, j) \subseteq Tokens(d, ps, j)
         /\ Tokens(e, ps, j) \subseteq Tokens(d, ps, j) \union {<<{}, i>>}
<1>n. n \in Nat
  BY Constants
<1>1. /\ d \in Snapshots(n) /\ DOMAIN d.runs = 1..n /\ e \in Snapshots(n) /\ DOMAIN e.runs = 1..n /\ Sound(d)
  BY <1>n, GoodIs, SnapshotFields DEF Touched
<1>2. /\ \A k \in 1..n : /\ e.runs[k].job = d.runs[k].job /\ e.runs[k].status = d.runs[k].status
                         /\ e.runs[k].attempt = d.runs[k].attempt
      /\ \A other \in Jobs : e.jobs[other].status = d.jobs[other].status /\ e.jobs[other].latest = d.jobs[other].latest
  BY DEF Touched
<1>3. ASSUME NEW holder, NEW k, <<holder, k>> \in Tokens(e, ps, j)
      PROVE  \/ <<holder, k>> \in Tokens(d, ps, j)
             \/ holder = {} /\ k = i /\ i # 0
  <2>1. holder \in SUBSET Workers /\ k \in 0..n /\ IsToken(e, ps, j, holder, k)
    BY <1>1, <1>3, <1>n, TokenIs
  <2>2. CASE k \in 1..n /\ e.runs[k].job = j /\ \E v \in Holders(ps, k) : holder = {v}
    BY <2>1, <2>2, <1>1, <1>2, <1>n, TokenIs DEF IsToken
  <2>3. CASE k \in 1..n /\ e.runs[k].job = j /\ holder = {} /\ Loose(e, ps, k)
    <3>1. CASE k = i
      BY <3>1, <2>3
    <3>2. CASE k # i
      <4>1. Loose(d, ps, k)
        BY <3>2, <2>3, <1>2 DEF Loose
      <4> QED BY <2>1, <2>3, <4>1, <1>1, <1>2, <1>n, TokenIs DEF IsToken
    <3> QED BY <3>1, <3>2
  <2>4. CASE holder = {} /\ k = 0 /\ e.jobs[j].status # "absent" /\ Retryable(e, j)
    <3>1. d.jobs[j].latest \in 1..n
      BY <2>4, <1>1, <1>2 DEF Sound, LatestIsOwn
    <3>2. d.jobs[j].status # "absent" /\ Retryable(d, j)
      BY <3>1, <2>4, <1>2 DEF Retryable
    <3> QED BY <2>1, <2>4, <3>2, <1>1, <1>n, TokenIs DEF IsToken
  <2> QED BY <2>1, <2>2, <2>3, <2>4, <1>1 DEF IsToken
<1>4. \A t \in Tokens(e, ps, j) : t = <<t[1], t[2]>>
  BY <1>1, <1>n, TokenIs
<1>5. Tokens(e, ps, j) \subseteq Tokens(d, ps, j) \union {<<{}, i>>}
  BY <1>3, <1>4
<1>6. i = 0 => Tokens(e, ps, j) \subseteq Tokens(d, ps, j)
  BY <1>3, <1>4
<1> QED BY <1>5, <1>6

LEMMA LeaseTouches ==
  ASSUME NEW n \in 0..MaxRuns, NEW d \in Snapshots(n), NEW i \in 1..n
  PROVE  LET e == [d EXCEPT !.runs[i].lease = "expired"] IN
         /\ Touched(n, d, e)
         /\ \A k \in (1..n) \ {i} : e.runs[k].lease = d.runs[k].lease
         /\ e.runs[i].lease = "expired"
<1> DEFINE r == [d.runs[i] EXCEPT !.lease = "expired"]
           e == [d EXCEPT !.runs[i] = r]
<1>n. n \in Nat
  BY Constants
<1>1. d.runs[i] \in Runs
  BY <1>n, SnapshotFields
<1>2. /\ r \in Runs /\ r.job = d.runs[i].job /\ r.status = d.runs[i].status /\ r.attempt = d.runs[i].attempt
      /\ r.lease = "expired"
  BY <1>1, StatusesAre DEF Runs
<1>3. [d EXCEPT !.runs[i].lease = "expired"] = e
  OBVIOUS
<1> HIDE DEF r
<1>4. /\ e \in Snapshots(n) /\ e.ledger = d.ledger /\ e.jobs = d.jobs
      /\ e.runs[i] = r /\ \A k \in (1..n) \ {i} : e.runs[k] = d.runs[k]
  BY <1>n, <1>2 DEF Snapshots
<1> HIDE DEF e
<1>5. /\ Touched(n, d, e) /\ e.runs[i].lease = "expired"
      /\ \A k \in (1..n) \ {i} : e.runs[k].lease = d.runs[k].lease
  BY <1>2, <1>4 DEF Touched
<1> QED BY <1>3, <1>5

LEMMA WindowTouches ==
  ASSUME NEW n \in 0..MaxRuns, NEW d \in Snapshots(n), NEW i \in 1..n
  PROVE  LET e == [d EXCEPT !.runs[i].recent = FALSE] IN
         Touched(n, d, e) /\ \A k \in 1..n : e.runs[k].lease = d.runs[k].lease
<1> DEFINE r == [d.runs[i] EXCEPT !.recent = FALSE]
           e == [d EXCEPT !.runs[i] = r]
<1>n. n \in Nat
  BY Constants
<1>1. d.runs[i] \in Runs
  BY <1>n, SnapshotFields
<1>2. /\ r \in Runs /\ r.job = d.runs[i].job /\ r.status = d.runs[i].status /\ r.attempt = d.runs[i].attempt
      /\ r.lease = d.runs[i].lease
  BY <1>1 DEF Runs
<1>3. [d EXCEPT !.runs[i].recent = FALSE] = e
  OBVIOUS
<1> HIDE DEF r
<1>4. /\ e \in Snapshots(n) /\ e.ledger = d.ledger /\ e.jobs = d.jobs
      /\ e.runs[i] = r /\ \A k \in (1..n) \ {i} : e.runs[k] = d.runs[k]
  BY <1>n, <1>2 DEF Snapshots
<1> HIDE DEF e
<1>5. Touched(n, d, e) /\ \A k \in 1..n : e.runs[k].lease = d.runs[k].lease
  BY <1>2, <1>4 DEF Touched
<1> QED BY <1>3, <1>5

LEMMA DueTouches ==
  ASSUME NEW n \in 0..MaxRuns, NEW d \in Snapshots(n), NEW j \in Jobs
  PROVE  LET e == [d EXCEPT !.jobs[j].retryAt = "due"] IN Touched(n, d, e) /\ e.runs = d.runs
<1> DEFINE r == [d.jobs[j] EXCEPT !.retryAt = "due"]
           e == [d EXCEPT !.jobs[j] = r]
<1>n. n \in Nat
  BY Constants
<1>1. d.jobs[j] \in JobRows
  BY <1>n, SnapshotFields
<1>2. r \in JobRows /\ r.status = d.jobs[j].status /\ r.latest = d.jobs[j].latest
  BY <1>1 DEF JobRows
<1>3. [d EXCEPT !.jobs[j].retryAt = "due"] = e
  OBVIOUS
<1> HIDE DEF r
<1>4. /\ e \in Snapshots(n) /\ e.ledger = d.ledger /\ e.runs = d.runs
      /\ e.jobs[j] = r /\ \A other \in Jobs \ {j} : e.jobs[other] = d.jobs[other]
  BY <1>n, <1>2 DEF Snapshots
<1> HIDE DEF e
<1>5. Touched(n, d, e) /\ e.runs = d.runs
  BY <1>2, <1>4 DEF Touched
<1> QED BY <1>3, <1>5

-----------------------------------------------------------------------------
\* A new job, with its first run.

Started(n, d, e, j, status) ==
  /\ e \in Snapshots(n + 1) /\ e.ledger = d.ledger
  /\ \A k \in 1..n : e.runs[k] = d.runs[k]
  /\ e.runs[n + 1].job = j /\ e.runs[n + 1].status = status
  /\ e.jobs[j].status = status /\ e.jobs[j].latest = n + 1
  /\ \A other \in Jobs \ {j} : e.jobs[other] = d.jobs[other]

LEMMA NewRunStarts ==
  ASSUME NEW n \in Nat, n + 1 <= MaxRuns, NEW d \in Snapshots(n), NEW j \in Jobs, NEW status \in Active
  PROVE  Started(n, d, NewRun(d, j, status, 1), j, status)
<1> DEFINE r == [job |-> j, status |-> status, attempt |-> 1, lease |-> "none", recent |-> FALSE]
           w == [d.jobs[j] EXCEPT !.status = status, !.latest = n + 1]
           runs == Append(d.runs, r)
           rows == [d.jobs EXCEPT ![j] = w]
           e == NewRun(d, j, status, 1)
<1>1. /\ d.jobs \in [Jobs -> JobRows] /\ d.runs \in Seq(Runs) /\ Len(d.runs) = n /\ d.ledger \in SUBSET Entries(n)
  BY SnapshotFields
<1>2. r \in Runs /\ r.job = j /\ r.status = status
  <2>1. 1 \in 1..MaxAttempts /\ FALSE \in BOOLEAN
    BY Constants
  <2>2. status \in Statuses /\ "none" \in Leases
    BY StatusesAre DEF Active
  <2> QED BY <2>1, <2>2, MadeRun
<1>3. w \in JobRows /\ w.status = status /\ w.latest = n + 1
  <2>1. n + 1 \in 0..MaxRuns
    BY Constants
  <2>2. d.jobs[j] \in JobRows
    BY <1>1
  <2>3. status \in Statuses
    BY StatusesAre DEF Active
  <2> QED BY <2>1, <2>2, <2>3 DEF JobRows
<1>4. e = [d EXCEPT !.runs = runs, !.jobs = rows]
  <2>1. e = [d EXCEPT !.runs = runs, !.jobs[j].status = status, !.jobs[j].latest = n + 1]
    BY <1>1 DEF NewRun
  <2> HIDE DEF e, runs
  <2> QED BY <2>1, <1>1 DEF Snapshots
<1> HIDE DEF r, w, e
<1>5. /\ runs \in Seq(Runs) /\ Len(runs) = n + 1
      /\ \A k \in 1..n : runs[k] = d.runs[k]
      /\ runs[n + 1] = r
  BY <1>1, <1>2, AppendProperties
<1> HIDE DEF runs
<1>6. runs \in [1..(n + 1) -> Runs]
  BY <1>5, LenProperties
<1>7. rows \in [Jobs -> JobRows] /\ rows[j] = w /\ \A other \in Jobs \ {j} : rows[other] = d.jobs[other]
  BY <1>1, <1>3
<1> HIDE DEF rows
<1>8. e \in Snapshots(n + 1) /\ e.runs = runs /\ e.jobs = rows /\ e.ledger = d.ledger
  <2>1. d.ledger \in SUBSET Entries(n + 1)
    <3>1. d.ledger \in SUBSET Entries(n) /\ \A k \in 1..n : k \in 1..(n + 1)
      BY <1>1
    <3> QED BY <3>1 DEF Entries
  <2> QED BY <2>1, <1>4, <1>6, <1>7 DEF Snapshots
<1>9. Started(n, d, e, j, status)
  BY <1>2, <1>3, <1>5, <1>7, <1>8 DEF Started
<1> QED BY <1>9 DEF e

LEMMA StartedStaysSound ==
  ASSUME NEW n \in Nat, n + 1 <= MaxRuns, NEW d \in Good(n), NEW j \in Jobs, d.jobs[j].status = "absent",
         NEW status \in Active, NEW e, Started(n, d, e, j, status), NEW ps \in Plans(n)
  PROVE  /\ e \in Good(n + 1)
         /\ \A other \in Jobs \ {j} : Tokens(e, ps, other) \subseteq Tokens(d, ps, other)
         /\ Cardinality(Tokens(e, ps, j)) <= 1
<1>n. n + 1 \in Nat /\ 0 \notin 1..n /\ n + 1 \notin 1..n /\ \A k \in 1..(n + 1) : k = n + 1 \/ k \in 1..n
  OBVIOUS
<1>g. \A k \in 1..n : k \in 1..(n + 1) /\ k \in 0..n
  OBVIOUS
<1>0. n + 1 \in 1..(n + 1) /\ 0 \in 0..n
  OBVIOUS
<1>1. /\ d \in Snapshots(n) /\ Sound(d) /\ DOMAIN d.runs = 1..n
      /\ e \in Snapshots(n + 1) /\ DOMAIN e.runs = 1..(n + 1)
  BY <1>n, GoodIs, SnapshotFields DEF Started
<1>2. /\ e.ledger = d.ledger
      /\ \A k \in 1..n : e.runs[k] = d.runs[k]
      /\ e.runs[n + 1].job = j /\ e.runs[n + 1].status = status
      /\ e.jobs[j].status = status /\ e.jobs[j].latest = n + 1
      /\ \A other \in Jobs \ {j} : e.jobs[other] = d.jobs[other]
  BY DEF Started
<1>3. status \in {"Queued", "Running"}
  BY DEF Active
<1>4. \A k \in 1..n : d.runs[k].job # j /\ d.runs[k].job \in Jobs /\ d.jobs[d.runs[k].job].status # "absent"
  <2> TAKE k \in 1..n
  <2>1. d.runs[k] \in Runs
    BY <1>1, SnapshotFields
  <2> QED BY <2>1, <1>1, RunFields DEF Sound, NoneOfAbsent
<1>5. ASSUME NEW other \in Jobs \ {j}, d.jobs[other].status # "absent"
      PROVE  d.jobs[other].latest \in 1..n /\ d.runs[d.jobs[other].latest].job = other
  BY <1>1, <1>5 DEF Sound, LatestIsOwn
<1>6. AttemptsLeft(e)
  BY <1>1, <1>2, <1>3, <1>n DEF Sound, AttemptsLeft
<1>7. NoneOfAbsent(e)
  <2> SUFFICES ASSUME NEW k \in 1..(n + 1) PROVE e.jobs[e.runs[k].job].status # "absent"
    BY <1>1 DEF NoneOfAbsent
  <2>1. CASE k = n + 1
    BY <2>1, <1>2, <1>3
  <2>2. CASE k \in 1..n
    BY <2>2, <1>2, <1>4
  <2> QED BY <2>1, <2>2, <1>n
<1>8. LatestIsOwn(e)
  <2> SUFFICES ASSUME NEW other \in Jobs, e.jobs[other].status # "absent"
               PROVE  e.jobs[other].latest \in 1..(n + 1) /\ e.runs[e.jobs[other].latest].job = other
    BY <1>1 DEF LatestIsOwn
  <2>1. CASE other = j
    BY <2>1, <1>0, <1>2
  <2>2. CASE other # j
    <3>1. d.jobs[other].latest \in 1..n /\ d.runs[d.jobs[other].latest].job = other /\ e.jobs[other] = d.jobs[other]
      BY <2>2, <1>2, <1>5
    <3> QED BY <3>1, <1>2, <1>g
  <2> QED BY <2>1, <2>2
<1>9. Mirrors(e)
  <2> SUFFICES ASSUME NEW other \in Jobs, e.jobs[other].status # "absent"
               PROVE  \/ e.jobs[other].status = e.runs[e.jobs[other].latest].status
                      \/ /\ e.jobs[other].status = "Queued"
                         /\ \E i \in RunsIn(e, {"Queued"}) : e.runs[i].job = other
    BY DEF Mirrors
  <2>1. CASE other = j
    BY <2>1, <1>2
  <2>2. CASE other # j
    <3>1. e.jobs[other] = d.jobs[other] /\ d.jobs[other].latest \in 1..n
      BY <2>2, <1>2, <1>5
    <3>2. CASE d.jobs[other].status = d.runs[d.jobs[other].latest].status
      BY <3>1, <3>2, <1>2
    <3>3. CASE d.jobs[other].status = "Queued" /\ \E i \in RunsIn(d, {"Queued"}) : d.runs[i].job = other
      <4>1. PICK i \in RunsIn(d, {"Queued"}) : d.runs[i].job = other
        BY <3>3
      <4>2. i \in 1..n /\ e.runs[i] = d.runs[i] /\ d.runs[i].status = "Queued"
        BY <4>1, <1>1, <1>2 DEF RunsIn
      <4>3. i \in RunsIn(e, {"Queued"})
        BY <4>2, <1>1, <1>g DEF RunsIn
      <4> QED BY <3>1, <3>3, <4>1, <4>2, <4>3
    <3> QED BY <3>1, <3>2, <3>3, <1>1 DEF Sound, Mirrors
  <2> QED BY <2>1, <2>2
<1>10. ChargedWhole(e)
  <2> SUFFICES ASSUME NEW k \in RunsIn(e, {"Completed"}) PROVE <<k, 0>> \in e.ledger
    BY DEF ChargedWhole
  <2>1. k \in 1..(n + 1) /\ e.runs[k].status = "Completed"
    BY <1>1 DEF RunsIn
  <2>2. k \in 1..n /\ d.runs[k].status = "Completed"
    BY <2>1, <1>2, <1>3, <1>n
  <2> QED BY <2>2, <1>1, <1>2 DEF Sound, ChargedWhole, RunsIn
<1>11. e \in Good(n + 1)
  BY <1>1, <1>6, <1>7, <1>8, <1>9, <1>10, GoodIs DEF Sound
<1>12. Holders(ps, n + 1) = {}
  <2> SUFFICES ASSUME NEW v \in Holders(ps, n + 1) PROVE FALSE
    OBVIOUS
  <2>1. v \in Workers /\ <<>> \in Seq(1..n)
    BY DEF Holders
  <2>2. Holders(ps, n + 1) # {} => n + 1 \in 1..n
    BY <2>1, HoldersAre
  <2> QED BY <2>2, <1>n
<1>13. ASSUME NEW other \in Jobs, NEW holder, NEW k, <<holder, k>> \in Tokens(e, ps, other)
       PROVE  \/ other = j /\ holder = {} /\ k = n + 1
              \/ other # j /\ <<holder, k>> \in Tokens(d, ps, other)
  <2>1. holder \in SUBSET Workers /\ k \in 0..(n + 1) /\ IsToken(e, ps, other, holder, k)
    BY <1>1, <1>13, <1>n, TokenIs
  <2>2. CASE k = n + 1 /\ e.runs[k].job = other
    <3>1. other = j /\ n + 1 # 0
      BY <2>2, <1>2
    <3>2. holder = {}
      BY <2>1, <2>2, <3>1, <1>12 DEF IsToken
    <3> QED BY <2>2, <3>1, <3>2
  <2>3. CASE /\ k \in 1..n /\ e.runs[k].job = other
             /\ ((holder = {} /\ Loose(e, ps, k)) \/ \E v \in Holders(ps, k) : holder = {v})
    <3>1. d.runs[k].job = other /\ other # j /\ e.runs[k] = d.runs[k] /\ k \in 0..n
      BY <2>3, <1>2, <1>4, <1>g
    <3>2. IsToken(d, ps, other, holder, k)
      BY <2>3, <3>1, <1>1 DEF IsToken, Loose
    <3> QED BY <3>1, <3>2, <2>1, <1>1, TokenIs
  <2>4. CASE holder = {} /\ k = 0 /\ e.jobs[other].status # "absent" /\ Retryable(e, other)
    <3>1. other # j
      BY <2>4, <1>2, <1>3 DEF Retryable
    <3>2. e.jobs[other] = d.jobs[other] /\ d.jobs[other].latest \in 1..n
      BY <3>1, <2>4, <1>2, <1>5
    <3>3. d.jobs[other].status # "absent" /\ Retryable(d, other)
      BY <3>2, <2>4, <1>2 DEF Retryable
    <3> QED BY <3>1, <3>3, <2>1, <2>4, <1>0, <1>1, TokenIs DEF IsToken
  <2> QED BY <2>1, <2>2, <2>3, <2>4, <1>1, <1>n DEF IsToken
<1>14. \A other \in Jobs : \A t \in Tokens(e, ps, other) : t = <<t[1], t[2]>>
  BY <1>1, <1>n, TokenIs
<1>15. \A other \in Jobs \ {j} : Tokens(e, ps, other) \subseteq Tokens(d, ps, other)
  BY <1>13, <1>14
<1>16. Tokens(e, ps, j) \subseteq {<<{}, n + 1>>}
  BY <1>13, <1>14
<1>17. Cardinality(Tokens(e, ps, j)) <= 1
  <2>1. IsFiniteSet({<<{}, n + 1>>}) /\ Cardinality({<<{}, n + 1>>}) = 1
    BY FS_Singleton
  <2> QED BY <2>1, <1>16, NoMoreMembers
<1> QED BY <1>11, <1>15, <1>17

-----------------------------------------------------------------------------
\* The invariant.  A worker is about to make a call exactly when it holds a
\* plan, and no plan names a run twice; the tokens of a job are bounded by the
\* slips, which is more than the bound on its active runs, and inductive.

Held(p, ps) ==
  \A w \in Workers : /\ p[w] = "call" <=> ps[w] # <<>>
                     /\ \A k, l \in DOMAIN ps[w] : ps[w][k] = ps[w][l] => k = l

Bounded(d, ps, s) == \A j \in Jobs : Cardinality(Tokens(d, ps, j)) <= 1 + s

Ready(n, d, ps, p, s) ==
  /\ n \in 0..MaxRuns /\ d \in Good(n) /\ ps \in Plans(n)
  /\ p \in [Workers -> {"idle", "queue", "plan", "call"}] /\ s \in 0..MaxSlips
  /\ Held(p, ps) /\ Bounded(d, ps, s)

JobsInv == live \in BOOLEAN /\ \E n \in 0..MaxRuns : Ready(n, db, plans, pc, slips)

\* A run goes from running back to the queue only when its lease is over.
NotPutBack(d, e) ==
  \A i \in DOMAIN d.runs :
    d.runs[i].status = "Running" /\ e.runs[i].status = "Queued" => d.runs[i].lease = "expired"

\* A step from a ready state to the snapshot e and the rest.
Kept(d, e, ps, p, s) == NotPutBack(d, e) /\ \E m \in 0..MaxRuns : Ready(m, e, ps, p, s)

LEMMA ReadyFields ==
  ASSUME NEW n, NEW d, NEW ps, NEW p, NEW s, Ready(n, d, ps, p, s)
  PROVE  /\ n \in 0..MaxRuns /\ n \in Nat /\ d \in Good(n) /\ ps \in Plans(n) /\ s \in Nat /\ s <= MaxSlips
         /\ p \in [Workers -> {"idle", "queue", "plan", "call"}] /\ Held(p, ps)
         /\ d \in Snapshots(n) /\ Sound(d) /\ DOMAIN d.runs = 1..n /\ Len(d.runs) = n
         /\ \A i : Holders(ps, i) # {} => i \in 1..n
         /\ \A j \in Jobs : /\ IsFiniteSet(Tokens(d, ps, j)) /\ Cardinality(Tokens(d, ps, j)) \in Nat
                            /\ Cardinality(Tokens(d, ps, j)) <= 1 + s
<1>1. /\ n \in 0..MaxRuns /\ n \in Nat /\ d \in Good(n) /\ ps \in Plans(n) /\ s \in Nat /\ s <= MaxSlips
      /\ p \in [Workers -> {"idle", "queue", "plan", "call"}] /\ Held(p, ps) /\ Bounded(d, ps, s)
  BY Constants DEF Ready
<1>2. d \in Snapshots(n) /\ Sound(d) /\ DOMAIN d.runs = 1..n /\ Len(d.runs) = n
  BY <1>1, GoodIs, SnapshotFields
<1>3. ASSUME NEW i, Holders(ps, i) # {} PROVE i \in 1..n
  <2>1. PICK v \in Workers : v \in Holders(ps, i)
    BY <1>3 DEF Holders
  <2>2. <<>> \in Seq(1..n)
    OBVIOUS
  <2> QED BY <2>1, <2>2, <1>1, <1>3, HoldersAre
<1>4. \A j \in Jobs : /\ IsFiniteSet(Tokens(d, ps, j)) /\ Cardinality(Tokens(d, ps, j)) \in Nat
                      /\ Cardinality(Tokens(d, ps, j)) <= 1 + s
  BY <1>1, <1>2, TokenIs DEF Bounded
<1> QED BY <1>1, <1>2, <1>3, <1>4

LEMMA MadeReady ==
  ASSUME NEW n \in 0..MaxRuns, NEW d \in Good(n), NEW ps \in Plans(n), NEW s \in Nat, s <= MaxSlips,
         NEW p \in [Workers -> {"idle", "queue", "plan", "call"}], Held(p, ps),
         \A j \in Jobs : Cardinality(Tokens(d, ps, j)) <= 1 + s
  PROVE  \E m \in 0..MaxRuns : Ready(m, d, ps, p, s)
<1>1. s \in 0..MaxSlips
  BY Constants
<1>2. Ready(n, d, ps, p, s)
  BY <1>1 DEF Ready, Bounded
<1> QED BY <1>2

\* What a worker takes up, keeping what the others hold.
LEMMA HeldStays ==
  ASSUME NEW n \in Nat, NEW ps \in Plans(n), NEW p \in [Workers -> {"idle", "queue", "plan", "call"}], Held(p, ps),
         NEW w \in Workers, NEW mine \in Seq(1..n), \A k, l \in DOMAIN mine : mine[k] = mine[l] => k = l,
         NEW at \in {"idle", "queue", "plan", "call"}, at = "call" <=> mine # <<>>
  PROVE  /\ [p EXCEPT ![w] = at] \in [Workers -> {"idle", "queue", "plan", "call"}]
         /\ Held([p EXCEPT ![w] = at], [ps EXCEPT ![w] = mine])
<1>1. ASSUME NEW v \in Workers
      PROVE  /\ [p EXCEPT ![w] = at][v] = "call" <=> [ps EXCEPT ![w] = mine][v] # <<>>
             /\ \A k, l \in DOMAIN [ps EXCEPT ![w] = mine][v] :
                  [ps EXCEPT ![w] = mine][v][k] = [ps EXCEPT ![w] = mine][v][l] => k = l
  <2>1. [p EXCEPT ![w] = at][v] = IF v = w THEN at ELSE p[v]
    OBVIOUS
  <2>2. [ps EXCEPT ![w] = mine][v] = IF v = w THEN mine ELSE ps[v]
    BY DEF Plans
  <2>3. CASE v = w
    BY <2>1, <2>2, <2>3
  <2>4. CASE v # w
    BY <2>1, <2>2, <2>4 DEF Held
  <2> QED BY <2>3, <2>4
<1> QED BY <1>1 DEF Held

\* A step of the worker w that leaves the snapshot and what it holds alone.
LEMMA PcMoves ==
  ASSUME NEW n, NEW d, NEW ps, NEW p, NEW s, Ready(n, d, ps, p, s), NEW w \in Workers, p[w] # "call",
         NEW at \in {"idle", "queue", "plan"}
  PROVE  Ready(n, d, ps, [p EXCEPT ![w] = at], s) /\ ps[w] = <<>>
<1> DEFINE q == [p EXCEPT ![w] = at]
<1>1. /\ p \in [Workers -> {"idle", "queue", "plan", "call"}] /\ Held(p, ps)
  BY ReadyFields
<1>2. ps[w] = <<>> /\ at # "call"
  BY <1>1 DEF Held
<1>3. q \in [Workers -> {"idle", "queue", "plan", "call"}]
  BY <1>1
<1>4. \A v \in Workers : q[v] = "call" <=> p[v] = "call"
  BY <1>1, <1>2
<1> HIDE DEF q
<1>5. Held(q, ps)
  BY <1>1, <1>4 DEF Held
<1>6. Ready(n, d, ps, q, s)
  BY <1>3, <1>5 DEF Ready
<1> QED BY <1>2, <1>6 DEF q

\* One run moved, nobody took it up, and the slip was counted.
LEMMA MovedKeeps ==
  ASSUME NEW n, NEW d, NEW ps, NEW p, NEW s, Ready(n, d, ps, p, s), s < MaxSlips,
         NEW i \in 1..n, NEW e \in Snapshots(n), Moved(d, e, i), e.runs[i].status # "Queued"
  PROVE  Kept(d, e, ps, p, s + 1)
<1>1. /\ n \in 0..MaxRuns /\ n \in Nat /\ d \in Good(n) /\ ps \in Plans(n) /\ s \in Nat /\ s <= MaxSlips
      /\ p \in [Workers -> {"idle", "queue", "plan", "call"}] /\ Held(p, ps) /\ DOMAIN d.runs = 1..n
      /\ \A j \in Jobs : /\ IsFiniteSet(Tokens(d, ps, j)) /\ Cardinality(Tokens(d, ps, j)) \in Nat
                         /\ Cardinality(Tokens(d, ps, j)) <= 1 + s
  BY ReadyFields
<1>2. e \in Good(n)
  BY <1>1, MovedStaysSound
<1>3. ASSUME NEW j \in Jobs PROVE Cardinality(Tokens(e, ps, j)) <= 1 + (s + 1)
  <2>1. Cardinality(Tokens(e, ps, j)) <= Cardinality(Tokens(d, ps, j)) + 1
    BY <1>1, <1>2, SlipMoves
  <2>2. Cardinality(Tokens(e, ps, j)) \in Nat
    BY <1>1, TokenIs
  <2> QED BY <2>1, <2>2, <1>1
<1>4. NotPutBack(d, e)
  BY <1>1 DEF NotPutBack, Moved
<1>5. s + 1 \in Nat /\ s + 1 <= MaxSlips
  BY <1>1, Constants
<1>6. \E m \in 0..MaxRuns : Ready(m, e, ps, p, s + 1)
  BY <1>1, <1>2, <1>3, <1>5, MadeReady
<1> QED BY <1>4, <1>6 DEF Kept

LEMMA QueueKeeps ==
  ASSUME NEW n, NEW d, NEW ps, NEW p, NEW s, Ready(n, d, ps, p, s),
         n + Cardinality(DueJobs(d)) <= MaxRuns, NEW succeeds, NEW tied
  PROVE  Kept(d, AfterQueue(d, succeeds, tied), ps, p, s)
<1> DEFINE e == AfterQueue(d, succeeds, tied)
<1>1. /\ n \in 0..MaxRuns /\ n \in Nat /\ d \in Good(n) /\ ps \in Plans(n) /\ s \in Nat /\ s <= MaxSlips
      /\ p \in [Workers -> {"idle", "queue", "plan", "call"}] /\ Held(p, ps) /\ DOMAIN d.runs = 1..n
      /\ \A i : Holders(ps, i) # {} => i \in 1..n
      /\ \A j \in Jobs : /\ Cardinality(Tokens(d, ps, j)) \in Nat
                         /\ Cardinality(Tokens(d, ps, j)) <= 1 + s
  BY ReadyFields
<1>2. PICK m \in n..MaxRuns :
        /\ e \in Good(m)
        /\ \A j \in Jobs : Cardinality(Tokens(e, ps, j)) <= Cardinality(Tokens(d, ps, j))
        /\ \A i \in 1..n : d.runs[i].status = "Running" /\ e.runs[i].status = "Queued"
                             => d.runs[i].lease = "expired"
        /\ Stranded(e) \subseteq Stranded(d) /\ Paid(d, e)
  <2>1. n \in 0..MaxRuns /\ d \in Good(n) /\ \A i : Holders(ps, i) # {} => i \in 1..n
    BY <1>1
  <2>2. e = AfterQueue(d, succeeds, tied)
    OBVIOUS
  <2> HIDE DEF e
  <2> QED BY <2>1, <2>2, AfterQueueIs, SMTT(60)
<1> HIDE DEF e
<1>3. m \in 0..MaxRuns /\ m \in Nat /\ n <= m
  BY <1>1, Constants
<1>4. ps \in Plans(m)
  BY <1>1, <1>3, PlansGrow
<1>5. ASSUME NEW j \in Jobs PROVE Cardinality(Tokens(e, ps, j)) <= 1 + s
  <2>1. Cardinality(Tokens(e, ps, j)) \in Nat
    BY <1>2, <1>3, GoodIs, TokenIs
  <2>2. Cardinality(Tokens(e, ps, j)) <= Cardinality(Tokens(d, ps, j))
    BY <1>2
  <2> QED BY <2>1, <2>2, <1>1
<1>6. \E k \in 0..MaxRuns : Ready(k, e, ps, p, s)
  BY <1>1, <1>2, <1>3, <1>4, <1>5, MadeReady
<1>7. NotPutBack(d, e)
  BY <1>1, <1>2 DEF NotPutBack
<1> QED BY <1>6, <1>7 DEF Kept, e

LEMMA PlanKeeps ==
  ASSUME NEW n, NEW d, NEW ps, NEW p, NEW s, Ready(n, d, ps, p, s),
         NEW w \in Workers, p[w] = "plan", NEW credential \in BOOLEAN, NEW a, a = AfterPlan(d, credential)
  PROVE  Kept(d, a.db, [ps EXCEPT ![w] = a.plans],
              [p EXCEPT ![w] = IF a.plans = <<>> THEN "idle" ELSE "call"], s)
<1> DEFINE fate == Fate(d, credential)
           mine == a.plans
           at   == IF a.plans = <<>> THEN "idle" ELSE "call"
<1>1. /\ n \in 0..MaxRuns /\ n \in Nat /\ d \in Good(n) /\ ps \in Plans(n) /\ s \in Nat /\ s <= MaxSlips
      /\ p \in [Workers -> {"idle", "queue", "plan", "call"}] /\ Held(p, ps)
      /\ d \in Snapshots(n) /\ DOMAIN d.runs = 1..n
      /\ \A j \in Jobs : /\ Cardinality(Tokens(d, ps, j)) \in Nat
                         /\ Cardinality(Tokens(d, ps, j)) <= 1 + s
  BY ReadyFields
<1>2. fate \in {"Skipped", "Failed", "Running"}
  BY DEF Fate
<1>3. PlannedAll(n, d, a, fate)
  BY <1>1, AfterPlanIs
<1> HIDE DEF fate
<1>4. a.db \in Good(n)
  BY <1>1, <1>2, <1>3, PlannedStaysSound
<1>5. mine \in Seq(1..n) /\ \A k, l \in DOMAIN mine : mine[k] = mine[l] => k = l
  BY <1>3 DEF PlannedAll
<1>6. ps[w] = <<>>
  BY <1>1 DEF Held
<1>7. at \in {"idle", "queue", "plan", "call"} /\ (at = "call" <=> mine # <<>>)
  OBVIOUS
<1>8. NotPutBack(d, a.db)
  <2>1. \A i \in 1..n : a.db.runs[i] = d.runs[i] \/ d.runs[i].status = "Queued"
    BY <1>3 DEF PlannedAll, Planned
  <2> QED BY <2>1, <1>1 DEF NotPutBack
<1>9. ASSUME NEW j \in Jobs PROVE Cardinality(Tokens(a.db, [ps EXCEPT ![w] = mine], j)) <= 1 + s
  <2>1. Cardinality(Tokens(a.db, [ps EXCEPT ![w] = a.plans], j)) <= Cardinality(Tokens(d, ps, j))
    BY <1>1, <1>2, <1>3, <1>6, PlannedTokens
  <2>2. Cardinality(Tokens(a.db, [ps EXCEPT ![w] = a.plans], j)) \in Nat
    BY <1>1, <1>4, GoodIs, TokenIs
  <2> QED BY <2>1, <2>2, <1>1
<1> HIDE DEF mine, at
<1>10. /\ [p EXCEPT ![w] = at] \in [Workers -> {"idle", "queue", "plan", "call"}]
       /\ Held([p EXCEPT ![w] = at], [ps EXCEPT ![w] = mine])
  BY <1>1, <1>5, <1>7, HeldStays
<1>11. [ps EXCEPT ![w] = mine] \in Plans(n)
  BY <1>1, <1>5, HoldersAre
<1>12. \E k \in 0..MaxRuns : Ready(k, a.db, [ps EXCEPT ![w] = mine], [p EXCEPT ![w] = at], s)
  BY <1>1, <1>4, <1>9, <1>10, <1>11, MadeReady
<1> QED BY <1>8, <1>12 DEF Kept, mine, at

LEMMA OutcomeKeeps ==
  ASSUME NEW n, NEW d, NEW ps, NEW p, NEW s, Ready(n, d, ps, p, s),
         NEW w \in Workers, p[w] = "call", NEW e \in Snapshots(n),
         Head(ps[w]) \in 1..n => Moved(d, e, Head(ps[w])) /\ e.runs[Head(ps[w])].status \notin Active
  PROVE  Kept(d, e, [ps EXCEPT ![w] = Tail(ps[w])],
              [p EXCEPT ![w] = IF Len(ps[w]) = 1 THEN "idle" ELSE "call"], s)
<1> DEFINE i    == Head(ps[w])
           mine == Tail(ps[w])
           at   == IF Len(ps[w]) = 1 THEN "idle" ELSE "call"
           new  == [ps EXCEPT ![w] = mine]
<1>1. /\ n \in 0..MaxRuns /\ n \in Nat /\ d \in Good(n) /\ ps \in Plans(n) /\ s \in Nat /\ s <= MaxSlips
      /\ p \in [Workers -> {"idle", "queue", "plan", "call"}] /\ Held(p, ps)
      /\ d \in Snapshots(n) /\ DOMAIN d.runs = 1..n
      /\ \A j \in Jobs : /\ IsFiniteSet(Tokens(d, ps, j)) /\ Cardinality(Tokens(d, ps, j)) \in Nat
                         /\ Cardinality(Tokens(d, ps, j)) <= 1 + s
  BY ReadyFields
<1>2. ps[w] \in Seq(1..n) /\ ps[w] # <<>> /\ \A k, l \in DOMAIN ps[w] : ps[w][k] = ps[w][l] => k = l
  BY <1>1 DEF Held, Plans
<1>3. /\ mine \in Seq(1..n) /\ \A k, l \in DOMAIN mine : mine[k] = mine[l] => k = l
      /\ at \in {"idle", "queue", "plan", "call"} /\ (at = "call" <=> mine # <<>>)
      /\ i \in 1..n /\ i \in Range(ps[w])
  <2>1. /\ Tail(ps[w]) \in Seq(1..n) /\ Head(ps[w]) \in 1..n /\ Head(ps[w]) \in Range(ps[w])
        /\ \A k, l \in DOMAIN Tail(ps[w]) : Tail(ps[w])[k] = Tail(ps[w])[l] => k = l
        /\ Len(ps[w]) = 1 <=> Tail(ps[w]) = <<>>
    BY <1>1, <1>2, HeadAndTail
  <2> QED BY <2>1
<1>4. Moved(d, e, i) /\ e.runs[i].status \notin Active
  BY <1>3
<1> HIDE DEF i
<1>5. e \in Good(n)
  BY <1>1, <1>3, <1>4, MovedStaysSound
<1>6. ASSUME NEW j \in Jobs
      PROVE  /\ Tokens(e, new, j) \subseteq Tokens(e, ps, j) \ {<<{w}, i>>}
             /\ new \in Plans(n)
  BY <1>1, <1>2, <1>4, <1>5, SettledTokens DEF i
<1>7. new \in Plans(n)
  BY <1>1, <1>3, HoldersAre
<1>8. ASSUME NEW j \in Jobs PROVE Cardinality(Tokens(e, new, j)) <= 1 + s
  <2>1. Cardinality(Tokens(e, new, j)) \in Nat
    BY <1>1, <1>5, GoodIs, TokenIs
  <2>2. CASE d.runs[i].job # j
    <3>1. Tokens(e, new, j) \subseteq Tokens(d, ps, j)
      BY <1>1, <1>3, <1>4, <1>5, <1>6, <2>2, MovedTokens
    <3>2. Cardinality(Tokens(e, new, j)) <= Cardinality(Tokens(d, ps, j))
      BY <3>1, <1>1, NoMoreMembers
    <3> QED BY <2>1, <3>2, <1>1
  <2>3. CASE d.runs[i].job = j
    <3>1. Tokens(e, ps, j) \subseteq (Tokens(d, ps, j) \ {<<{}, i>>}) \union {<<{}, 0>>}
      BY <1>1, <1>3, <1>4, <1>5, MovedTokens
    <3>2. Tokens(e, new, j) \subseteq (Tokens(d, ps, j) \ {<<{w}, i>>}) \union {<<{}, 0>>}
      BY <3>1, <1>6
    <3>3. <<{w}, i>> \in Tokens(d, ps, j)
      <4>1. w \in Holders(ps, i)
        BY <1>3 DEF Holders
      <4>2. IsToken(d, ps, j, {w}, i)
        BY <4>1, <2>3, <1>1, <1>3 DEF IsToken
      <4>3. {w} \in SUBSET Workers /\ i \in 0..n
        BY <1>1, <1>3
      <4> QED BY <4>2, <4>3, <1>1, TokenIs
    <3>4. Cardinality(Tokens(e, new, j)) <= Cardinality(Tokens(d, ps, j))
      BY <3>2, <3>3, <1>1, MemberExchanged
    <3> QED BY <2>1, <3>4, <1>1
  <2> QED BY <2>2, <2>3
<1>9. NotPutBack(d, e)
  BY <1>1, <1>4 DEF NotPutBack, Moved, Active
<1> HIDE DEF at, mine
<1>10. /\ [p EXCEPT ![w] = at] \in [Workers -> {"idle", "queue", "plan", "call"}]
       /\ Held([p EXCEPT ![w] = at], new)
  BY <1>1, <1>3, HeldStays
<1> HIDE DEF new
<1>11. \E k \in 0..MaxRuns : Ready(k, e, new, [p EXCEPT ![w] = at], s)
  BY <1>1, <1>5, <1>7, <1>8, <1>10, MadeReady
<1> QED BY <1>9, <1>11 DEF Kept, new, mine, at

LEMMA CrashKeeps ==
  ASSUME NEW n, NEW d, NEW ps, NEW p, NEW s, Ready(n, d, ps, p, s), NEW w \in Workers
  PROVE  Kept(d, d, [ps EXCEPT ![w] = <<>>], [p EXCEPT ![w] = "idle"], s)
<1> DEFINE mine == <<>>
           new  == [ps EXCEPT ![w] = mine]
<1>1. /\ n \in 0..MaxRuns /\ n \in Nat /\ d \in Good(n) /\ ps \in Plans(n) /\ s \in Nat /\ s <= MaxSlips
      /\ p \in [Workers -> {"idle", "queue", "plan", "call"}] /\ Held(p, ps)
      /\ d \in Snapshots(n) /\ DOMAIN d.runs = 1..n
      /\ \A j \in Jobs : /\ Cardinality(Tokens(d, ps, j)) \in Nat
                         /\ Cardinality(Tokens(d, ps, j)) <= 1 + s
  BY ReadyFields
<1>2. /\ mine \in Seq(1..n) /\ (\A k, l \in DOMAIN mine : mine[k] = mine[l] => k = l) /\ mine = <<>>
  OBVIOUS
<1>3. ASSUME NEW j \in Jobs PROVE Cardinality(Tokens(d, new, j)) <= Cardinality(Tokens(d, ps, j))
  BY <1>1, DroppedTokens
<1> HIDE DEF mine
<1>4. new \in Plans(n)
  BY <1>1, <1>2, HoldersAre
<1>5. ASSUME NEW j \in Jobs PROVE Cardinality(Tokens(d, new, j)) <= 1 + s
  <2>1. Cardinality(Tokens(d, new, j)) \in Nat
    BY <1>1, TokenIs
  <2>2. Cardinality(Tokens(d, new, j)) <= Cardinality(Tokens(d, ps, j))
    BY <1>3
  <2> HIDE DEF new
  <2> QED BY <2>1, <2>2, <1>1
<1>6. /\ [p EXCEPT ![w] = "idle"] \in [Workers -> {"idle", "queue", "plan", "call"}]
      /\ Held([p EXCEPT ![w] = "idle"], new)
  <2>1. mine \in Seq(1..n) /\ \A k, l \in DOMAIN mine : mine[k] = mine[l] => k = l
    BY <1>2
  <2>2. "idle" \in {"idle", "queue", "plan", "call"} /\ ("idle" = "call" <=> mine # <<>>)
    BY <1>2
  <2> QED BY <1>1, <2>1, <2>2, HeldStays
<1> HIDE DEF new
<1>7. \E k \in 0..MaxRuns : Ready(k, d, new, [p EXCEPT ![w] = "idle"], s)
  BY <1>1, <1>4, <1>5, <1>6, MadeReady
<1>8. NotPutBack(d, d)
  BY DEF NotPutBack
<1> QED BY <1>7, <1>8 DEF Kept, new, mine

LEMMA CreateKeeps ==
  ASSUME NEW n, NEW d, NEW ps, NEW p, NEW s, Ready(n, d, ps, p, s), n < MaxRuns,
         NEW j \in Jobs, d.jobs[j].status = "absent", NEW status \in Active,
         NEW t \in Nat, s <= t, t <= MaxSlips
  PROVE  Kept(d, NewRun(d, j, status, 1), ps, p, t)
<1> DEFINE e == NewRun(d, j, status, 1)
<1>1. /\ n \in 0..MaxRuns /\ n \in Nat /\ d \in Good(n) /\ ps \in Plans(n) /\ s \in Nat /\ s <= MaxSlips
      /\ p \in [Workers -> {"idle", "queue", "plan", "call"}] /\ Held(p, ps)
      /\ d \in Snapshots(n) /\ DOMAIN d.runs = 1..n
      /\ \A other \in Jobs : /\ IsFiniteSet(Tokens(d, ps, other)) /\ Cardinality(Tokens(d, ps, other)) \in Nat
                             /\ Cardinality(Tokens(d, ps, other)) <= 1 + s
  BY ReadyFields
<1>2. n + 1 <= MaxRuns /\ n + 1 \in 0..MaxRuns /\ n + 1 \in Nat /\ n <= n + 1
  BY <1>1, Constants
<1>3. Started(n, d, e, j, status)
  BY <1>1, <1>2, NewRunStarts
<1> HIDE DEF e
<1>4. /\ e \in Good(n + 1)
      /\ \A other \in Jobs \ {j} : Tokens(e, ps, other) \subseteq Tokens(d, ps, other)
      /\ Cardinality(Tokens(e, ps, j)) <= 1
  BY <1>1, <1>2, <1>3, StartedStaysSound
<1>5. ps \in Plans(n + 1)
  BY <1>1, <1>2, PlansGrow
<1>6. ASSUME NEW other \in Jobs PROVE Cardinality(Tokens(e, ps, other)) <= 1 + t
  <2>1. Cardinality(Tokens(e, ps, other)) \in Nat
    BY <1>2, <1>4, GoodIs, TokenIs
  <2>2. CASE other = j
    BY <2>1, <2>2, <1>4
  <2>3. CASE other # j
    <3>1. Cardinality(Tokens(e, ps, other)) <= Cardinality(Tokens(d, ps, other))
      BY <2>3, <1>1, <1>4, NoMoreMembers
    <3>2. Cardinality(Tokens(d, ps, other)) \in Nat /\ Cardinality(Tokens(d, ps, other)) <= 1 + s
      BY <1>1
    <3> QED BY <2>1, <3>1, <3>2, <1>1
  <2> QED BY <2>2, <2>3
<1>7. \E m \in 0..MaxRuns : Ready(m, e, ps, p, t)
  BY <1>1, <1>2, <1>4, <1>5, <1>6, MadeReady
<1>8. NotPutBack(d, e)
  BY <1>1, <1>3 DEF NotPutBack, Started
<1> QED BY <1>7, <1>8 DEF Kept, e

LEMMA RetryKeeps ==
  ASSUME NEW n, NEW d, NEW ps, NEW p, NEW s, Ready(n, d, ps, p, s), n < MaxRuns,
         NEW j \in Jobs, d.jobs[j].status # "absent", Retryable(d, j)
  PROVE  Kept(d, Retry(d, <<j>>), ps, p, s)
<1> DEFINE due == <<j>>
           e   == Retry(d, due)
<1>1. /\ n \in 0..MaxRuns /\ n \in Nat /\ d \in Good(n) /\ ps \in Plans(n) /\ s \in Nat /\ s <= MaxSlips
      /\ p \in [Workers -> {"idle", "queue", "plan", "call"}] /\ Held(p, ps)
      /\ d \in Snapshots(n) /\ DOMAIN d.runs = 1..n
      /\ \A i : Holders(ps, i) # {} => i \in 1..n
      /\ \A other \in Jobs : /\ Cardinality(Tokens(d, ps, other)) \in Nat
                             /\ Cardinality(Tokens(d, ps, other)) <= 1 + s
  BY ReadyFields
<1>2. n + 1 <= MaxRuns /\ n + 1 \in 0..MaxRuns /\ n + 1 \in Nat /\ n <= n + 1 /\ 1 \in Nat
  BY <1>1, Constants
<1>3. /\ due \in [1..1 -> Jobs] /\ IsInjective(due)
      /\ \A k \in 1..1 : d.jobs[due[k]].status # "absent" /\ Retryable(d, due[k])
  <2>1. DOMAIN due = 1..1 /\ due[1] = j /\ \A k \in 1..1 : k = 1
    OBVIOUS
  <2>2. due \in [1..1 -> Jobs]
    OBVIOUS
  <2> HIDE DEF due
  <2>3. IsInjective(due)
    BY <2>1 DEF IsInjective
  <2> QED BY <2>1, <2>2, <2>3
<1> HIDE DEF due
<1>4. Requeued(n, 1, d, e, due)
  BY <1>1, <1>2, <1>3, RetryIs
<1> HIDE DEF e
<1>5. e \in Good(n + 1)
  BY <1>1, <1>2, <1>3, <1>4, RequeuedStaysSound
<1>6. ASSUME NEW other \in Jobs PROVE Cardinality(Tokens(e, ps, other)) <= 1 + s
  <2>1. Cardinality(Tokens(e, ps, other)) \in Nat
    BY <1>2, <1>5, GoodIs, TokenIs
  <2>2. Cardinality(Tokens(e, ps, other)) <= Cardinality(Tokens(d, ps, other))
    BY <1>1, <1>2, <1>3, <1>4, <1>5, RequeuedTokens
  <2>3. Cardinality(Tokens(d, ps, other)) \in Nat /\ Cardinality(Tokens(d, ps, other)) <= 1 + s
    BY <1>1
  <2> QED BY <2>1, <2>2, <2>3, <1>1
<1>7. ps \in Plans(n + 1)
  BY <1>1, <1>2, PlansGrow
<1>8. \E m \in 0..MaxRuns : Ready(m, e, ps, p, s)
  BY <1>1, <1>2, <1>5, <1>6, <1>7, MadeReady
<1>9. NotPutBack(d, e)
  BY <1>1, <1>4 DEF NotPutBack, Requeued
<1> QED BY <1>8, <1>9 DEF Kept, e, due

LEMMA TouchKeeps ==
  ASSUME NEW n, NEW d, NEW ps, NEW p, NEW s, Ready(n, d, ps, p, s), NEW e, Touched(n, d, e),
         NEW i \in 0..n, \A k \in (1..n) \ {i} : e.runs[k].lease = d.runs[k].lease,
         NEW t \in Nat, t <= MaxSlips, IF i = 0 THEN t = s ELSE t = s + 1
  PROVE  Kept(d, e, ps, p, t)
<1>1. /\ n \in 0..MaxRuns /\ n \in Nat /\ d \in Good(n) /\ ps \in Plans(n) /\ s \in Nat /\ s <= MaxSlips
      /\ p \in [Workers -> {"idle", "queue", "plan", "call"}] /\ Held(p, ps)
      /\ d \in Snapshots(n) /\ DOMAIN d.runs = 1..n
      /\ \A j \in Jobs : /\ IsFiniteSet(Tokens(d, ps, j)) /\ Cardinality(Tokens(d, ps, j)) \in Nat
                         /\ Cardinality(Tokens(d, ps, j)) <= 1 + s
  BY ReadyFields
<1>2. e \in Good(n)
  BY <1>1, TouchedStaysSound
<1>3. ASSUME NEW j \in Jobs PROVE Cardinality(Tokens(e, ps, j)) <= 1 + t
  <2>1. Cardinality(Tokens(e, ps, j)) \in Nat
    BY <1>1, <1>2, GoodIs, TokenIs
  <2>2. /\ i = 0 => Tokens(e, ps, j) \subseteq Tokens(d, ps, j)
        /\ Tokens(e, ps, j) \subseteq Tokens(d, ps, j) \union {<<{}, i>>}
    BY <1>1, TouchedTokens
  <2>3. i = 0 => Cardinality(Tokens(e, ps, j)) <= Cardinality(Tokens(d, ps, j))
    BY <2>2, <1>1, NoMoreMembers
  <2>4. Cardinality(Tokens(e, ps, j)) <= Cardinality(Tokens(d, ps, j)) + 1
    BY <2>2, <1>1, OneMoreMember
  <2> QED BY <2>1, <2>3, <2>4, <1>1
<1>4. \E m \in 0..MaxRuns : Ready(m, e, ps, p, t)
  BY <1>1, <1>2, <1>3, MadeReady
<1>5. NotPutBack(d, e)
  BY <1>1 DEF NotPutBack, Touched
<1> QED BY <1>4, <1>5 DEF Kept

\* A live execution of run i by a worker that holds nothing: t counts it when
\* the run was running before.
LEMMA ExecuteKeeps ==
  ASSUME NEW n, NEW d, NEW ps, NEW p, NEW s, Ready(n, d, ps, p, s), NEW w \in Workers, p[w] = "idle",
         NEW i \in 1..n, d.runs[i].status \in Active, NEW credential \in BOOLEAN,
         NEW e, e = PlanRun(d, i, credential),
         NEW t \in Nat, t <= MaxSlips, IF d.runs[i].status = "Running" THEN t = s + 1 ELSE t = s
  PROVE  /\ e.runs[i].status = "Running" =>
              Kept(d, e, [ps EXCEPT ![w] = <<i>>], [p EXCEPT ![w] = "call"], t)
         /\ e.runs[i].status # "Running" => Kept(d, e, ps, p, t)
<1> DEFINE mine == <<i>>
           new  == [ps EXCEPT ![w] = mine]
           fate == Fate(d, credential)
<1>1. /\ n \in 0..MaxRuns /\ n \in Nat /\ d \in Good(n) /\ ps \in Plans(n) /\ s \in Nat /\ s <= MaxSlips
      /\ p \in [Workers -> {"idle", "queue", "plan", "call"}] /\ Held(p, ps)
      /\ d \in Snapshots(n) /\ DOMAIN d.runs = 1..n
      /\ \A j \in Jobs : /\ IsFiniteSet(Tokens(d, ps, j)) /\ Cardinality(Tokens(d, ps, j)) \in Nat
                         /\ Cardinality(Tokens(d, ps, j)) <= 1 + s
  BY ReadyFields
<1>2. ps[w] = <<>>
  BY <1>1 DEF Held
<1>3. /\ e \in Snapshots(n)
      /\ \/ e = d /\ fate = "Running" /\ d.runs[i].status # "Queued"
         \/ /\ Moved(d, e, i) /\ e.runs[i].status = fate
            /\ fate = "Running" => d.runs[i].status = "Queued" /\ e.runs[i].lease = "held"
  BY <1>1, PlanRunIs
<1>4. fate \in {"Skipped", "Failed", "Running"}
  BY DEF Fate
<1> HIDE DEF fate
<1>5. e \in Good(n)
  BY <1>1, <1>3, MovedStaysSound
<1>6. NotPutBack(d, e)
  BY <1>1, <1>3, <1>4 DEF NotPutBack, Moved
<1>7. \A j \in Jobs : Cardinality(Tokens(e, ps, j)) \in Nat /\ Cardinality(Tokens(e, new, j)) \in Nat
                      /\ IsFiniteSet(Tokens(e, ps, j))
  BY <1>1, <1>5, GoodIs, TokenIs
<1>m. mine \in Seq(1..n) /\ (\A k, l \in DOMAIN mine : mine[k] = mine[l] => k = l) /\ mine # <<>>
  <2>1. mine \in Seq(1..n) /\ DOMAIN mine = {1} /\ mine # <<>>
    OBVIOUS
  <2> HIDE DEF mine
  <2> QED BY <2>1
<1>8. CASE e.runs[i].status = "Running"
  <2>1. ASSUME NEW j \in Jobs
        PROVE  /\ new \in Plans(n)
               /\ e.runs[i].job # j => Tokens(e, new, j) \subseteq Tokens(e, ps, j)
               /\ Tokens(e, new, j) \subseteq Tokens(e, ps, j) \union {<<{w}, i>>}
               /\ e.runs[i].lease # "expired" =>
                    Tokens(e, new, j) \subseteq (Tokens(e, ps, j) \ {<<{}, i>>}) \union {<<{w}, i>>}
    BY <1>1, <1>2, <1>5, <1>8, JoinedTokens
  <2>2. ASSUME NEW j \in Jobs PROVE Cardinality(Tokens(e, new, j)) <= 1 + t
    <3>1. CASE e = d /\ d.runs[i].status = "Running"
      <4>1. Cardinality(Tokens(e, new, j)) <= Cardinality(Tokens(d, ps, j)) + 1
        BY <2>1, <3>1, <1>1, OneMoreMember
      <4> HIDE DEF new
      <4> QED BY <4>1, <3>1, <1>1, <1>7
    <3>2. CASE /\ Moved(d, e, i) /\ d.runs[i].status = "Queued" /\ e.runs[i].lease = "held"
      <4>1. Cardinality(Tokens(e, new, j)) <= Cardinality(Tokens(d, ps, j))
        <5>1. CASE d.runs[i].job # j
          <6>1. Tokens(e, new, j) \subseteq Tokens(d, ps, j)
            <7>1. e.runs[i].job # j
              BY <3>2, <5>1 DEF Moved
            <7>2. Tokens(e, ps, j) \subseteq Tokens(d, ps, j)
              BY <3>2, <5>1, <1>1, <1>5, MovedTokens
            <7> HIDE DEF new
            <7> QED BY <7>1, <7>2, <2>1
          <6> QED BY <6>1, <1>1, NoMoreMembers
        <5>2. CASE d.runs[i].job = j
          <6>1. "held" # "expired" /\ "Running" \in Active
            BY DEF Active
          <6>2. Tokens(e, ps, j) \subseteq (Tokens(d, ps, j) \ {<<{}, i>>}) \union {<<{}, i>>}
            BY <3>2, <6>1, <1>1, <1>5, <1>8, MovedTokens
          <6>3. Tokens(e, new, j) \subseteq (Tokens(d, ps, j) \ {<<{}, i>>}) \union {<<{w}, i>>}
            <7> HIDE DEF new
            <7> QED BY <6>1, <6>2, <2>1, <3>2
          <6>4. <<{}, i>> \in Tokens(d, ps, j)
            <7>1. IsToken(d, ps, j, {}, i)
              BY <3>2, <5>2, <1>1 DEF IsToken, Loose
            <7>2. i \in 0..n
              BY <1>1
            <7> QED BY <7>1, <7>2, <1>1, TokenIs
          <6> QED BY <6>3, <6>4, <1>1, MemberExchanged
        <5> QED BY <5>1, <5>2
      <4>2. t = s
        BY <3>2
      <4> HIDE DEF new
      <4> QED BY <4>1, <4>2, <1>1, <1>7
    <3> QED BY <3>1, <3>2, <1>3, <1>8 DEF Active
  <2> HIDE DEF mine
  <2>3. /\ [p EXCEPT ![w] = "call"] \in [Workers -> {"idle", "queue", "plan", "call"}]
        /\ Held([p EXCEPT ![w] = "call"], new)
    BY <1>1, <1>m, HeldStays
  <2>4. new \in Plans(n)
    BY <1>1, <1>m, HoldersAre
  <2> HIDE DEF new
  <2>5. \E k \in 0..MaxRuns : Ready(k, e, new, [p EXCEPT ![w] = "call"], t)
    BY <1>1, <1>5, <2>2, <2>3, <2>4, MadeReady
  <2> QED BY <2>5, <1>6, <1>8 DEF Kept, new, mine
<1>9. CASE e.runs[i].status # "Running"
  <2>0. Moved(d, e, i)
    BY <1>3, <1>9 DEF Active
  <2>1. ASSUME NEW j \in Jobs PROVE Cardinality(Tokens(e, ps, j)) <= 1 + t
    <3>1. CASE d.runs[i].status = "Running"
      <4>1. Cardinality(Tokens(e, ps, j)) <= Cardinality(Tokens(d, ps, j)) + 1
        BY <2>0, <1>1, <1>5, SlipMoves
      <4> QED BY <4>1, <3>1, <1>1, <1>7
    <3>2. CASE d.runs[i].status = "Queued"
      <4>1. Cardinality(Tokens(e, ps, j)) <= Cardinality(Tokens(d, ps, j))
        BY <2>0, <3>2, <1>1, <1>5, QueuedMoves
      <4>2. t = s
        BY <3>2
      <4> QED BY <4>1, <4>2, <1>1, <1>7
    <3> QED BY <3>1, <3>2 DEF Active
  <2>2. \E k \in 0..MaxRuns : Ready(k, e, ps, p, t)
    BY <1>1, <1>5, <2>1, MadeReady
  <2> QED BY <2>2, <1>6, <1>9 DEF Kept
<1> QED BY <1>8, <1>9 DEF new, mine

-----------------------------------------------------------------------------
\* The invariant is inductive.

LEMMA InitReady == Init => JobsInv
<1> SUFFICES ASSUME Init PROVE JobsInv
  OBVIOUS
<1> DEFINE row  == [status |-> "absent", retryAt |-> "none", latest |-> 0]
           rows == [j \in Jobs |-> row]
<1>1. /\ db = [jobs |-> rows, runs |-> <<>>, ledger |-> {}] /\ live \in BOOLEAN
      /\ pc = [w \in Workers |-> "idle"] /\ plans = [w \in Workers |-> <<>>] /\ slips = 0
  BY DEF Init
<1>2. row \in JobRows /\ row.status = "absent"
  <2>1. 0 \in 0..MaxRuns
    BY Constants
  <2> QED BY <2>1 DEF JobRows
<1> HIDE DEF row
<1>3. rows \in [Jobs -> JobRows] /\ \A j \in Jobs : rows[j].status = "absent"
  BY <1>2
<1> HIDE DEF rows
<1>4. <<>> \in [1..0 -> Runs] /\ {} \in SUBSET Entries(0) /\ 0 \in Nat /\ 0 \in 0..MaxRuns /\ 1..0 = {}
  BY Constants
<1>5. db \in Snapshots(0) /\ db.jobs = rows /\ db.runs = <<>> /\ db.ledger = {}
  BY <1>1, <1>3, <1>4, MadeSnapshot
<1>6. DOMAIN db.runs = {}
  BY <1>5
<1>7. Sound(db)
  BY <1>3, <1>5, <1>6 DEF Sound, AttemptsLeft, NoneOfAbsent, LatestIsOwn, Mirrors, ChargedWhole, RunsIn
<1>8. plans \in Plans(0) /\ pc \in [Workers -> {"idle", "queue", "plan", "call"}]
  <2>1. <<>> \in Seq(1..0)
    OBVIOUS
  <2> QED BY <2>1, <1>1 DEF Plans
<1>9. Held(pc, plans)
  BY <1>1 DEF Held
<1>10. ASSUME NEW j \in Jobs PROVE Cardinality(Tokens(db, plans, j)) <= 1 + slips
  <2>1. Tokens(db, plans, j) = {}
    <3>1. \A holder, i : ~IsToken(db, plans, j, holder, i)
      BY <1>3, <1>5, <1>6 DEF IsToken
    <3> QED BY <3>1 DEF Tokens
  <2> QED BY <2>1, <1>1, FS_EmptySet
<1>11. slips \in Nat /\ slips <= MaxSlips
  BY <1>1, Constants
<1>12. \E m \in 0..MaxRuns : Ready(m, db, plans, pc, slips)
  BY <1>4, <1>5, <1>7, <1>8, <1>9, <1>10, <1>11, GoodIs, MadeReady
<1> QED BY <1>1, <1>12 DEF JobsInv

LEMMA TickKeeps ==
  ASSUME NEW n, Ready(n, db, plans, pc, slips), NEW w \in Workers, Tick(w)
  PROVE  Kept(db, db', plans', pc', slips') /\ live' = live
<1>1. /\ n \in 0..MaxRuns /\ db \in Good(n) /\ db \in Snapshots(n) /\ DOMAIN db.runs = 1..n /\ Len(db.runs) = n
      /\ Held(pc, plans)
  BY ReadyFields
<1>2. CASE TickBegins(w)
  <2>1. /\ pc[w] # "call" /\ pc' = [pc EXCEPT ![w] = "queue"]
        /\ db' = db /\ live' = live /\ plans' = plans /\ slips' = slips
    BY <1>2 DEF TickBegins
  <2>2. Ready(n, db', plans', pc', slips')
    BY <2>1, PcMoves
  <2>3. NotPutBack(db, db')
    BY <2>1 DEF NotPutBack
  <2> QED BY <2>1, <2>2, <2>3, <1>1 DEF Kept
<1>3. CASE TickQueue(w)
  <2>1. /\ pc[w] # "call" /\ n + Cardinality(DueJobs(db)) <= MaxRuns
        /\ live' = live /\ plans' = plans /\ slips' = slips
    BY <1>3, <1>1 DEF TickQueue, QueueFits
  <2>2. PICK succeeds, tied : db' = AfterQueue(db, succeeds, tied)
    BY <1>3 DEF TickQueue
  <2>3. PICK at \in {"idle", "queue", "plan"} : pc' = [pc EXCEPT ![w] = at]
    BY <1>3 DEF TickQueue
  <2>4. Kept(db, db', plans, pc', slips)
    <3> DEFINE q == [pc EXCEPT ![w] = at]
    <3>1. Ready(n, db, plans, q, slips)
      BY <2>1, PcMoves
    <3> HIDE DEF q
    <3>2. Kept(db, AfterQueue(db, succeeds, tied), plans, q, slips)
      BY <3>1, <2>1, QueueKeeps
    <3> QED BY <3>2, <2>2, <2>3 DEF q
  <2> QED BY <2>1, <2>4
<1>4. CASE TickPlan(w)
  <2>1. pc[w] = "plan" /\ live' = live /\ slips' = slips
    BY <1>4 DEF TickPlan
  <2>2. PICK credential \in BOOLEAN :
          /\ db' = AfterPlan(db, credential).db
          /\ plans' = [plans EXCEPT ![w] = AfterPlan(db, credential).plans]
          /\ pc' = [pc EXCEPT ![w] = IF AfterPlan(db, credential).plans = <<>> THEN "idle" ELSE "call"]
    BY <1>4 DEF TickPlan
  <2> DEFINE a == AfterPlan(db, credential)
  <2>3. a = AfterPlan(db, credential)
    OBVIOUS
  <2>4. /\ db' = a.db /\ plans' = [plans EXCEPT ![w] = a.plans]
        /\ pc' = [pc EXCEPT ![w] = IF a.plans = <<>> THEN "idle" ELSE "call"]
    BY <2>2
  <2> HIDE DEF a
  <2>5. Kept(db, a.db, [plans EXCEPT ![w] = a.plans], [pc EXCEPT ![w] = IF a.plans = <<>> THEN "idle" ELSE "call"], slips)
    BY <2>1, <2>3, PlanKeeps
  <2> QED BY <2>1, <2>4, <2>5
<1>5. CASE Outcome(w)
  <2> DEFINE i == Head(plans[w])
  <2>1. /\ pc[w] = "call" /\ plans' = [plans EXCEPT ![w] = Tail(plans[w])]
        /\ pc' = [pc EXCEPT ![w] = IF Len(plans[w]) = 1 THEN "idle" ELSE "call"]
        /\ live' = live /\ slips' = slips
    BY <1>5 DEF Outcome
  <2>2. \/ \E units \in 0..MaxUnits : db' = Complete(db, i, units)
        \/ db' = FailByWorker(db, i) \/ db' = Fail(db, i, FALSE)
    <3>1. 1..MaxUnits \subseteq 0..MaxUnits
      BY Constants
    <3> QED BY <3>1, <1>5 DEF Outcome
  <2>3. i \in 1..n
    <3>1. plans[w] \in Seq(1..n) /\ plans[w] # <<>>
      BY <2>1, <1>1, ReadyFields DEF Held, Plans
    <3> QED BY <3>1, HeadTailProperties
  <2> HIDE DEF i
  <2>4. db' \in Snapshots(n) /\ Moved(db, db', i) /\ db'.runs[i].status \notin Active
    <3>1. CASE \E units \in 0..MaxUnits : db' = Complete(db, i, units)
      <4>1. db' \in Snapshots(n) /\ Moved(db, db', i) /\ db'.runs[i].status = "Completed"
        BY <3>1, <2>3, <1>1, CompleteMoves
      <4> QED BY <4>1 DEF Active
    <3>2. CASE db' = FailByWorker(db, i)
      <4>1. db' \in Snapshots(n) /\ Moved(db, db', i) /\ db'.runs[i].status \in {"Failed", "Retry scheduled"}
        BY <3>2, <2>3, <1>1, FailByWorkerMoves
      <4> QED BY <4>1 DEF Active
    <3>3. CASE db' = Fail(db, i, FALSE)
      <4>1. FALSE \in BOOLEAN
        OBVIOUS
      <4>2. /\ db' \in Snapshots(n) /\ Moved(db, db', i)
            /\ db'.runs[i].status = IF FALSE /\ db.runs[i].attempt < MaxAttempts THEN "Retry scheduled" ELSE "Failed"
        BY <3>3, <4>1, <2>3, <1>1, FailMoves
      <4> QED BY <4>2 DEF Active
    <3> QED BY <2>2, <3>1, <3>2, <3>3
  <2>5. Kept(db, db', [plans EXCEPT ![w] = Tail(plans[w])],
             [pc EXCEPT ![w] = IF Len(plans[w]) = 1 THEN "idle" ELSE "call"], slips)
    BY <2>1, <2>4, OutcomeKeeps DEF i
  <2> QED BY <2>1, <2>5
<1> QED BY <1>2, <1>3, <1>4, <1>5 DEF Tick

LEMMA OperatorKeeps ==
  ASSUME NEW n, Ready(n, db, plans, pc, slips), live \in BOOLEAN, Operator
  PROVE  Kept(db, db', plans', pc', slips') /\ live' \in BOOLEAN
<1>1. /\ n \in 0..MaxRuns /\ n \in Nat /\ db \in Good(n) /\ db \in Snapshots(n) /\ DOMAIN db.runs = 1..n
      /\ Len(db.runs) = n /\ slips \in Nat /\ slips <= MaxSlips /\ MaxSlips \in Nat /\ MaxRuns \in Nat
  BY ReadyFields, Constants
<1>2. ASSUME NEW j \in Jobs, NEW now \in BOOLEAN, CreateProviderJob(j, now)
      PROVE  Kept(db, db', plans', pc', slips') /\ live' \in BOOLEAN
  <2>1. /\ db.jobs[j].status = "absent" /\ n < MaxRuns
        /\ slips' \in Nat /\ slips <= slips' /\ slips' <= MaxSlips
        /\ live' = live /\ pc' = pc /\ plans' = plans
    BY <1>1, <1>2 DEF CreateProviderJob, Slip
  <2>2. PICK status \in Active : db' = NewRun(db, j, status, 1)
    BY <1>2 DEF CreateProviderJob, Active
  <2>3. Kept(db, NewRun(db, j, status, 1), plans, pc, slips')
    BY <2>1, CreateKeeps
  <2> QED BY <2>1, <2>2, <2>3
<1>3. ASSUME NEW j \in Jobs, RetryJob(j)
      PROVE  Kept(db, db', plans', pc', slips') /\ live' \in BOOLEAN
  <2>1. /\ db.jobs[j].status # "absent" /\ Retryable(db, j) /\ n < MaxRuns /\ db' = Retry(db, <<j>>)
        /\ live' = live /\ pc' = pc /\ plans' = plans /\ slips' = slips
    BY <1>1, <1>3 DEF RetryJob
  <2>2. Kept(db, Retry(db, <<j>>), plans, pc, slips)
    BY <2>1, RetryKeeps
  <2> QED BY <2>1, <2>2
<1>4. ASSUME ProcessQueue
      PROVE  Kept(db, db', plans', pc', slips') /\ live' \in BOOLEAN
  <2>1. /\ n + Cardinality(DueJobs(db)) <= MaxRuns
        /\ live' = live /\ pc' = pc /\ plans' = plans /\ slips' = slips
    BY <1>1, <1>4 DEF ProcessQueue, QueueFits
  <2>2. PICK succeeds, tied : db' = AfterQueue(db, succeeds, tied)
    BY <1>4 DEF ProcessQueue
  <2>3. Kept(db, AfterQueue(db, succeeds, tied), plans, pc, slips)
    BY <2>1, QueueKeeps
  <2> QED BY <2>1, <2>2, <2>3
<1>5. ASSUME NEW i \in 1..n, StartRun(i)
      PROVE  Kept(db, db', plans', pc', slips') /\ live' \in BOOLEAN
  <2>1. /\ slips < MaxSlips /\ slips' = slips + 1 /\ db' = Put(db, i, "Running", db.runs[i].lease)
        /\ live' = live /\ pc' = pc /\ plans' = plans
    BY <1>5 DEF StartRun, Slip
  <2>2. db.runs[i].lease \in Leases /\ "Running" \in Statuses /\ "Running" # "Completed" /\ "Running" # "Queued"
    <3>1. db.runs[i] \in Runs
      BY <1>1, SnapshotFields
    <3> QED BY <3>1, RunFields, StatusesAre
  <2>3. Settled("Running", db.runs[i].attempt)
    BY <2>2 DEF Settled
  <2>4. db' \in Snapshots(n) /\ Moved(db, db', i)
    BY <2>1, <2>2, <2>3, <1>1, PutMoves
  <2>5. db'.runs[i].status # "Queued"
    <3>1. Wrote(n, db, db', i, "Running", db.runs[i].lease)
      BY <2>1, <2>2, <1>1, PutIs
    <3> QED BY <3>1, <2>2 DEF Wrote
  <2>6. Kept(db, db', plans, pc, slips + 1)
    BY <2>1, <2>4, <2>5, MovedKeeps
  <2> QED BY <2>1, <2>6
<1>6. ASSUME NEW i \in 1..n, SettleRun(i)
      PROVE  Kept(db, db', plans', pc', slips') /\ live' \in BOOLEAN
  <2>1. /\ slips < MaxSlips /\ slips' = slips + 1 /\ live' = live /\ pc' = pc /\ plans' = plans
    BY <1>6 DEF SettleRun, Slip
  <2>2. CASE \E units \in 0..MaxUnits : db' = Complete(db, i, units)
    <3>1. db' \in Snapshots(n) /\ Moved(db, db', i) /\ db'.runs[i].status = "Completed"
      BY <2>2, <1>1, CompleteMoves
    <3>2. Kept(db, db', plans, pc, slips + 1)
      BY <3>1, <2>1, MovedKeeps
    <3> QED BY <3>2, <2>1
  <2>3. ASSUME NEW retry \in BOOLEAN, db' = Fail(db, i, retry)
        PROVE  Kept(db, db', plans, pc, slips + 1)
    <3>1. /\ db' \in Snapshots(n) /\ Moved(db, db', i)
          /\ db'.runs[i].status
               = IF retry /\ db.runs[i].attempt < MaxAttempts THEN "Retry scheduled" ELSE "Failed"
      <4> DEFINE e == Fail(db, i, retry)
      <4>1. /\ e \in Snapshots(n) /\ Moved(db, e, i)
            /\ e.runs[i].status
                 = IF retry /\ db.runs[i].attempt < MaxAttempts THEN "Retry scheduled" ELSE "Failed"
        <5>1. n \in 0..MaxRuns /\ db \in Snapshots(n)
          BY <1>1
        <5> QED BY <5>1, FailMoves
      <4>2. db' = e
        BY <2>3
      <4> HIDE DEF e
      <4> QED BY <4>1, <4>2
    <3>2. db'.runs[i].status # "Queued"
      BY <3>1
    <3> QED BY <3>1, <3>2, <2>1, MovedKeeps
  <2> QED BY <1>6, <2>1, <2>2, <2>3 DEF SettleRun
<1>7. ASSUME NEW i \in 1..n, NEW w \in Workers, ExecuteLive(w, i)
      PROVE  Kept(db, db', plans', pc', slips') /\ live' \in BOOLEAN
  <2>1. /\ pc[w] = "idle" /\ db.runs[i].status \in Active /\ live' = live
        /\ slips' \in Nat /\ slips' <= MaxSlips
        /\ IF db.runs[i].status = "Running" THEN slips' = slips + 1 ELSE slips' = slips
    BY <1>1, <1>7 DEF ExecuteLive, Slip
  <2>2. PICK credential \in BOOLEAN :
          /\ db' = PlanRun(db, i, credential)
          /\ IF db'.runs[i].status = "Running"
             THEN plans' = [plans EXCEPT ![w] = <<i>>] /\ pc' = [pc EXCEPT ![w] = "call"]
             ELSE plans' = plans /\ pc' = pc
    BY <1>7 DEF ExecuteLive
  <2>3. /\ db'.runs[i].status = "Running" =>
             Kept(db, db', [plans EXCEPT ![w] = <<i>>], [pc EXCEPT ![w] = "call"], slips')
        /\ db'.runs[i].status # "Running" => Kept(db, db', plans, pc, slips')
    BY <2>1, <2>2, ExecuteKeeps, SMTT(60)
  <2> QED BY <2>1, <2>2, <2>3
<1>8. ASSUME SwitchMode
      PROVE  Kept(db, db', plans', pc', slips') /\ live' \in BOOLEAN
  <2>1. live' = ~live /\ db' = db /\ pc' = pc /\ plans' = plans /\ slips' = slips
    BY <1>8 DEF SwitchMode
  <2>2. NotPutBack(db, db)
    BY DEF NotPutBack
  <2> QED BY <2>1, <2>2, <1>1 DEF Kept
<1> QED BY <1>1, <1>2, <1>3, <1>4, <1>5, <1>6, <1>7, <1>8 DEF Operator

LEMMA TimeKeeps ==
  ASSUME NEW n, Ready(n, db, plans, pc, slips), Time
  PROVE  Kept(db, db', plans', pc', slips') /\ live' = live
<1>1. /\ n \in 0..MaxRuns /\ n \in Nat /\ db \in Snapshots(n) /\ DOMAIN db.runs = 1..n
      /\ slips \in Nat /\ slips <= MaxSlips /\ MaxSlips \in Nat
  BY ReadyFields, Constants
<1>0. 0 \in 0..n /\ \A i \in 1..n : i \in 0..n /\ i # 0
  BY <1>1
<1>2. ASSUME NEW i \in 1..n, LeaseExpires(i)
      PROVE  Kept(db, db', plans', pc', slips') /\ live' = live
  <2>1. /\ slips' = slips + 1 /\ slips' \in Nat /\ slips' <= MaxSlips
        /\ live' = live /\ pc' = pc /\ plans' = plans
        /\ db' = [db EXCEPT !.runs[i].lease = "expired"]
    BY <1>1, <1>2 DEF LeaseExpires, Slip
  <2>2. Touched(n, db, db') /\ \A k \in (1..n) \ {i} : db'.runs[k].lease = db.runs[k].lease
    <3> DEFINE e == [db EXCEPT !.runs[i].lease = "expired"]
    <3>1. Touched(n, db, e) /\ \A k \in (1..n) \ {i} : e.runs[k].lease = db.runs[k].lease
      BY <1>1, LeaseTouches
    <3>2. db' = e
      BY <2>1
    <3> HIDE DEF e
    <3> QED BY <3>1, <3>2
  <2>3. Kept(db, db', plans, pc, slips')
    BY <2>1, <2>2, <1>0, TouchKeeps
  <2> QED BY <2>1, <2>3
<1>3. ASSUME NEW i \in 1..n, WindowPasses(i)
      PROVE  Kept(db, db', plans', pc', slips') /\ live' = live
  <2>1. /\ slips' = slips /\ live' = live /\ pc' = pc /\ plans' = plans
        /\ db' = [db EXCEPT !.runs[i].recent = FALSE]
    BY <1>3 DEF WindowPasses
  <2>2. Touched(n, db, db') /\ \A k \in (1..n) \ {0} : db'.runs[k].lease = db.runs[k].lease
    <3> DEFINE e == [db EXCEPT !.runs[i].recent = FALSE]
    <3>1. Touched(n, db, e) /\ \A k \in 1..n : e.runs[k].lease = db.runs[k].lease
      BY <1>1, WindowTouches
    <3>2. db' = e
      BY <2>1
    <3> HIDE DEF e
    <3> QED BY <3>1, <3>2
  <2>3. Kept(db, db', plans, pc, slips)
    BY <2>2, <1>0, <1>1, TouchKeeps
  <2> QED BY <2>1, <2>3
<1>4. ASSUME NEW j \in Jobs, RetryFallsDue(j)
      PROVE  Kept(db, db', plans', pc', slips') /\ live' = live
  <2>1. /\ slips' = slips /\ live' = live /\ pc' = pc /\ plans' = plans
        /\ db' = [db EXCEPT !.jobs[j].retryAt = "due"]
    BY <1>4 DEF RetryFallsDue
  <2>2. Touched(n, db, db') /\ \A k \in (1..n) \ {0} : db'.runs[k].lease = db.runs[k].lease
    BY <2>1, <1>1, DueTouches
  <2>3. Kept(db, db', plans, pc, slips)
    BY <2>2, <1>0, <1>1, TouchKeeps
  <2> QED BY <2>1, <2>3
<1> QED BY <1>1, <1>2, <1>3, <1>4 DEF Time

LEMMA StepKeeps == JobsInv /\ [Next]_vars => JobsInv' /\ NotPutBack(db, db')
<1> SUFFICES ASSUME JobsInv, [Next]_vars PROVE JobsInv' /\ NotPutBack(db, db')
  OBVIOUS
<1>1. PICK n \in 0..MaxRuns : Ready(n, db, plans, pc, slips)
  BY DEF JobsInv
<1>2. live \in BOOLEAN
  BY DEF JobsInv
<1>3. Kept(db, db', plans', pc', slips') /\ live' \in BOOLEAN
  <2>1. ASSUME NEW w \in Workers, Tick(w) PROVE Kept(db, db', plans', pc', slips') /\ live' \in BOOLEAN
    BY <2>1, <1>1, <1>2, TickKeeps
  <2>2. ASSUME NEW w \in Workers, Crash(w) PROVE Kept(db, db', plans', pc', slips') /\ live' \in BOOLEAN
    <3>1. /\ pc' = [pc EXCEPT ![w] = "idle"] /\ plans' = [plans EXCEPT ![w] = <<>>]
          /\ db' = db /\ live' = live /\ slips' = slips
      BY <2>2 DEF Crash
    <3>2. Kept(db, db, [plans EXCEPT ![w] = <<>>], [pc EXCEPT ![w] = "idle"], slips)
      BY <1>1, CrashKeeps
    <3> QED BY <3>1, <3>2, <1>2
  <2>3. CASE Operator
    BY <2>3, <1>1, <1>2, OperatorKeeps
  <2>4. CASE Time
    BY <2>4, <1>1, <1>2, TimeKeeps
  <2>5. CASE UNCHANGED vars
    <3>1. db' = db /\ live' = live /\ pc' = pc /\ plans' = plans /\ slips' = slips
      BY <2>5 DEF vars
    <3>2. NotPutBack(db, db)
      BY DEF NotPutBack
    <3> QED BY <3>1, <3>2, <1>1, <1>2 DEF Kept
  <2> QED BY <2>1, <2>2, <2>3, <2>4, <2>5 DEF Next
<1>4. \E m \in 0..MaxRuns : Ready(m, db', plans', pc', slips')
  BY <1>3 DEF Kept
<1>5. JobsInv'
  BY <1>3, <1>4 DEF JobsInv, Ready, Held, Bounded
<1>6. NotPutBack(db, db')
  BY <1>3 DEF Kept
<1> QED BY <1>5, <1>6

LEMMA AlwaysReady == Spec => []JobsInv
<1>1. JobsInv /\ [Next]_vars => JobsInv'
  BY StepKeeps
<1> QED BY <1>1, InitReady, PTL DEF Spec

-----------------------------------------------------------------------------
(* Every snapshot the provider jobs reach is well formed: jobs, runs and    *)
(* ledger entries of the stated shapes, and plans of runs that exist.       *)
THEOREM TypeCorrect == Spec => []TypeOK
<1>1. JobsInv => TypeOK
  <2> SUFFICES ASSUME JobsInv PROVE TypeOK
    OBVIOUS
  <2>1. PICK n \in 0..MaxRuns : Ready(n, db, plans, pc, slips)
    BY DEF JobsInv
  <2>2. /\ n \in Nat /\ n <= MaxRuns /\ db \in Snapshots(n) /\ DOMAIN db.runs = 1..n /\ Len(db.runs) = n
        /\ plans \in [Workers -> Seq(1..n)] /\ slips \in 0..MaxSlips
        /\ pc \in [Workers -> {"idle", "queue", "plan", "call"}]
    BY <2>1, ReadyFields, Constants DEF Plans, Ready
  <2>3. db.jobs \in [Jobs -> JobRows] /\ db.runs \in Seq(Runs) /\ db.ledger \in SUBSET Entries(n)
    BY <2>2, SnapshotFields
  <2>4. live \in BOOLEAN
    BY DEF JobsInv
  <2> QED BY <2>2, <2>3, <2>4 DEF TypeOK, Entries
<1> QED BY <1>1, AlwaysReady, PTL

(* A job says what its latest run says, or is queued while a run of it is,  *)
(* whatever ticks, late outcomes, crashes and operators do to it.           *)
THEOREM JobMirrorsLatestRunHolds == Spec => []JobMirrorsLatestRun
<1>1. JobsInv => JobMirrorsLatestRun
  <2> SUFFICES ASSUME JobsInv PROVE JobMirrorsLatestRun
    OBVIOUS
  <2>1. PICK n \in 0..MaxRuns : Ready(n, db, plans, pc, slips)
    BY DEF JobsInv
  <2>2. Sound(db)
    BY <2>1, ReadyFields
  <2> QED BY <2>2 DEF Sound, Mirrors, JobMirrorsLatestRun
<1> QED BY <1>1, AlwaysReady, PTL

(* A due retry never throws, so one job never aborts the queue transaction  *)
(* that serves all of them.                                                 *)
THEOREM DueRetriesNeverThrowHolds == Spec => []DueRetriesNeverThrow
<1>1. JobsInv => DueRetriesNeverThrow
  <2> SUFFICES ASSUME JobsInv PROVE DueRetriesNeverThrow
    OBVIOUS
  <2>1. PICK n \in 0..MaxRuns : Ready(n, db, plans, pc, slips)
    BY DEF JobsInv
  <2>2. n \in Nat /\ db \in Good(n)
    BY <2>1, ReadyFields
  <2> QED BY <2>2, DueIsRetryable DEF DueRetriesNeverThrow, Poisoned
<1> QED BY <1>1, AlwaysReady, PTL

(* A run that shows Completed is charged for, by whichever path it was      *)
(* completed: what the budget rule reads is never short of one.             *)
THEOREM CompletedIsChargedHolds == Spec => []CompletedIsCharged
<1>1. JobsInv => CompletedIsCharged
  <2> SUFFICES ASSUME JobsInv PROVE CompletedIsCharged
    OBVIOUS
  <2>1. PICK n \in 0..MaxRuns : Ready(n, db, plans, pc, slips)
    BY DEF JobsInv
  <2>2. Sound(db)
    BY <2>1, ReadyFields
  <2> QED BY <2>2 DEF Sound, ChargedWhole, CompletedIsCharged, Charged, RunsIn
<1> QED BY <1>1, AlwaysReady, PTL

(* A job has no more active runs than one and the slips: every active run   *)
(* has a token of its own, and only a slip makes a token.                   *)
THEOREM OneActiveRunPerSlipHolds == Spec => []OneActiveRunPerSlip
<1>1. JobsInv => OneActiveRunPerSlip
  <2> SUFFICES ASSUME JobsInv, NEW j \in Jobs
               PROVE  Cardinality({i \in RunsIn(db, Active) : db.runs[i].job = j}) <= 1 + slips
    BY DEF OneActiveRunPerSlip
  <2>1. PICK n \in 0..MaxRuns : Ready(n, db, plans, pc, slips)
    BY DEF JobsInv
  <2> DEFINE A == {i \in RunsIn(db, Active) : db.runs[i].job = j}
             S == Tokens(db, plans, j)
             f == [t \in S |-> t[2]]
  <2>2. /\ n \in Nat /\ db \in Snapshots(n) /\ DOMAIN db.runs = 1..n /\ slips \in Nat
        /\ IsFiniteSet(S) /\ Cardinality(S) \in Nat /\ Cardinality(S) <= 1 + slips
    BY <2>1, ReadyFields
  <2>t. \A holder, i : <<holder, i>> \in S
          <=> holder \in SUBSET Workers /\ i \in 0..n /\ IsToken(db, plans, j, holder, i)
    BY <2>2, TokenIs
  <2> HIDE DEF S
  <2>3. ASSUME NEW i \in A PROVE \E holder : <<holder, i>> \in S
    <3>1. i \in 1..n /\ i \in 0..n /\ db.runs[i].job = j /\ db.runs[i].status \in {"Queued", "Running"}
      BY <2>2 DEF RunsIn, Active
    <3>2. CASE Loose(db, plans, i)
      <4>1. IsToken(db, plans, j, {}, i) /\ {} \in SUBSET Workers
        BY <3>1, <3>2, <2>2 DEF IsToken
      <4>2. <<{}, i>> \in S
        BY <4>1, <3>1, <2>t
      <4> QED BY <4>2
    <3>3. CASE ~Loose(db, plans, i)
      <4>1. PICK v \in Holders(plans, i) : TRUE
        BY <3>1, <3>3 DEF Loose
      <4>2. v \in Workers /\ {v} \in SUBSET Workers
        BY DEF Holders
      <4>3. IsToken(db, plans, j, {v}, i)
        BY <3>1, <2>2 DEF IsToken
      <4>4. <<{v}, i>> \in S
        BY <4>2, <4>3, <3>1, <2>t
      <4> QED BY <4>4
    <3> QED BY <3>2, <3>3
  <2>4. A \subseteq {f[t] : t \in S}
    <3>1. \A holder, i : <<holder, i>> \in S => f[<<holder, i>>] = i
      OBVIOUS
    <3> HIDE DEF A, S, f
    <3> QED BY <3>1, <2>3
  <2> HIDE DEF A, S, f
  <2>5. IsFiniteSet(A) /\ Cardinality(A) <= Cardinality(S)
    BY <2>2, <2>4, NoMoreValues
  <2>6. Cardinality(A) \in Nat
    BY <2>5, FS_CardinalityType
  <2>7. Cardinality(A) <= 1 + slips
    BY <2>2, <2>5, <2>6
  <2> QED BY <2>7 DEF A
<1> QED BY <1>1, AlwaysReady, PTL

(* No step takes a running run back to the queue before its lease is over.  *)
THEOREM LeaseKeepsTheRunHolds == Spec => LeaseKeepsTheRun
<1>1. JobsInv /\ [Next]_vars =>
        [\A i \in DOMAIN db.runs :
           db.runs[i].status = "Running" /\ db'.runs[i].status = "Queued" => db.runs[i].lease = "expired"]_vars
  BY StepKeeps DEF NotPutBack
<1> QED BY <1>1, AlwaysReady, PTL DEF Spec, LeaseKeepsTheRun
-----------------------------------------------------------------------------
\* What is charged for and under way, and the runs nobody recovers.  A step
\* either leaves the ledger within the budget, or charges and takes up no more
\* than it settles and slips; and only a start by hand strands a run.

Short(ps) == \A w \in Workers : Len(ps[w]) <= MaxLiveRuns

Owed(d, ps) == Spent(d) + MaxUnits * Cardinality(CallsUnderWay(ps))

Within(d, ps, e, ps2, s, s2) ==
  \/ Spent(e) <= Budget
  \/ Owed(e, ps2) + MaxUnits * s <= Owed(d, ps) + MaxUnits * s2

Strands(d, e, s, s2) ==
  \/ Stranded(e) \subseteq Stranded(d) /\ s <= s2
  \/ Manual /\ s2 = s + 1 /\ \E i : Stranded(e) \subseteq Stranded(d) \union {i}

SpendInv == JobsInv /\ Short(plans) /\ OverspendIsBounded /\ StrandedByHandOnly

LEMMA Units ==
  ASSUME NEW a \in Nat, NEW b \in Nat
  PROVE  /\ MaxUnits * a \in Nat /\ MaxUnits * (a + b) = MaxUnits * a + MaxUnits * b
         /\ MaxUnits * (a + 1) = MaxUnits * a + MaxUnits
         /\ a <= b => MaxUnits * a <= MaxUnits * b
<1>1. MaxUnits \in Nat
  BY Constants
<1>2. /\ MaxUnits * a \in Nat /\ MaxUnits * b \in Nat /\ MaxUnits * (a + b) = MaxUnits * a + MaxUnits * b
      /\ MaxUnits * (a + 1) = MaxUnits * a + MaxUnits
  BY <1>1
<1>3. ASSUME a <= b PROVE MaxUnits * a <= MaxUnits * b
  <2> DEFINE k == b - a
  <2>1. k \in Nat /\ b = a + k
    BY <1>3
  <2> HIDE DEF k
  <2>2. MaxUnits * k \in Nat /\ MaxUnits * a \in Nat /\ MaxUnits * (a + k) = MaxUnits * a + MaxUnits * k
    BY <1>1, <2>1
  <2> QED BY <2>1, <2>2
<1> QED BY <1>2, <1>3

LEMMA CallsAre ==
  ASSUME NEW n \in Nat, NEW ps \in Plans(n)
  PROVE  /\ \A w, k : <<w, k>> \in CallsUnderWay(ps) <=> w \in Workers /\ k \in 1..Len(ps[w])
         /\ \A c \in CallsUnderWay(ps) : c = <<c[1], c[2]>>
<1>1. ASSUME NEW w \in Workers PROVE DOMAIN ps[w] = 1..Len(ps[w])
  <2>1. ps[w] \in Seq(1..n)
    BY DEF Plans
  <2> QED BY <2>1, LenProperties
<1>2. \A w, k : <<w, k>> \in CallsUnderWay(ps) <=> w \in Workers /\ k \in DOMAIN ps[w]
  BY DEF CallsUnderWay
<1>3. \A c \in CallsUnderWay(ps) : c = <<c[1], c[2]>>
  BY DEF CallsUnderWay
<1> QED BY <1>1, <1>2, <1>3

\* The workers together have MaxLiveRuns calls each under way at most.
LEMMA CallsAreFew ==
  ASSUME NEW n \in Nat, NEW ps \in Plans(n), Short(ps)
  PROVE  /\ IsFiniteSet(CallsUnderWay(ps)) /\ Cardinality(CallsUnderWay(ps)) \in Nat
         /\ Cardinality(Workers) * MaxLiveRuns \in Nat
         /\ Cardinality(CallsUnderWay(ps)) <= Cardinality(Workers) * MaxLiveRuns
<1> DEFINE all == Workers \X (1..MaxLiveRuns)
<1>1. IsFiniteSet(Workers) /\ MaxLiveRuns \in Nat /\ Cardinality(Workers) \in Nat
  BY Constants, FS_CardinalityType
<1>2. IsFiniteSet(1..MaxLiveRuns) /\ Cardinality(1..MaxLiveRuns) = MaxLiveRuns
  <2>1. 1 \in Int /\ MaxLiveRuns \in Int /\ ~(1 > MaxLiveRuns) /\ MaxLiveRuns - 1 + 1 = MaxLiveRuns
    BY Constants
  <2>2. /\ IsFiniteSet(1..MaxLiveRuns)
        /\ Cardinality(1..MaxLiveRuns) = IF 1 > MaxLiveRuns THEN 0 ELSE MaxLiveRuns - 1 + 1
    BY <2>1, FS_Interval
  <2> QED BY <2>1, <2>2
<1>3. IsFiniteSet(all) /\ Cardinality(all) = Cardinality(Workers) * MaxLiveRuns
  BY <1>1, <1>2, FS_Product
<1>4. CallsUnderWay(ps) \subseteq all
  <2>1. ASSUME NEW w, NEW k, <<w, k>> \in CallsUnderWay(ps) PROVE <<w, k>> \in all
    <3>1. w \in Workers /\ k \in 1..Len(ps[w])
      BY <2>1, CallsAre
    <3>2. Len(ps[w]) \in Nat /\ Len(ps[w]) <= MaxLiveRuns
      <4>1. ps[w] \in Seq(1..n)
        BY <3>1 DEF Plans
      <4> QED BY <3>1, <4>1, LenProperties DEF Short
    <3> QED BY <3>1, <3>2, <1>1
  <2> HIDE DEF all
  <2> QED BY <2>1, CallsAre
<1> HIDE DEF all
<1>5. IsFiniteSet(CallsUnderWay(ps)) /\ Cardinality(CallsUnderWay(ps)) <= Cardinality(all)
  BY <1>3, <1>4, NoMoreMembers
<1> QED BY <1>1, <1>3, <1>5, FS_CardinalityType, FS_Product

LEMMA StrandedAre ==
  ASSUME NEW n \in Nat, NEW d \in Snapshots(n)
  PROVE  /\ \A i : i \in Stranded(d) <=> i \in 1..n /\ d.runs[i].status = "Running" /\ d.runs[i].lease = "none"
         /\ IsFiniteSet(Stranded(d)) /\ Cardinality(Stranded(d)) \in Nat
<1>1. DOMAIN d.runs = 1..n
  BY SnapshotFields
<1>2. \A i : i \in Stranded(d) <=> i \in 1..n /\ d.runs[i].status = "Running" /\ d.runs[i].lease = "none"
  BY <1>1 DEF Stranded, RunsIn
<1>3. IsFiniteSet(1..n) /\ Stranded(d) \subseteq 1..n
  BY <1>2, FS_Interval
<1> QED BY <1>2, <1>3, FS_Subset, FS_CardinalityType

\* A step that keeps its account keeps the invariant.
LEMMA AccountKeeps ==
  ASSUME NEW n, Ready(n, db, plans, pc, slips), NEW m, Ready(m, db', plans', pc', slips')
  PROVE  /\ Short(plans) /\ OverspendIsBounded /\ StrandedByHandOnly
         /\ Short(plans') /\ Within(db, plans, db', plans', slips, slips') /\ Strands(db, db', slips, slips')
         => OverspendIsBounded' /\ StrandedByHandOnly'
<1> SUFFICES ASSUME Short(plans), OverspendIsBounded, StrandedByHandOnly,
                    Short(plans'), Within(db, plans, db', plans', slips, slips'),
                    Strands(db, db', slips, slips')
             PROVE  OverspendIsBounded' /\ StrandedByHandOnly'
  OBVIOUS
<1>1. n \in Nat /\ db \in Snapshots(n) /\ plans \in Plans(n) /\ slips \in Nat
  BY ReadyFields
<1>2. m \in Nat /\ db' \in Snapshots(m) /\ plans' \in Plans(m) /\ slips' \in Nat
  BY ReadyFields
<1>3. /\ Spent(db) \in Nat /\ Spent(db') \in Nat /\ Budget \in Nat
  <2>1. Spent(db) \in Nat
    BY <1>1, SpentIs
  <2>2. Spent(db') \in Nat
    BY <1>2, SpentIs
  <2> QED BY <2>1, <2>2, Constants
<1>4. /\ Cardinality(CallsUnderWay(plans)) \in Nat /\ Cardinality(CallsUnderWay(plans')) \in Nat
      /\ Cardinality(Workers) * MaxLiveRuns \in Nat
      /\ Cardinality(CallsUnderWay(plans')) <= Cardinality(Workers) * MaxLiveRuns
  BY <1>1, <1>2, CallsAreFew
<1> DEFINE most == Cardinality(Workers) * MaxLiveRuns
<1>5. Spent(db) + MaxUnits * Cardinality(CallsUnderWay(plans)) <= Budget + MaxUnits * (most + slips)
  BY DEF OverspendIsBounded
<1>6. Spent(db') + MaxUnits * Cardinality(CallsUnderWay(plans')) <= Budget + MaxUnits * (most + slips')
  <2> DEFINE calls  == Cardinality(CallsUnderWay(plans))
             calls2 == Cardinality(CallsUnderWay(plans'))
  <2>1. /\ most \in Nat /\ calls \in Nat /\ calls2 \in Nat /\ calls2 <= most
        /\ Spent(db) + MaxUnits * calls <= Budget + MaxUnits * (most + slips)
    BY <1>4, <1>5
  <2>2. /\ Within(db, plans, db', plans', slips, slips')
        /\ Owed(db, plans) = Spent(db) + MaxUnits * calls /\ Owed(db', plans') = Spent(db') + MaxUnits * calls2
    BY DEF Owed
  <2> HIDE DEF most, calls, calls2
  <2>3. /\ MaxUnits * (most + slips) = MaxUnits * most + MaxUnits * slips
        /\ MaxUnits * (most + slips') = MaxUnits * most + MaxUnits * slips'
        /\ MaxUnits * calls2 <= MaxUnits * most
        /\ MaxUnits * most \in Nat /\ MaxUnits * slips \in Nat /\ MaxUnits * slips' \in Nat
        /\ MaxUnits * calls \in Nat /\ MaxUnits * calls2 \in Nat
    BY <2>1, <1>1, <1>2, Units
  <2>4. Spent(db') + MaxUnits * calls2 <= Budget + MaxUnits * (most + slips')
    <3>1. CASE Spent(db') <= Budget
      BY <3>1, <2>1, <2>3, <1>3
    <3>2. CASE Owed(db', plans') + MaxUnits * slips <= Owed(db, plans) + MaxUnits * slips'
      BY <3>2, <2>1, <2>2, <2>3, <1>3
    <3> QED BY <3>1, <3>2, <2>2 DEF Within
  <2> QED BY <2>4 DEF calls2
<1> HIDE DEF most
<1>7. OverspendIsBounded'
  BY <1>6 DEF most, OverspendIsBounded, CallsUnderWay, Spent
<1>8. /\ IsFiniteSet(Stranded(db)) /\ Cardinality(Stranded(db)) \in Nat /\ Cardinality(Stranded(db)) <= slips
      /\ ~Manual => Stranded(db) = {}
      /\ Cardinality(Stranded(db')) \in Nat
  BY <1>1, <1>2, StrandedAre DEF StrandedByHandOnly
<1>9. Cardinality(Stranded(db')) <= slips' /\ (~Manual => Stranded(db') = {})
  <2>1. CASE Stranded(db') \subseteq Stranded(db) /\ slips <= slips'
    <3>1. Cardinality(Stranded(db')) <= Cardinality(Stranded(db))
      BY <2>1, <1>8, NoMoreMembers
    <3> QED BY <3>1, <2>1, <1>1, <1>2, <1>8
  <2>2. CASE Manual /\ slips' = slips + 1 /\ \E i : Stranded(db') \subseteq Stranded(db) \union {i}
    <3>1. Cardinality(Stranded(db')) <= Cardinality(Stranded(db)) + 1
      BY <2>2, <1>8, OneMoreMember
    <3> QED BY <3>1, <2>2, <1>1, <1>2, <1>8
  <2> QED BY <2>1, <2>2 DEF Strands
<1>10. StrandedByHandOnly'
  BY <1>9 DEF StrandedByHandOnly, Stranded, RunsIn
<1> QED BY <1>7, <1>10

\* A step that charges for nothing new and takes up no call.
LEMMA NothingSpent ==
  ASSUME NEW n \in Nat, NEW d \in Snapshots(n), NEW ps \in Plans(n), Short(ps), NEW e, e.ledger = d.ledger,
         NEW ps2, \A w \in Workers : ps2[w] = ps[w] \/ ps2[w] = <<>>,
         NEW s \in Nat, NEW s2 \in Nat, s <= s2
  PROVE  Short(ps2) /\ Within(d, ps, e, ps2, s, s2)
<1>1. IsFiniteSet(CallsUnderWay(ps)) /\ Cardinality(CallsUnderWay(ps)) \in Nat
  BY CallsAreFew
<1>2. CallsUnderWay(ps2) \subseteq CallsUnderWay(ps)
  <2>1. DOMAIN <<>> = {}
    OBVIOUS
  <2> QED BY <2>1 DEF CallsUnderWay
<1>3. IsFiniteSet(CallsUnderWay(ps2)) /\ Cardinality(CallsUnderWay(ps2)) <= Cardinality(CallsUnderWay(ps))
  BY <1>1, <1>2, NoMoreMembers
<1>4. Cardinality(CallsUnderWay(ps2)) \in Nat
  BY <1>3, FS_CardinalityType
<1>5. Spent(d) \in Nat /\ Spent(e) = Spent(d)
  BY SpentIs, SameSpent
<1>6. Within(d, ps, e, ps2, s, s2)
  <2> DEFINE calls  == Cardinality(CallsUnderWay(ps))
             calls2 == Cardinality(CallsUnderWay(ps2))
  <2>1. calls \in Nat /\ calls2 \in Nat /\ calls2 <= calls
    BY <1>1, <1>3, <1>4
  <2>2. Owed(d, ps) = Spent(d) + MaxUnits * calls /\ Owed(e, ps2) = Spent(e) + MaxUnits * calls2
    BY DEF Owed
  <2> HIDE DEF calls, calls2
  <2>3. /\ MaxUnits * calls \in Nat /\ MaxUnits * calls2 \in Nat /\ MaxUnits * calls2 <= MaxUnits * calls
        /\ MaxUnits * s \in Nat /\ MaxUnits * s2 \in Nat /\ MaxUnits * s <= MaxUnits * s2
    BY <2>1, Units
  <2> QED BY <1>5, <2>2, <2>3 DEF Within
<1>7. Short(ps2)
  <2>1. Len(<<>>) <= MaxLiveRuns
    BY Constants
  <2> QED BY <2>1 DEF Short
<1> QED BY <1>6, <1>7

\* What moves one run strands it only by leaving it running without a lease.
LEMMA MovedStrands ==
  ASSUME NEW n \in Nat, NEW d \in Snapshots(n), NEW e \in Snapshots(n), NEW i \in 1..n, Moved(d, e, i)
  PROVE  /\ Stranded(e) \subseteq Stranded(d) \union {i}
         /\ e.runs[i].status # "Running" \/ e.runs[i].lease # "none" => Stranded(e) \subseteq Stranded(d)
<1>1. \A k \in (1..n) \ {i} : e.runs[k] = d.runs[k]
  BY SnapshotFields DEF Moved
<1>2. \A k : k \in Stranded(e) <=> k \in 1..n /\ e.runs[k].status = "Running" /\ e.runs[k].lease = "none"
  BY StrandedAre
<1>3. \A k : k \in Stranded(d) <=> k \in 1..n /\ d.runs[k].status = "Running" /\ d.runs[k].lease = "none"
  BY StrandedAre
<1> QED BY <1>1, <1>2, <1>3

LEMMA QueueSpends ==
  ASSUME NEW n, NEW d, NEW ps, NEW p, NEW s, Ready(n, d, ps, p, s), Short(ps),
         n + Cardinality(DueJobs(d)) <= MaxRuns, NEW succeeds, NEW tied,
         NEW e, e = AfterQueue(d, succeeds, tied)
  PROVE  Within(d, ps, e, ps, s, s) /\ Strands(d, e, s, s)
<1>1. /\ n \in 0..MaxRuns /\ n \in Nat /\ d \in Good(n) /\ d \in Snapshots(n) /\ ps \in Plans(n) /\ s \in Nat
      /\ \A i : Holders(ps, i) # {} => i \in 1..n
  BY ReadyFields
<1>2. Stranded(e) \subseteq Stranded(d) /\ Paid(d, e)
  BY <1>1, AfterQueueIs
<1>3. CASE e.ledger = d.ledger
  BY <1>1, <1>3, <1>2, NothingSpent DEF Strands
<1>4. CASE Spent(e) <= Budget
  BY <1>1, <1>2, <1>4 DEF Within, Strands
<1> QED BY <1>2, <1>3, <1>4 DEF Paid

LEMMA PlanSpends ==
  ASSUME NEW n, NEW d, NEW ps, NEW p, NEW s, Ready(n, d, ps, p, s), Short(ps),
         NEW w \in Workers, p[w] = "plan", NEW credential \in BOOLEAN, NEW a, a = AfterPlan(d, credential)
  PROVE  LET ps2 == [ps EXCEPT ![w] = a.plans] IN
         Short(ps2) /\ Within(d, ps, a.db, ps2, s, s) /\ Strands(d, a.db, s, s)
<1> DEFINE fate == Fate(d, credential)
           ps2  == [ps EXCEPT ![w] = a.plans]
<1>1. /\ n \in 0..MaxRuns /\ n \in Nat /\ d \in Snapshots(n) /\ ps \in Plans(n) /\ s \in Nat /\ DOMAIN d.runs = 1..n
  BY ReadyFields
<1>2. PlannedAll(n, d, a, fate)
  BY <1>1, AfterPlanIs
<1>3. ps \in [Workers -> Seq(1..n)]
  BY <1>1 DEF Plans
<1>4. \A v \in Workers : ps2[v] = IF v = w THEN a.plans ELSE ps[v]
  BY <1>3
<1>5. a.db \in Snapshots(n) /\ a.db.ledger = d.ledger /\ Len(a.plans) <= MaxLiveRuns /\ a.plans \in Seq(1..n)
  BY <1>2 DEF PlannedAll
<1>6. fate = "Running" => Spent(d) <= Budget
  <2>1. Spent(d) \in Nat /\ Budget \in Nat
    BY <1>1, SpentIs, Constants
  <2> QED BY <2>1 DEF Fate, BudgetAllows
<1> HIDE DEF ps2, fate
<1>7. Short(ps2)
  BY <1>4, <1>5 DEF Short
<1>8. Within(d, ps, a.db, ps2, s, s)
  <2>1. CASE a.plans = <<>>
    BY <2>1, <1>1, <1>4, <1>5, NothingSpent
  <2>2. CASE a.plans # <<>>
    <3>1. 1 \in DOMAIN a.plans
      BY <2>2, <1>5, LenProperties, EmptySeq
    <3>2. fate = "Running"
      BY <3>1, <1>2 DEF PlannedAll
    <3> QED BY <3>2, <1>5, <1>6, SameSpent DEF Within
  <2> QED BY <2>1, <2>2
<1>9. Stranded(a.db) \subseteq Stranded(d)
  <2> SUFFICES ASSUME NEW i \in Stranded(a.db) PROVE i \in Stranded(d)
    OBVIOUS
  <2>1. i \in 1..n /\ a.db.runs[i].status = "Running" /\ a.db.runs[i].lease = "none"
    BY <1>1, <1>5, StrandedAre
  <2>2. a.db.runs[i] = d.runs[i] \/ Planned(d, a.db, i, fate)
    BY <2>1, <1>2 DEF PlannedAll
  <2>3. a.db.runs[i] = d.runs[i]
    BY <2>1, <2>2 DEF Planned
  <2> QED BY <2>1, <2>3, <1>1, StrandedAre
<1> QED BY <1>1, <1>7, <1>8, <1>9 DEF Strands, ps2

LEMMA OutcomeSpends ==
  ASSUME NEW n, NEW d, NEW ps, NEW p, NEW s, Ready(n, d, ps, p, s), Short(ps),
         NEW w \in Workers, p[w] = "call", NEW e \in Snapshots(n),
         \E i \in 1..n : /\ Moved(d, e, i) /\ e.runs[i].status # "Running"
                         /\ Spent(e) <= Spent(d) + MaxUnits,
         NEW ps2, ps2 = [ps EXCEPT ![w] = Tail(ps[w])]
  PROVE  Short(ps2) /\ Within(d, ps, e, ps2, s, s) /\ Strands(d, e, s, s)
<1> DEFINE last == Len(ps[w])
<1>i. PICK i \in 1..n : Moved(d, e, i) /\ e.runs[i].status # "Running" /\ Spent(e) <= Spent(d) + MaxUnits
  OBVIOUS
<1>1. /\ n \in Nat /\ d \in Snapshots(n) /\ ps \in Plans(n) /\ s \in Nat /\ Held(p, ps)
  BY ReadyFields
<1>2. ps \in [Workers -> Seq(1..n)] /\ ps[w] # <<>>
  BY <1>1 DEF Plans, Held
<1>3. /\ last \in Nat /\ last # 0 /\ Tail(ps[w]) \in Seq(1..n) /\ Len(Tail(ps[w])) = last - 1
      /\ last <= MaxLiveRuns /\ MaxLiveRuns \in Nat
  <2>1. ps[w] \in Seq(1..n)
    BY <1>2
  <2>2. last \in Nat /\ last # 0 /\ Tail(ps[w]) \in Seq(1..n) /\ Len(Tail(ps[w])) = last - 1
    BY <2>1, <1>2, LenProperties, EmptySeq, HeadTailProperties
  <2> QED BY <2>2, Constants DEF Short
<1>4. \A v \in Workers : ps2[v] = IF v = w THEN Tail(ps[w]) ELSE ps[v]
  BY <1>2
<1>5. ps2 \in Plans(n)
  BY <1>1, <1>3, HoldersAre
<1> HIDE DEF last
<1>6. Short(ps2)
  <2>1. last - 1 <= MaxLiveRuns
    BY <1>3
  <2> QED BY <2>1, <1>3, <1>4 DEF Short
<1>7. CallsUnderWay(ps2) \subseteq CallsUnderWay(ps) \ {<<w, last>>} /\ <<w, last>> \in CallsUnderWay(ps)
  <2>1. ASSUME NEW v, NEW k, <<v, k>> \in CallsUnderWay(ps2)
        PROVE  <<v, k>> \in CallsUnderWay(ps) \ {<<w, last>>}
    <3>1. v \in Workers /\ k \in 1..Len(ps2[v])
      BY <2>1, <1>1, <1>5, CallsAre
    <3>2. CASE v # w
      BY <3>1, <3>2, <1>1, <1>4, CallsAre
    <3>3. CASE v = w
      <4>1. k \in 1..last /\ k # last
        <5>1. Len(ps2[v]) = last - 1
          BY <3>3, <1>3, <1>4
        <5> QED BY <3>1, <5>1, <1>3
      <4> QED BY <3>1, <3>3, <4>1, <1>1, CallsAre DEF last
    <3> QED BY <3>2, <3>3
  <2>2. last \in 1..last
    BY <1>3
  <2>3. <<w, last>> \in CallsUnderWay(ps)
    BY <2>2, <1>1, CallsAre DEF last
  <2>4. ASSUME NEW c \in CallsUnderWay(ps2) PROVE c \in CallsUnderWay(ps) \ {<<w, last>>}
    <3>1. c = <<c[1], c[2]>>
      BY <1>1, <1>5, CallsAre
    <3>2. <<c[1], c[2]>> \in CallsUnderWay(ps2)
      BY <3>1
    <3>3. <<c[1], c[2]>> \in CallsUnderWay(ps) \ {<<w, last>>}
      BY <3>2, <2>1
    <3> QED BY <3>1, <3>3
  <2> QED BY <2>3, <2>4
<1>8. /\ Cardinality(CallsUnderWay(ps)) \in Nat /\ Cardinality(CallsUnderWay(ps2)) \in Nat
      /\ Cardinality(CallsUnderWay(ps2)) <= Cardinality(CallsUnderWay(ps)) - 1
  <2>1. /\ IsFiniteSet(CallsUnderWay(ps)) /\ Cardinality(CallsUnderWay(ps)) \in Nat
        /\ Cardinality(CallsUnderWay(ps2)) \in Nat
    BY <1>1, <1>5, <1>6, CallsAreFew
  <2>2. /\ IsFiniteSet(CallsUnderWay(ps) \ {<<w, last>>})
        /\ Cardinality(CallsUnderWay(ps) \ {<<w, last>>}) = Cardinality(CallsUnderWay(ps)) - 1
    BY <2>1, <1>7, FS_RemoveElement
  <2>3. Cardinality(CallsUnderWay(ps2)) <= Cardinality(CallsUnderWay(ps) \ {<<w, last>>})
    BY <2>2, <1>7, NoMoreMembers
  <2> QED BY <2>1, <2>2, <2>3
<1>9. /\ Spent(d) \in Nat /\ Spent(e) \in Nat /\ Spent(e) <= Spent(d) + MaxUnits
  BY <1>1, <1>i, SpentIs
<1>10. Within(d, ps, e, ps2, s, s)
  <2> DEFINE calls  == Cardinality(CallsUnderWay(ps))
             calls2 == Cardinality(CallsUnderWay(ps2))
  <2>1. calls \in Nat /\ calls2 \in Nat /\ calls2 + 1 <= calls
    BY <1>8
  <2>2. Owed(d, ps) = Spent(d) + MaxUnits * calls /\ Owed(e, ps2) = Spent(e) + MaxUnits * calls2
    BY DEF Owed
  <2> HIDE DEF calls, calls2
  <2>3. calls2 + 1 \in Nat
    BY <2>1
  <2>4. /\ MaxUnits * calls \in Nat /\ MaxUnits * calls2 \in Nat /\ MaxUnits * s \in Nat /\ MaxUnits \in Nat
        /\ MaxUnits * (calls2 + 1) = MaxUnits * calls2 + MaxUnits
        /\ MaxUnits * (calls2 + 1) <= MaxUnits * calls
    BY <2>1, <2>3, <1>1, Units, Constants
  <2> QED BY <1>9, <2>2, <2>4 DEF Within
<1>11. Stranded(e) \subseteq Stranded(d)
  BY <1>1, <1>i, MovedStrands
<1> QED BY <1>1, <1>6, <1>10, <1>11 DEF Strands

\* The step of a tick, of an operator or of time keeps its account.
Accounted ==
  /\ Short(plans')
  /\ Within(db, plans, db', plans', slips, slips')
  /\ Strands(db, db', slips, slips')

LEMMA Unaccounted ==
  ASSUME NEW n, Ready(n, db, plans, pc, slips), Short(plans), slips' \in Nat, slips <= slips',
         db'.ledger = db.ledger, plans' = plans, Stranded(db') \subseteq Stranded(db)
  PROVE  Accounted
<1>1. n \in Nat /\ db \in Snapshots(n) /\ plans \in Plans(n) /\ slips \in Nat
  BY ReadyFields
<1>2. Short(plans') /\ Within(db, plans, db', plans', slips, slips')
  BY <1>1, NothingSpent
<1> QED BY <1>2 DEF Accounted, Strands

LEMMA TickSpends ==
  ASSUME NEW n, Ready(n, db, plans, pc, slips), Short(plans), NEW w \in Workers, Tick(w)
  PROVE  Accounted
<1>1. /\ n \in 0..MaxRuns /\ n \in Nat /\ db \in Snapshots(n) /\ DOMAIN db.runs = 1..n /\ Len(db.runs) = n
      /\ plans \in Plans(n) /\ slips \in Nat /\ Held(pc, plans)
  BY ReadyFields
<1>2. CASE TickBegins(w)
  <2>1. db' = db /\ plans' = plans /\ slips' = slips
    BY <1>2 DEF TickBegins
  <2> QED BY <2>1, <1>1, Unaccounted
<1>3. CASE TickQueue(w)
  <2>1. n + Cardinality(DueJobs(db)) <= MaxRuns /\ plans' = plans /\ slips' = slips
    BY <1>3, <1>1 DEF TickQueue, QueueFits
  <2>2. PICK succeeds, tied : db' = AfterQueue(db, succeeds, tied)
    BY <1>3 DEF TickQueue
  <2>3. Within(db, plans, db', plans, slips, slips) /\ Strands(db, db', slips, slips)
    BY <2>1, <2>2, QueueSpends
  <2> QED BY <2>1, <2>3 DEF Accounted
<1>4. CASE TickPlan(w)
  <2>1. pc[w] = "plan" /\ slips' = slips
    BY <1>4 DEF TickPlan
  <2>2. PICK credential \in BOOLEAN :
          /\ db' = AfterPlan(db, credential).db
          /\ plans' = [plans EXCEPT ![w] = AfterPlan(db, credential).plans]
    BY <1>4 DEF TickPlan
  <2> DEFINE a == AfterPlan(db, credential)
  <2>3. a = AfterPlan(db, credential)
    OBVIOUS
  <2>4. db' = a.db /\ plans' = [plans EXCEPT ![w] = a.plans]
    BY <2>2
  <2> HIDE DEF a
  <2>5. /\ Short([plans EXCEPT ![w] = a.plans])
        /\ Within(db, plans, a.db, [plans EXCEPT ![w] = a.plans], slips, slips)
        /\ Strands(db, a.db, slips, slips)
    BY <2>1, <2>3, PlanSpends
  <2> QED BY <2>1, <2>4, <2>5 DEF Accounted
<1>5. CASE Outcome(w)
  <2> DEFINE i == Head(plans[w])
  <2>1. pc[w] = "call" /\ plans' = [plans EXCEPT ![w] = Tail(plans[w])] /\ slips' = slips
    BY <1>5 DEF Outcome
  <2>2. \/ \E units \in 0..MaxUnits : db' = Complete(db, i, units)
        \/ db' = FailByWorker(db, i) \/ db' = Fail(db, i, FALSE)
    <3>1. 1..MaxUnits \subseteq 0..MaxUnits
      BY Constants
    <3> QED BY <3>1, <1>5 DEF Outcome
  <2>3. i \in 1..n
    <3>1. plans[w] \in Seq(1..n) /\ plans[w] # <<>>
      BY <2>1, <1>1 DEF Held, Plans
    <3> QED BY <3>1, HeadTailProperties
  <2> HIDE DEF i
  <2>4. /\ db' \in Snapshots(n) /\ Moved(db, db', i) /\ db'.runs[i].status # "Running"
        /\ Spent(db') <= Spent(db) + MaxUnits
    <3>s. \A e \in Snapshots(n) : e.ledger = db.ledger => Spent(e) <= Spent(db) + MaxUnits
      BY <1>1, SpentIs, SameSpent, Constants
    <3>1. ASSUME NEW units \in 0..MaxUnits, db' = Complete(db, i, units)
          PROVE  /\ db' \in Snapshots(n) /\ Moved(db, db', i) /\ db'.runs[i].status # "Running"
                 /\ Spent(db') <= Spent(db) + MaxUnits
      <4>1. /\ db' \in Snapshots(n) /\ Moved(db, db', i) /\ db'.runs[i].status = "Completed"
            /\ db'.ledger = {q \in db.ledger : q[1] # i} \union Entry(i, units)
        BY <3>1, <2>3, <1>1, CompleteMoves
      <4>2. Spent(db') \in Nat /\ Spent(db) \in Nat /\ Spent(db') <= Spent(db) + units
        BY <4>1, <2>3, <1>1, EntrySpends
      <4>3. units \in Nat /\ units <= MaxUnits /\ MaxUnits \in Nat
        BY Constants
      <4> QED BY <4>1, <4>2, <4>3
    <3>2. CASE db' = FailByWorker(db, i)
      <4>1. /\ db' \in Snapshots(n) /\ Moved(db, db', i) /\ db'.runs[i].status \in {"Failed", "Retry scheduled"}
            /\ db'.ledger = db.ledger
        BY <3>2, <2>3, <1>1, FailByWorkerMoves
      <4> QED BY <4>1, <3>s
    <3>3. CASE db' = Fail(db, i, FALSE)
      <4>1. FALSE \in BOOLEAN
        OBVIOUS
      <4>2. /\ db' \in Snapshots(n) /\ Moved(db, db', i) /\ db'.ledger = db.ledger
            /\ db'.runs[i].status = IF FALSE /\ db.runs[i].attempt < MaxAttempts THEN "Retry scheduled" ELSE "Failed"
        BY <3>3, <4>1, <2>3, <1>1, FailMoves
      <4> QED BY <4>2, <3>s
    <3> QED BY <2>2, <3>1, <3>2, <3>3
  <2>5. Short(plans') /\ Within(db, plans, db', plans', slips, slips) /\ Strands(db, db', slips, slips)
    <3>1. \E k \in 1..n : /\ Moved(db, db', k) /\ db'.runs[k].status # "Running"
                           /\ Spent(db') <= Spent(db) + MaxUnits
      BY <2>3, <2>4
    <3> QED BY <2>1, <2>4, <3>1, OutcomeSpends
  <2> QED BY <2>1, <2>5 DEF Accounted
<1> QED BY <1>2, <1>3, <1>4, <1>5 DEF Tick

LEMMA CrashSpends ==
  ASSUME NEW n, Ready(n, db, plans, pc, slips), Short(plans), NEW w \in Workers, Crash(w)
  PROVE  Accounted
<1>1. n \in Nat /\ db \in Snapshots(n) /\ plans \in Plans(n) /\ slips \in Nat /\ plans \in [Workers -> Seq(1..n)]
  BY ReadyFields DEF Plans
<1>2. db' = db /\ plans' = [plans EXCEPT ![w] = <<>>] /\ slips' = slips
  BY DEF Crash
<1>3. /\ \A v \in Workers : plans'[v] = plans[v] \/ plans'[v] = <<>>
      /\ db'.ledger = db.ledger /\ slips' \in Nat /\ slips <= slips'
  BY <1>1, <1>2
<1>4. Short(plans') /\ Within(db, plans, db', plans', slips, slips')
  BY <1>1, <1>2, <1>3, NothingSpent
<1> QED BY <1>1, <1>2, <1>4 DEF Accounted, Strands

LEMMA OperatorSpends ==
  ASSUME NEW n, Ready(n, db, plans, pc, slips), Short(plans), Operator
  PROVE  Accounted
<1>1. /\ n \in 0..MaxRuns /\ n \in Nat /\ db \in Good(n) /\ db \in Snapshots(n) /\ DOMAIN db.runs = 1..n
      /\ Len(db.runs) = n /\ plans \in Plans(n) /\ slips \in Nat /\ MaxSlips \in Nat /\ MaxRuns \in Nat
  BY ReadyFields, Constants
<1>2. ASSUME NEW j \in Jobs, NEW now \in BOOLEAN, CreateProviderJob(j, now) PROVE Accounted
  <2>1. n < MaxRuns /\ plans' = plans /\ IF now THEN Manual /\ slips' = slips + 1 ELSE slips' = slips
    BY <1>1, <1>2 DEF CreateProviderJob, Slip
  <2>2. PICK status \in Active : /\ db' = NewRun(db, j, status, 1)
                                 /\ status = "Running" => now
    BY <1>2 DEF CreateProviderJob, Active
  <2>3. Started(n, db, db', j, status)
    <3>1. n + 1 <= MaxRuns
      BY <2>1, <1>1
    <3> QED BY <3>1, <2>2, <1>1, NewRunStarts
  <2>4. /\ db' \in Snapshots(n + 1) /\ db'.ledger = db.ledger
        /\ \A k \in 1..n : db'.runs[k] = db.runs[k]
        /\ db'.runs[n + 1].status = status
    BY <2>3 DEF Started
  <2>5. Stranded(db') \subseteq Stranded(db) \union {n + 1} /\ (status # "Running" => Stranded(db') \subseteq Stranded(db))
    <3>1. \A k : k \in Stranded(db') => k \in 1..(n + 1) /\ db'.runs[k].status = "Running" /\ db'.runs[k].lease = "none"
      BY <2>4, <1>1, StrandedAre
    <3>2. \A k \in 1..(n + 1) : k \in 1..n \/ k = n + 1
      BY <1>1
    <3>3. \A k \in 1..n : db.runs[k].status = "Running" /\ db.runs[k].lease = "none" => k \in Stranded(db)
      BY <1>1, StrandedAre
    <3> QED BY <3>1, <3>2, <3>3, <2>4
  <2>6. slips' \in Nat /\ slips <= slips'
    BY <2>1, <1>1
  <2>7. Short(plans') /\ Within(db, plans, db', plans', slips, slips')
    BY <2>1, <2>4, <2>6, <1>1, NothingSpent
  <2>8. Strands(db, db', slips, slips')
    BY <2>1, <2>2, <2>5, <2>6 DEF Strands
  <2> QED BY <2>7, <2>8 DEF Accounted
<1>3. ASSUME NEW j \in Jobs, RetryJob(j) PROVE Accounted
  <2>1. /\ db.jobs[j].status # "absent" /\ Retryable(db, j) /\ n < MaxRuns /\ db' = Retry(db, <<j>>)
        /\ plans' = plans /\ slips' = slips
    BY <1>1, <1>3 DEF RetryJob
  <2> DEFINE due == <<j>>
  <2>2. db' = Retry(db, due)
    BY <2>1
  <2>3. /\ due \in [1..1 -> Jobs] /\ IsInjective(due)
        /\ \A k \in 1..1 : db.jobs[due[k]].status # "absent" /\ Retryable(db, due[k])
    <3>1. DOMAIN due = 1..1 /\ due[1] = j /\ due \in [1..1 -> Jobs] /\ \A k \in 1..1 : k = 1
      OBVIOUS
    <3> HIDE DEF due
    <3>2. IsInjective(due)
      BY <3>1 DEF IsInjective
    <3> QED BY <3>1, <3>2, <2>1
  <2> HIDE DEF due
  <2>4. Requeued(n, 1, db, db', due)
    <3>1. n + 1 <= MaxRuns /\ 1 \in Nat
      BY <2>1, <1>1
    <3> QED BY <3>1, <2>2, <2>3, <1>1, RetryIs
  <2>5. Stranded(db') \subseteq Stranded(db)
    <3> SUFFICES ASSUME NEW k \in Stranded(db') PROVE k \in Stranded(db)
      OBVIOUS
    <3>1. db' \in Snapshots(n + 1) /\ n + 1 \in Nat /\ db'.runs[n + 1].status = "Queued"
      BY <2>4, <1>1 DEF Requeued
    <3>2. k \in 1..(n + 1) /\ db'.runs[k].status = "Running" /\ db'.runs[k].lease = "none"
      BY <3>1, StrandedAre
    <3>3. k # n + 1
      BY <3>1, <3>2
    <3>4. k \in 1..n
      BY <3>2, <3>3, <1>1
    <3>5. db'.runs[k] = db.runs[k]
      BY <3>4, <2>4 DEF Requeued
    <3> QED BY <3>2, <3>4, <3>5, <1>1, StrandedAre
  <2>6. db'.ledger = db.ledger
    BY <2>4 DEF Requeued
  <2> QED BY <2>1, <2>5, <2>6, <1>1, Unaccounted
<1>4. ASSUME ProcessQueue PROVE Accounted
  <2>1. n + Cardinality(DueJobs(db)) <= MaxRuns /\ plans' = plans /\ slips' = slips
    BY <1>1, <1>4 DEF ProcessQueue, QueueFits
  <2>2. PICK succeeds, tied : db' = AfterQueue(db, succeeds, tied)
    BY <1>4 DEF ProcessQueue
  <2>3. Within(db, plans, db', plans, slips, slips) /\ Strands(db, db', slips, slips)
    BY <2>1, <2>2, QueueSpends
  <2> QED BY <2>1, <2>3 DEF Accounted
<1>5. ASSUME NEW i \in 1..n, StartRun(i) PROVE Accounted
  <2>1. /\ Manual /\ slips' = slips + 1 /\ db' = Put(db, i, "Running", db.runs[i].lease) /\ plans' = plans
    BY <1>5 DEF StartRun, Slip
  <2>2. db.runs[i].lease \in Leases /\ "Running" \in Statuses /\ "Running" # "Completed"
    <3>1. db.runs[i] \in Runs
      BY <1>1, SnapshotFields
    <3> QED BY <3>1, RunFields, StatusesAre
  <2>3. Settled("Running", db.runs[i].attempt)
    BY <2>2 DEF Settled
  <2>4. db' \in Snapshots(n) /\ Moved(db, db', i) /\ db'.ledger = db.ledger
    <3> DEFINE e == Put(db, i, "Running", db.runs[i].lease)
    <3>1. e \in Snapshots(n) /\ Moved(db, e, i) /\ e.ledger = db.ledger
      <4>1. Wrote(n, db, e, i, "Running", db.runs[i].lease)
        BY <2>2, <1>1, PutIs
      <4> HIDE DEF e
      <4> QED BY <4>1, <2>2, <2>3, <1>1 DEF Wrote, Moved
    <3>2. db' = e
      BY <2>1
    <3> HIDE DEF e
    <3> QED BY <3>1, <3>2
  <2>5. Stranded(db') \subseteq Stranded(db) \union {i}
    BY <2>4, <1>1, MovedStrands
  <2>6. Short(plans') /\ Within(db, plans, db', plans', slips, slips')
    BY <2>1, <2>4, <1>1, NothingSpent
  <2> QED BY <2>1, <2>5, <2>6 DEF Accounted, Strands
<1>6. ASSUME NEW i \in 1..n, SettleRun(i) PROVE Accounted
  <2>1. slips' = slips + 1 /\ plans' = plans
    BY <1>6 DEF SettleRun, Slip
  <2>2. \/ \E units \in 0..MaxUnits : db' = Complete(db, i, units)
        \/ \E retry \in BOOLEAN : db' = Fail(db, i, retry)
    BY <1>6 DEF SettleRun
  <2>3. /\ db' \in Snapshots(n) /\ Moved(db, db', i) /\ db'.runs[i].status # "Running"
        /\ Spent(db') <= Spent(db) + MaxUnits
    <3>s. \A e \in Snapshots(n) : e.ledger = db.ledger => Spent(e) <= Spent(db) + MaxUnits
      BY <1>1, SpentIs, SameSpent, Constants
    <3>1. ASSUME NEW units \in 0..MaxUnits, db' = Complete(db, i, units)
          PROVE  /\ db' \in Snapshots(n) /\ Moved(db, db', i) /\ db'.runs[i].status # "Running"
                 /\ Spent(db') <= Spent(db) + MaxUnits
      <4>1. /\ db' \in Snapshots(n) /\ Moved(db, db', i) /\ db'.runs[i].status = "Completed"
            /\ db'.ledger = {q \in db.ledger : q[1] # i} \union Entry(i, units)
        BY <3>1, <1>1, CompleteMoves
      <4>2. Spent(db') \in Nat /\ Spent(db) \in Nat /\ Spent(db') <= Spent(db) + units
        BY <4>1, <1>1, EntrySpends
      <4>3. units \in Nat /\ units <= MaxUnits /\ MaxUnits \in Nat
        BY Constants
      <4> QED BY <4>1, <4>2, <4>3
    <3>2. ASSUME NEW retry \in BOOLEAN, db' = Fail(db, i, retry)
          PROVE  /\ db' \in Snapshots(n) /\ Moved(db, db', i) /\ db'.runs[i].status # "Running"
                 /\ db'.ledger = db.ledger
      <4> DEFINE e == Fail(db, i, retry)
      <4>1. /\ e \in Snapshots(n) /\ Moved(db, e, i) /\ e.ledger = db.ledger
            /\ e.runs[i].status
                 = IF retry /\ db.runs[i].attempt < MaxAttempts THEN "Retry scheduled" ELSE "Failed"
        <5>1. n \in 0..MaxRuns /\ db \in Snapshots(n)
          BY <1>1
        <5> QED BY <5>1, FailMoves
      <4>2. db' = e
        BY <3>2
      <4> HIDE DEF e
      <4> QED BY <4>1, <4>2
    <3> QED BY <2>2, <3>1, <3>2, <3>s
  <2>4. Stranded(db') \subseteq Stranded(db)
    BY <2>3, <1>1, MovedStrands
  <2>5. Within(db, plans, db', plans', slips, slips')
    <3> DEFINE calls == Cardinality(CallsUnderWay(plans))
    <3>1. Spent(db) \in Nat /\ Spent(db') \in Nat /\ Spent(db') <= Spent(db) + MaxUnits
      BY <1>1, <2>3, SpentIs
    <3>2. calls \in Nat /\ Owed(db, plans) = Spent(db) + MaxUnits * calls
          /\ Owed(db', plans') = Spent(db') + MaxUnits * calls
      BY <2>1, <1>1, CallsAreFew DEF Owed
    <3> HIDE DEF calls
    <3>3. /\ MaxUnits * calls \in Nat /\ MaxUnits * slips \in Nat /\ MaxUnits \in Nat
          /\ MaxUnits * slips' = MaxUnits * slips + MaxUnits
      BY <3>2, <2>1, <1>1, Units, Constants
    <3> QED BY <3>1, <3>2, <3>3 DEF Within
  <2>6. Short(plans')
    BY <2>1
  <2>7. slips <= slips'
    BY <2>1, <1>1
  <2> QED BY <2>4, <2>5, <2>6, <2>7 DEF Accounted, Strands
<1>7. ASSUME NEW i \in 1..n, NEW w \in Workers, ExecuteLive(w, i) PROVE Accounted
  <2>1. slips' \in Nat /\ slips <= slips'
    BY <1>1, <1>7 DEF ExecuteLive, Slip
  <2>2. PICK credential \in BOOLEAN :
          /\ db' = PlanRun(db, i, credential)
          /\ IF db'.runs[i].status = "Running" THEN plans' = [plans EXCEPT ![w] = <<i>>] ELSE plans' = plans
    BY <1>7 DEF ExecuteLive
  <2> DEFINE fate == Fate(db, credential)
  <2>3. /\ db' \in Snapshots(n) /\ db'.ledger = db.ledger
        /\ \/ db' = db /\ fate = "Running"
           \/ /\ Moved(db, db', i) /\ db'.runs[i].status = fate
              /\ fate = "Running" => db'.runs[i].lease = "held"
    <3> DEFINE e == PlanRun(db, i, credential)
    <3>1. /\ e \in Snapshots(n) /\ e.ledger = db.ledger
          /\ \/ e = db /\ fate = "Running"
             \/ /\ Moved(db, e, i) /\ e.runs[i].status = fate
                /\ fate = "Running" => e.runs[i].lease = "held"
      <4> HIDE DEF fate
      <4> QED BY <1>1, PlanRunIs DEF fate
    <3>2. db' = e
      BY <2>2
    <3> HIDE DEF e, fate
    <3> QED BY <3>1, <3>2
  <2>4. fate = "Running" => Spent(db) <= Budget
    <3>1. Spent(db) \in Nat /\ Budget \in Nat
      BY <1>1, SpentIs, Constants
    <3> QED BY <3>1 DEF Fate, BudgetAllows
  <2> HIDE DEF fate
  <2>5. Stranded(db') \subseteq Stranded(db)
    <3>1. CASE db' = db
      BY <3>1
    <3>2. CASE /\ Moved(db, db', i) /\ db'.runs[i].status = fate
               /\ fate = "Running" => db'.runs[i].lease = "held"
      <4>1. db'.runs[i].status # "Running" \/ db'.runs[i].lease # "none"
        BY <3>2
      <4> QED BY <4>1, <3>2, <2>3, <1>1, MovedStrands
    <3> QED BY <3>1, <3>2, <2>3
  <2>6. CASE plans' = plans
    BY <2>1, <2>3, <2>5, <2>6, <1>1, Unaccounted
  <2>7. CASE db'.runs[i].status = "Running" /\ plans' = [plans EXCEPT ![w] = <<i>>]
    <3>1. plans \in [Workers -> Seq(1..n)]
      BY <1>1 DEF Plans
    <3>2. \A v \in Workers : plans'[v] = IF v = w THEN <<i>> ELSE plans[v]
      BY <3>1, <2>7
    <3>3. Len(<<i>>) <= MaxLiveRuns
      BY Constants
    <3>4. Short(plans')
      BY <3>2, <3>3 DEF Short
    <3>5. fate = "Running"
      BY <2>3, <2>7
    <3>6. Within(db, plans, db', plans', slips, slips')
      BY <3>5, <2>3, <2>4, SameSpent DEF Within
    <3> QED BY <3>4, <3>6, <2>1, <2>5 DEF Accounted, Strands
  <2> QED BY <2>2, <2>6, <2>7
<1>8. ASSUME SwitchMode PROVE Accounted
  <2>1. db' = db /\ plans' = plans /\ slips' = slips
    BY <1>8 DEF SwitchMode
  <2> QED BY <2>1, <1>1, Unaccounted
<1> QED BY <1>1, <1>2, <1>3, <1>4, <1>5, <1>6, <1>7, <1>8 DEF Operator

LEMMA TimeSpends ==
  ASSUME NEW n, Ready(n, db, plans, pc, slips), Short(plans), Time
  PROVE  Accounted
<1>1. n \in 0..MaxRuns /\ n \in Nat /\ db \in Snapshots(n) /\ DOMAIN db.runs = 1..n /\ slips \in Nat
  BY ReadyFields
<1>2. ASSUME Touched(n, db, db'), slips' \in Nat, slips <= slips', plans' = plans,
             \A k \in 1..n : db'.runs[k].lease = db.runs[k].lease \/ db'.runs[k].lease # "none"
      PROVE  Accounted
  <2>1. db' \in Snapshots(n) /\ db'.ledger = db.ledger /\ \A k \in 1..n : db'.runs[k].status = db.runs[k].status
    BY <1>2 DEF Touched
  <2>2. Stranded(db') \subseteq Stranded(db)
    <3> SUFFICES ASSUME NEW k \in Stranded(db') PROVE k \in Stranded(db)
      OBVIOUS
    <3>1. k \in 1..n /\ db'.runs[k].status = "Running" /\ db'.runs[k].lease = "none"
      BY <2>1, <1>1, StrandedAre
    <3> QED BY <3>1, <2>1, <1>1, <1>2, StrandedAre
  <2> QED BY <2>1, <2>2, <1>2, Unaccounted
<1>3. ASSUME NEW i \in 1..n, LeaseExpires(i) PROVE Accounted
  <2>1. slips' \in Nat /\ slips <= slips' /\ plans' = plans /\ db' = [db EXCEPT !.runs[i].lease = "expired"]
    BY <1>1, <1>3 DEF LeaseExpires, Slip
  <2>2. /\ Touched(n, db, db') /\ \A k \in (1..n) \ {i} : db'.runs[k].lease = db.runs[k].lease
        /\ db'.runs[i].lease = "expired"
    <3> DEFINE e == [db EXCEPT !.runs[i].lease = "expired"]
    <3>1. /\ Touched(n, db, e) /\ \A k \in (1..n) \ {i} : e.runs[k].lease = db.runs[k].lease
          /\ e.runs[i].lease = "expired"
      BY <1>1, LeaseTouches
    <3>2. db' = e
      BY <2>1
    <3> HIDE DEF e
    <3> QED BY <3>1, <3>2
  <2>3. \A k \in 1..n : db'.runs[k].lease = db.runs[k].lease \/ db'.runs[k].lease # "none"
    BY <2>2
  <2> QED BY <2>1, <2>2, <2>3, <1>2
<1>4. ASSUME NEW i \in 1..n, WindowPasses(i) PROVE Accounted
  <2>1. slips' = slips /\ plans' = plans /\ db' = [db EXCEPT !.runs[i].recent = FALSE]
    BY <1>4 DEF WindowPasses
  <2>2. Touched(n, db, db') /\ \A k \in 1..n : db'.runs[k].lease = db.runs[k].lease
    <3> DEFINE e == [db EXCEPT !.runs[i].recent = FALSE]
    <3>1. Touched(n, db, e) /\ \A k \in 1..n : e.runs[k].lease = db.runs[k].lease
      BY <1>1, WindowTouches
    <3>2. db' = e
      BY <2>1
    <3> HIDE DEF e
    <3> QED BY <3>1, <3>2
  <2> QED BY <2>1, <2>2, <1>1, <1>2
<1>5. ASSUME NEW j \in Jobs, RetryFallsDue(j) PROVE Accounted
  <2>1. slips' = slips /\ plans' = plans /\ db' = [db EXCEPT !.jobs[j].retryAt = "due"]
    BY <1>5 DEF RetryFallsDue
  <2>2. Touched(n, db, db') /\ db'.runs = db.runs
    BY <2>1, <1>1, DueTouches
  <2> QED BY <2>1, <2>2, <1>1, <1>2
<1> QED BY <1>1, <1>3, <1>4, <1>5 DEF Time

LEMMA InitSpends == Init => SpendInv
<1> SUFFICES ASSUME Init PROVE SpendInv
  OBVIOUS
<1>1. JobsInv
  BY InitReady
<1>2. /\ db.ledger = {} /\ DOMAIN db.runs = {} /\ slips = 0
      /\ \A w \in Workers : plans[w] = <<>>
  BY DEF Init
<1>3. Short(plans) /\ CallsUnderWay(plans) = {}
  <2>1. DOMAIN <<>> = {} /\ Len(<<>>) <= MaxLiveRuns
    BY Constants
  <2> QED BY <2>1, <1>2 DEF Short, CallsUnderWay
<1>4. Stranded(db) = {}
  BY <1>2 DEF Stranded, RunsIn
<1>5. Spent(db) = 0 /\ MaxUnits * Cardinality(CallsUnderWay(plans)) = 0
  <2>1. {p \in db.ledger : p[2] > 0} = {} /\ Cardinality({}) = 0
    BY <1>2, FS_EmptySet
  <2>2. Spent(db) = 0
    BY <2>1 DEF Spent
  <2>3. MaxUnits * 0 = 0
    BY Constants
  <2>4. Cardinality(CallsUnderWay(plans)) = 0
    BY <2>1, <1>3
  <2> QED BY <2>2, <2>3, <2>4
<1>8. Cardinality({}) = 0 /\ Cardinality(Workers) * MaxLiveRuns \in Nat /\ Budget \in Nat
  BY <1>1, <1>3, CallsAreFew, ReadyFields, Constants, FS_EmptySet DEF JobsInv
<1>6. OverspendIsBounded
  <2>1. MaxUnits * (Cardinality(Workers) * MaxLiveRuns + slips) \in Nat
    BY <1>2, <1>8, Constants
  <2> QED BY <2>1, <1>5, <1>8 DEF OverspendIsBounded
<1>7. StrandedByHandOnly
  BY <1>2, <1>4, <1>8 DEF StrandedByHandOnly
<1> QED BY <1>1, <1>3, <1>6, <1>7 DEF SpendInv

LEMMA SpendKeeps == SpendInv /\ [Next]_vars => SpendInv'
<1> SUFFICES ASSUME SpendInv, [Next]_vars PROVE SpendInv'
  OBVIOUS
<1>1. JobsInv /\ Short(plans) /\ OverspendIsBounded /\ StrandedByHandOnly
  BY DEF SpendInv
<1>2. JobsInv'
  BY <1>1, StepKeeps
<1>3. PICK n \in 0..MaxRuns : Ready(n, db, plans, pc, slips)
  BY <1>1 DEF JobsInv
<1>4. PICK m \in 0..MaxRuns : Ready(m, db', plans', pc', slips')
  BY <1>2 DEF JobsInv, Ready, Held, Bounded
<1>5. Accounted
  <2>1. ASSUME NEW w \in Workers, Tick(w) PROVE Accounted
    BY <2>1, <1>1, <1>3, TickSpends
  <2>2. ASSUME NEW w \in Workers, Crash(w) PROVE Accounted
    BY <2>2, <1>1, <1>3, CrashSpends
  <2>3. CASE Operator
    BY <2>3, <1>1, <1>3, OperatorSpends
  <2>4. CASE Time
    BY <2>4, <1>1, <1>3, TimeSpends
  <2>5. CASE UNCHANGED vars
    <3>1. db' = db /\ plans' = plans /\ slips' = slips
      BY <2>5 DEF vars
    <3>2. slips \in Nat
      BY <1>3, ReadyFields
    <3> QED BY <3>1, <3>2, <1>1, <1>3, Unaccounted
  <2> QED BY <2>1, <2>2, <2>3, <2>4, <2>5 DEF Next
<1>6. OverspendIsBounded' /\ StrandedByHandOnly'
  BY <1>1, <1>3, <1>4, <1>5, AccountKeeps DEF Accounted
<1>7. Short(plans')
  BY <1>5 DEF Accounted
<1> QED BY <1>2, <1>6, <1>7 DEF SpendInv, Short

LEMMA AlwaysSpends == Spec => []SpendInv
BY InitSpends, SpendKeeps, PTL DEF Spec

(* However many workers plan at once, and however many records an answer    *)
(* holds, the units charged and those the calls under way may yet charge    *)
(* stay within the budget, a full answer for each place the workers have,   *)
(* and one for each slip: the overshoot does not add up over the ticks.     *)
THEOREM OverspendIsBoundedHolds == Spec => []OverspendIsBounded
<1>1. SpendInv => OverspendIsBounded
  BY DEF SpendInv
<1> QED BY <1>1, AlwaysSpends, PTL

(* A running run without a lock expiry was started by hand: no tick, retry, *)
(* recovery, crash or late answer leaves one behind.                        *)
THEOREM StrandedByHandOnlyHolds == Spec => []StrandedByHandOnly
<1>1. SpendInv => StrandedByHandOnly
  BY DEF SpendInv
<1> QED BY <1>1, AlwaysSpends, PTL
=============================================================================
