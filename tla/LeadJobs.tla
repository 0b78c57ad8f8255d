------------------------------ MODULE LeadJobs ------------------------------
(***************************************************************************)
(* Lead jobs and the CSV import worker: lib/phase1/jobs.ts,                *)
(* lead-job-worker.ts, lead-job-worker-runner.ts, the upload route of      *)
(* app/api/import/csv and two actions of app/actions.ts.  A tick of the    *)
(* worker claims the oldest due run and processes it, all in one           *)
(* transaction, so a crash undoes the tick.  Logs, counts and audit rows   *)
(* are left out; what the import does to contacts is in ContactHygiene.    *)
(***************************************************************************)
EXTENDS Naturals, FiniteSets, Sequences

CONSTANTS Uploads,     \* CSV uploads, by the hash of their content
          ManualJobs,  \* jobs queued from a form, without rows of their own
          MaxAttempts, \* defaultMaxAttempts, 3 in the code
          MaxRuns      \* bound on the runs of all jobs

ASSUME JobsAssumption ==
  /\ Uploads \cap ManualJobs = {}
  /\ MaxAttempts \in Nat \ {0} /\ MaxRuns \in Nat

VARIABLES
  leadJobs,  \* the status of each job, "none" before it is created
  jobRuns,   \* state.asyncJobRuns, oldest first
  records,   \* jobIdempotencyRecords of the uploads
  rowsIn     \* ghost: what of the job's rows was normalized
jobsVars == <<leadJobs, jobRuns, records, rowsIn>>

Jobs == Uploads \union ManualJobs
\* csv: isCsvImportRun; due: nextRetryAt has passed.
Run == [job : Jobs, csv : BOOLEAN, attempt : 1..MaxAttempts, due : BOOLEAN,
        status : {"Queued", "Retry scheduled", "Failed", "Completed"}]

JobsTypeOK ==
  /\ leadJobs \in [Jobs -> {"none", "Queued", "Running", "Paused", "Failed", "Completed"}]
  /\ jobRuns \in Seq(Run)
  /\ records \in [Uploads -> {"none", "Reserved", "Completed", "Failed"}]
  /\ rowsIn \in [Jobs -> {"none", "part", "all"}]

JobsInit ==
  /\ leadJobs = [j \in Jobs |-> "none"] /\ jobRuns = <<>>
  /\ records = [u \in Uploads |-> "none"] /\ rowsIn = [j \in Jobs |-> "none"]

-----------------------------------------------------------------------------
RunsOf(runs, j) == {i \in DOMAIN runs : runs[i].job = j}
SomeRun(runs, j, status) == \E i \in RunsOf(runs, j) : runs[i].status = status

\* Mutant: the last run to complete completes the job.
RefreshFromLast(runs, j, current) ==
  IF SomeRun(runs, j, "Completed") THEN "Completed"
  ELSE IF SomeRun(runs, j, "Failed") THEN "Failed"
  ELSE IF SomeRun(runs, j, "Retry scheduled") THEN "Paused" ELSE current

\* The job's status after one of its runs was completed or failed.
RefreshJobFromRuns(runs, j, current) ==
  IF \A i \in RunsOf(runs, j) : runs[i].status = "Completed" THEN "Completed"
  ELSE IF SomeRun(runs, j, "Failed") THEN "Failed"
  ELSE IF SomeRun(runs, j, "Retry scheduled") THEN "Paused" ELSE current

CreateRun(j, csv, attempt) ==
  [job |-> j, csv |-> csv, attempt |-> attempt, due |-> FALSE, status |-> "Queued"]

CreateTrackedJob(j, sources) ==
  /\ leadJobs[j] = "none" /\ Len(jobRuns) + Len(sources) <= MaxRuns
  /\ leadJobs' = [leadJobs EXCEPT ![j] = "Queued"]
  /\ jobRuns' = jobRuns \o [i \in DOMAIN sources |-> CreateRun(j, sources[i], 1)]
  /\ UNCHANGED rowsIn

\* The same content again is answered with the job it made, whatever became
\* of that job.
ImportCsv(u) == /\ records[u] = "none"
                /\ CreateTrackedJob(u, <<TRUE>>)
                /\ records' = [records EXCEPT ![u] = "Reserved"]

\* A job from the form: its sources are the CSV upload, others, or both.
CreateLeadJob(j, sources) == CreateTrackedJob(j, sources) /\ UNCHANGED records

\* A person retries a job: a further run after the retryable one of the
\* highest attempt, which stays as it is.
RetryFailedJob(j) ==
  \E i \in RunsOf(jobRuns, j) :
    /\ jobRuns[i].status \in {"Failed", "Retry scheduled"}
    /\ \A k \in RunsOf(jobRuns, j) :
         jobRuns[k].status \in {"Failed", "Retry scheduled"} => jobRuns[k].attempt <= jobRuns[i].attempt
    /\ jobRuns[i].attempt < MaxAttempts
    /\ Len(jobRuns) < MaxRuns
    /\ jobRuns' = Append(jobRuns, CreateRun(j, jobRuns[i].csv, jobRuns[i].attempt + 1))
    /\ leadJobs' = [leadJobs EXCEPT ![j] = "Queued"]
    /\ UNCHANGED <<records, rowsIn>>

\* retryDelayMs pass.
RetryComesDue ==
  /\ \E i \in DOMAIN jobRuns :
       /\ jobRuns[i].status = "Retry scheduled" /\ ~jobRuns[i].due
       /\ jobRuns' = [jobRuns EXCEPT ![i].due = TRUE]
  /\ UNCHANGED <<leadJobs, records, rowsIn>>

-----------------------------------------------------------------------------
\* isDueCsvImportRun and the run claimCsvImportRuns takes.
IsDue(i) ==
  /\ jobRuns[i].csv
  /\ jobRuns[i].status = "Queued" \/ (jobRuns[i].status = "Retry scheduled" /\ jobRuns[i].due)

Claimed(i) == IsDue(i) /\ \A k \in 1..(i - 1) : ~IsDue(k)
AttemptOf(i) == jobRuns[i].attempt + (IF jobRuns[i].status = "Retry scheduled" THEN 1 ELSE 0)

Settle(i, status) ==
  LET run  == [jobRuns[i] EXCEPT !.status = status, !.attempt = AttemptOf(i), !.due = FALSE]
      j    == jobRuns[i].job
  IN /\ jobRuns' = [jobRuns EXCEPT ![i] = run]
     /\ leadJobs' = [leadJobs EXCEPT ![j] = RefreshJobFromRuns(jobRuns', j, "Running")]

Mark(j, status) ==
  records' = [u \in Uploads |-> IF u = j THEN status ELSE records[u]]

CompleteCsvImportRun(i) ==
  /\ Claimed(i) /\ jobRuns[i].job \in Uploads
  /\ Settle(i, "Completed")
  /\ Mark(jobRuns[i].job, "Completed")
  /\ rowsIn' = [rowsIn EXCEPT ![jobRuns[i].job] = "all"]

\* A run without rows fails; one with rows can fail half-way, and what it
\* normalized so far stays.
FailCsvImportRun(i) ==
  LET j == jobRuns[i].job
      status == IF AttemptOf(i) < MaxAttempts THEN "Retry scheduled" ELSE "Failed"
  IN /\ Claimed(i)
     /\ Settle(i, status)
     /\ IF status = "Failed" THEN Mark(j, "Failed") ELSE UNCHANGED records
     /\ rowsIn' = [rowsIn EXCEPT ![j] = IF j \in Uploads /\ @ = "none" THEN "part" ELSE @]

JobsNext ==
  \/ \E u \in Uploads : ImportCsv(u)
  \/ \E j \in ManualJobs, sources \in {<<TRUE>>, <<FALSE>>, <<TRUE, FALSE>>} : CreateLeadJob(j, sources)
  \/ \E j \in Jobs : RetryFailedJob(j)
  \/ RetryComesDue
  \/ \E i \in DOMAIN jobRuns : CompleteCsvImportRun(i) \/ FailCsvImportRun(i)

JobsSpec == JobsInit /\ [][JobsNext]_jobsVars

-----------------------------------------------------------------------------
\* A job that says Completed has all its rows in, no run that is still to be
\* made, and a record that answers the same upload with the finished import;
\* a record that says Failed belongs to a job that failed for good.
ImportIsWhole ==
  \A j \in Jobs :
    /\ leadJobs[j] = "Completed" =>
         /\ j \in Uploads => records[j] = "Completed" /\ rowsIn[j] = "all"
         /\ \A i \in RunsOf(jobRuns, j) : jobRuns[i].status = "Completed"
    /\ (j \in Uploads /\ records[j] = "Failed") =>
         leadJobs[j] = "Failed"
=============================================================================
