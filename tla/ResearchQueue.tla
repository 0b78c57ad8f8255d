--------------------------- MODULE ResearchQueue ---------------------------
(***************************************************************************)
(* Niche requests and the research runs a local Console agent works off:   *)
(* lib/growth/repositories/niche-request-repository.ts and                 *)
(* research-run-repository.ts, with the brief that ends a run              *)
(* (niche-brief-repository.ts).                                            *)
(*                                                                         *)
(* The handlers that read a row before they write it run at READ COMMITTED *)
(* and lock nothing: they are two actions, the read and the write with its *)
(* commit, and any other handler may run in between.  The others are one   *)
(* conditional statement, or SERIALIZABLE with the run's row locked.  No   *)
(* handler asks which agent is calling, so the agents are their calls:     *)
(* a report may be late, repeated, or never come.                          *)
(***************************************************************************)
EXTENDS Integers

CONSTANTS Requests,      \* niche requests
          ResearchRuns,  \* research runs; which is older is decided by OlderThan
          Agents,        \* Console agents
          Calls,         \* transactions that can be open at the same time
          OlderThan(_, _), \* the order of createdAt, then id
          Full,          \* progress 1.0, in steps
          MaxPuts,       \* bound: a run put on the queue that often is not requeued by further reports
          Nothing        \* null, or nothing there

ASSUME BoundsAssumption == Full \in Nat \ {0} /\ MaxPuts \in Nat \ {0}
ASSUME NothingAssumption == Nothing \notin ResearchRuns /\ Nothing \notin Agents

VARIABLES
  request,  \* request[q]: status and researchRunId
  run,      \* run[r]: the row, or Nothing
  briefs,   \* runs that have a NicheBrief
  call,     \* call[c]: what an open transaction has read, or Nothing
  puts,     \* history: times run r was put on the queue
  handouts  \* history: times a claim answered with run r

history      == <<puts, handouts>>
researchVars == <<request, run, briefs, call, history>>

RequestStatuses == {"absent", "draft", "confirmed", "researching", "briefed"}
RunStatuses     == {"queued", "running", "completed", "failed"}
RunRows   == [request : Requests, status : RunStatuses, agent : Agents \union {Nothing},
              progress : 0..Full, report : BOOLEAN, retryCount : Nat]
OpenCalls == [op : {"enqueue"}, request : Requests]
               \union [op : {"claim"}, run : ResearchRuns, agent : Agents]
               \union [op : {"fail"}, run : ResearchRuns, retryable : BOOLEAN, retryCount : Nat]

ASSUME RowAssumption == Nothing \notin RunRows /\ Nothing \notin OpenCalls

ResearchTypeOK ==
  /\ request \in [Requests -> [status : RequestStatuses, run : ResearchRuns \union {Nothing}]]
  /\ run \in [ResearchRuns -> RunRows \union {Nothing}]
  /\ briefs \subseteq ResearchRuns
  /\ call \in [Calls -> OpenCalls \union {Nothing}]
  /\ puts \in [ResearchRuns -> Nat]
  /\ handouts \in [ResearchRuns -> Nat]

ResearchInit ==
  /\ request = [q \in Requests |-> [status |-> "absent", run |-> Nothing]]
  /\ run = [r \in ResearchRuns |-> Nothing]
  /\ briefs = {}
  /\ call = [c \in Calls |-> Nothing]
  /\ puts = [r \in ResearchRuns |-> 0]
  /\ handouts = [r \in ResearchRuns |-> 0]

RunExists(r)     == run[r] # Nothing
Reads(r, s)   == RunExists(r) /\ run[r].status = s
Opens(c, op)  == call[c] = Nothing /\ call' = [call EXCEPT ![c] = op]
Commits(c, op) == call[c] # Nothing /\ call[c].op = op /\ call' = [call EXCEPT ![c] = Nothing]

-----------------------------------------------------------------------------
(* Requests *)

CreateNicheRequest(q) ==
  /\ request[q].status = "absent"
  /\ request' = [request EXCEPT ![q].status = "draft"]
  /\ UNCHANGED <<run, briefs, call, history>>

\* Fault model: a replayed tap confirms whatever the request has become.
ConfirmAgain(q) ==
  /\ request[q].status # "absent"
  /\ request' = [request EXCEPT ![q].status = "confirmed"]
  /\ UNCHANGED <<run, briefs, call, history>>

ConfirmNicheRequest(q) ==
  /\ request[q].status = "draft"
  /\ request' = [request EXCEPT ![q].status = "confirmed"]
  /\ UNCHANGED <<run, briefs, call, history>>

-----------------------------------------------------------------------------
(* Enqueue: the status is checked by the read and not by the write. *)

EnqueueRead(c, q) ==
  /\ request[q].status = "confirmed"
  /\ Opens(c, [op |-> "enqueue", request |-> q])
  /\ UNCHANGED <<request, run, briefs, history>>

\* createdAt precedes the commit: the row may be older than one that is already queued.
EnqueueWrite(c, r) ==
  /\ Commits(c, "enqueue")
  /\ ~RunExists(r)
  /\ run' = [run EXCEPT ![r] = [request |-> call[c].request, status |-> "queued", agent |-> Nothing,
                                progress |-> 0, report |-> FALSE, retryCount |-> 0]]
  /\ request' = [request EXCEPT ![call[c].request] = [status |-> "researching", run |-> r]]
  /\ puts' = [puts EXCEPT ![r] = 1]
  /\ UNCHANGED <<briefs, handouts>>

-----------------------------------------------------------------------------
(* Claim: the oldest queued run, and then only if it still reads "queued". *)

ClaimRead(c, a) ==
  /\ \E r \in ResearchRuns :
       /\ Reads(r, "queued")
       /\ \A s \in ResearchRuns : Reads(s, "queued") => s = r \/ OlderThan(r, s)
       /\ Opens(c, [op |-> "claim", run |-> r, agent |-> a])
  /\ UNCHANGED <<request, run, briefs, history>>

\* Fault model: the claim writes by id.
TakeById(r, a) ==
  /\ run' = [run EXCEPT ![r].status = "running", ![r].agent = a]
  /\ handouts' = [handouts EXCEPT ![r] = @ + 1]

\* The updateMany and its count: the race is lost without a trace.
Take(r, a) ==
  IF Reads(r, "queued")
  THEN /\ run' = [run EXCEPT ![r].status = "running", ![r].agent = a]
       /\ handouts' = [handouts EXCEPT ![r] = @ + 1]
  ELSE UNCHANGED <<run, handouts>>

ClaimWrite(c) ==
  /\ Commits(c, "claim")
  /\ Take(call[c].run, call[c].agent)
  /\ UNCHANGED <<request, briefs, puts>>

-----------------------------------------------------------------------------
(* Reports of an agent that was handed the run, once or several times *)

HandedOut(r) == RunExists(r) /\ run[r].agent # Nothing

\* Math.min(Math.max(progress, 0), 1)
Clamped(p) == IF p < 0 THEN 0 ELSE IF p > Full THEN Full ELSE p

\* Fault model: a beat that arrives late is stored whatever the run has become.
LateProgress(r, p) ==
  /\ HandedOut(r)
  /\ run' = [run EXCEPT ![r].progress = Clamped(p)]
  /\ UNCHANGED <<request, briefs, call, history>>

RecordProgress(r, p) ==
  /\ HandedOut(r) /\ Reads(r, "running")
  /\ run' = [run EXCEPT ![r].progress = Clamped(p)]
  /\ UNCHANGED <<request, briefs, call, history>>

CompleteResearchRun(r) ==
  /\ HandedOut(r) /\ Reads(r, "running")
  /\ run' = [run EXCEPT ![r].status = "completed", ![r].progress = Full, ![r].report = TRUE]
  /\ UNCHANGED <<request, briefs, call, history>>

FailRead(c, r, retryable) ==
  /\ HandedOut(r) /\ Reads(r, "running")
  /\ retryable => puts[r] < MaxPuts
  /\ Opens(c, [op |-> "fail", run |-> r, retryable |-> retryable, retryCount |-> run[r].retryCount])
  /\ UNCHANGED <<request, run, briefs, history>>

\* The update is by id: whatever the run reads by now, this report replaces it.
FailWrite(c) ==
  LET r == call[c].run IN
  /\ Commits(c, "fail")
  /\ run' = [run EXCEPT ![r].status = IF call[c].retryable THEN "queued" ELSE "failed",
                        ![r].retryCount = call[c].retryCount + 1]
  /\ puts' = [puts EXCEPT ![r] = IF call[c].retryable THEN @ + 1 ELSE @]
  /\ UNCHANGED <<request, briefs, handouts>>

-----------------------------------------------------------------------------
(* The end of a run, and of a transaction *)

\* Fault model: the required foreign key is all that ties a brief to a run.
BriefOfAnyRun(r) ==
  /\ RunExists(r) /\ r \notin briefs
  /\ briefs' = briefs \union {r}
  /\ request' = [request EXCEPT ![run[r].request].status = "briefed"]
  /\ UNCHANGED <<run, call, history>>

\* createNicheBriefWithApproval, its approval left to ApprovalWorkflow; a replay changes nothing.
CreateNicheBrief(r) ==
  /\ Reads(r, "completed") /\ r \notin briefs
  /\ briefs' = briefs \union {r}
  /\ request' = [request EXCEPT ![run[r].request].status = "briefed"]
  /\ UNCHANGED <<run, call, history>>

\* The process or its connection dies: the transaction is rolled back.
Abort(c) ==
  /\ call[c] # Nothing
  /\ call' = [call EXCEPT ![c] = Nothing]
  /\ UNCHANGED <<request, run, briefs, history>>

ResearchNext ==
  \/ \E q \in Requests : CreateNicheRequest(q) \/ ConfirmNicheRequest(q)
  \/ \E c \in Calls, q \in Requests : EnqueueRead(c, q)
  \/ \E c \in Calls, r \in ResearchRuns : EnqueueWrite(c, r)
  \/ \E c \in Calls, a \in Agents : ClaimRead(c, a)
  \/ \E c \in Calls : ClaimWrite(c)
  \/ \E r \in ResearchRuns, p \in -1..Full + 1 : RecordProgress(r, p)
  \/ \E r \in ResearchRuns : CompleteResearchRun(r)
  \/ \E c \in Calls, r \in ResearchRuns, retryable \in BOOLEAN : FailRead(c, r, retryable)
  \/ \E c \in Calls : FailWrite(c)
  \/ \E r \in ResearchRuns : CreateNicheBrief(r)
  \/ \E c \in Calls : Abort(c)

ResearchSpec == ResearchInit /\ [][ResearchNext]_researchVars
-----------------------------------------------------------------------------
(* Properties *)

\* "two agents racing produce one winner and one empty result" (lines 60-63):
\* each time a run is put on the queue, one claim at most answers with it,
\* although every claim picks its run before it writes, and reports of earlier
\* agents put the run back at any moment.
HandedOutOnce ==
  \A r \in ResearchRuns : handouts[r] + (IF Reads(r, "queued") THEN 1 ELSE 0) <= puts[r]

\* A request reads "researching" or "briefed" exactly when it has a run, points
\* at one of its own runs, and reads "briefed" only when one of them has a brief:
\* no replayed confirmation and no second enqueue of the same request takes it
\* back to a state in which it could be researched again or edited (enqueue 38-53,
\* confirmNicheRequest 62-72).
RequestFollowsItsRuns ==
  \A q \in Requests :
    LET mine == {r \in ResearchRuns : RunExists(r) /\ run[r].request = q} IN
    /\ request[q].status \in {"researching", "briefed"} <=> mine # {}
    /\ IF mine = {} THEN request[q].run = Nothing ELSE request[q].run \in mine
    /\ request[q].status = "briefed" => mine \intersect briefs # {}

\* No brief before research completes: behind every brief there is a report,
\* also after a failure report that was read before the completion has taken the
\* run's status back (completeResearchRun 102-105, createNicheBriefWithApproval).
BriefBehindResearch ==
  \A r \in briefs : RunExists(r) /\ run[r].report

\* A run that reads "completed" is a whole one: an agent was handed it, its report
\* is stored and its progress reads 1, whatever beats and failures of earlier
\* agents arrive after the completion (lines 89-129).
CompletedIsWhole ==
  \A r \in ResearchRuns : Reads(r, "completed") =>
    run[r].report /\ run[r].progress = Full /\ run[r].agent # Nothing
=============================================================================
