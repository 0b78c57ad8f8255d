------------------------ MODULE ResearchQueueProofs ------------------------
(***************************************************************************)
(* The research queue for any number of requests, runs, agents and open    *)
(* transactions.                                                           *)
(***************************************************************************)
EXTENDS ResearchQueue, TLAPS

\* An open claim or failure report is about a row: rows are never deleted.
CallsAreAboutRows ==
  \A c \in Calls : call[c] # Nothing /\ call[c].op \in {"claim", "fail"} => RunExists(call[c].run)

\* A run that is not there was neither queued nor handed out.
NoRowNoHistory == \A r \in ResearchRuns : ~RunExists(r) => puts[r] = 0 /\ handouts[r] = 0

IInv ==
  /\ ResearchTypeOK /\ CallsAreAboutRows /\ NoRowNoHistory
  /\ HandedOutOnce /\ RequestFollowsItsRuns /\ BriefBehindResearch /\ CompletedIsWhole

USE BoundsAssumption, NothingAssumption, RowAssumption
USE DEF RunExists, Reads, HandedOut, history

\* What a step that leaves runs, requests and briefs alone preserves.
RowsKept ==
  /\ RequestFollowsItsRuns => RequestFollowsItsRuns'
  /\ BriefBehindResearch => BriefBehindResearch'
  /\ CompletedIsWhole => CompletedIsWhole'
  /\ NoRowNoHistory => NoRowNoHistory'
  /\ HandedOutOnce => HandedOutOnce'

LEMMA Untouched ==
  ASSUME UNCHANGED <<request, run, briefs, history>>
  PROVE  RowsKept
BY DEF RowsKept, RequestFollowsItsRuns, BriefBehindResearch, CompletedIsWhole, NoRowNoHistory, HandedOutOnce

\* What a step that rewrites one row and keeps its request preserves.
LEMMA OneRow ==
  ASSUME ResearchTypeOK, NEW r \in ResearchRuns, RunExists(r), NEW row \in RunRows,
         row.request = run[r].request, row.report \/ ~run[r].report,
         run' = [run EXCEPT ![r] = row], UNCHANGED <<request, briefs>>
  PROVE  /\ RequestFollowsItsRuns => RequestFollowsItsRuns'
         /\ BriefBehindResearch => BriefBehindResearch'
         /\ CallsAreAboutRows /\ (\A c \in Calls : call'[c] \in {call[c], Nothing})
              => CallsAreAboutRows'
<1>1. /\ run'[r] = row /\ row # Nothing
      /\ \A s \in ResearchRuns : s # r => run'[s] = run[s]
      /\ run' \in [ResearchRuns -> RunRows \union {Nothing}]
  BY DEF ResearchTypeOK
<1>2. \A s \in ResearchRuns : RunExists(s)' <=> RunExists(s)
  BY <1>1
<1>3. \A s \in ResearchRuns : RunExists(s) => run'[s].request = run[s].request
  BY <1>1
<1>4. ASSUME RequestFollowsItsRuns PROVE RequestFollowsItsRuns'
  <2> SUFFICES ASSUME NEW q \in Requests
      PROVE  LET mine == {s \in ResearchRuns : RunExists(s)' /\ run'[s].request = q} IN
             /\ request[q].status \in {"researching", "briefed"} <=> mine # {}
             /\ IF mine = {} THEN request[q].run = Nothing ELSE request[q].run \in mine
             /\ request[q].status = "briefed" => mine \intersect briefs # {}
    BY DEF RequestFollowsItsRuns
  <2>1. {s \in ResearchRuns : RunExists(s)' /\ run'[s].request = q} = {s \in ResearchRuns : RunExists(s) /\ run[s].request = q}
    BY <1>2, <1>3
  <2> QED BY <1>4, <2>1 DEF RequestFollowsItsRuns
<1>5. BriefBehindResearch => BriefBehindResearch'
  BY <1>1, <1>2 DEF BriefBehindResearch, ResearchTypeOK
<1>6. ASSUME CallsAreAboutRows, \A c \in Calls : call'[c] \in {call[c], Nothing}
      PROVE  CallsAreAboutRows'
  BY <1>2, <1>6 DEF CallsAreAboutRows, ResearchTypeOK, OpenCalls
<1> QED BY <1>4, <1>5, <1>6

\* A row that is rewritten so that it is still whole when it reads "completed".
LEMMA WholeRow ==
  ASSUME ResearchTypeOK, CompletedIsWhole, NEW r \in ResearchRuns, NEW row \in RunRows,
         row.status = "completed" => row.report /\ row.progress = Full /\ row.agent # Nothing,
         run' = [run EXCEPT ![r] = row]
  PROVE  CompletedIsWhole'
BY DEF ResearchTypeOK, CompletedIsWhole

\* What failResearchRun makes of a row.
LEMMA Failed ==
  ASSUME NEW x \in RunRows, NEW st \in RunStatuses, NEW n \in Nat
  PROVE  LET y == [x EXCEPT !.status = st, !.retryCount = n] IN
         y \in RunRows /\ y.request = x.request /\ y.report = x.report /\ y.status = st
BY DEF RunRows

LEMMA Initial == ResearchInit => IInv
BY DEF ResearchInit, IInv, ResearchTypeOK, RequestStatuses, CallsAreAboutRows, NoRowNoHistory, HandedOutOnce,
       RequestFollowsItsRuns, BriefBehindResearch, CompletedIsWhole

-----------------------------------------------------------------------------
(* Steps *)

LEMMA RequestSteps ==
  ASSUME IInv, NEW q \in Requests, CreateNicheRequest(q) \/ ConfirmNicheRequest(q)
  PROVE  IInv'
<1> USE DEF CreateNicheRequest, ConfirmNicheRequest
<1> DEFINE mine(p) == {r \in ResearchRuns : RunExists(r) /\ run[r].request = p}
<1>1. ResearchTypeOK'
  BY DEF IInv, ResearchTypeOK, RequestStatuses
<1>2. /\ request'[q].status \in {"draft", "confirmed"} /\ request'[q].run = request[q].run
      /\ \A p \in Requests : p # q => request'[p] = request[p]
      /\ request[q].status \notin {"researching", "briefed"}
  BY DEF IInv, ResearchTypeOK
<1>3. RequestFollowsItsRuns'
  BY <1>2 DEF IInv, RequestFollowsItsRuns
<1> QED BY <1>1, <1>3 DEF IInv, CallsAreAboutRows, NoRowNoHistory, HandedOutOnce,
                         BriefBehindResearch, CompletedIsWhole

LEMMA ReadSteps ==
  ASSUME IInv, NEW c \in Calls,
         \/ \E q \in Requests : EnqueueRead(c, q)
         \/ \E a \in Agents : ClaimRead(c, a)
         \/ \E r \in ResearchRuns, retryable \in BOOLEAN : FailRead(c, r, retryable)
         \/ Abort(c)
  PROVE  IInv'
<1>1. UNCHANGED <<request, run, briefs, history>>
  BY DEF EnqueueRead, ClaimRead, FailRead, Abort
<1>2. \E o \in OpenCalls \union {Nothing} :
        /\ call' = [call EXCEPT ![c] = o]
        /\ o # Nothing /\ o.op \in {"claim", "fail"} => RunExists(o.run)
  BY DEF EnqueueRead, ClaimRead, FailRead, Abort, Opens, OpenCalls, IInv, ResearchTypeOK, RunRows
<1>3. ResearchTypeOK' /\ CallsAreAboutRows'
  BY <1>1, <1>2 DEF IInv, ResearchTypeOK, CallsAreAboutRows
<1> QED BY <1>1, <1>3, Untouched DEF IInv, RowsKept

LEMMA EnqueueWriteStep ==
  ASSUME IInv, NEW c \in Calls, NEW r \in ResearchRuns, EnqueueWrite(c, r)
  PROVE  IInv'
<1> DEFINE q == call[c].request
           row == [request |-> q, status |-> "queued", agent |-> Nothing,
                   progress |-> 0, report |-> FALSE, retryCount |-> 0]
<1>0. q \in Requests
  BY DEF IInv, ResearchTypeOK, EnqueueWrite, Commits, OpenCalls
<1>1. /\ q \in Requests /\ row \in RunRows /\ row # Nothing
      /\ ~RunExists(r) /\ run' = [run EXCEPT ![r] = row]
      /\ request' = [request EXCEPT ![q] = [status |-> "researching", run |-> r]]
      /\ call' = [call EXCEPT ![c] = Nothing]
      /\ puts' = [puts EXCEPT ![r] = 1]
      /\ UNCHANGED <<briefs, handouts>>
  <2>1. row \in RunRows
    BY <1>0 DEF RunRows, RunStatuses
  <2> QED BY <1>0, <2>1 DEF EnqueueWrite, Commits
<1> HIDE DEF q, row
<1>2. /\ run'[r] = row /\ RunExists(r)' /\ \A s \in ResearchRuns : s # r => run'[s] = run[s]
      /\ request'[q] = [status |-> "researching", run |-> r]
      /\ \A p \in Requests : p # q => request'[p] = request[p]
      /\ row.request = q /\ row.status = "queued"
  BY <1>1 DEF IInv, ResearchTypeOK, row
<1>3. ResearchTypeOK'
  BY <1>1 DEF IInv, ResearchTypeOK, RequestStatuses
<1>4. CallsAreAboutRows'
  BY <1>1, <1>2 DEF IInv, ResearchTypeOK, CallsAreAboutRows
<1>5. NoRowNoHistory' /\ HandedOutOnce'
  <2>1. puts'[r] = 1 /\ handouts'[r] = 0 /\ \A s \in ResearchRuns : s # r => puts'[s] = puts[s]
    BY <1>1 DEF IInv, ResearchTypeOK, NoRowNoHistory
  <2> QED BY <1>1, <1>2, <2>1 DEF IInv, ResearchTypeOK, NoRowNoHistory, HandedOutOnce
<1>6. RequestFollowsItsRuns'
  <2> SUFFICES ASSUME NEW p \in Requests
      PROVE  LET mine == {s \in ResearchRuns : RunExists(s)' /\ run'[s].request = p} IN
             /\ request'[p].status \in {"researching", "briefed"} <=> mine # {}
             /\ IF mine = {} THEN request'[p].run = Nothing ELSE request'[p].run \in mine
             /\ request'[p].status = "briefed" => mine \intersect briefs' # {}
    BY DEF RequestFollowsItsRuns
  <2>1. CASE p = q
    <3>1. r \in {s \in ResearchRuns : RunExists(s)' /\ run'[s].request = p}
      BY <1>2, <2>1
    <3> QED BY <1>2, <2>1, <3>1
  <2>2. CASE p # q
    <3>1. {s \in ResearchRuns : RunExists(s)' /\ run'[s].request = p} = {s \in ResearchRuns : RunExists(s) /\ run[s].request = p}
      BY <1>1, <1>2, <2>2
    <3> QED BY <1>1, <1>2, <2>2, <3>1 DEF IInv, RequestFollowsItsRuns
  <2> QED BY <2>1, <2>2
<1>7. BriefBehindResearch'
  BY <1>1, <1>2 DEF IInv, BriefBehindResearch
<1>8. CompletedIsWhole'
  BY <1>1, <1>2 DEF IInv, CompletedIsWhole
<1> QED BY <1>3, <1>4, <1>5, <1>6, <1>7, <1>8 DEF IInv

LEMMA ClaimWriteStep ==
  ASSUME IInv, NEW c \in Calls, ClaimWrite(c)
  PROVE  IInv'
<1> DEFINE r == call[c].run
           a == call[c].agent
<1>1. /\ call[c] \in OpenCalls /\ call[c].op = "claim" /\ r \in ResearchRuns /\ a \in Agents
      /\ call' = [call EXCEPT ![c] = Nothing]
      /\ UNCHANGED <<request, briefs, puts>> /\ Take(r, a)
  BY DEF IInv, ResearchTypeOK, ClaimWrite, Commits, OpenCalls
<1> HIDE DEF r, a
<1>2. CASE ~Reads(r, "queued")
  <2>1. UNCHANGED <<request, run, briefs, history>>
    BY <1>1, <1>2 DEF Take
  <2>2. ResearchTypeOK' /\ CallsAreAboutRows'
    BY <1>1, <2>1 DEF IInv, ResearchTypeOK, CallsAreAboutRows
  <2> QED BY <2>1, <2>2, Untouched DEF IInv, RowsKept
<1>3. CASE Reads(r, "queued")
  <2> DEFINE row == [request |-> run[r].request, status |-> "running", agent |-> a,
                     progress |-> run[r].progress, report |-> run[r].report,
                     retryCount |-> run[r].retryCount]
  <2>1. /\ row \in RunRows /\ run' = [run EXCEPT ![r] = row]
        /\ handouts' = [handouts EXCEPT ![r] = @ + 1]
    BY <1>1, <1>3 DEF IInv, ResearchTypeOK, Take, RunRows, RunStatuses
  <2>2. row.request = run[r].request /\ row.report = run[r].report /\ row.status = "running"
    OBVIOUS
  <2> HIDE DEF row
  <2>3. ResearchTypeOK'
    BY <1>1, <2>1 DEF IInv, ResearchTypeOK
  <2>4. \A d \in Calls : call'[d] \in {call[d], Nothing}
    BY <1>1 DEF IInv, ResearchTypeOK
  <2>5. RequestFollowsItsRuns' /\ BriefBehindResearch' /\ CallsAreAboutRows'
    BY <1>1, <1>3, <2>1, <2>2, <2>4, OneRow DEF IInv
  <2>6. CompletedIsWhole'
    BY <1>1, <2>1, <2>2, WholeRow DEF IInv
  <2>7. NoRowNoHistory' /\ HandedOutOnce'
    <3>1. /\ run'[r] = row /\ row # Nothing /\ \A s \in ResearchRuns : s # r => run'[s] = run[s]
          /\ handouts'[r] = handouts[r] + 1 /\ \A s \in ResearchRuns : s # r => handouts'[s] = handouts[s]
      BY <1>1, <2>1 DEF IInv, ResearchTypeOK
    <3>2. puts[r] \in Nat /\ handouts[r] \in Nat /\ handouts[r] + 1 <= puts[r] /\ puts' = puts
      BY <1>1, <1>3 DEF IInv, ResearchTypeOK, HandedOutOnce
    <3> QED BY <1>1, <2>2, <3>1, <3>2 DEF IInv, ResearchTypeOK, NoRowNoHistory, HandedOutOnce
  <2> QED BY <2>3, <2>5, <2>6, <2>7 DEF IInv
<1> QED BY <1>2, <1>3

LEMMA ReportSteps ==
  ASSUME IInv, NEW r \in ResearchRuns,
         CompleteResearchRun(r) \/ \E p \in -1..Full + 1 : RecordProgress(r, p)
  PROVE  IInv'
<1>1. \E row \in RunRows :
        /\ run' = [run EXCEPT ![r] = row] /\ row.request = run[r].request
        /\ row.report \/ ~run[r].report
        /\ row.status \in {"running", "completed"}
        /\ row.status = "completed" => row.report /\ row.progress = Full /\ row.agent # Nothing
  <2>1. CASE CompleteResearchRun(r)
    <3> DEFINE st == "completed"
               b == TRUE
               row == [run[r] EXCEPT !.status = st, !.progress = Full, !.report = b]
    <3>1. run[r] \in RunRows /\ run[r].agent # Nothing
      BY <2>1 DEF IInv, ResearchTypeOK, CompleteResearchRun
    <3>2. /\ row \in RunRows /\ row.request = run[r].request /\ row.report = b
          /\ row.status = st /\ row.progress = Full /\ row.agent = run[r].agent
      <4>1. st \in RunStatuses /\ Full \in 0..Full /\ b \in BOOLEAN
        BY DEF RunStatuses
      <4> HIDE DEF st, b
      <4>2. row \in RunRows
        BY <3>1, <4>1 DEF RunRows
      <4>3. row.request = run[r].request /\ row.agent = run[r].agent
        BY <3>1, <4>1 DEF RunRows
      <4>4. row.status = st /\ row.progress = Full
        BY <3>1, <4>1 DEF RunRows
      <4>5. row.report = b
        BY <3>1, <4>1 DEF RunRows
      <4> QED BY <4>2, <4>3, <4>4, <4>5
    <3>3. run' = [run EXCEPT ![r] = row]
      BY <2>1 DEF IInv, ResearchTypeOK, CompleteResearchRun
    <3> QED BY <3>1, <3>2, <3>3
  <2>2. ASSUME NEW p \in -1..Full + 1, RecordProgress(r, p)
        PROVE  \E row \in RunRows :
                 /\ run' = [run EXCEPT ![r] = row] /\ row.request = run[r].request
                 /\ row.report = run[r].report /\ row.status = "running"
    <3> DEFINE row == [request |-> run[r].request, status |-> "running", agent |-> run[r].agent,
                       progress |-> Clamped(p), report |-> run[r].report,
                       retryCount |-> run[r].retryCount]
    <3>1. Clamped(p) \in 0..Full
      BY DEF Clamped
    <3>2. run[r] \in RunRows /\ run[r].status = "running"
      BY <2>2 DEF IInv, ResearchTypeOK, RecordProgress
    <3>3. row \in RunRows
      BY <3>1, <3>2 DEF RunRows, RunStatuses
    <3>4. [run[r] EXCEPT !.progress = Clamped(p)] = row
      BY <3>2 DEF RunRows
    <3>5. run' = [run EXCEPT ![r] = [run[r] EXCEPT !.progress = Clamped(p)]]
      BY <2>2 DEF IInv, ResearchTypeOK, RecordProgress
    <3>6. run' = [run EXCEPT ![r] = row]
      BY <3>4, <3>5
    <3> QED BY <3>3, <3>6
  <2> QED BY <2>1, <2>2
<1>2. Reads(r, "running") /\ UNCHANGED <<request, briefs, call, history>>
  BY DEF CompleteResearchRun, RecordProgress
<1>3. ResearchTypeOK'
  BY <1>1, <1>2 DEF IInv, ResearchTypeOK
<1>4. RequestFollowsItsRuns' /\ BriefBehindResearch' /\ CallsAreAboutRows'
  BY <1>1, <1>2, OneRow DEF IInv
<1>5. CompletedIsWhole'
  BY <1>1, <1>2, WholeRow DEF IInv
<1>6. NoRowNoHistory' /\ HandedOutOnce'
  BY <1>1, <1>2 DEF IInv, ResearchTypeOK, NoRowNoHistory, HandedOutOnce
<1> QED BY <1>3, <1>4, <1>5, <1>6 DEF IInv

LEMMA FailWriteStep ==
  ASSUME IInv, NEW c \in Calls, FailWrite(c)
  PROVE  IInv'
<1> DEFINE r == call[c].run
           st == IF call[c].retryable THEN "queued" ELSE "failed"
           n == call[c].retryCount + 1
           row == [run[r] EXCEPT !.status = st, !.retryCount = n]
<1>1. /\ call[c] \in OpenCalls /\ call[c].op = "fail" /\ r \in ResearchRuns /\ RunExists(r)
      /\ call[c].retryable \in BOOLEAN /\ call[c].retryCount \in Nat
      /\ call' = [call EXCEPT ![c] = Nothing]
      /\ UNCHANGED <<request, briefs, handouts>>
      /\ puts' = [puts EXCEPT ![r] = IF call[c].retryable THEN @ + 1 ELSE @]
  BY DEF IInv, ResearchTypeOK, FailWrite, Commits, OpenCalls, CallsAreAboutRows
<1>2. /\ row \in RunRows /\ run' = [run EXCEPT ![r] = row]
      /\ row.request = run[r].request /\ row.report = run[r].report
      /\ row.status = IF call[c].retryable THEN "queued" ELSE "failed"
  <2>1. run[r] \in RunRows
    BY <1>1 DEF IInv, ResearchTypeOK
  <2>2. st \in RunStatuses /\ n \in Nat
    BY <1>1 DEF RunStatuses
  <2>3. run' = [run EXCEPT ![r] = row]
    BY <1>1 DEF IInv, ResearchTypeOK, FailWrite
  <2>4. row \in RunRows /\ row.request = run[r].request /\ row.report = run[r].report /\ row.status = st
    <3> HIDE DEF r, st, n
    <3> QED BY ONLY <2>1, <2>2, Failed
  <2> QED BY <2>3, <2>4
<1> HIDE DEF r, row
<1>3. ResearchTypeOK'
  BY <1>1, <1>2 DEF IInv, ResearchTypeOK
<1>4. \A d \in Calls : call'[d] \in {call[d], Nothing}
  BY <1>1 DEF IInv, ResearchTypeOK
<1>5. RequestFollowsItsRuns' /\ BriefBehindResearch' /\ CallsAreAboutRows'
  BY <1>1, <1>2, <1>4, OneRow DEF IInv
<1>6. CompletedIsWhole'
  BY <1>1, <1>2, WholeRow DEF IInv
<1>7. NoRowNoHistory' /\ HandedOutOnce'
  <2>1. /\ run'[r] = row /\ row # Nothing /\ \A s \in ResearchRuns : s # r => run'[s] = run[s] /\ puts'[s] = puts[s]
        /\ puts'[r] = IF call[c].retryable THEN puts[r] + 1 ELSE puts[r]
    BY <1>1, <1>2 DEF IInv, ResearchTypeOK
  <2>2. puts[r] \in Nat /\ handouts[r] \in Nat /\ handouts[r] <= puts[r]
    BY <1>1 DEF IInv, ResearchTypeOK, HandedOutOnce
  <2> QED BY <1>1, <1>2, <2>1, <2>2 DEF IInv, ResearchTypeOK, NoRowNoHistory, HandedOutOnce
<1> QED BY <1>3, <1>5, <1>6, <1>7 DEF IInv

LEMMA BriefStep ==
  ASSUME IInv, NEW r \in ResearchRuns, CreateNicheBrief(r)
  PROVE  IInv'
<1> DEFINE q == run[r].request
           mine(p) == {s \in ResearchRuns : RunExists(s) /\ run[s].request = p}
<1>1. /\ Reads(r, "completed") /\ q \in Requests /\ r \in mine(q)
      /\ briefs' = briefs \union {r} /\ UNCHANGED <<run, call, history>>
      /\ request' = [request EXCEPT ![q].status = "briefed"]
  BY DEF IInv, ResearchTypeOK, CreateNicheBrief, RunRows
<1>2. /\ request'[q].status = "briefed" /\ request'[q].run = request[q].run
      /\ \A p \in Requests : p # q => request'[p] = request[p]
  BY <1>1 DEF IInv, ResearchTypeOK
<1>3. ResearchTypeOK'
  BY <1>1 DEF IInv, ResearchTypeOK, RequestStatuses
<1>4. RequestFollowsItsRuns'
  BY <1>1, <1>2 DEF IInv, RequestFollowsItsRuns
<1>5. BriefBehindResearch'
  BY <1>1 DEF IInv, BriefBehindResearch, CompletedIsWhole
<1> QED BY <1>1, <1>3, <1>4, <1>5 DEF IInv, CallsAreAboutRows, NoRowNoHistory, HandedOutOnce, CompletedIsWhole

LEMMA Step == IInv /\ [ResearchNext]_researchVars => IInv'
<1> SUFFICES ASSUME IInv, [ResearchNext]_researchVars PROVE IInv'
  OBVIOUS
<1>1. CASE UNCHANGED researchVars
  BY <1>1 DEF researchVars, IInv, ResearchTypeOK, CallsAreAboutRows, NoRowNoHistory, HandedOutOnce,
              RequestFollowsItsRuns, BriefBehindResearch, CompletedIsWhole
<1>2. CASE ResearchNext
  BY <1>2, RequestSteps, ReadSteps, EnqueueWriteStep, ClaimWriteStep, ReportSteps, FailWriteStep, BriefStep
     DEF ResearchNext
<1> QED BY <1>1, <1>2

LEMMA Inductive == ResearchSpec => []IInv
BY Initial, Step, PTL DEF ResearchSpec

-----------------------------------------------------------------------------
(* Results *)

\* Rows, requests and open transactions stay in their spaces.
THEOREM TypeCorrect == ResearchSpec => []ResearchTypeOK
BY Inductive, PTL DEF IInv

\* Each time a run is queued it is handed to one agent at most, for any number of
\* agents polling and reporting at once (claimNextResearchRun).
THEOREM HandedOutOnceHolds == ResearchSpec => []HandedOutOnce
BY Inductive, PTL DEF IInv

\* Request, runs and briefs agree, whatever is confirmed and enqueued twice.
THEOREM RequestFollowsItsRunsHolds == ResearchSpec => []RequestFollowsItsRuns
BY Inductive, PTL DEF IInv

\* No brief before research completes (createNicheBriefWithApproval).
THEOREM BriefBehindResearchHolds == ResearchSpec => []BriefBehindResearch
BY Inductive, PTL DEF IInv

\* A run that reads "completed" is whole (completeResearchRun, recordResearchRunProgress).
THEOREM CompletedIsWholeHolds == ResearchSpec => []CompletedIsWhole
BY Inductive, PTL DEF IInv
=============================================================================
