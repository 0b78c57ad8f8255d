----------------------------- MODULE Waterfall -----------------------------
(***************************************************************************)
(* Waterfall enrichment of the e-mail address of a contact: lib/phase1/    *)
(* waterfall-engine.ts, waterfall-runner.ts, waterfall-templates.ts,       *)
(* waterfall-conditions.ts and waterfall-enrichment-service.ts.            *)
(*                                                                         *)
(* A run reads the contact, its sources and the template in one            *)
(* transaction, asks and pays providers one after the other outside of     *)
(* any, and writes what it has in a last one.  Between the two, people     *)
(* edit the contact and the template, and other runs read and write.       *)
(* The contacts of a run share nothing but these two transactions, so one  *)
(* is followed.  Connections are fixed; a step lists its eligible ones.    *)
(* Templates without a budget, and the stop after fifty calls, which a     *)
(* template would need fifty pairs of step and provider to reach, are left *)
(* out.                                                                    *)
(***************************************************************************)
EXTENDS Naturals, Sequences, FiniteSets, FiniteSetsExt

CONSTANTS Addresses, Missing,
          EmailProviders,
          Price,        \* the estimated cost of a call, per provider
          Templates,    \* the templates a workspace may begin with
          Caps,         \* budgets per lead that an edit can set
          WaterfallRuns,
          MaxEdits      \* bound on edits of the contact and of the template

Deliverability == {"valid", "catch_all", "risky", "invalid", "unknown"}
Steps == [stage : {"find", "verify"}, providers : Seq(EmailProviders),
          whenMissing : BOOLEAN,     \* runIf: the address is missing
          untilValid : BOOLEAN,      \* stopIf: its status is valid
          accepts : SUBSET Deliverability] \* the quality gate

ASSUME WaterfallAssumption ==
  /\ Missing \notin Addresses /\ Caps \subseteq Nat /\ MaxEdits \in Nat
  /\ WaterfallRuns \subseteq Nat /\ Price \in [EmailProviders -> Nat]
  /\ Templates \subseteq [steps : Seq(Steps), cap : Nat]

VARIABLES
  person,   \* the contact: its address and its grade
  sources,  \* its FieldSources for "email", in the order of the array
  template, \* the template as it stands
  runs,     \* the runs, by the time they start
  vouched,  \* ghost: the address the verdict shown on the contact is about
  edits
waterfallVars == <<person, sources, template, runs, vouched, edits>>

Grades == {"A", "B", "C", "D"}
Emailish == Addresses \union {Missing}
Verdict == [status : Deliverability \union {"unverified"}, confidence : 0..2, of : Emailish]
Idle == [at |-> "idle", template |-> [steps |-> <<>>, cap |-> 0],
         lead |-> [email |-> Missing, status |-> "unverified"],
         attempted |-> {}, cost |-> 0, found |-> <<>>]

\* Among the types: no run estimates more for the lead than the budget it
\* began with, whatever is edited meanwhile.
WaterfallTypeOK ==
  /\ person \in [email : Emailish, grade : {"none"} \union Grades]
  /\ \A i \in DOMAIN sources : sources[i].run \in WaterfallRuns /\ sources[i].status \in Deliverability \union {"unverified"}
  /\ template.steps \in Seq(Steps) /\ template.cap \in Nat
  /\ \A r \in WaterfallRuns :
       /\ runs[r].at \in {"idle", "asking", "written", "lost"}
       /\ runs[r].lead \in [email : Emailish, status : Deliverability \union {"unverified"}]
       /\ runs[r].found \in Seq(Verdict)
       /\ runs[r].cost <= runs[r].template.cap
  /\ vouched \in Emailish /\ edits \in 0..MaxEdits

WaterfallInit ==
  /\ person \in [email : Emailish, grade : {"none"}]
  /\ sources = <<>> /\ vouched = Missing /\ edits = 0
  /\ template \in Templates
  /\ runs = [r \in WaterfallRuns |-> Idle]

-----------------------------------------------------------------------------
\* The planner and the gate, which are pure.

\* The steps still wanted and the providers that may be asked and fit the
\* budget, as pairs of positions.
Plans(run) ==
  {plan \in UNION {{i} \X DOMAIN run.template.steps[i].providers : i \in DOMAIN run.template.steps} :
     LET step == run.template.steps[plan[1]]  p == step.providers[plan[2]] IN
     /\ step.untilValid => run.lead.status # "valid"
     /\ step.whenMissing => run.lead.email = Missing
     /\ <<plan[1], p>> \notin run.attempted
     /\ run.cost + Price[p] <= run.template.cap}

Dispatched(run, plan) ==
  /\ plan \in Plans(run)
  /\ \A other \in Plans(run) : plan[1] < other[1] \/ (plan[1] = other[1] /\ plan[2] <= other[2])

\* The status of the source enriched last; one run stamps all of its sources
\* with one time, and of those the first in the array is taken.
EmailStatus ==
  LET latest == {i \in DOMAIN sources : \A k \in DOMAIN sources : sources[k].run <= sources[i].run}
  IN IF latest = {} THEN "unverified"
     ELSE sources[CHOOSE i \in latest : \A k \in latest : i <= k].status

\* The first of the surest verdicts.
Surest(found) ==
  LET verdicts == {i \in DOMAIN found : found[i].status # "unverified"} IN
  CHOOSE i \in verdicts : \A k \in verdicts :
    found[k].confidence < found[i].confidence
    \/ (found[k].confidence = found[i].confidence /\ i <= k)
HasVerdict(found) == \E i \in DOMAIN found : found[i].status # "unverified"
GradeFor(status) == CASE status = "valid" -> "A" [] status = "catch_all" -> "B"
                      [] status = "risky" -> "C" [] status = "invalid" -> "D"

-----------------------------------------------------------------------------
\* A run.

StartRun(r) ==
  /\ runs[r].at = "idle" /\ \A s \in WaterfallRuns : s < r => runs[s].at # "idle"
  /\ runs' = [runs EXCEPT ![r] = [Idle EXCEPT !.at = "asking", !.template = template,
                !.lead = [email |-> person.email, status |-> EmailStatus]]]
  /\ UNCHANGED <<person, sources, template, vouched, edits>>

Asked(r, plan) ==
  LET step == runs[r].template.steps[plan[1]]  p == step.providers[plan[2]] IN
  [runs[r] EXCEPT !.attempted = @ \union {<<plan[1], p>>}, !.cost = @ + Price[p]]

Accepted(run, lead, verdict) == [run EXCEPT !.lead = lead, !.found = Append(@, verdict)]

\* Nothing found, a rejected verdict, an address to verify that is missing,
\* or a provider that is not live: paid for as well.
AskInVain(r, plan) ==
  /\ runs[r].at = "asking" /\ Dispatched(runs[r], plan)
  /\ runs' = [runs EXCEPT ![r] = Asked(r, plan)]
  /\ UNCHANGED <<person, sources, template, vouched, edits>>

\* A provider finds an address, or a row without one.
Find(r, plan, email) ==
  /\ runs[r].at = "asking" /\ Dispatched(runs[r], plan)
  /\ runs[r].template.steps[plan[1]].stage = "find"
  /\ LET lead == [runs[r].lead EXCEPT !.email = IF email = Missing THEN @ ELSE email] IN
     runs' = [runs EXCEPT ![r] = Accepted(Asked(r, plan), lead,
       [status |-> "unverified", confidence |-> 0, of |-> lead.email])]
  /\ UNCHANGED <<person, sources, template, vouched, edits>>

Verify(r, plan, status, confidence) ==
  /\ runs[r].at = "asking" /\ Dispatched(runs[r], plan)
  /\ LET step == runs[r].template.steps[plan[1]]  lead == runs[r].lead IN
     /\ step.stage = "verify" /\ lead.email # Missing /\ status \in step.accepts
     /\ runs' = [runs EXCEPT ![r] = Accepted(Asked(r, plan), [lead EXCEPT !.status = status],
          [status |-> status, confidence |-> confidence, of |-> lead.email])]
  /\ UNCHANGED <<person, sources, template, vouched, edits>>

\* An adapter throws or the process stops: what was paid for is gone.
LoseRun(r) ==
  /\ runs[r].at = "asking"
  /\ runs' = [runs EXCEPT ![r] = [Idle EXCEPT !.at = "lost"]]
  /\ UNCHANGED <<person, sources, template, vouched, edits>>

\* A contact whose surest verdict is "unknown" is shown it and keeps its grade.
Graded(row, found) ==
  IF HasVerdict(found) /\ found[Surest(found)].status # "unknown"
  THEN [row EXCEPT !.grade = GradeFor(found[Surest(found)].status)] ELSE row

\* Mutant: an address the contact has by now is kept.
WrittenIfMissing(run) ==
  Graded([person EXCEPT !.email = IF @ = Missing THEN run.lead.email ELSE @], run.found)

\* The address the run found, or only read before its calls, is written.
Written(run) ==
  Graded([person EXCEPT !.email = IF run.lead.email = Missing THEN @ ELSE run.lead.email], run.found)

WriteResults(r) ==
  LET run == runs[r] IN
  /\ run.at = "asking" /\ Plans(run) = {}
  /\ person' = Written(run)
  /\ sources' = sources \o [i \in DOMAIN run.found |-> [run |-> r, status |-> run.found[i].status]]
  /\ vouched' = IF HasVerdict(run.found) THEN run.found[Surest(run.found)].of ELSE vouched
  /\ runs' = [runs EXCEPT ![r] = [Idle EXCEPT !.at = "written", !.template = run.template]]
  /\ UNCHANGED <<template, edits>>

-----------------------------------------------------------------------------
\* People.

Edit == edits < MaxEdits /\ edits' = edits + 1
EditTemplate(steps, cap) ==
  /\ Edit /\ template' = [steps |-> steps, cap |-> cap]
  /\ UNCHANGED <<person, sources, runs, vouched>>

EditEmail(email) ==
  /\ Edit /\ person' = [person EXCEPT !.email = email]
  /\ UNCHANGED <<sources, template, runs, vouched>>

\* An added step has no condition and no gate.
AddStep(stage, p) ==
  EditTemplate(Append(template.steps, [stage |-> stage, providers |-> <<p>>, whenMissing |-> FALSE,
                                       untilValid |-> FALSE, accepts |-> Deliverability]), template.cap)
RemoveStep(i) ==
  EditTemplate(SubSeq(template.steps, 1, i - 1) \o SubSeq(template.steps, i + 1, Len(template.steps)),
               template.cap)
MoveDown(i) ==
  /\ i < Len(template.steps)
  /\ EditTemplate([template.steps EXCEPT ![i] = template.steps[i + 1], ![i + 1] = template.steps[i]],
                  template.cap)
UpdateStep(i, stage, p) ==
  EditTemplate([template.steps EXCEPT ![i].stage = stage, ![i].providers = <<p>>], template.cap)
UpdateMeta(cap) == EditTemplate(template.steps, cap)

WaterfallNext ==
  \/ \E r \in WaterfallRuns :
       \/ StartRun(r) \/ LoseRun(r) \/ WriteResults(r)
       \/ \E plan \in Plans(runs[r]) :
            \/ AskInVain(r, plan)
            \/ \E email \in Emailish : Find(r, plan, email)
            \/ \E status \in Deliverability, confidence \in 1..2 : Verify(r, plan, status, confidence)
  \/ \E email \in Emailish : EditEmail(email)
  \/ \E stage \in {"find", "verify"}, p \in EmailProviders :
       AddStep(stage, p) \/ \E i \in DOMAIN template.steps : UpdateStep(i, stage, p)
  \/ \E i \in DOMAIN template.steps : RemoveStep(i) \/ MoveDown(i)
  \/ \E cap \in Caps : UpdateMeta(cap)

WaterfallSpec == WaterfallInit /\ [][WaterfallNext]_waterfallVars

-----------------------------------------------------------------------------
\* Nothing is looked for while there is an address.
FindsOnlyMissing(steps) == \A i \in DOMAIN steps : steps[i].stage = "find" => steps[i].whenMissing

\* A run that has a verdict leaves the contact with the address the verdict was
\* about, whoever edited the address or found another one in between.  Only
\* a template with a bare find step after a verify step breaks this.
GradeIsOfTheAddress ==
  [][\A r \in WaterfallRuns :
       (runs[r].at = "asking" /\ runs'[r].at = "written" /\ HasVerdict(runs[r].found)
          /\ FindsOnlyMissing(runs[r].template.steps)) => vouched' = person'.email]_waterfallVars

PaidFor(asks) == MapThenSumSet(LAMBDA ask : Price[ask[2]], asks)

\* What a run counts as spent is the price of every provider it asked, once
\* for each step it was asked at and whether its answer was of use; all of
\* them together fit the budget per lead that the run began with.
WithinBudget == \A r \in WaterfallRuns : /\ runs[r].cost = PaidFor(runs[r].attempted)
                                        /\ runs[r].cost <= runs[r].template.cap
=============================================================================
