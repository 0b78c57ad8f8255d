----------------------------- MODULE SdrCalling -----------------------------
(***************************************************************************)
(* The calling queue of the SDRs: lib/phase1/sdr.ts, the wrap-up receipts  *)
(* of call-wrapup-idempotency.ts and their actions in app/actions.ts.      *)
(* Contacts are assigned in batches; each callable contact of a batch is   *)
(* called twice, every first call before any second one, and the next      *)
(* batch is filled when the last one is through.  Beside it every touch    *)
(* leaves a follow-up reminder, the next step of the contact.  Every       *)
(* action is one transaction on the snapshot.  Tasks, activities, the due  *)
(* dates with their SLA labels and the session report, which decide        *)
(* nothing here, are left out.                                             *)
(***************************************************************************)
EXTENDS Naturals, FiniteSets, SequencesExt

CONSTANTS Leads, Accounts, AccountOf, \* contacts and their companies
          LeadOrder,   \* state.contacts as an array
          Ended,       \* contacts a user gave an ended status before
          Prompted,    \* contacts whose priority or status dates a first step
          Reps, Nobody, Unassigned,
          Target,      \* SDR_DAILY_CALL_TARGET, 150 in the code
          Wrapups,     \* request ids the browser mints for its wrap-ups
          MaxSdrSteps  \* bound on the actions of this module

\* status: one of activeAssignmentStatuses, or not.
Assignments == [rep : Reps, active : BOOLEAN, first : BOOLEAN, second : BOOLEAN, done : BOOLEAN]

ASSUME SdrAssumption ==
  /\ AccountOf \in [Leads -> Accounts] /\ Ended \subseteq Leads /\ Prompted \subseteq Leads
  /\ LeadOrder \in Seq(Leads)
  /\ Nobody \notin Reps \union Leads /\ Unassigned \notin Assignments /\ Reps # {}
  /\ Target \in Nat /\ MaxSdrSteps \in Nat

VARIABLES
  reachable, \* contacts with a phone, not suppressed, priority not S
  owner,     \* contact.owner
  rows,      \* state.sdrAssignments, at most one row per contact
  reminders, \* state.followUpReminders not completed: the owners, by contact
  receipts,  \* the call_wrapup_saved audit rows: request -> contact
  calls,     \* ghost: the requests counted for a row since it was fresh
  moved,     \* ghost: accounts in which a manager reassigned a contact
  sdrSteps
sdrVars == <<reachable, owner, rows, reminders, receipts, calls, moved, sdrSteps>>

SdrTypeOK ==
  /\ reachable \subseteq Leads
  /\ owner \in [Leads -> Reps \union {Nobody}]
  /\ rows \in [Leads -> Assignments \union {Unassigned}]
  /\ reminders \in [Leads -> Seq(Reps)]
  /\ receipts \in [Wrapups -> Leads \union {Nobody}]
  /\ calls \in [Leads -> SUBSET Wrapups]
  /\ moved \subseteq Accounts
  /\ sdrSteps \in 0..MaxSdrSteps

SdrInit ==
  /\ reachable \in SUBSET Leads
  /\ owner \in [Leads -> Reps \union {Nobody}]
  /\ rows = [l \in Leads |-> Unassigned] /\ reminders = [l \in Leads |-> <<>>]
  /\ receipts = [r \in Wrapups |-> Nobody]
  /\ calls = [l \in Leads |-> {}]
  /\ moved = {} /\ sdrSteps = 0

-----------------------------------------------------------------------------
\* isCallableCycleAssignment, on rows as and reachable contacts ok.
IsCallable(as, ok, l) ==
  as[l] # Unassigned /\ ~as[l].done /\ as[l].active /\ l \in ok

RowsOfRep(as, rep) == {l \in Leads : as[l] # Unassigned /\ as[l].rep = rep}
Callables(as, ok, rep) == {l \in RowsOfRep(as, rep) : IsCallable(as, ok, l)}

FreshRow(rep, active) ==
  [rep |-> rep, active |-> active, first |-> FALSE, second |-> FALSE, done |-> FALSE]

\* The reps of the other contacts of the account.
AccountReps(as, l) ==
  {as[m].rep : m \in {k \in Leads \ {l} : as[k] # Unassigned /\ AccountOf[k] = AccountOf[l]}}

\* Mutant: the contact's own owner is asked before the account's rep.
RouteByOwner(as, own, l, pick) == IF own[l] # Nobody THEN own[l] ELSE pick[AccountOf[l]]

\* routeContact.  pick stands for what the order of the rows, the territory,
\* the industry and the load of the reps decide.
RouteContact(as, own, l, pick) ==
  LET reps == AccountReps(as, l) IN
  IF reps # {} THEN IF pick[AccountOf[l]] \in reps THEN pick[AccountOf[l]]
                    ELSE CHOOSE rep \in reps : TRUE
  ELSE IF own[l] # Nobody THEN own[l] ELSE pick[AccountOf[l]]

\* One contact of a run: a rep gets contacts up to the target, and only when
\* none of his old ones is callable.
AssignLead(acc, l, ok, open, pick) ==
  LET rep == RouteContact(acc.rows, acc.owner, l, pick) IN
  IF acc.rows[l] # Unassigned \/ l \notin ok \/ rep \in open \/ acc.load[rep] >= Target
  THEN acc
  ELSE [rows  |-> [acc.rows EXCEPT ![l] = FreshRow(rep, l \notin Ended)],
        owner |-> [acc.owner EXCEPT ![l] = rep],
        load  |-> [acc.load EXCEPT ![rep] = @ + 1]]

\* assignWorkspaceLeads over the eligible contacts in their order.
AssignWorkspaceLeads(as, own, ok, order, pick) ==
  LET open == {rep \in Reps : Callables(as, ok, rep) # {}}
      run[i \in 0..Len(order)] ==
        IF i = 0 THEN [rows |-> as, owner |-> own, load |-> [rep \in Reps |-> 0]]
        ELSE AssignLead(run[i - 1], order[i], ok, open, pick)
  IN run[Len(order)]

\* The rows as before, bs after: a new row starts with a reminder if its first
\* step has a date.
FirstSteps(rs, as, bs) ==
  [l \in Leads |-> IF as[l] = Unassigned /\ bs[l] # Unassigned /\ bs[l].active /\ l \in Prompted
                   THEN Append(rs[l], bs[l].rep) ELSE rs[l]]

SdrStep == sdrSteps < MaxSdrSteps /\ sdrSteps' = sdrSteps + 1
Picks == [Accounts -> Reps]

\* A manager's run, over all contacts, the ready ones or those of a campaign
\* by their score.
RunSdrAssignment(order, pick) ==
  LET run == AssignWorkspaceLeads(rows, owner, reachable, order, pick) IN
  /\ SdrStep
  /\ rows' = run.rows /\ owner' = run.owner
  /\ reminders' = FirstSteps(reminders, rows, run.rows)
  /\ UNCHANGED <<reachable, receipts, calls, moved>>

-----------------------------------------------------------------------------
\* Calls.

Touched(l, active) == [rows EXCEPT ![l].active = active]

\* recordFirstTouch completes the reminders of the row and, as every active
\* outcome has a date, the rep's or a default one, leaves one.
TouchedSteps(l, active) == [reminders EXCEPT ![l] = IF active THEN <<rows[l].rep>> ELSE <<>>]

\* recordFirstTouch through its own form, or for a message sent.
LogFirstTouch(l, active) ==
  /\ SdrStep /\ rows[l] # Unassigned
  /\ rows' = Touched(l, active) /\ reminders' = TouchedSteps(l, active)
  /\ owner' = [owner EXCEPT ![l] = rows[l].rep]
  /\ UNCHANGED <<reachable, receipts, calls, moved>>

\* Mutant: the second pass opens while first calls are still to be made.
EagerSecondPass(as, ok, l) == ~as[l].first \/ ~as[l].second

\* The pass this wrap-up counts for is recorded: the first one, or the second
\* one when the rep has no first call left.
CountsAsPass(as, ok, l) ==
  \/ ~as[l].first
  \/ ~as[l].second /\ \A m \in Callables(as, ok, as[l].rep) \ {l} : as[m].first

\* recordSdrCallCycleAttempt: the rows after it, before the next batch.
CallCycleAttempt(as, ok, l) ==
  LET row    == as[l]
      passed == IF ~CountsAsPass(as, ok, l) THEN row
                ELSE IF ~row.first THEN [row EXCEPT !.first = TRUE]
                ELSE [row EXCEPT !.second = TRUE, !.done = TRUE]
  IN [as EXCEPT ![l] = [passed EXCEPT !.done = @ \/ ~IsCallable(as, ok, l)]]

\* The last callable row of the rep is through: his other open rows are closed.
CloseBatch(as, rep) ==
  [l \in Leads |-> IF l \in RowsOfRep(as, rep) THEN [as[l] EXCEPT !.done = TRUE] ELSE as[l]]

\* A row that a wrap-up closed has no next step.
StepsOfOpen(rs, as, bs) ==
  [l \in Leads |-> IF as[l] # Unassigned /\ ~as[l].done /\ bs[l].done THEN <<>> ELSE rs[l]]

CountOnce(r, l) == /\ receipts' = [receipts EXCEPT ![r] = l]
                  /\ calls' = [calls EXCEPT ![l] = @ \union {r}]

SaveWrapup(r, l, outcome, pick) ==
  LET touched == Touched(l, outcome = "active")
      ok      == IF outcome = "suppressed" THEN reachable \ {l} ELSE reachable
      rep     == rows[l].rep
      own     == [owner EXCEPT ![l] = rep]
      after   == CallCycleAttempt(touched, ok, l)
      closed  == CloseBatch(after, rep)
      next    == AssignWorkspaceLeads(closed, own, ok, LeadOrder, pick)
      steps   == TouchedSteps(l, outcome = "active")
  IN /\ reachable' = ok
     /\ IF touched[l].done THEN rows' = touched /\ owner' = own /\ reminders' = steps
        ELSE IF Callables(after, ok, rep) # {}
        THEN rows' = after /\ owner' = own /\ reminders' = StepsOfOpen(steps, touched, after)
        ELSE /\ rows' = next.rows /\ owner' = next.owner
             /\ reminders' = FirstSteps(StepsOfOpen(steps, touched, closed), closed, next.rows)
     /\ CountOnce(r, l)

\* A wrap-up, or the browser's retry of one that may have been saved.
SaveCallWrapup(r, l, outcome, pick) ==
  /\ SdrStep /\ rows[l] # Unassigned
  /\ IF receipts[r] = Nobody THEN SaveWrapup(r, l, outcome, pick)
     ELSE receipts[r] = l /\ UNCHANGED <<reachable, owner, rows, reminders, receipts, calls>>
  /\ UNCHANGED moved

\* The rep completes a reminder.
CompleteReminder(l) ==
  /\ SdrStep
  /\ \E i \in DOMAIN reminders[l] : reminders' = [reminders EXCEPT ![l] = RemoveAt(@, i)]
  /\ UNCHANGED <<reachable, owner, rows, receipts, calls, moved>>

-----------------------------------------------------------------------------
\* What managers and the rest of the CRM do in between.

Reassign(ls, rep) ==
  /\ rows' = [l \in Leads |-> IF l \in ls THEN [rows[l] EXCEPT !.rep = rep] ELSE rows[l]]
  /\ owner' = [l \in Leads |-> IF l \in ls THEN rep ELSE owner[l]]
  /\ reminders' = [l \in Leads |-> IF l \in ls THEN [i \in DOMAIN reminders[l] |-> rep] ELSE reminders[l]]
  /\ moved' = moved \union {AccountOf[l] : l \in ls}

\* A closed row is reassigned like an open one.
ReassignSdrAssignment(l, rep) ==
  /\ SdrStep /\ rows[l] # Unassigned
  /\ Reassign({l}, rep)
  /\ UNCHANGED <<reachable, receipts, calls>>

\* The recommendations: open rows that are overdue or of an overloaded rep, to
\* another rep.
ApplyReassignmentRecommendations(ls, rep) ==
  /\ SdrStep
  /\ \A l \in ls : rows[l] # Unassigned /\ ~rows[l].done /\ rows[l].rep # rep
  /\ Reassign(ls, rep)
  /\ UNCHANGED <<reachable, receipts, calls>>

\* A contact without a row goes to the rep of its account, whoever was named.
AssignContactToSdr(l, rep) ==
  /\ SdrStep
  /\ \/ rows[l] # Unassigned /\ rows[l].rep # rep /\ Reassign({l}, rep)
     \/ /\ rows[l] = Unassigned
        /\ \E to \in IF AccountReps(rows, l) = {} THEN {rep} ELSE AccountReps(rows, l) :
             /\ rows' = [rows EXCEPT ![l] = FreshRow(to, l \notin Ended)]
             /\ owner' = [owner EXCEPT ![l] = to]
             /\ reminders' = IF l \in Prompted THEN [reminders EXCEPT ![l] = Append(@, to)] ELSE reminders
        /\ UNCHANGED moved
  /\ UNCHANGED <<reachable, receipts, calls>>

\* The clean-up of test leads: it deletes the reminders; the audit rows stay.
ResetSdrAssignmentToFresh(l) ==
  /\ SdrStep /\ rows[l] # Unassigned
  /\ rows' = [rows EXCEPT ![l] = FreshRow(rows[l].rep, TRUE)]
  /\ reminders' = [reminders EXCEPT ![l] = IF l \in Prompted THEN <<rows[l].rep>> ELSE <<>>]
  /\ calls' = [calls EXCEPT ![l] = {}]
  /\ UNCHANGED <<reachable, owner, receipts, moved>>

\* An e-mail event: an open, click, reply or soft bounce makes the row active
\* again; an opt-out or hard bounce, or an SMS opt-out, suppresses the contact.
ContactEvent(l, optOut) ==
  /\ SdrStep
  /\ rows' = IF rows[l] = Unassigned THEN rows ELSE Touched(l, ~optOut)
  /\ IF optOut THEN reachable' = reachable \ {l} /\ reminders' = [reminders EXCEPT ![l] = <<>>]
               ELSE UNCHANGED <<reachable, reminders>>
  /\ UNCHANGED <<owner, receipts, calls, moved>>

\* A contact is suppressed or freed, loses its phone or gets one.
ContactChanges(l) ==
  /\ SdrStep
  /\ reachable' = IF l \in reachable THEN reachable \ {l} ELSE reachable \union {l}
  /\ UNCHANGED <<owner, rows, reminders, receipts, calls, moved>>

\* The contacts one run considers, and in which order.
Runs == {order \in UNION {[1..n -> Leads] : n \in 0..Cardinality(Leads)} :
           \A i, k \in DOMAIN order : i # k => order[i] # order[k]}

SdrNext ==
  \/ \E pick \in Picks :
       \/ \E order \in Runs : RunSdrAssignment(order, pick)
       \/ \E r \in Wrapups, l \in Leads, outcome \in {"active", "ended", "suppressed"} :
            SaveCallWrapup(r, l, outcome, pick)
  \/ \E l \in Leads, b \in BOOLEAN : LogFirstTouch(l, b) \/ ContactEvent(l, b)
  \/ \E l \in Leads : ResetSdrAssignmentToFresh(l) \/ ContactChanges(l) \/ CompleteReminder(l)
  \/ \E l \in Leads, rep \in Reps : AssignContactToSdr(l, rep) \/ ReassignSdrAssignment(l, rep)
  \/ \E ls \in (SUBSET Leads) \ {{}}, rep \in Reps : ApplyReassignmentRecommendations(ls, rep)

SdrSpec == SdrInit /\ [][SdrNext]_sdrVars

-----------------------------------------------------------------------------
\* A contact that can still be called leaves the calling cycle only after two
\* wrap-ups of its own, saved under different requests however often the
\* browser retried them, and only when every other contact its rep can call
\* has had its first call.
NobodyIsSkipped ==
  [][\A l \in Leads :
       (IsCallable(rows, reachable, l) /\ rows'[l].done /\ rows'[l].active /\ l \in reachable')
         => /\ Cardinality(calls'[l]) >= 2
            /\ \A m \in Callables(rows, reachable, rows[l].rep) \ {l} : rows[m].first]_sdrVars

\* routeContact: "all contacts stay with one owner" (sdr.ts:1265).  Unless a
\* manager reassigned one of them, the contacts of an account have one rep.
OneRepPerAccount ==
  \A l, m \in Leads :
    ( AccountOf[l] = AccountOf[m] /\ AccountOf[l] \notin moved
      /\ rows[l] # Unassigned /\ rows[m] # Unassigned ) => rows[l].rep = rows[m].rep

\* Touches, wrap-ups, batches, reassignments, opt-outs and clean-ups each replace,
\* move or complete reminders on their own: a contact never has two open ones,
\* and the one it has is of the rep who has the contact.
OneNextStep ==
  \A l \in Leads : reminders[l] # <<>> => rows[l] # Unassigned /\ reminders[l] = <<rows[l].rep>>

\* The accounts and the next steps stay in one pair of hands.
OneRepOneStep == OneRepPerAccount /\ OneNextStep
=============================================================================
