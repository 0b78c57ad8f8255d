----------------------- MODULE ApprovalWorkflowProofs -----------------------
(***************************************************************************)
(* Approvals for any number of rows, runs, users, contents and thresholds. *)
(* Last, that they implement NicheGate: the state of a run's gate is the   *)
(* row its brief points at.                                                *)
(***************************************************************************)
EXTENDS ApprovalWorkflow, TLAPS

USE CostAssumption, NoneAssumption, ApprovalsAssumption, NullAssumption
USE DEF Exists

\* An approved row names who decided and, for a NICHE_TEST, has its side
\* effects: a replay finds nothing left to write.
Settled(row) ==
  row.status = "approved" => row.decidedBy \in Users /\ (row.run # None => row.applied)

ApprovedIsSettled == \A a \in Approvals : Exists(a) => Settled(approval[a])

IInv == TypeOK /\ ApprovedIsSettled

EventRows == [kind : Kinds, approval : Approvals, status : Statuses]

\* The outbox stays a set of event rows.
LEMMA AnnounceType ==
  ASSUME NEW E \in SUBSET EventRows, NEW kind \in Kinds, NEW a \in Approvals, NEW status \in Statuses
  PROVE  Announce(E, kind, a, status) \in SUBSET EventRows
BY DEF Announce, EventRows

LEMMA AnnounceRequestType ==
  ASSUME NEW E \in SUBSET EventRows, NEW a \in Approvals, NEW row
  PROVE  AnnounceRequest(E, a, row) \in SUBSET EventRows
BY AnnounceType DEF AnnounceRequest, Kinds, Statuses

LEMMA NewRowType ==
  ASSUME NEW key \in RowKeys, NEW r \in Runs \union {None}, NEW d \in Docs, NEW exp \in BOOLEAN,
         NEW prev \in Approvals \union {None}
  PROVE  NewRow(key, r, d, exp, prev) \in Rows /\ Settled(NewRow(key, r, d, exp, prev))
BY DEF NewRow, Rows, Statuses, Settled

\* What a step that writes a row, and keeps the others, preserves.
LEMMA RowWritten ==
  ASSUME IInv, NEW a \in Approvals, NEW row \in Rows, Settled(row),
         approval' = [approval EXCEPT ![a] = row]
  PROVE  /\ approval' \in [Approvals -> Rows \union {None}]
         /\ ApprovedIsSettled'
BY DEF IInv, TypeOK, ApprovedIsSettled

\* What a decision makes of a row.
LEMMA DecidedRow ==
  ASSUME NEW x \in Rows, NEW u \in Users
  PROVE  /\ LET y == [x EXCEPT !.status = "declined", !.decidedBy = u] IN y \in Rows /\ Settled(y)
         /\ LET y == [x EXCEPT !.status = "approved", !.decidedBy = u] IN
            y \in Rows /\ (x.run = None => Settled(y))
         /\ LET y == [x EXCEPT !.status = "approved", !.decidedBy = u, !.applied = TRUE] IN
            y \in Rows /\ Settled(y)
BY DEF Rows, Statuses, Settled

LEMMA InitIInv == Init => IInv
BY DEF Init, IInv, TypeOK, ApprovedIsSettled

LEMMA CreateApprovalIInv ==
  ASSUME IInv, NEW k \in Keys, NEW d \in Docs, NEW exp \in BOOLEAN, CreateApproval(k, d, exp)
  PROVE  IInv'
<1>1. CASE /\ UNCHANGED approval
           /\ \E a \in Approvals : events' = AnnounceRequest(events, a, approval[a])
  BY <1>1, AnnounceRequestType
  DEF CreateApproval, IInv, TypeOK, ApprovedIsSettled, env, EventRows
<1>2. CASE \E a \in Approvals : LET row == NewRow(<<"caller", k>>, None, d, exp, None) IN
             /\ approval' = [approval EXCEPT ![a] = row]
             /\ events' = AnnounceRequest(events, a, row)
  <2>1. PICK a \in Approvals : LET row == NewRow(<<"caller", k>>, None, d, exp, None) IN
             /\ approval' = [approval EXCEPT ![a] = row]
             /\ events' = AnnounceRequest(events, a, row)
    BY <1>2
  <2>2. <<"caller", k>> \in RowKeys
    BY DEF RowKeys
  <2>3. NewRow(<<"caller", k>>, None, d, exp, None) \in Rows
        /\ Settled(NewRow(<<"caller", k>>, None, d, exp, None))
    BY <2>2, NewRowType
  <2>4. approval' \in [Approvals -> Rows \union {None}] /\ ApprovedIsSettled'
    BY <2>1, <2>3, RowWritten
  <2>5. events' \in SUBSET EventRows
    BY <2>1, AnnounceRequestType DEF IInv, TypeOK, EventRows
  <2> QED BY <2>4, <2>5 DEF CreateApproval, IInv, TypeOK, env, EventRows
<1> QED BY <1>1, <1>2 DEF CreateApproval

LEMMA CreateBriefIInv ==
  ASSUME IInv, NEW r \in Runs, NEW d \in Docs, CreateNicheBriefWithApproval(r, d)
  PROVE  IInv'
<1>1. CASE /\ brief[r] # None /\ UNCHANGED <<approval, brief, briefed>>
           /\ events' = AnnounceRequest(events, brief[r].approval, approval[brief[r].approval])
  <2>1. brief[r].approval \in Approvals
    BY <1>1 DEF IInv, TypeOK, Briefs
  <2>2. events' \in SUBSET EventRows
    BY <1>1, <2>1, AnnounceRequestType DEF IInv, TypeOK, EventRows
  <2> QED BY <1>1, <2>2 DEF CreateNicheBriefWithApproval, IInv, TypeOK, ApprovedIsSettled, EventRows
<1>2. CASE \E a \in Approvals : LET row == NewRow(<<"niche-test", r>>, r, d, FALSE, None) IN
             /\ approval' = [approval EXCEPT ![a] = row]
             /\ brief' = [brief EXCEPT ![r] = [status |-> "pending_approval", approval |-> a, doc |-> d]]
             /\ briefed' = briefed \union {r}
             /\ events' = AnnounceRequest(events, a, row)
  <2>1. PICK a \in Approvals : LET row == NewRow(<<"niche-test", r>>, r, d, FALSE, None) IN
             /\ approval' = [approval EXCEPT ![a] = row]
             /\ brief' = [brief EXCEPT ![r] = [status |-> "pending_approval", approval |-> a, doc |-> d]]
             /\ briefed' = briefed \union {r}
             /\ events' = AnnounceRequest(events, a, row)
    BY <1>2
  <2>2. <<"niche-test", r>> \in RowKeys
    BY DEF RowKeys
  <2>3. NewRow(<<"niche-test", r>>, r, d, FALSE, None) \in Rows
        /\ Settled(NewRow(<<"niche-test", r>>, r, d, FALSE, None))
    BY <2>2, NewRowType
  <2>4. approval' \in [Approvals -> Rows \union {None}] /\ ApprovedIsSettled'
    BY <2>1, <2>3, RowWritten
  <2>5. events' \in SUBSET EventRows
    BY <2>1, AnnounceRequestType DEF IInv, TypeOK, EventRows
  <2>6. brief' \in [Runs -> Briefs \union {None}] /\ briefed' \subseteq Runs
    BY <2>1 DEF IInv, TypeOK, Briefs
  <2> QED BY <2>4, <2>5, <2>6 DEF CreateNicheBriefWithApproval, IInv, TypeOK, EventRows
<1> QED BY <1>1, <1>2 DEF CreateNicheBriefWithApproval

\* The side effects of an approved NICHE_TEST, first time or again.
LEMMA SideEffectsIInv ==
  ASSUME IInv, NEW a \in Approvals, Exists(a), IsNiche(a), ChainMatches(a), NEW u \in Users,
         ApplySideEffects(a, u), UNCHANGED env
  PROVE  IInv'
<1>1. approval[a] \in Rows /\ approval[a].run \in Runs /\ approval[a].doc \in Docs
  BY DEF IInv, TypeOK, IsNiche, Rows
<1>2. approval' \in [Approvals -> Rows \union {None}] /\ ApprovedIsSettled'
  <2> DEFINE row == [approval[a] EXCEPT !.status = "approved", !.decidedBy = u, !.applied = TRUE]
  <2>1. approval' = [approval EXCEPT ![a] = row]
    BY DEF ApplySideEffects
  <2>2. row \in Rows /\ Settled(row)
    BY <1>1, DecidedRow
  <2> HIDE DEF row
  <2> QED BY <2>1, <2>2, RowWritten
<1>3. brief' \in [Runs -> Briefs \union {None}]
  <2>1. brief[approval[a].run] \in Briefs
    BY <1>1 DEF ChainMatches, IInv, TypeOK
  <2> QED BY <1>1, <2>1 DEF ApplySideEffects, IInv, TypeOK, Briefs
<1>4. campaign' \in [Approvals -> Campaigns \union {None}]
  BY <1>1 DEF ApplySideEffects, IInv, TypeOK, Campaigns
<1>5. events' \in SUBSET EventRows
  BY AnnounceType DEF ApplySideEffects, Announced, IInv, TypeOK, EventRows, Kinds, Statuses
<1> QED BY <1>2, <1>3, <1>4, <1>5 DEF IInv, TypeOK, env, EventRows

LEMMA ReplayIInv ==
  ASSUME IInv, NEW a \in Approvals, Exists(a), Replay(a), UNCHANGED env
  PROVE  IInv'
<1>1. CASE /\ UNCHANGED <<approval, brief, campaign>>
           /\ Announced("decided", a, approval[a].status)
  <2>1. approval[a].status \in Statuses
    BY DEF IInv, TypeOK, Rows
  <2>2. events' \in SUBSET EventRows
    BY <1>1, <2>1, AnnounceType DEF Announced, IInv, TypeOK, EventRows, Kinds
  <2> QED BY <1>1, <2>2 DEF IInv, TypeOK, ApprovedIsSettled, env, EventRows
<1>2. CASE /\ approval[a].status = "approved" /\ IsNiche(a) /\ ChainMatches(a)
           /\ ApplySideEffects(a, approval[a].decidedBy)
  BY <1>2, SideEffectsIInv DEF IInv, ApprovedIsSettled, Settled
<1> QED BY <1>1, <1>2 DEF Replay

\* A decision, or the first of two, written on the row and announced.
LEMMA MarkedIInv ==
  ASSUME IInv, NEW a \in Approvals, NEW row \in Rows,
         Settled(row), approval' = [approval EXCEPT ![a] = row],
         NEW kind \in Kinds, NEW status \in Statuses, Announced(kind, a, status),
         UNCHANGED <<brief, campaign, env>>
  PROVE  IInv'
<1>1. approval' \in [Approvals -> Rows \union {None}] /\ ApprovedIsSettled'
  BY RowWritten
<1>2. events' \in SUBSET EventRows
  BY AnnounceType DEF Announced, IInv, TypeOK, EventRows
<1> QED BY <1>1, <1>2 DEF IInv, TypeOK, env, EventRows

LEMMA DeclineIInv ==
  ASSUME IInv, NEW a \in Approvals, NEW u \in Users, Exists(a), Decline(a, u), UNCHANGED env
  PROVE  IInv'
<1> DEFINE row == [approval[a] EXCEPT !.status = "declined", !.decidedBy = u]
<1>1. approval[a] \in Rows
  BY DEF IInv, TypeOK
<1>2. row \in Rows /\ Settled(row)
  BY <1>1, DecidedRow
<1>3. approval' = [approval EXCEPT ![a] = row] /\ Announced("decided", a, "declined")
      /\ UNCHANGED <<brief, campaign>>
  BY DEF Decline
<1>4. "decided" \in Kinds /\ "declined" \in Statuses
  BY DEF Kinds, Statuses
<1> HIDE DEF row
<1> QED BY <1>2, <1>3, <1>4, MarkedIInv

LEMMA HoldForSecondIInv ==
  ASSUME IInv, NEW a \in Approvals, NEW u \in Users, Exists(a), HoldForSecond(a, u), UNCHANGED env
  PROVE  IInv'
<1> DEFINE row == [approval[a] EXCEPT !.first = u]
<1>1. approval[a] \in Rows /\ approval[a].status = "pending"
  BY DEF HoldForSecond, IInv, TypeOK
<1>2. row \in Rows /\ Settled(row)
  BY <1>1 DEF Rows, Settled
<1>3. approval' = [approval EXCEPT ![a] = row] /\ Announced("awaiting-second", a, "pending")
      /\ UNCHANGED <<brief, campaign>>
  BY DEF HoldForSecond
<1>4. "awaiting-second" \in Kinds /\ "pending" \in Statuses
  BY DEF Kinds, Statuses
<1> HIDE DEF row
<1> QED BY <1>2, <1>3, <1>4, MarkedIInv

LEMMA ApproveOtherIInv ==
  ASSUME IInv, NEW a \in Approvals, NEW u \in Users, Exists(a), ApproveOther(a, u), UNCHANGED env
  PROVE  IInv'
<1> DEFINE row == [approval[a] EXCEPT !.status = "approved", !.decidedBy = u]
<1>1. approval[a] \in Rows /\ approval[a].run = None
  BY DEF ApproveOther, IsNiche, IInv, TypeOK
<1>2. row \in Rows /\ Settled(row)
  BY <1>1, DecidedRow
<1>3. approval' = [approval EXCEPT ![a] = row] /\ Announced("decided", a, "approved")
      /\ UNCHANGED <<brief, campaign>>
  BY DEF ApproveOther
<1>4. "decided" \in Kinds /\ "approved" \in Statuses
  BY DEF Kinds, Statuses
<1> HIDE DEF row
<1> QED BY <1>2, <1>3, <1>4, MarkedIInv

LEMMA ApproveIInv ==
  ASSUME IInv, NEW a \in Approvals, NEW u \in Users, Approve(a, u)
  PROVE  IInv'
BY HoldForSecondIInv, ApproveOtherIInv, SideEffectsIInv, ReplayIInv DEF Approve, ApproveNiche

LEMMA ReviseIInv ==
  ASSUME IInv, NEW a \in Approvals, NEW b \in Approvals, NEW d \in Docs, Revise(a, b, d)
  PROVE  IInv'
<1> DEFINE row == NewRow(<<"approval-revision", a>>, approval[a].run, d, approval[a].expires, a)
           old == [approval[a] EXCEPT !.status = "superseded"]
<1>1. /\ approval[a] \in Rows /\ approval[a].run \in Runs \union {None}
      /\ approval[a].expires \in BOOLEAN
  BY DEF Revise, IInv, TypeOK, Rows
<1>2. <<"approval-revision", a>> \in RowKeys
  BY DEF RowKeys
<1>3. row \in Rows /\ Settled(row)
  BY <1>1, <1>2, NewRowType
<1>4. old \in Rows /\ Settled(old)
  BY <1>1 DEF Rows, Statuses, Settled
<1>5. a # b /\ approval' = [approval EXCEPT ![a] = old, ![b] = row]
  BY DEF Revise, IsNext
<1>6. events' \in SUBSET EventRows
  <2>1. Announce(events, "revised", a, "superseded") \in SUBSET EventRows
    BY AnnounceType DEF IInv, TypeOK, EventRows, Kinds, Statuses
  <2> QED BY <2>1, AnnounceRequestType DEF Revise
<1>7. brief' \in [Runs -> Briefs \union {None}]
  <2>1. CASE approval[a].run = None
    BY <2>1 DEF Revise, AdvanceBrief, IInv, TypeOK
  <2>2. CASE approval[a].run \in Runs
    BY <2>2 DEF Revise, AdvanceBrief, IInv, TypeOK, Briefs
  <2> QED BY <1>1, <2>1, <2>2
<1> HIDE DEF row, old
<1>8. approval' \in [Approvals -> Rows \union {None}] /\ ApprovedIsSettled'
  BY <1>3, <1>4, <1>5 DEF IInv, TypeOK, ApprovedIsSettled
<1> QED BY <1>6, <1>7, <1>8 DEF Revise, IInv, TypeOK, env, EventRows

LEMMA ReplayReviseIInv ==
  ASSUME IInv, NEW a \in Approvals, NEW b \in Approvals, ReplayRevise(a, b)
  PROVE  IInv'
<1>1. Announce(events, "revised", a, "superseded") \in SUBSET EventRows
  BY AnnounceType DEF IInv, TypeOK, EventRows, Kinds, Statuses
<1>2. events' \in SUBSET EventRows
  BY <1>1, AnnounceRequestType DEF ReplayRevise
<1> QED BY <1>2 DEF ReplayRevise, IInv, TypeOK, ApprovedIsSettled, env, EventRows

LEMMA EnvironmentIInv ==
  ASSUME IInv,
         \/ \E C, B \in SUBSET Runs : ResearchMoves(C, B)
         \/ \E t \in Thresholds : SetThreshold(t)
         \/ DeadlinePasses
  PROVE  IInv'
BY DEF ResearchMoves, SetThreshold, DeadlinePasses, IInv, TypeOK, ApprovedIsSettled, rows, env

LEMMA NextIInv == IInv /\ [Next]_vars => IInv'
<1> SUFFICES ASSUME IInv, [Next]_vars PROVE IInv'
  OBVIOUS
<1>1. CASE UNCHANGED vars
  BY <1>1 DEF vars, rows, env, IInv, TypeOK, ApprovedIsSettled
<1>2. ASSUME NEW k \in Keys, NEW d \in Docs, NEW exp \in BOOLEAN, CreateApproval(k, d, exp) PROVE IInv'
  BY <1>2, CreateApprovalIInv
<1>3. ASSUME NEW r \in Runs, NEW d \in Docs, CreateNicheBriefWithApproval(r, d) PROVE IInv'
  BY <1>3, CreateBriefIInv
<1>4. ASSUME NEW a \in Approvals, NEW u \in Users, Approve(a, u) PROVE IInv'
  BY <1>4, ApproveIInv
<1>5. ASSUME NEW a \in Approvals, NEW u \in Users, DeclineOrReplay(a, u) PROVE IInv'
  BY <1>5, DeclineIInv, ReplayIInv DEF DeclineOrReplay
<1>6. ASSUME NEW a \in Approvals, NEW b \in Approvals, NEW d \in Docs, Revise(a, b, d) PROVE IInv'
  BY <1>6, ReviseIInv
<1>7. ASSUME NEW a \in Approvals, NEW b \in Approvals, ReplayRevise(a, b) PROVE IInv'
  BY <1>7, ReplayReviseIInv
<1> QED BY <1>1, <1>2, <1>3, <1>4, <1>5, <1>6, <1>7, EnvironmentIInv DEF Next

\* The rows, briefs, campaigns and events keep their types, whoever decides,
\* revises or replays what and however often.
THEOREM TypeCorrect == Spec => []TypeOK
<1>1. IInv => TypeOK
  BY DEF IInv
<1> QED BY InitIInv, NextIInv, <1>1, PTL DEF Spec

-----------------------------------------------------------------------------
\* What a step does to a row that exists.

\* A revision writes a row that did not exist.
LEMMA RevisedRow ==
  ASSUME IInv, NEW a \in Approvals, NEW b \in Approvals, NEW d \in Docs, Revise(a, b, d),
         NEW c \in Approvals, Exists(c)
  PROVE  approval'[c] = IF c = a THEN [approval[c] EXCEPT !.status = "superseded"] ELSE approval[c]
BY DEF Revise, IsNext, IInv, TypeOK

\* The fields of a row a decision, its first half or its revision writes.
SameContent(x, y) ==
  \A f \in {"key", "run", "doc", "expires", "supersedes"} : y[f] = x[f]

\* A row that exists stays, or its deadline allows it and it is pending, or
\* it is declined: the cases of a step, with who approves.
RowStep(a, old, new) ==
  /\ new \in Rows
  /\ \/ new = old
     \/ /\ old.status = "pending" /\ ~Expired(a) /\ SameContent(old, new)
        /\ old.first = None /\ new.status = "pending"
     \/ /\ old.status = "pending" /\ ~Expired(a) /\ SameContent(old, new)
        /\ new.status = "superseded" /\ new.first = old.first
     \/ /\ old.status = "pending" /\ SameContent(old, new)
        /\ new.status = "declined" /\ new.first = old.first
     \/ /\ old.status = "pending" /\ ~Expired(a) /\ SameContent(old, new)
        /\ new.status = "approved" /\ new.first = old.first /\ MayDecide(a, new.decidedBy)

LEMMA ApproveStep ==
  ASSUME IInv, NEW a \in Approvals, NEW u \in Users, Approve(a, u) \/ DeclineOrReplay(a, u),
         NEW c \in Approvals, Exists(c)
  PROVE  RowStep(c, approval[c], approval'[c])
<1>0. approval[c] \in Rows /\ Settled(approval[c]) /\ DOMAIN approval = Approvals
  BY DEF IInv, TypeOK, ApprovedIsSettled
<1>1. CASE HoldForSecond(a, u)
  BY <1>0, <1>1 DEF HoldForSecond, RowStep, SameContent, Rows, Statuses
<1>2. CASE ApproveOther(a, u)
  BY <1>0, <1>2 DEF ApproveOther, RowStep, SameContent, Rows, Statuses
<1>3. CASE ApproveNiche(a, u)
  BY <1>0, <1>3 DEF ApproveNiche, ApplySideEffects, RowStep, SameContent, Rows, Statuses
<1>4. CASE Replay(a)
  <2>1. approval'[c] = approval[c]
    BY <1>0, <1>4 DEF Replay, ApplySideEffects, IsNiche, Settled, Rows
  <2> QED BY <1>0, <2>1 DEF RowStep
<1>5. CASE Decline(a, u)
  BY <1>0, <1>5 DEF Decline, RowStep, SameContent, Rows, Statuses
<1> QED BY <1>1, <1>2, <1>3, <1>4, <1>5 DEF Approve, DeclineOrReplay

LEMMA EveryRowStep ==
  ASSUME IInv, [Next]_vars, NEW c \in Approvals, Exists(c)
  PROVE  RowStep(c, approval[c], approval'[c])
<1>0. approval[c] \in Rows /\ DOMAIN approval = Approvals
  BY DEF IInv, TypeOK
<1>1. CASE UNCHANGED approval
  BY <1>0, <1>1 DEF RowStep
<1>2. CASE \E a \in Approvals : \E row : ~Exists(a) /\ approval' = [approval EXCEPT ![a] = row]
  <2>1. approval'[c] = approval[c]
    BY <1>0, <1>2
  <2> QED BY <1>0, <2>1 DEF RowStep
<1>3. ASSUME NEW k \in Keys, NEW d \in Docs, NEW exp \in BOOLEAN, CreateApproval(k, d, exp)
      PROVE  RowStep(c, approval[c], approval'[c])
  BY <1>1, <1>2, <1>3 DEF CreateApproval, IsNext
<1>4. ASSUME NEW r \in Runs, NEW d \in Docs, CreateNicheBriefWithApproval(r, d)
      PROVE  RowStep(c, approval[c], approval'[c])
  BY <1>1, <1>2, <1>4 DEF CreateNicheBriefWithApproval, IsNext
<1>5. ASSUME NEW a \in Approvals, NEW u \in Users, Approve(a, u) \/ DeclineOrReplay(a, u)
      PROVE  RowStep(c, approval[c], approval'[c])
  BY <1>5, ApproveStep
<1>6. ASSUME NEW a \in Approvals, NEW b \in Approvals, NEW d \in Docs, Revise(a, b, d)
      PROVE  RowStep(c, approval[c], approval'[c])
  <2>1. approval'[c] = IF c = a THEN [approval[c] EXCEPT !.status = "superseded"] ELSE approval[c]
    BY <1>6, RevisedRow
  <2>2. approval[a].status = "pending" /\ ~Expired(a)
    BY <1>6 DEF Revise
  <2> QED BY <1>0, <2>1, <2>2 DEF RowStep, SameContent, Rows, Statuses
<1>7. ASSUME NEW a \in Approvals, NEW b \in Approvals, ReplayRevise(a, b)
      PROVE  UNCHANGED approval
  BY <1>7 DEF ReplayRevise
<1>8. ASSUME \/ \E C, B \in SUBSET Runs : ResearchMoves(C, B)
             \/ \E t \in Thresholds : SetThreshold(t)
             \/ DeadlinePasses
             \/ UNCHANGED vars
      PROVE  UNCHANGED approval
  BY <1>8 DEF ResearchMoves, SetThreshold, DeadlinePasses, rows, vars
<1> QED BY <1>1, <1>3, <1>4, <1>5, <1>6, <1>7, <1>8 DEF Next

\* Rows are never deleted.
LEMMA RowStays ==
  ASSUME IInv, [Next]_vars, NEW c \in Approvals, Exists(c)
  PROVE  Exists(c)'
BY EveryRowStep DEF RowStep

-----------------------------------------------------------------------------

\* However the threshold, the revisions and the taps of any number of users
\* interleave, an approval under the two-person rule has two approvers.
THEOREM TwoPersonRuleHolds == Spec => TwoPersonRule
<1>1. ASSUME IInv, [Next]_vars, NEW a \in Approvals, Exists(a), approval[a].status = "pending",
             approval'[a].status = "approved", NeedsTwo(a)
      PROVE  approval[a].first \notin {None, approval'[a].decidedBy}
  <2>1. RowStep(a, approval[a], approval'[a])
    BY <1>1, EveryRowStep
  <2> QED BY <1>1, <2>1 DEF RowStep, MayDecide
<1>2. IInv /\ [Next]_vars =>
        [\A a \in Approvals :
           /\ Exists(a) /\ approval[a].status = "pending"
           /\ approval'[a].status = "approved"
           /\ NeedsTwo(a)
           => approval[a].first \notin {None, approval'[a].decidedBy}]_vars
  BY <1>1
<1> QED BY InitIInv, NextIInv, <1>2, PTL DEF Spec, TwoPersonRule

\* What a launched campaign tells stays.
LEMMA CampaignStays ==
  ASSUME IInv, [Next]_vars, NEW a \in Approvals, campaign[a] # None
  PROVE  campaign'[a] = campaign[a]
<1>1. DOMAIN campaign = Approvals
  BY DEF IInv, TypeOK
<1>2. ASSUME NEW b \in Approvals, NEW u, ApplySideEffects(b, u)
      PROVE  campaign'[a] = campaign[a]
  BY <1>1, <1>2 DEF ApplySideEffects
<1>3. ASSUME NEW b \in Approvals, NEW u \in Users, Approve(b, u) \/ DeclineOrReplay(b, u)
      PROVE  campaign'[a] = campaign[a]
  BY <1>2, <1>3 DEF Approve, DeclineOrReplay, Replay, Decline, HoldForSecond, ApproveOther, ApproveNiche
<1>4. ASSUME NEW b \in Approvals, NEW c \in Approvals,
             ReplayRevise(b, c) \/ (\E d \in Docs : Revise(b, c, d))
      PROVE  UNCHANGED campaign
  BY <1>4 DEF Revise, ReplayRevise
<1>5. ASSUME \/ \E k \in Keys, d \in Docs, exp \in BOOLEAN : CreateApproval(k, d, exp)
             \/ \E r \in Runs, d \in Docs : CreateNicheBriefWithApproval(r, d)
      PROVE  UNCHANGED campaign
  BY <1>5 DEF CreateApproval, CreateNicheBriefWithApproval
<1>6. ASSUME \/ \E C, B \in SUBSET Runs : ResearchMoves(C, B)
             \/ \E t \in Thresholds : SetThreshold(t)
             \/ DeadlinePasses
             \/ UNCHANGED vars
      PROVE  UNCHANGED campaign
  BY <1>6 DEF ResearchMoves, SetThreshold, DeadlinePasses, rows, vars
<1> QED BY <1>3, <1>4, <1>5, <1>6 DEF Next

\* No replay, retry or second surface rewrites what was approved, reopens a
\* decision or touches a launched campaign.
THEOREM DecisionsStay == Spec => DecisionsAreFinal
<1>1. ASSUME IInv, [Next]_vars, NEW a \in Approvals, Exists(a)
      PROVE  /\ Exists(a)'
             /\ SameContent(approval[a], approval'[a])
             /\ approval[a].first # None => approval'[a].first = approval[a].first
             /\ approval[a].status # "pending" => approval'[a] = approval[a]
  <2>1. RowStep(a, approval[a], approval'[a])
    BY <1>1, EveryRowStep
  <2>2. Exists(a)'
    BY <1>1, RowStays
  <2> QED BY <2>1, <2>2 DEF RowStep, SameContent
<1>2. IInv /\ [Next]_vars =>
        [/\ \A a \in Approvals : Exists(a) =>
              /\ Exists(a)'
              /\ \A f \in {"key", "run", "doc", "expires", "supersedes"} :
                   approval'[a][f] = approval[a][f]
              /\ approval[a].first # None => approval'[a].first = approval[a].first
              /\ approval[a].status # "pending" => approval'[a] = approval[a]
         /\ \A a \in Approvals : campaign[a] # None => campaign'[a] = campaign[a]]_vars
  BY <1>1, CampaignStays DEF SameContent
<1> QED BY InitIInv, NextIInv, <1>2, PTL DEF Spec, DecisionsAreFinal

\* A successor is made of a row whose deadline has not passed.
LEMMA SuccessorInTime ==
  ASSUME IInv, [Next]_vars, NEW a \in Approvals, Expired(a),
         NEW b \in Approvals, ~Exists(b), Exists(b)'
  PROVE  approval'[b].supersedes # a
<1>1. DOMAIN approval = Approvals
  BY DEF IInv, TypeOK
<1>2. ASSUME NEW k \in Keys, NEW d \in Docs, NEW exp \in BOOLEAN, CreateApproval(k, d, exp)
      PROVE  approval'[b].supersedes # a
  BY <1>1, <1>2 DEF CreateApproval, NewRow
<1>3. ASSUME NEW r \in Runs, NEW d \in Docs, CreateNicheBriefWithApproval(r, d)
      PROVE  approval'[b].supersedes # a
  BY <1>1, <1>3 DEF CreateNicheBriefWithApproval, NewRow
<1>4. ASSUME NEW c \in Approvals, NEW e \in Approvals, NEW d \in Docs, Revise(c, e, d)
      PROVE  approval'[b].supersedes # a
  <2>1. a # c
    BY <1>4 DEF Revise
  <2>2. b = e
    BY <1>1, <1>4 DEF Revise
  <2> QED BY <1>1, <1>4, <2>1, <2>2 DEF Revise, NewRow
<1>5. ASSUME NEW c \in Approvals, NEW u \in Users, Approve(c, u) \/ DeclineOrReplay(c, u)
      PROVE  FALSE
  BY <1>1, <1>5 DEF Approve, DeclineOrReplay, Replay, Decline, HoldForSecond, ApproveOther,
                    ApproveNiche, ApplySideEffects
<1>6. ASSUME \/ \E c, e \in Approvals : ReplayRevise(c, e)
             \/ \E C, B \in SUBSET Runs : ResearchMoves(C, B)
             \/ \E t \in Thresholds : SetThreshold(t)
             \/ DeadlinePasses
             \/ UNCHANGED vars
      PROVE  FALSE
  BY <1>6 DEF ReplayRevise, ResearchMoves, SetThreshold, DeadlinePasses, rows, vars
<1> QED BY <1>2, <1>3, <1>4, <1>5, <1>6 DEF Next

\* After its deadline an approval of any type is declined or stays as it is.
THEOREM DeadlineHolds == Spec => DeadlineBinds
<1>1. ASSUME IInv, [Next]_vars, NEW a \in Approvals, Exists(a), approval[a].expires, late,
             approval'[a] # approval[a]
      PROVE  approval'[a].status = "declined"
  <2>1. RowStep(a, approval[a], approval'[a])
    BY <1>1, EveryRowStep
  <2> QED BY <1>1, <2>1 DEF RowStep, Expired
<1>2. IInv /\ [Next]_vars =>
        [\A a \in Approvals : Exists(a) /\ approval[a].expires /\ late =>
           /\ approval'[a] # approval[a] => approval'[a].status = "declined"
           /\ \A b \in Approvals : Exists(b)' /\ ~Exists(b) => approval'[b].supersedes # a]_vars
  BY <1>1, SuccessorInTime DEF Expired
<1> QED BY InitIInv, NextIInv, <1>2, PTL DEF Spec, DeadlineBinds
-----------------------------------------------------------------------------
\* The audit trail: the chain of revisions, the campaigns and the events.

\* Keys say what they were made for, a NICHE_TEST has the brief of its run,
\* and a brief points at a row of its run.
RowsAreFiled ==
  /\ \A a \in Approvals : Exists(a) =>
       /\ IsNiche(a) => brief[approval[a].run] # None
       /\ \A r \in Runs : approval[a].key = <<"niche-test", r>> => approval[a].run = r
       /\ \A c \in Approvals : approval[a].key = <<"approval-revision", c>> => approval[a].supersedes = c
  /\ \A r \in Runs : brief[r] # None =>
       Exists(brief[r].approval) /\ approval[brief[r].approval].run = r

AuditInv == IInv /\ RevisionChain /\ RowsAreFiled /\ LaunchedOnce /\ EventsTellTheTruth

Said(E, a, kind, status) == [kind |-> kind, approval |-> a, status |-> status] \in E
Silent(E, a, kind) == \A ev \in E : ev.approval = a => ev.kind # kind

\* What the events E must say of row a.
Told(E, a, row) ==
  IF row = None THEN \A ev \in E : ev.approval # a
  ELSE /\ Said(E, a, "requested", "pending")
       /\ row.status \in {"approved", "declined"} => Said(E, a, "decided", row.status)
       /\ row.status \notin {"approved", "declined"} => Silent(E, a, "decided")
       /\ Said(E, a, "decided", "approved") => ~Said(E, a, "decided", "declined")
       /\ IF row.first = None THEN Silent(E, a, "awaiting-second")
          ELSE Said(E, a, "awaiting-second", "pending")
       /\ IF row.status = "superseded" THEN Said(E, a, "revised", "superseded")
          ELSE Silent(E, a, "revised")

LEMMA EventsAreTold == EventsTellTheTruth <=> \A a \in Approvals : Told(events, a, approval[a])
BY DEF EventsTellTheTruth, Told, Said, Silent

\* An event about one row says nothing about the others.
LEMMA AnnounceElsewhere ==
  ASSUME NEW E, NEW kind, NEW a, NEW status, NEW b, b # a, NEW row, Told(E, b, row)
  PROVE  Told(Announce(E, kind, a, status), b, row)
BY DEF Told, Said, Silent, Announce

\* The first event of its kind is added, and nothing else is said.
LEMMA AnnounceFirst ==
  ASSUME NEW E, NEW kind, NEW a, NEW status, Silent(E, a, kind)
  PROVE  LET F == Announce(E, kind, a, status) IN
         /\ F = E \union {[kind |-> kind, approval |-> a, status |-> status]}
         /\ \A k, s : Said(F, a, k, s) <=> (Said(E, a, k, s) \/ (k = kind /\ s = status))
         /\ \A k : k # kind => (Silent(F, a, k) <=> Silent(E, a, k))
         /\ \A s : ~Said(E, a, kind, s)
BY DEF Said, Silent, Announce

\* What was said is not said again.
LEMMA AnnounceAgain ==
  ASSUME NEW E, NEW kind, NEW a, NEW status, NEW s, Said(E, a, kind, s)
  PROVE  Announce(E, kind, a, status) = E
BY DEF Said, Announce

LEMMA RequestAgain ==
  ASSUME NEW E, NEW a, NEW row, NEW other, row # None, Told(E, a, row)
  PROVE  AnnounceRequest(E, a, other) = E
BY AnnounceAgain DEF AnnounceRequest, Told

\* The request of a new row is announced with it.
LEMMA RequestFirst ==
  ASSUME NEW E, NEW a, Told(E, a, None), NEW row \in Rows, row.status = "pending",
         row.first = None, ~(row.expires /\ late)
  PROVE  Told(AnnounceRequest(E, a, row), a, row)
<1> DEFINE F == Announce(E, "requested", a, "pending")
<1>1. AnnounceRequest(E, a, row) = F
  BY DEF AnnounceRequest
<1>2. \A k : Silent(E, a, k)
  BY DEF Told, Silent
<1>3. \A k : k # "requested" => Silent(F, a, k)
  BY <1>2, AnnounceFirst
<1>4. Said(F, a, "requested", "pending") /\ ~Said(F, a, "decided", "approved")
  BY <1>2, AnnounceFirst
<1> HIDE DEF F
<1> QED BY <1>1, <1>3, <1>4 DEF Told

\* Asking again for an approval, a brief or a revision, and deciding again
\* what was decided, changes no row, brief, campaign or event.
LEMMA RepeatsChangeNothing ==
  ASSUME AuditInv, NEW a \in Approvals, Exists(a)
  PROVE  /\ \A row : AnnounceRequest(events, a, row) = events
         /\ approval[a].status = "superseded" => Announce(events, "revised", a, "superseded") = events
         /\ Replay(a) => UNCHANGED rows
<1>1. Told(events, a, approval[a])
  BY EventsAreTold DEF AuditInv
<1>2. \A row : AnnounceRequest(events, a, row) = events
  BY <1>1, RequestAgain
<1>3. approval[a].status = "superseded" => Announce(events, "revised", a, "superseded") = events
  BY <1>1, AnnounceAgain DEF Told
<1>4. ASSUME approval[a].status \in {"approved", "declined"}, NEW s
      PROVE  Announce(events, "decided", a, s) = events
  BY <1>1, <1>4, AnnounceAgain DEF Told
<1>5. ASSUME approval[a].status = "approved", IsNiche(a), ChainMatches(a),
             ApplySideEffects(a, approval[a].decidedBy)
      PROVE  UNCHANGED rows
  <2>1. approval[a] \in Rows /\ Settled(approval[a]) /\ approval[a].run \in Runs
    BY <1>5 DEF AuditInv, IInv, TypeOK, ApprovedIsSettled, IsNiche, Rows
  <2>2. campaign[a] # None /\ campaign[a].run = approval[a].run
    BY <1>5 DEF AuditInv, LaunchedOnce
  <2>3. brief[approval[a].run].status = "approved" /\ brief[approval[a].run] \in Briefs
    BY <1>5, <2>1, <2>2 DEF AuditInv, LaunchedOnce, ChainMatches, IInv, TypeOK
  <2>4. /\ approval \in [Approvals -> Rows \union {None}] /\ brief \in [Runs -> Briefs \union {None}]
        /\ campaign \in [Approvals -> Campaigns \union {None}]
    BY DEF AuditInv, IInv, TypeOK
  <2>5. brief' = brief
    BY <1>5, <2>1, <2>3, <2>4 DEF ApplySideEffects, Briefs
  <2>6. campaign' = campaign
    BY <1>5, <2>2, <2>4 DEF ApplySideEffects
  <2>7. approval' = approval
    <3>1. approval[a].status = "approved" /\ approval[a].applied = TRUE
      BY <1>5, <2>1 DEF Settled, IsNiche, Rows
    <3>2. [approval[a] EXCEPT !.status = "approved", !.decidedBy = approval[a].decidedBy,
                              !.applied = TRUE] = approval[a]
      BY <2>1, <3>1 DEF Rows
    <3> QED BY <1>5, <2>4, <3>2 DEF ApplySideEffects
  <2>8. events' = events
    BY <1>4, <1>5 DEF ApplySideEffects, Announced
  <2> QED BY <2>5, <2>6, <2>7, <2>8 DEF rows
<1>6. Replay(a) => UNCHANGED rows
  BY <1>4, <1>5 DEF Replay, Announced, rows
<1> QED BY <1>2, <1>3, <1>6

\* What AuditInv says of the rows, for reference.
LEMMA AuditTypes ==
  ASSUME AuditInv
  PROVE  /\ approval \in [Approvals -> Rows \union {None}] /\ brief \in [Runs -> Briefs \union {None}]
         /\ campaign \in [Approvals -> Campaigns \union {None}]
         /\ \A a \in Approvals : Exists(a) => approval[a] \in Rows /\ Settled(approval[a])
         /\ \A r \in Runs : brief[r] # None => brief[r] \in Briefs
         /\ \A a \in Approvals : campaign[a] # None => campaign[a] \in Campaigns
         /\ \A a \in Approvals : Told(events, a, approval[a])
BY EventsAreTold DEF AuditInv, IInv, TypeOK, ApprovedIsSettled

LEMMA RowsUnchangedAudit == ASSUME AuditInv, IInv', UNCHANGED rows PROVE AuditInv'
<1>1. approval' = approval /\ brief' = brief /\ campaign' = campaign /\ events' = events
  BY DEF rows
<1>2. RevisionChain'
  <2>1. RevisionChain
    BY DEF AuditInv
  <2>2. /\ \A a \in Approvals : approval'[a] # None =>
             (approval'[a].status = "superseded"
                <=> \E b \in Approvals : approval'[b] # None /\ approval'[b].supersedes = a)
        /\ \A a, b \in Approvals :
             approval'[a] # None /\ approval'[b] # None /\ approval'[a].key = approval'[b].key => a = b
    BY <1>1, <2>1 DEF RevisionChain
  <2>3. \A b \in Approvals : approval'[b] # None /\ approval'[b].supersedes # None =>
          /\ approval'[approval'[b].supersedes] # None
          /\ approval'[b].key = <<"approval-revision", approval'[b].supersedes>>
          /\ approval'[b].run = approval'[approval'[b].supersedes].run
    BY <1>1, <2>1 DEF RevisionChain
  <2>4. \A a \in Approvals : approval'[a] # None /\ IsNiche(a)' /\ approval'[a].status # "superseded" =>
          /\ brief'[approval'[a].run] # None
          /\ brief'[approval'[a].run].approval = a
          /\ brief'[approval'[a].run].doc = approval'[a].doc
    BY <1>1, <2>1 DEF RevisionChain, IsNiche
  <2> QED BY <2>2, <2>3, <2>4 DEF RevisionChain
<1>3. RowsAreFiled'
  BY <1>1 DEF AuditInv, RowsAreFiled, IsNiche
<1>4. LaunchedOnce'
  BY <1>1 DEF AuditInv, LaunchedOnce, IsNiche
<1>5. EventsTellTheTruth'
  BY <1>1 DEF AuditInv, EventsTellTheTruth
<1> QED BY <1>2, <1>3, <1>4, <1>5 DEF AuditInv

\* A step that writes neither keys, runs, contents and lineage nor pointers of
\* the rows that exist keeps the chain.
LEMMA LineageKeeps ==
  ASSUME AuditInv,
         \A b \in Approvals : Exists(b)' <=> Exists(b),
         \A b \in Approvals : Exists(b) =>
           /\ approval'[b].key = approval[b].key /\ approval'[b].run = approval[b].run
           /\ approval'[b].doc = approval[b].doc /\ approval'[b].supersedes = approval[b].supersedes
           /\ approval'[b].status = "superseded" <=> approval[b].status = "superseded",
         \A r \in Runs :
           /\ brief'[r] # None <=> brief[r] # None
           /\ brief[r] # None => brief'[r].approval = brief[r].approval /\ brief'[r].doc = brief[r].doc
  PROVE  RevisionChain' /\ RowsAreFiled'
<1>1. \A b \in Approvals : Exists(b) => (IsNiche(b)' <=> IsNiche(b))
  BY DEF IsNiche
<1>2. \A b \in Approvals : Exists(b) /\ IsNiche(b) => approval[b].run \in Runs
  BY AuditTypes DEF IsNiche, Rows
<1>3. RevisionChain'
  <2>1. ASSUME NEW b \in Approvals, Exists(b)
        PROVE  approval'[b].status = "superseded" <=>
                 \E c \in Approvals : Exists(c)' /\ approval'[c].supersedes = b
    <3>1. approval[b].status = "superseded" <=> \E c \in Approvals : Exists(c) /\ approval[c].supersedes = b
      BY <2>1 DEF AuditInv, RevisionChain
    <3>2. \A c \in Approvals : (approval'[c] # None /\ approval'[c].supersedes = b)
                               <=> (Exists(c) /\ approval[c].supersedes = b)
      OBVIOUS
    <3> QED BY <2>1, <3>1, <3>2
  <2>2. ASSUME NEW b \in Approvals, NEW c \in Approvals, Exists(b), Exists(c),
               approval'[b].key = approval'[c].key
        PROVE  b = c
    BY <2>2 DEF AuditInv, RevisionChain
  <2>3. ASSUME NEW b \in Approvals, Exists(b), approval'[b].supersedes # None
        PROVE  /\ approval'[approval'[b].supersedes] # None
               /\ approval'[b].key = <<"approval-revision", approval'[b].supersedes>>
               /\ approval'[b].run = approval'[approval'[b].supersedes].run
    <3>1. approval[b].supersedes \in Approvals
      BY <2>3, AuditTypes DEF Rows
    <3>2. /\ Exists(approval[b].supersedes)
          /\ approval[b].key = <<"approval-revision", approval[b].supersedes>>
          /\ approval[b].run = approval[approval[b].supersedes].run
      BY <2>3 DEF AuditInv, RevisionChain
    <3> QED BY ZenonT(60), <2>3, <3>1, <3>2
  <2>4. ASSUME NEW b \in Approvals, Exists(b), IsNiche(b)', approval'[b].status # "superseded"
        PROVE  /\ brief'[approval'[b].run] # None
               /\ brief'[approval'[b].run].approval = b
               /\ brief'[approval'[b].run].doc = approval'[b].doc
    <3>1. IsNiche(b) /\ approval[b].run \in Runs
      BY <1>1, <1>2, <2>4
    <3>2. /\ brief[approval[b].run] # None
          /\ brief[approval[b].run].approval = b
          /\ brief[approval[b].run].doc = approval[b].doc
      BY <2>4, <3>1 DEF AuditInv, RevisionChain
    <3> QED BY <2>4, <3>1, <3>2
  <2>5. \A b \in Approvals : approval'[b] # None <=> Exists(b)
    OBVIOUS
  <2>6. /\ \A b \in Approvals : approval'[b] # None =>
             (approval'[b].status = "superseded"
                <=> \E c \in Approvals : approval'[c] # None /\ approval'[c].supersedes = b)
        /\ \A b, c \in Approvals :
             approval'[b] # None /\ approval'[c] # None /\ approval'[b].key = approval'[c].key => b = c
    BY <2>1, <2>2, <2>5
  <2>7. \A b \in Approvals : approval'[b] # None /\ approval'[b].supersedes # None =>
          /\ approval'[approval'[b].supersedes] # None
          /\ approval'[b].key = <<"approval-revision", approval'[b].supersedes>>
          /\ approval'[b].run = approval'[approval'[b].supersedes].run
    BY <2>3, <2>5
  <2>8. \A b \in Approvals : approval'[b] # None /\ IsNiche(b)' /\ approval'[b].status # "superseded" =>
          /\ brief'[approval'[b].run] # None
          /\ brief'[approval'[b].run].approval = b
          /\ brief'[approval'[b].run].doc = approval'[b].doc
    BY <2>4, <2>5
  <2> QED BY <2>6, <2>7, <2>8 DEF RevisionChain
<1>4. RowsAreFiled'
  <2>1. ASSUME NEW r \in Runs, brief'[r] # None
        PROVE  approval'[brief'[r].approval] # None /\ approval'[brief'[r].approval].run = r
    <3>1. brief[r].approval \in Approvals
      BY <2>1, AuditTypes DEF Briefs
    <3>2. Exists(brief[r].approval) /\ approval[brief[r].approval].run = r
      BY <2>1 DEF AuditInv, RowsAreFiled
    <3> QED BY ZenonT(60), <2>1, <3>1, <3>2
  <2>2. ASSUME NEW b \in Approvals, Exists(b)
        PROVE  /\ IsNiche(b)' => brief'[approval'[b].run] # None
               /\ \A r \in Runs : approval'[b].key = <<"niche-test", r>> => approval'[b].run = r
               /\ \A c \in Approvals : approval'[b].key = <<"approval-revision", c>> => approval'[b].supersedes = c
    BY <1>1, <1>2, <2>2 DEF AuditInv, RowsAreFiled
  <2> QED BY <2>1, <2>2 DEF RowsAreFiled
<1> QED BY <1>3, <1>4

\* The events of a step that speaks about one row.
LEMMA EventsKeep ==
  ASSUME AuditInv, NEW a \in Approvals, NEW kind, NEW status, Announced(kind, a, status),
         \A b \in Approvals \ {a} : approval'[b] = approval[b],
         Told(events', a, approval'[a])
  PROVE  EventsTellTheTruth'
<1>1. \A b \in Approvals : Told(events', b, approval'[b])
  BY AuditTypes, AnnounceElsewhere DEF Announced
<1> QED BY <1>1 DEF EventsTellTheTruth, Told, Said, Silent

\* A pending row that is held or decided without side effects.
LEMMA MarkedAudit ==
  ASSUME AuditInv, IInv', NEW a \in Approvals, Exists(a), approval[a].status = "pending",
         NEW row \in Rows, SameContent(approval[a], row), row.status # "superseded",
         IsNiche(a) => row.status # "approved", approval' = [approval EXCEPT ![a] = row],
         UNCHANGED <<brief, campaign>>, Told(events', a, row),
         NEW kind, NEW status, Announced(kind, a, status)
  PROVE  AuditInv'
<1>1. /\ row.key = approval[a].key /\ row.run = approval[a].run /\ row.doc = approval[a].doc
      /\ row.supersedes = approval[a].supersedes
  BY DEF SameContent
<1>2. /\ approval'[a] = row /\ \A b \in Approvals \ {a} : approval'[b] = approval[b]
      /\ \A b \in Approvals : Exists(b)' <=> Exists(b)
  BY AuditTypes
<1>3. \A b \in Approvals : Exists(b) => (IsNiche(b)' <=> IsNiche(b))
  BY <1>1, <1>2 DEF IsNiche
<1>4. RevisionChain' /\ RowsAreFiled'
  BY <1>1, <1>2, LineageKeeps
<1>5. LaunchedOnce'
  <2>1. campaign[a] = None
    BY DEF AuditInv, LaunchedOnce
  <2>2. ASSUME NEW b \in Approvals
        PROVE  campaign[b] # None <=> Exists(b)' /\ IsNiche(b)' /\ approval'[b].status = "approved"
    <3>1. CASE b = a
      BY <1>2, <1>3, <2>1, <3>1
    <3>2. CASE b # a
      BY <1>2, <3>2 DEF AuditInv, LaunchedOnce, IsNiche
    <3> QED BY <3>1, <3>2
  <2>3. ASSUME NEW b \in Approvals, campaign[b] # None
        PROVE  LET c == campaign[b] IN
               /\ c.run = approval'[b].run /\ c.doc = approval'[b].doc
               /\ c.createdBy = approval'[b].decidedBy /\ approval'[b].applied
               /\ brief[c.run].status = "approved" /\ brief[c.run].approval = b
    <3>1. approval'[b] = approval[b]
      BY <1>2, <2>1, <2>3
    <3>2. LET c == campaign[b] IN
          /\ c.run = approval[b].run /\ c.doc = approval[b].doc
          /\ c.createdBy = approval[b].decidedBy /\ approval[b].applied
          /\ brief[c.run].status = "approved" /\ brief[c.run].approval = b
      BY <2>3 DEF AuditInv, LaunchedOnce
    <3> QED BY <3>1, <3>2
  <2>4. \A r \in Runs : brief[r] # None /\ brief[r].status = "approved" => campaign[brief[r].approval] # None
    BY DEF AuditInv, LaunchedOnce
  <2> QED BY <2>2, <2>3, <2>4 DEF LaunchedOnce
<1>6. EventsTellTheTruth'
  BY <1>2, EventsKeep
<1> QED BY <1>4, <1>5, <1>6 DEF AuditInv

LEMMA DeclineAudit ==
  ASSUME AuditInv, IInv', NEW a \in Approvals, NEW u \in Users, Exists(a), Decline(a, u)
  PROVE  AuditInv'
<1> DEFINE row == [approval[a] EXCEPT !.status = "declined", !.decidedBy = u]
<1>1. approval[a] \in Rows /\ approval[a].status = "pending" /\ Told(events, a, approval[a])
  BY AuditTypes DEF Decline
<1>2. /\ row \in Rows /\ row.status = "declined" /\ row.first = approval[a].first
      /\ SameContent(approval[a], row)
  BY <1>1 DEF Rows, Statuses, SameContent
<1>3. /\ approval' = [approval EXCEPT ![a] = row] /\ Announced("decided", a, "declined")
      /\ UNCHANGED <<brief, campaign>>
  BY DEF Decline
<1> HIDE DEF row
<1>4. Told(events', a, row)
  <2>1. Silent(events, a, "decided")
    BY <1>1, AuditTypes DEF Told
  <2> QED BY <1>1, <1>2, <1>3, <2>1, AuditTypes, AnnounceFirst DEF Told, Announced
<1> QED BY <1>1, <1>2, <1>3, <1>4, MarkedAudit

LEMMA HoldForSecondAudit ==
  ASSUME AuditInv, IInv', NEW a \in Approvals, NEW u \in Users, Exists(a), HoldForSecond(a, u)
  PROVE  AuditInv'
<1> DEFINE row == [approval[a] EXCEPT !.first = u]
<1>1. /\ approval[a] \in Rows /\ approval[a].status = "pending" /\ approval[a].first = None
      /\ Told(events, a, approval[a])
  BY AuditTypes DEF HoldForSecond
<1>2. /\ row \in Rows /\ row.status = "pending" /\ row.first = u /\ u # None
      /\ SameContent(approval[a], row)
  BY <1>1 DEF Rows, Statuses, SameContent
<1>3. /\ approval' = [approval EXCEPT ![a] = row] /\ Announced("awaiting-second", a, "pending")
      /\ UNCHANGED <<brief, campaign>>
  BY DEF HoldForSecond
<1> HIDE DEF row
<1>4. Told(events', a, row)
  <2>1. Silent(events, a, "awaiting-second")
    BY <1>1, AuditTypes DEF Told
  <2> QED BY <1>1, <1>2, <1>3, <2>1, AuditTypes, AnnounceFirst DEF Told, Announced
<1> QED BY <1>1, <1>2, <1>3, <1>4, MarkedAudit

LEMMA ApproveOtherAudit ==
  ASSUME AuditInv, IInv', NEW a \in Approvals, NEW u \in Users, Exists(a), ApproveOther(a, u)
  PROVE  AuditInv'
<1> DEFINE row == [approval[a] EXCEPT !.status = "approved", !.decidedBy = u]
<1>1. /\ approval[a] \in Rows /\ approval[a].status = "pending" /\ ~IsNiche(a)
      /\ Told(events, a, approval[a])
  BY AuditTypes DEF ApproveOther
<1>2. /\ row \in Rows /\ row.status = "approved" /\ row.first = approval[a].first
      /\ SameContent(approval[a], row)
  BY <1>1 DEF Rows, Statuses, SameContent
<1>3. /\ approval' = [approval EXCEPT ![a] = row] /\ Announced("decided", a, "approved")
      /\ UNCHANGED <<brief, campaign>>
  BY DEF ApproveOther
<1> HIDE DEF row
<1>4. Told(events', a, row)
  <2>1. Silent(events, a, "decided")
    BY <1>1, AuditTypes DEF Told
  <2> QED BY <1>1, <1>2, <1>3, <2>1, AuditTypes, AnnounceFirst DEF Told, Announced
<1> QED BY <1>1, <1>2, <1>3, <1>4, MarkedAudit

\* A NICHE_TEST is approved together with its brief and its campaign.
LEMMA ApproveNicheAudit ==
  ASSUME AuditInv, IInv', NEW a \in Approvals, NEW u \in Users, Exists(a), ApproveNiche(a, u)
  PROVE  AuditInv'
<1> DEFINE row == [approval[a] EXCEPT !.status = "approved", !.decidedBy = u, !.applied = TRUE]
           r == approval[a].run
           launched == [run |-> r, doc |-> approval[a].doc, createdBy |-> u]
           marked == [brief[r] EXCEPT !.status = "approved"]
<1>1. /\ approval[a] \in Rows /\ approval[a].status = "pending" /\ r \in Runs
      /\ Told(events, a, approval[a]) /\ IsNiche(a)
  BY AuditTypes DEF ApproveNiche, IsNiche, Rows
<1>2. /\ row \in Rows /\ row.status = "approved" /\ row.first = approval[a].first
      /\ row.decidedBy = u /\ row.applied = TRUE
      /\ row.key = approval[a].key /\ row.run = approval[a].run /\ row.doc = approval[a].doc
      /\ row.supersedes = approval[a].supersedes
  BY <1>1 DEF Rows, Statuses
<1>3. /\ brief[r] \in Briefs /\ brief[r].approval = a /\ brief[r] # None
  BY <1>1, AuditTypes DEF ApproveNiche, ChainMatches
<1>4. campaign[a] = None
  BY <1>1 DEF AuditInv, LaunchedOnce
<1>5. /\ approval' = [approval EXCEPT ![a] = row] /\ brief' = [brief EXCEPT ![r] = marked]
      /\ campaign' = [campaign EXCEPT ![a] = launched] /\ Announced("decided", a, "approved")
  BY <1>4, AuditTypes DEF ApproveNiche, ApplySideEffects
<1>6. marked \in Briefs /\ marked.status = "approved" /\ marked.approval = a /\ marked.doc = brief[r].doc
  BY <1>3 DEF Briefs
<1>7. /\ launched.run = r /\ launched.doc = approval[a].doc /\ launched.createdBy = u
      /\ launched \in Campaigns
  BY <1>1 DEF Campaigns, Rows
<1>8. row # None /\ marked # None /\ launched # None
  BY <1>2, <1>6, <1>7
<1> HIDE DEF row, marked, launched
<1>9. /\ approval'[a] = row /\ \A b \in Approvals \ {a} : approval'[b] = approval[b]
      /\ brief'[r] = marked /\ \A q \in Runs \ {r} : brief'[q] = brief[q]
      /\ campaign'[a] = launched /\ \A b \in Approvals \ {a} : campaign'[b] = campaign[b]
  BY <1>1, <1>5, AuditTypes
<1>10. RevisionChain' /\ RowsAreFiled'
  <2>1. \A b \in Approvals : Exists(b)' <=> Exists(b)
    BY <1>8, <1>9
  <2>2. \A b \in Approvals : Exists(b) =>
           /\ approval'[b].key = approval[b].key /\ approval'[b].run = approval[b].run
           /\ approval'[b].doc = approval[b].doc /\ approval'[b].supersedes = approval[b].supersedes
           /\ approval'[b].status = "superseded" <=> approval[b].status = "superseded"
    BY <1>1, <1>2, <1>9
  <2>3. \A q \in Runs :
           /\ brief'[q] # None <=> brief[q] # None
           /\ brief[q] # None => brief'[q].approval = brief[q].approval /\ brief'[q].doc = brief[q].doc
    BY <1>3, <1>6, <1>8, <1>9
  <2> QED BY <2>1, <2>2, <2>3, LineageKeeps
<1>11. LaunchedOnce'
  <2>1. ASSUME NEW b \in Approvals
        PROVE  campaign'[b] # None <=> Exists(b)' /\ IsNiche(b)' /\ approval'[b].status = "approved"
    <3>1. CASE b = a
      BY <1>1, <1>2, <1>8, <1>9, <3>1 DEF IsNiche
    <3>2. CASE b # a
      BY <1>9, <3>2 DEF AuditInv, LaunchedOnce, IsNiche
    <3> QED BY <3>1, <3>2
  <2>2. ASSUME NEW b \in Approvals, campaign'[b] # None
        PROVE  /\ campaign'[b].run = approval'[b].run /\ campaign'[b].doc = approval'[b].doc
               /\ campaign'[b].createdBy = approval'[b].decidedBy /\ approval'[b].applied
               /\ brief'[campaign'[b].run].status = "approved" /\ brief'[campaign'[b].run].approval = b
    <3>1. CASE b = a
      BY <1>2, <1>6, <1>7, <1>9, <3>1
    <3>2. CASE b # a
      <4>1. /\ campaign[b].run = approval[b].run /\ campaign[b].doc = approval[b].doc
            /\ campaign[b].createdBy = approval[b].decidedBy /\ approval[b].applied
            /\ brief[campaign[b].run].status = "approved" /\ brief[campaign[b].run].approval = b
            /\ campaign[b].run \in Runs
        BY <1>9, <2>2, <3>2, AuditTypes DEF AuditInv, LaunchedOnce, Campaigns
      <4>2. campaign[b].run # r
        BY <1>3, <3>2, <4>1
      <4>3. /\ approval'[b] = approval[b] /\ campaign'[b] = campaign[b]
            /\ brief'[campaign[b].run] = brief[campaign[b].run]
        BY <1>9, <3>2, <4>1, <4>2
      <4> QED BY <4>1, <4>3
    <3> QED BY <3>1, <3>2
  <2>3. ASSUME NEW q \in Runs, brief'[q] # None, brief'[q].status = "approved"
        PROVE  campaign'[brief'[q].approval] # None
    <3>1. CASE q = r
      BY <1>6, <1>8, <1>9, <3>1
    <3>2. CASE q # r
      <4>1. campaign[brief[q].approval] # None /\ brief[q].approval \in Approvals
        BY <1>9, <2>3, <3>2, AuditTypes DEF AuditInv, LaunchedOnce, Briefs
      <4>2. campaign'[brief[q].approval] # None
        BY <1>8, <1>9, <4>1
      <4> QED BY <1>9, <3>2, <4>2
    <3> QED BY <3>1, <3>2
  <2> QED BY <2>1, <2>2, <2>3 DEF LaunchedOnce
<1>12. EventsTellTheTruth'
  <2>1. Silent(events, a, "decided")
    BY <1>1, AuditTypes DEF Told
  <2>2. Told(events', a, row)
    BY <1>1, <1>2, <1>5, <1>8, <2>1, AuditTypes, AnnounceFirst DEF Told, Announced
  <2> QED BY <1>5, <1>9, <2>2, EventsKeep
<1> QED BY <1>10, <1>11, <1>12 DEF AuditInv

\* A row asked for in its own right, by another service or with its brief.
LEMMA NewRowChain ==
  ASSUME AuditInv, NEW a \in Approvals, ~Exists(a), NEW row \in Rows,
         row.supersedes = None, row.status = "pending",
         \A b \in Approvals : Exists(b) => approval[b].key # row.key,
         \A c \in Approvals : row.key # <<"approval-revision", c>>,
         approval' = [approval EXCEPT ![a] = row],
         \A b \in Approvals : Exists(b) /\ IsNiche(b) => brief'[approval[b].run] = brief[approval[b].run],
         row.run # None => /\ brief'[row.run] # None /\ brief'[row.run].approval = a
                           /\ brief'[row.run].doc = row.doc
  PROVE  RevisionChain'
<1>1. /\ approval'[a] = row /\ row # None /\ \A b \in Approvals \ {a} : approval'[b] = approval[b]
  BY AuditTypes
<1>2. \A b \in Approvals : Exists(b) => approval[b].supersedes # a
  BY DEF AuditInv, RevisionChain
<1>3. ASSUME NEW b \in Approvals, Exists(b)'
      PROVE  approval'[b].status = "superseded" <=>
               \E c \in Approvals : Exists(c)' /\ approval'[c].supersedes = b
  <2>1. CASE b = a
    BY <1>1, <1>2, <2>1
  <2>2. CASE b # a
    <3>1. approval[b].status = "superseded" <=> \E c \in Approvals : Exists(c) /\ approval[c].supersedes = b
      BY <1>1, <1>3, <2>2 DEF AuditInv, RevisionChain
    <3>2. \A c \in Approvals : (approval'[c] # None /\ approval'[c].supersedes = b)
                               <=> (Exists(c) /\ approval[c].supersedes = b)
      BY <1>1
    <3> QED BY <1>1, <2>2, <3>1, <3>2
  <2> QED BY <2>1, <2>2
<1>4. ASSUME NEW b \in Approvals, NEW c \in Approvals, Exists(b)', Exists(c)',
             approval'[b].key = approval'[c].key
      PROVE  b = c
  <2>1. CASE b = a \/ c = a
    BY <1>1, <1>4, <2>1
  <2>2. CASE b # a /\ c # a
    BY <1>1, <1>4, <2>2 DEF AuditInv, RevisionChain
  <2> QED BY <2>1, <2>2
<1>5. ASSUME NEW b \in Approvals, Exists(b)', approval'[b].supersedes # None
      PROVE  /\ approval'[approval'[b].supersedes] # None
             /\ approval'[b].key = <<"approval-revision", approval'[b].supersedes>>
             /\ approval'[b].run = approval'[approval'[b].supersedes].run
  <2>1. b # a /\ Exists(b)
    BY <1>1, <1>5
  <2>2. /\ approval[b].supersedes \in Approvals /\ Exists(approval[b].supersedes)
        /\ approval[b].key = <<"approval-revision", approval[b].supersedes>>
        /\ approval[b].run = approval[approval[b].supersedes].run
    BY <1>1, <1>5, <2>1, AuditTypes DEF AuditInv, RevisionChain, Rows
  <2>3. approval[b].supersedes # a
    BY <2>2
  <2> QED BY <1>1, <2>1, <2>2, <2>3
<1>6. ASSUME NEW b \in Approvals, Exists(b)', IsNiche(b)', approval'[b].status # "superseded"
      PROVE  /\ brief'[approval'[b].run] # None
             /\ brief'[approval'[b].run].approval = b
             /\ brief'[approval'[b].run].doc = approval'[b].doc
  <2>1. CASE b = a
    BY <1>1, <1>6, <2>1 DEF IsNiche
  <2>2. CASE b # a
    BY <1>1, <1>6, <2>2 DEF AuditInv, RevisionChain, IsNiche
  <2> QED BY <2>1, <2>2
<1>7. (\A b, c \in Approvals : Exists(b) /\ Exists(c) /\ approval[b].key = approval[c].key => b = c)'
  BY <1>4
<1>8. (\A b \in Approvals : Exists(b) =>
         (approval[b].status = "superseded" <=> \E c \in Approvals : Exists(c) /\ approval[c].supersedes = b))'
  BY <1>3
<1>9. (\A b \in Approvals : Exists(b) /\ approval[b].supersedes # None =>
         /\ Exists(approval[b].supersedes)
         /\ approval[b].key = <<"approval-revision", approval[b].supersedes>>
         /\ approval[b].run = approval[approval[b].supersedes].run)'
  BY <1>5
<1>10. (\A b \in Approvals : Exists(b) /\ IsNiche(b) /\ approval[b].status # "superseded" =>
         /\ brief[approval[b].run] # None
         /\ brief[approval[b].run].approval = b
         /\ brief[approval[b].run].doc = approval[b].doc)'
  BY <1>6
<1> QED BY <1>7, <1>8, <1>9, <1>10 DEF RevisionChain

LEMMA NewRowAudit ==
  ASSUME AuditInv, IInv', NEW a \in Approvals, ~Exists(a), NEW row \in Rows,
         row.supersedes = None, row.status = "pending", row.first = None, ~(row.expires /\ late),
         \A b \in Approvals : Exists(b) => approval[b].key # row.key,
         \A r \in Runs : row.key = <<"niche-test", r>> => row.run = r,
         \A c \in Approvals : row.key # <<"approval-revision", c>>,
         approval' = [approval EXCEPT ![a] = row], UNCHANGED campaign,
         \/ row.run = None /\ brief' = brief
         \/ /\ row.run \in Runs /\ brief[row.run] = None
            /\ brief' = [brief EXCEPT ![row.run] =
                           [status |-> "pending_approval", approval |-> a, doc |-> row.doc]],
         events' = AnnounceRequest(events, a, row)
  PROVE  AuditInv'
<1>1. approval'[a] = row /\ row # None /\ \A b \in Approvals \ {a} : approval'[b] = approval[b]
  BY AuditTypes
<1>2. \A r \in Runs : brief[r] # None => brief'[r] = brief[r]
  BY AuditTypes
<1>3. \A b \in Approvals : Exists(b) /\ IsNiche(b) =>
        approval[b].run \in Runs /\ brief[approval[b].run] # None
  BY AuditTypes DEF AuditInv, RowsAreFiled, IsNiche, Rows
<1>4. row.run # None => /\ brief'[row.run] # None /\ brief'[row.run].approval = a
                        /\ brief'[row.run].doc = row.doc
  <2>1. [status |-> "pending_approval", approval |-> a, doc |-> row.doc] # None
    <3>1. [status |-> "pending_approval", approval |-> a, doc |-> row.doc] \in Briefs
      BY DEF Briefs, Rows
    <3> QED BY <3>1
  <2> QED BY <2>1, AuditTypes
<1>5. RevisionChain'
  <2>1. \A b \in Approvals : Exists(b) /\ IsNiche(b) => brief'[approval[b].run] = brief[approval[b].run]
    BY <1>2, <1>3
  <2> QED BY <1>4, <2>1, NewRowChain
<1>6. \A r \in Runs : brief'[r] # None => brief'[r] = brief[r] \/ (row.run = r /\ brief'[r].approval = a)
  BY <1>4, AuditTypes
<1>7. RowsAreFiled'
  <2>1. ASSUME NEW r \in Runs, brief'[r] # None
        PROVE  approval'[brief'[r].approval] # None /\ approval'[brief'[r].approval].run = r
    <3>1. CASE row.run = r /\ brief'[r].approval = a
      BY <1>1, <3>1
    <3>2. CASE brief'[r] = brief[r]
      <4>1. Exists(brief[r].approval) /\ approval[brief[r].approval].run = r
            /\ brief[r].approval \in Approvals
        BY <2>1, <3>2, AuditTypes DEF AuditInv, RowsAreFiled, Briefs
      <4>2. brief[r].approval # a
        BY <4>1
      <4> QED BY <1>1, <3>2, <4>1, <4>2
    <3> QED BY <1>6, <2>1, <3>1, <3>2
  <2>2. ASSUME NEW b \in Approvals, Exists(b)'
        PROVE  /\ IsNiche(b)' => brief'[approval'[b].run] # None
               /\ \A r \in Runs : approval'[b].key = <<"niche-test", r>> => approval'[b].run = r
               /\ \A c \in Approvals : approval'[b].key = <<"approval-revision", c>> => approval'[b].supersedes = c
    <3>1. CASE b = a
      BY <1>1, <1>4, <3>1 DEF IsNiche
    <3>2. CASE b # a
      <4>1. approval'[b] = approval[b] /\ Exists(b)
        BY <1>1, <2>2, <3>2
      <4>2. IsNiche(b)' => brief'[approval'[b].run] # None
        BY <1>2, <1>3, <4>1 DEF IsNiche
      <4> QED BY <4>1, <4>2 DEF AuditInv, RowsAreFiled
    <3> QED BY <3>1, <3>2
  <2> QED BY <2>1, <2>2 DEF RowsAreFiled
<1>8. LaunchedOnce'
  <2>1. \A b \in Approvals : campaign[b] # None => b # a /\ Exists(b) /\ IsNiche(b)
    BY DEF AuditInv, LaunchedOnce
  <2>2. ASSUME NEW b \in Approvals
        PROVE  campaign[b] # None <=> Exists(b)' /\ IsNiche(b)' /\ approval'[b].status = "approved"
    <3>1. CASE b = a
      BY <1>1, <2>1, <3>1
    <3>2. CASE b # a
      BY <1>1, <3>2 DEF AuditInv, LaunchedOnce, IsNiche
    <3> QED BY <3>1, <3>2
  <2>3. ASSUME NEW b \in Approvals, campaign[b] # None
        PROVE  /\ campaign[b].run = approval'[b].run /\ campaign[b].doc = approval'[b].doc
               /\ campaign[b].createdBy = approval'[b].decidedBy /\ approval'[b].applied
               /\ brief'[campaign[b].run].status = "approved" /\ brief'[campaign[b].run].approval = b
    <3>1. /\ campaign[b].run = approval[b].run /\ campaign[b].doc = approval[b].doc
          /\ campaign[b].createdBy = approval[b].decidedBy /\ approval[b].applied
          /\ brief[campaign[b].run].status = "approved" /\ brief[campaign[b].run].approval = b
      BY <2>3 DEF AuditInv, LaunchedOnce
    <3>2. brief'[campaign[b].run] = brief[campaign[b].run] /\ approval'[b] = approval[b]
      <4>1. campaign[b].run \in Runs /\ brief[campaign[b].run] # None /\ b # a
        BY <1>3, <2>1, <2>3, <3>1
      <4> QED BY <1>1, <1>2, <4>1
    <3> QED BY <3>1, <3>2
  <2>4. ASSUME NEW r \in Runs, brief'[r] # None, brief'[r].status = "approved"
        PROVE  campaign[brief'[r].approval] # None
    <3>1. CASE brief'[r] = brief[r]
      BY <2>4, <3>1 DEF AuditInv, LaunchedOnce
    <3>2. CASE brief'[r] # brief[r]
      BY <2>4, <3>2, AuditTypes
    <3> QED BY <3>1, <3>2
  <2> QED BY <2>2, <2>3, <2>4 DEF LaunchedOnce
<1>9. EventsTellTheTruth'
  <2>1. Told(events', a, row)
    BY AuditTypes, RequestFirst
  <2>2. \A b \in Approvals \ {a} : Told(events', b, approval'[b])
    BY <1>1, AuditTypes, AnnounceElsewhere DEF AnnounceRequest
  <2>3. \A b \in Approvals : Told(events', b, approval'[b])
    BY <1>1, <2>1, <2>2
  <2> QED BY <2>3 DEF EventsTellTheTruth, Told, Said, Silent
<1> QED BY <1>5, <1>7, <1>8, <1>9 DEF AuditInv

LEMMA CreateApprovalAudit ==
  ASSUME AuditInv, IInv', NEW k \in Keys, NEW d \in Docs, NEW exp \in BOOLEAN, CreateApproval(k, d, exp)
  PROVE  AuditInv'
<1>1. ASSUME NEW a \in Approvals, Exists(a), events' = AnnounceRequest(events, a, approval[a]),
             UNCHANGED approval
      PROVE  AuditInv'
  BY <1>1, RepeatsChangeNothing, RowsUnchangedAudit DEF CreateApproval, rows
<1>2. ASSUME NEW a \in Approvals, ~Exists(a),
             \A b \in Approvals : Exists(b) => approval[b].key # <<"caller", k>>,
             ~(exp /\ late),
             approval' = [approval EXCEPT ![a] = NewRow(<<"caller", k>>, None, d, exp, None)],
             events' = AnnounceRequest(events, a, NewRow(<<"caller", k>>, None, d, exp, None))
      PROVE  AuditInv'
  <2> DEFINE row == NewRow(<<"caller", k>>, None, d, exp, None)
  <2>1. /\ row \in Rows /\ row.status = "pending" /\ row.key = <<"caller", k>> /\ row.run = None
        /\ row.first = None /\ row.supersedes = None /\ row.expires = exp
    BY NewRowType DEF NewRow, RowKeys
  <2>2. approval' = [approval EXCEPT ![a] = row] /\ events' = AnnounceRequest(events, a, row)
    BY <1>2
  <2>3. /\ \A r \in Runs : row.key = <<"niche-test", r>> => row.run = r
        /\ \A c \in Approvals : row.key # <<"approval-revision", c>>
    BY <2>1
  <2>4. brief' = brief /\ campaign' = campaign
    BY DEF CreateApproval
  <2>5. ~(row.expires /\ late) /\ \A b \in Approvals : Exists(b) => approval[b].key # row.key
    BY <1>2, <2>1
  <2> HIDE DEF row
  <2>6. /\ a \in Approvals /\ ~Exists(a) /\ row \in Rows /\ row.supersedes = None
        /\ row.status = "pending" /\ row.first = None /\ row.run = None
    BY <1>2, <2>1
  <2> QED BY <2>2, <2>3, <2>4, <2>5, <2>6, NewRowAudit
<1> QED BY <1>1, <1>2 DEF CreateApproval, IsNext

LEMMA SameKey == \A p, x, y : <<p, x>> = <<p, y>> => x = y
OBVIOUS

LEMMA CreateBriefAudit ==
  ASSUME AuditInv, IInv', NEW r \in Runs, NEW d \in Docs, CreateNicheBriefWithApproval(r, d)
  PROVE  AuditInv'
<1>1. ASSUME brief[r] # None, UNCHANGED <<approval, brief>>,
             events' = AnnounceRequest(events, brief[r].approval, approval[brief[r].approval])
      PROVE  AuditInv'
  <2>1. brief[r].approval \in Approvals /\ Exists(brief[r].approval)
    BY <1>1, AuditTypes DEF AuditInv, RowsAreFiled, Briefs
  <2> QED BY <1>1, <2>1, RepeatsChangeNothing, RowsUnchangedAudit DEF CreateNicheBriefWithApproval, rows
<1>2. ASSUME NEW a \in Approvals, ~Exists(a), brief[r] = None,
             approval' = [approval EXCEPT ![a] = NewRow(<<"niche-test", r>>, r, d, FALSE, None)],
             brief' = [brief EXCEPT ![r] = [status |-> "pending_approval", approval |-> a, doc |-> d]],
             events' = AnnounceRequest(events, a, NewRow(<<"niche-test", r>>, r, d, FALSE, None))
      PROVE  AuditInv'
  <2> DEFINE row == NewRow(<<"niche-test", r>>, r, d, FALSE, None)
  <2>1. /\ row \in Rows /\ row.status = "pending" /\ row.key = <<"niche-test", r>> /\ row.run = r
        /\ row.first = None /\ row.supersedes = None /\ row.expires = FALSE /\ row.doc = d
    BY NewRowType DEF NewRow, RowKeys
  <2>2. approval' = [approval EXCEPT ![a] = row] /\ events' = AnnounceRequest(events, a, row)
    BY <1>2
  <2>3. /\ \A q \in Runs : row.key = <<"niche-test", q>> => row.run = q
        /\ \A c \in Approvals : row.key # <<"approval-revision", c>>
    BY <2>1, SameKey
  <2>4. campaign' = campaign
    BY DEF CreateNicheBriefWithApproval
  \* A row of that key would have the brief of the run.
  <2>5. \A b \in Approvals : Exists(b) => approval[b].key # row.key
    <3> SUFFICES ASSUME NEW b \in Approvals, Exists(b), approval[b].key = <<"niche-test", r>>
                 PROVE  FALSE
      BY <2>1
    <3>1. approval[b].run = r /\ IsNiche(b)
      BY DEF AuditInv, RowsAreFiled, IsNiche
    <3> QED BY <1>2, <3>1 DEF AuditInv, RowsAreFiled
  <2> HIDE DEF row
  <2>6. /\ row.run \in Runs /\ brief[row.run] = None
        /\ brief' = [brief EXCEPT ![row.run] =
                       [status |-> "pending_approval", approval |-> a, doc |-> row.doc]]
    BY <1>2, <2>1
  <2>7. /\ a \in Approvals /\ ~Exists(a) /\ row \in Rows /\ row.supersedes = None
        /\ row.status = "pending" /\ row.first = None /\ ~(row.expires /\ late)
    BY <1>2, <2>1
  <2> QED BY <2>2, <2>3, <2>4, <2>5, <2>6, <2>7, NewRowAudit
<1> QED BY <1>1, <1>2 DEF CreateNicheBriefWithApproval, IsNext

\* A revision supersedes its original and takes over the pointer of the brief.
LEMMA ReviseAudit ==
  ASSUME AuditInv, IInv', NEW a \in Approvals, NEW b \in Approvals, NEW d \in Docs, Revise(a, b, d)
  PROVE  AuditInv'
<1> DEFINE row == NewRow(<<"approval-revision", a>>, approval[a].run, d, approval[a].expires, a)
           old == [approval[a] EXCEPT !.status = "superseded"]
           r == approval[a].run
           moved == [brief[r] EXCEPT !.approval = b, !.doc = d]
<1>1. /\ Exists(a) /\ approval[a] \in Rows /\ approval[a].status = "pending" /\ ~Expired(a) /\ ~Exists(b)
      /\ r \in Runs \union {None} /\ a # b
  BY AuditTypes DEF Revise, IsNext, Rows
<1>2. /\ row \in Rows /\ row.status = "pending" /\ row.key = <<"approval-revision", a>> /\ row.run = r
      /\ row.first = None /\ row.supersedes = a /\ row.expires = approval[a].expires /\ row.doc = d
  BY <1>1, NewRowType DEF NewRow, RowKeys, Rows
<1>3. /\ old \in Rows /\ old.status = "superseded" /\ old.key = approval[a].key /\ old.run = r
      /\ old.first = approval[a].first /\ old.supersedes = approval[a].supersedes /\ old.doc = approval[a].doc
  BY <1>1 DEF Rows, Statuses
<1>4. /\ approval' = [approval EXCEPT ![a] = old, ![b] = row] /\ campaign' = campaign
      /\ events' = AnnounceRequest(Announce(events, "revised", a, "superseded"), b, row)
  BY DEF Revise
<1>5. r = None => brief' = brief
  BY DEF Revise, AdvanceBrief
<1>6. r # None => /\ brief[r] # None /\ brief[r].approval = a /\ brief[r].status = "pending_approval"
                  /\ brief' = [brief EXCEPT ![r] = moved]
  BY DEF Revise, AdvanceBrief
<1>7. r # None => /\ moved.approval = b /\ moved.doc = d /\ moved.status = "pending_approval"
                  /\ moved # None
  <2> SUFFICES ASSUME r # None PROVE moved.approval = b /\ moved.doc = d
                                     /\ moved.status = "pending_approval" /\ moved # None
    OBVIOUS
  <2>1. brief[r] \in Briefs /\ brief[r].status = "pending_approval"
    BY <1>1, <1>6, AuditTypes
  <2>2. moved \in Briefs /\ moved.approval = b /\ moved.doc = d /\ moved.status = "pending_approval"
    BY <2>1 DEF Briefs
  <2> HIDE DEF moved
  <2> QED BY <2>2
<1> HIDE DEF row, old, moved
<1>8. /\ approval'[a] = old /\ approval'[b] = row /\ old # None /\ row # None
      /\ \A c \in Approvals \ {a, b} : approval'[c] = approval[c]
  BY <1>1, <1>2, <1>3, <1>4, AuditTypes
<1>9. /\ r # None => brief'[r] = moved
      /\ \A q \in Runs : q # r => brief'[q] = brief[q]
  BY <1>1, <1>5, <1>6, AuditTypes
<1>10. \A c \in Approvals : Exists(c) => approval[c].supersedes \notin {a, b}
  BY <1>1 DEF AuditInv, RevisionChain
<1>11. RevisionChain'
  <2>1. ASSUME NEW c \in Approvals, Exists(c)'
        PROVE  approval'[c].status = "superseded" <=>
                 \E e \in Approvals : Exists(e)' /\ approval'[e].supersedes = c
    <3>1. CASE c = a
      BY <1>2, <1>3, <1>8, <3>1
    <3>2. CASE c = b
      <4>1. \A e \in Approvals : Exists(e)' => approval'[e].supersedes # b
        BY <1>1, <1>2, <1>3, <1>8, <1>10
      <4> QED BY <1>2, <1>8, <3>2, <4>1
    <3>3. CASE c \notin {a, b}
      <4>1. approval[c].status = "superseded" <=> \E e \in Approvals : Exists(e) /\ approval[e].supersedes = c
        BY <1>8, <2>1, <3>3 DEF AuditInv, RevisionChain
      <4>2. \A e \in Approvals : (approval'[e] # None /\ approval'[e].supersedes = c)
                                 <=> (Exists(e) /\ approval[e].supersedes = c)
        BY <1>1, <1>2, <1>3, <1>8, <3>3
      <4> QED BY <1>8, <3>3, <4>1, <4>2
    <3> QED BY <3>1, <3>2, <3>3
  <2>2. ASSUME NEW c \in Approvals, NEW e \in Approvals, Exists(c)', Exists(e)',
               approval'[c].key = approval'[e].key
        PROVE  c = e
    \* A row of the new key would be a successor of a.
    <3>1. \A f \in Approvals : Exists(f) => approval[f].key # row.key
      BY <1>2, <1>10 DEF AuditInv, RowsAreFiled
    <3>2. \A f \in Approvals \ {b} : approval'[f] # None => Exists(f) /\ approval'[f].key = approval[f].key
      BY <1>1, <1>3, <1>8
    <3>3. CASE c = b \/ e = b
      BY <1>8, <2>2, <3>1, <3>2, <3>3
    <3>4. CASE c # b /\ e # b
      BY <2>2, <3>2, <3>4 DEF AuditInv, RevisionChain
    <3> QED BY <3>3, <3>4
  <2>3. ASSUME NEW c \in Approvals, Exists(c)', approval'[c].supersedes # None
        PROVE  /\ approval'[approval'[c].supersedes] # None
               /\ approval'[c].key = <<"approval-revision", approval'[c].supersedes>>
               /\ approval'[c].run = approval'[approval'[c].supersedes].run
    <3>1. CASE c = b
      BY <1>2, <1>3, <1>8, <3>1
    <3>2. CASE c # b
      <4>1. /\ Exists(c) /\ approval'[c].supersedes = approval[c].supersedes
            /\ approval'[c].key = approval[c].key /\ approval'[c].run = approval[c].run
        BY <1>1, <1>3, <1>8, <2>3, <3>2
      <4>2. /\ approval[c].supersedes \in Approvals \ {a, b} /\ Exists(approval[c].supersedes)
            /\ approval[c].key = <<"approval-revision", approval[c].supersedes>>
            /\ approval[c].run = approval[approval[c].supersedes].run
        BY <1>10, <2>3, <4>1, AuditTypes DEF AuditInv, RevisionChain, Rows
      <4>3. approval'[approval[c].supersedes] = approval[approval[c].supersedes]
        BY <1>8, <4>2
      <4> QED BY <4>1, <4>2, <4>3
    <3> QED BY <3>1, <3>2
  <2>4. ASSUME NEW c \in Approvals, Exists(c)', IsNiche(c)', approval'[c].status # "superseded"
        PROVE  /\ brief'[approval'[c].run] # None
               /\ brief'[approval'[c].run].approval = c
               /\ brief'[approval'[c].run].doc = approval'[c].doc
    <3>1. c # a
      BY <1>3, <1>8, <2>4
    <3>2. CASE c = b
      BY <1>2, <1>7, <1>8, <1>9, <2>4, <3>2 DEF IsNiche
    <3>3. CASE c # b
      <4>1. approval'[c] = approval[c] /\ Exists(c) /\ IsNiche(c)
        BY <1>8, <2>4, <3>1, <3>3 DEF IsNiche
      <4>2. /\ brief[approval[c].run] # None
            /\ brief[approval[c].run].approval = c
            /\ brief[approval[c].run].doc = approval[c].doc
            /\ approval[c].run \in Runs
        <5>1. approval[c].run \in Runs
          BY <4>1, AuditTypes DEF IsNiche, Rows
        <5> QED BY <2>4, <4>1, <5>1 DEF AuditInv, RevisionChain
      <4>3. approval[c].run # r
        BY <1>6, <3>1, <4>2
      <4>4. brief'[approval[c].run] = brief[approval[c].run]
        BY <1>9, <4>2, <4>3
      <4> QED BY <4>1, <4>2, <4>4
    <3> QED BY <3>2, <3>3
  <2>5. (\A c, e \in Approvals : Exists(c) /\ Exists(e) /\ approval[c].key = approval[e].key => c = e)'
    BY <2>2
  <2>6. (\A c \in Approvals : Exists(c) =>
           (approval[c].status = "superseded" <=> \E e \in Approvals : Exists(e) /\ approval[e].supersedes = c))'
    BY <2>1
  <2>7. (\A c \in Approvals : Exists(c) /\ approval[c].supersedes # None =>
           /\ Exists(approval[c].supersedes)
           /\ approval[c].key = <<"approval-revision", approval[c].supersedes>>
           /\ approval[c].run = approval[approval[c].supersedes].run)'
    BY <2>3
  <2>8. (\A c \in Approvals : Exists(c) /\ IsNiche(c) /\ approval[c].status # "superseded" =>
           /\ brief[approval[c].run] # None
           /\ brief[approval[c].run].approval = c
           /\ brief[approval[c].run].doc = approval[c].doc)'
    BY <2>4
  <2> QED BY <2>5, <2>6, <2>7, <2>8 DEF RevisionChain
<1>12. RowsAreFiled'
  <2>1. ASSUME NEW q \in Runs, brief'[q] # None
        PROVE  approval'[brief'[q].approval] # None /\ approval'[brief'[q].approval].run = q
    <3>1. CASE q = r
      <4>1. brief'[q].approval = b
        BY <1>7, <1>9, <3>1
      <4> QED BY <1>2, <1>8, <3>1, <4>1
    <3>2. CASE q # r
      <4>1. /\ Exists(brief[q].approval) /\ approval[brief[q].approval].run = q
            /\ brief[q].approval \in Approvals /\ brief'[q] = brief[q]
        BY <1>9, <2>1, <3>2, AuditTypes DEF AuditInv, RowsAreFiled, Briefs
      <4>2. brief[q].approval \notin {a, b}
        BY <1>1, <3>2, <4>1
      <4>3. approval'[brief[q].approval] = approval[brief[q].approval]
        BY <1>8, <4>1, <4>2
      <4> QED BY <4>1, <4>3
    <3> QED BY <3>1, <3>2
  <2>2. ASSUME NEW c \in Approvals, Exists(c)'
        PROVE  /\ IsNiche(c)' => brief'[approval'[c].run] # None
               /\ \A q \in Runs : approval'[c].key = <<"niche-test", q>> => approval'[c].run = q
               /\ \A e \in Approvals : approval'[c].key = <<"approval-revision", e>> => approval'[c].supersedes = e
    <3>1. CASE c = b
      <4>1. IsNiche(c)' => brief'[approval'[c].run] # None
        BY <1>2, <1>7, <1>8, <1>9, <3>1 DEF IsNiche
      <4>2. \A q \in Runs : approval'[c].key # <<"niche-test", q>>
        BY <1>2, <1>8, <3>1
      <4>3. \A e \in Approvals : approval'[c].key = <<"approval-revision", e>> => approval'[c].supersedes = e
        BY <1>2, <1>8, <3>1, SameKey
      <4> QED BY <4>1, <4>2, <4>3
    <3>2. CASE c # b
      <4>1. /\ Exists(c) /\ approval'[c].key = approval[c].key /\ approval'[c].run = approval[c].run
            /\ approval'[c].supersedes = approval[c].supersedes
        BY <1>1, <1>3, <1>8, <2>2, <3>2
      <4>2. IsNiche(c)' => brief'[approval'[c].run] # None
        <5> SUFFICES ASSUME IsNiche(c)' PROVE brief'[approval[c].run] # None
          BY <4>1
        <5>1. approval[c].run \in Runs /\ brief[approval[c].run] # None
          BY <4>1, AuditTypes DEF AuditInv, RowsAreFiled, IsNiche, Rows
        <5> QED BY <1>7, <1>9, <5>1
      <4> QED BY <4>1, <4>2 DEF AuditInv, RowsAreFiled
    <3> QED BY <3>1, <3>2
  <2> QED BY <2>1, <2>2 DEF RowsAreFiled
<1>13. LaunchedOnce'
  <2>1. \A c \in Approvals : campaign[c] # None =>
          c \notin {a, b} /\ Exists(c) /\ campaign[c].run \in Runs /\ campaign[c].run # r
    <3> SUFFICES ASSUME NEW c \in Approvals, campaign[c] # None
                 PROVE  c \notin {a, b} /\ Exists(c) /\ campaign[c].run \in Runs /\ campaign[c].run # r
      OBVIOUS
    <3>1. Exists(c) /\ approval[c].status = "approved" /\ brief[campaign[c].run].status = "approved"
      BY DEF AuditInv, LaunchedOnce
    <3>2. campaign[c].run \in Runs
      BY AuditTypes DEF Campaigns
    <3> QED BY <1>1, <1>6, <3>1, <3>2
  <2>2. ASSUME NEW c \in Approvals
        PROVE  campaign[c] # None <=> Exists(c)' /\ IsNiche(c)' /\ approval'[c].status = "approved"
    <3>1. CASE c \in {a, b}
      BY <1>2, <1>3, <1>8, <2>1, <3>1
    <3>2. CASE c \notin {a, b}
      BY <1>8, <3>2 DEF AuditInv, LaunchedOnce, IsNiche
    <3> QED BY <3>1, <3>2
  <2>3. ASSUME NEW c \in Approvals, campaign[c] # None
        PROVE  /\ campaign[c].run = approval'[c].run /\ campaign[c].doc = approval'[c].doc
               /\ campaign[c].createdBy = approval'[c].decidedBy /\ approval'[c].applied
               /\ brief'[campaign[c].run].status = "approved" /\ brief'[campaign[c].run].approval = c
    <3>1. /\ campaign[c].run = approval[c].run /\ campaign[c].doc = approval[c].doc
          /\ campaign[c].createdBy = approval[c].decidedBy /\ approval[c].applied
          /\ brief[campaign[c].run].status = "approved" /\ brief[campaign[c].run].approval = c
      BY <2>3 DEF AuditInv, LaunchedOnce
    <3>2. approval'[c] = approval[c] /\ brief'[campaign[c].run] = brief[campaign[c].run]
      BY <1>8, <1>9, <2>1, <2>3
    <3> QED BY <3>1, <3>2
  <2>4. ASSUME NEW q \in Runs, brief'[q] # None, brief'[q].status = "approved"
        PROVE  campaign[brief'[q].approval] # None
    <3>1. q # r
      BY <1>7, <1>9, <2>4
    <3>2. brief'[q] = brief[q]
      BY <1>9, <3>1
    <3> QED BY <2>4, <3>2 DEF AuditInv, LaunchedOnce
  <2> QED BY <1>4, <2>2, <2>3, <2>4 DEF LaunchedOnce
<1>14. EventsTellTheTruth'
  <2> DEFINE E == Announce(events, "revised", a, "superseded")
  <2>1. Told(events, a, approval[a]) /\ Told(events, b, None)
    BY <1>1, AuditTypes
  <2>2. Told(E, a, old)
    <3>1. Silent(events, a, "revised") /\ Silent(events, a, "decided")
      BY <1>1, <2>1, AuditTypes DEF Told
    <3> HIDE DEF E
    <3>2. /\ \A k, s : Said(E, a, k, s) <=> (Said(events, a, k, s) \/ (k = "revised" /\ s = "superseded"))
          /\ \A k : k # "revised" => (Silent(E, a, k) <=> Silent(events, a, k))
      BY <3>1, AnnounceFirst DEF E
    <3> QED BY <1>1, <1>3, <1>8, <2>1, <3>1, <3>2 DEF Told
  <2>3. Told(E, b, None)
    BY <1>1, <2>1, AnnounceElsewhere
  <2>4. \A c \in Approvals \ {a, b} : Told(E, c, approval[c])
    BY AuditTypes, AnnounceElsewhere
  <2>5. events' = AnnounceRequest(E, b, row)
    BY <1>4
  <2> HIDE DEF E
  <2>6. ~(row.expires /\ late)
    BY <1>1, <1>2 DEF Expired
  <2>7. Told(events', b, row)
    BY <1>2, <2>3, <2>5, <2>6, RequestFirst
  <2>8. events' = Announce(E, "requested", b, "pending")
    BY <1>2, <2>5, <2>6 DEF AnnounceRequest
  <2>9. \A c \in Approvals : Told(events', c, approval'[c])
    BY <1>1, <1>8, <2>2, <2>4, <2>7, <2>8, AnnounceElsewhere
  <2> QED BY <2>9 DEF EventsTellTheTruth, Told, Said, Silent
<1> QED BY <1>11, <1>12, <1>13, <1>14 DEF AuditInv

LEMMA NextAudit == AuditInv /\ [Next]_vars => AuditInv'
<1> SUFFICES ASSUME AuditInv, [Next]_vars PROVE AuditInv'
  OBVIOUS
<1>1. IInv'
  BY NextIInv DEF AuditInv
<1>2. CASE UNCHANGED rows
  BY <1>1, <1>2, RowsUnchangedAudit
<1>3. ASSUME NEW k \in Keys, NEW d \in Docs, NEW exp \in BOOLEAN, CreateApproval(k, d, exp) PROVE AuditInv'
  BY <1>1, <1>3, CreateApprovalAudit
<1>4. ASSUME NEW r \in Runs, NEW d \in Docs, CreateNicheBriefWithApproval(r, d) PROVE AuditInv'
  BY <1>1, <1>4, CreateBriefAudit
<1>5. ASSUME NEW a \in Approvals, NEW u \in Users, Approve(a, u) \/ DeclineOrReplay(a, u) PROVE AuditInv'
  <2>1. Exists(a)
    BY <1>5 DEF Approve, DeclineOrReplay
  <2>2. CASE Replay(a)
    BY <1>2, <2>1, <2>2, RepeatsChangeNothing
  <2> QED BY <1>1, <1>5, <2>1, <2>2, HoldForSecondAudit, ApproveOtherAudit, ApproveNicheAudit, DeclineAudit
          DEF Approve, DeclineOrReplay
<1>6. ASSUME NEW a \in Approvals, NEW b \in Approvals, NEW d \in Docs, Revise(a, b, d) PROVE AuditInv'
  BY <1>1, <1>6, ReviseAudit
<1>7. ASSUME NEW a \in Approvals, NEW b \in Approvals, ReplayRevise(a, b) PROVE AuditInv'
  <2>1. /\ Exists(a) /\ approval[a].status = "superseded" /\ Exists(b)
        /\ events' = AnnounceRequest(Announce(events, "revised", a, "superseded"), b, approval[b])
        /\ UNCHANGED <<approval, brief, campaign>>
    BY <1>7 DEF ReplayRevise
  <2>2. events' = events
    BY <2>1, RepeatsChangeNothing
  <2> QED BY <1>2, <2>1, <2>2 DEF rows
<1>8. ASSUME \/ \E C, B \in SUBSET Runs : ResearchMoves(C, B)
             \/ \E t \in Thresholds : SetThreshold(t)
             \/ DeadlinePasses
             \/ UNCHANGED vars
      PROVE  AuditInv'
  BY <1>2, <1>8 DEF ResearchMoves, SetThreshold, DeadlinePasses, vars
<1> QED BY <1>3, <1>4, <1>5, <1>6, <1>7, <1>8 DEF Next

LEMMA AuditHolds == Spec => []AuditInv
<1>1. Init => AuditInv
  BY InitIInv DEF Init, AuditInv, RevisionChain, RowsAreFiled, LaunchedOnce, EventsTellTheTruth
<1> QED BY <1>1, NextAudit, PTL DEF Spec

\* However approvals are asked for, revised and decided again, the chain of
\* revisions has no hole and no fork, and each brief points at its live row.
THEOREM RevisionChainHolds == Spec => []RevisionChain
<1>1. AuditInv => RevisionChain
  BY DEF AuditInv
<1> QED BY <1>1, AuditHolds, PTL

\* An approved NICHE_TEST has one campaign, for what was approved, and its
\* brief is approved with it, whatever is replayed.
THEOREM LaunchedOnceHolds == Spec => []LaunchedOnce
<1>1. AuditInv => LaunchedOnce
  BY DEF AuditInv
<1> QED BY <1>1, AuditHolds, PTL

\* Each event exists once, from the transaction that made it true.
THEOREM EventsTellTheTruthHolds == Spec => []EventsTellTheTruth
<1>1. AuditInv => EventsTellTheTruth
  BY DEF AuditInv
<1> QED BY <1>1, AuditHolds, PTL
-----------------------------------------------------------------------------
(* The gate: every step of rows, briefs, campaigns, events and research is *)
(* one step of NicheGate for one run, or changes nothing there.            *)

\* What a step leaves of the gate of one run.
LEMMA GateStays ==
  ASSUME NEW q \in Runs, brief'[q] = brief[q],
         brief[q] # None => approval'[brief[q].approval] = approval[brief[q].approval]
  PROVE  GateOf(q)' = GateOf(q)
BY DEF GateOf

\* A step that writes only rows no brief of another run can point at: fresh
\* ones, and row a of run r.
LEMMA OtherGatesStay ==
  ASSUME AuditInv, NEW a \in Approvals, NEW q \in Runs, approval[a].run # q,
         brief'[q] = brief[q],
         \A c \in Approvals : Exists(c) /\ c # a => approval'[c] = approval[c]
  PROVE  GateOf(q)' = GateOf(q)
<1>1. ASSUME brief[q] # None
      PROVE  approval'[brief[q].approval] = approval[brief[q].approval]
  <2>1. /\ Exists(brief[q].approval) /\ approval[brief[q].approval].run = q
        /\ brief[q].approval \in Approvals
    BY <1>1, AuditTypes DEF AuditInv, RowsAreFiled, Briefs
  <2> QED BY <2>1
<1> QED BY <1>1, GateStays

LEMMA LaunchesStay == ASSUME campaign' = campaign, NEW q \in Runs PROVE LaunchesOf(q)' = LaunchesOf(q)
BY DEF LaunchesOf

\* The steps of NicheGate, one run at a time.
LEMMA GateUnchanged ==
  ASSUME \A q \in Runs : GateOf(q)' = GateOf(q), campaign' = campaign, t2' = t2
  PROVE  UNCHANGED Gate!vars
<1>1. \A q \in Runs : LaunchesOf(q)' = LaunchesOf(q)
  BY LaunchesStay
<1> QED BY <1>1 DEF Gate!vars

LEMMA GateOpens ==
  ASSUME NEW r \in Runs, NEW d \in Docs, GateOf(r) = Gate!Absent, GateOf(r)' = Gate!Fresh(d),
         \A q \in Runs : q # r => GateOf(q)' = GateOf(q), campaign' = campaign, t2' = t2
  PROVE  Gate!Open(r, d)
<1>1. \A q \in Runs : LaunchesOf(q)' = LaunchesOf(q)
  BY LaunchesStay
<1> QED BY <1>1 DEF Gate!Open

LEMMA GateRedraws ==
  ASSUME NEW r \in Runs, NEW d \in Docs, GateOf(r).state = "pending",
         GateOf(r)' = Gate!Fresh(d),
         \A q \in Runs : q # r => GateOf(q)' = GateOf(q), campaign' = campaign, t2' = t2
  PROVE  Gate!Redraft(r, d)
<1>1. \A q \in Runs : LaunchesOf(q)' = LaunchesOf(q)
  BY LaunchesStay
<1> QED BY <1>1 DEF Gate!Redraft, Gate!Pending

LEMMA GateEndorsed ==
  ASSUME NEW r \in Runs, NEW u \in Users, GateOf(r).state = "pending",
         GateOf(r).doc \in Docs, t2 # NoThreshold, CostOf(GateOf(r).doc) >= t2, GateOf(r).first = None,
         GateOf(r)' = [GateOf(r) EXCEPT !.first = u],
         \A q \in Runs : q # r => GateOf(q)' = GateOf(q), campaign' = campaign, t2' = t2
  PROVE  Gate!Endorse(r, u)
<1>1. \A q \in Runs : LaunchesOf(q)' = LaunchesOf(q)
  BY LaunchesStay
<1> QED BY <1>1 DEF Gate!Endorse, Gate!Pending

LEMMA GateDeclined ==
  ASSUME NEW r \in Runs, GateOf(r).state = "pending",
         GateOf(r)' = [GateOf(r) EXCEPT !.state = "declined"],
         \A q \in Runs : q # r => GateOf(q)' = GateOf(q), campaign' = campaign, t2' = t2
  PROVE  Gate!Decline(r)
<1>1. \A q \in Runs : LaunchesOf(q)' = LaunchesOf(q)
  BY LaunchesStay
<1> QED BY <1>1 DEF Gate!Decline, Gate!Pending

LEMMA GateApproved ==
  ASSUME NEW r \in Runs, NEW u \in Users, NEW a \in Approvals, GateOf(r).state = "pending",
         (t2 # NoThreshold /\ CostOf(GateOf(r).doc) >= t2) => GateOf(r).first \notin {None, u},
         GateOf(r)' = [GateOf(r) EXCEPT !.state = "approved"],
         \A q \in Runs : q # r => GateOf(q)' = GateOf(q) /\ LaunchesOf(q)' = LaunchesOf(q),
         LaunchesOf(r)' = {[id |-> a, doc |-> GateOf(r).doc, by |-> u]}, t2' = t2
  PROVE  Gate!Approve(r, u)
BY DEF Gate!Approve, Gate!Pending
-----------------------------------------------------------------------------
\* A pending NICHE_TEST is the row its run shows.
LEMMA PendingIsShown ==
  ASSUME AuditInv, NEW a \in Approvals, Exists(a), IsNiche(a), approval[a].status = "pending"
  PROVE  /\ approval[a].run \in Runs /\ approval[a] \in Rows
         /\ brief[approval[a].run] # None /\ brief[approval[a].run] \in Briefs
         /\ brief[approval[a].run].approval = a
         /\ GateOf(approval[a].run) =
              [state |-> "pending", doc |-> approval[a].doc, first |-> approval[a].first]
<1>1. approval[a].run \in Runs /\ approval[a] \in Rows
  BY AuditTypes DEF IsNiche, Rows
<1>2. brief[approval[a].run] # None /\ brief[approval[a].run].approval = a
  BY DEF AuditInv, RevisionChain
<1> QED BY <1>1, <1>2, AuditTypes DEF GateOf

\* A new row, of a run without a brief or of no run, shows nowhere else.
LEMMA NewRowGates ==
  ASSUME AuditInv, NEW a \in Approvals, ~Exists(a), NEW row, approval' = [approval EXCEPT ![a] = row],
         NEW q \in Runs, brief'[q] = brief[q]
  PROVE  GateOf(q)' = GateOf(q)
<1>1. ASSUME brief[q] # None
      PROVE  approval'[brief[q].approval] = approval[brief[q].approval]
  <2>1. Exists(brief[q].approval) /\ brief[q].approval \in Approvals
    BY <1>1, AuditTypes DEF AuditInv, RowsAreFiled, Briefs
  <2> QED BY <2>1
<1> QED BY <1>1, GateStays

LEMMA CreateApprovalGate ==
  ASSUME AuditInv, NEW k \in Keys, NEW d \in Docs, NEW exp \in BOOLEAN, CreateApproval(k, d, exp)
  PROVE  UNCHANGED Gate!vars
<1>1. brief' = brief /\ campaign' = campaign /\ t2' = t2
  BY DEF CreateApproval, env
<1>2. \/ approval' = approval
      \/ \E a \in Approvals : \E row : ~Exists(a) /\ approval' = [approval EXCEPT ![a] = row]
  BY DEF CreateApproval, IsNext
<1>3. \A q \in Runs : GateOf(q)' = GateOf(q)
  BY <1>1, <1>2, GateStays, NewRowGates
<1> QED BY <1>1, <1>3, GateUnchanged

LEMMA CreateBriefGate ==
  ASSUME AuditInv, NEW r \in Runs, NEW d \in Docs, CreateNicheBriefWithApproval(r, d)
  PROVE  [Gate!Next]_Gate!vars
<1>1. campaign' = campaign /\ t2' = t2
  BY DEF CreateNicheBriefWithApproval
<1>2. CASE UNCHANGED <<approval, brief>>
  <2>1. \A q \in Runs : GateOf(q)' = GateOf(q)
    BY <1>2, GateStays
  <2> QED BY <1>1, <2>1, GateUnchanged
<1>3. ASSUME NEW a \in Approvals, ~Exists(a), brief[r] = None,
             approval' = [approval EXCEPT ![a] = NewRow(<<"niche-test", r>>, r, d, FALSE, None)],
             brief' = [brief EXCEPT ![r] = [status |-> "pending_approval", approval |-> a, doc |-> d]]
      PROVE  Gate!Open(r, d)
  <2>1. GateOf(r) = Gate!Absent
    BY <1>3 DEF GateOf, Gate!Absent
  <2>2. /\ brief'[r] = [status |-> "pending_approval", approval |-> a, doc |-> d] /\ brief'[r] # None
        /\ approval'[a] = NewRow(<<"niche-test", r>>, r, d, FALSE, None)
    <3>1. [status |-> "pending_approval", approval |-> a, doc |-> d] \in Briefs
      BY DEF Briefs
    <3> QED BY <1>3, <3>1, AuditTypes
  <2>3. GateOf(r)' = Gate!Fresh(d)
    BY <2>2 DEF GateOf, NewRow, Gate!Fresh
  <2>4. \A q \in Runs : q # r => GateOf(q)' = GateOf(q)
    <3> SUFFICES ASSUME NEW q \in Runs, q # r PROVE GateOf(q)' = GateOf(q)
      OBVIOUS
    <3>1. brief'[q] = brief[q]
      BY <1>3
    <3> QED BY <1>3, <3>1, NewRowGates
  <2> QED BY <1>1, <2>1, <2>3, <2>4, GateOpens
<1> QED BY <1>2, <1>3 DEF CreateNicheBriefWithApproval, IsNext, Gate!Next

\* A decision on a row of no run shows at no gate.
LEMMA PlainRowGates ==
  ASSUME AuditInv, NEW a \in Approvals, approval[a].run = None, brief' = brief, campaign' = campaign,
         t2' = t2, \A c \in Approvals : Exists(c) /\ c # a => approval'[c] = approval[c]
  PROVE  UNCHANGED Gate!vars
<1>1. \A q \in Runs : GateOf(q)' = GateOf(q)
  BY OtherGatesStay
<1> QED BY <1>1, GateUnchanged

\* A decision that leaves the briefs and the campaigns alone: a hold or a decline.
LEMMA RowGate ==
  ASSUME AuditInv, NEW a \in Approvals, NEW r \in Runs, Exists(a), approval[a].run = r,
         approval[a].status = "pending",
         NEW row \in Rows, approval' = [approval EXCEPT ![a] = row], brief' = brief
  PROVE  /\ GateOf(r) = [state |-> "pending", doc |-> approval[a].doc, first |-> approval[a].first]
         /\ GateOf(r)' = [state |-> row.status, doc |-> row.doc, first |-> row.first]
         /\ \A q \in Runs : q # r => GateOf(q)' = GateOf(q)
<1>1. IsNiche(a)
  BY DEF IsNiche
<1>2. GateOf(r)' = [state |-> row.status, doc |-> row.doc, first |-> row.first]
  <2>1. brief'[r] # None /\ brief'[r].approval = a
    BY <1>1, PendingIsShown
  <2>2. approval'[a] = row
    BY AuditTypes
  <2> QED BY <2>1, <2>2 DEF GateOf
<1>3. ASSUME NEW q \in Runs, q # r PROVE GateOf(q)' = GateOf(q)
  BY <1>3, OtherGatesStay
<1> QED BY <1>1, <1>2, <1>3, PendingIsShown

LEMMA HoldGate ==
  ASSUME AuditInv, NEW a \in Approvals, NEW u \in Users, Exists(a), HoldForSecond(a, u), UNCHANGED env
  PROVE  [Gate!Next]_Gate!vars
<1>1. /\ campaign' = campaign /\ t2' = t2 /\ brief' = brief /\ approval[a].status = "pending"
      /\ approval' = [approval EXCEPT ![a] = [approval[a] EXCEPT !.first = u]]
      /\ approval[a] \in Rows
  BY AuditTypes DEF HoldForSecond, env
<1>2. CASE ~IsNiche(a)
  BY <1>1, <1>2, PlainRowGates DEF IsNiche
<1>3. ASSUME NEW r \in Runs, approval[a].run = r
      PROVE  Gate!Endorse(r, u)
  <2>1. PICK row \in Rows : /\ row = [approval[a] EXCEPT !.first = u]
                            /\ row.status = "pending" /\ row.doc = approval[a].doc /\ row.first = u
    <3> DEFINE new == [approval[a] EXCEPT !.first = u]
    <3>1. new \in Rows
      BY <1>1 DEF Rows
    <3> QED BY <1>1, <3>1 DEF Rows
  <2>5. approval' = [approval EXCEPT ![a] = row]
    BY <1>1, <2>1
  <2>2. /\ GateOf(r) = [state |-> "pending", doc |-> approval[a].doc, first |-> approval[a].first]
        /\ GateOf(r)' = [state |-> row.status, doc |-> row.doc, first |-> row.first]
        /\ \A q \in Runs : q # r => GateOf(q)' = GateOf(q)
    <3>1. approval[a].run = r /\ approval[a].status = "pending" /\ brief' = brief /\ row \in Rows
      BY <1>1, <1>3
    <3>2. GateOf(r) = [state |-> "pending", doc |-> approval[a].doc, first |-> approval[a].first]
      BY <3>1, <2>5, RowGate
    <3>3. GateOf(r)' = [state |-> row.status, doc |-> row.doc, first |-> row.first]
      BY <3>1, <2>5, RowGate
    <3>4. \A q \in Runs : q # r => GateOf(q)' = GateOf(q)
      BY <3>1, <2>5, RowGate
    <3> QED BY <3>2, <3>3, <3>4
  <2>3. GateOf(r)' = [GateOf(r) EXCEPT !.first = u]
    BY <2>1, <2>2
  <2>4. /\ t2 # NoThreshold /\ CostOf(GateOf(r).doc) >= t2 /\ GateOf(r).first = None
        /\ GateOf(r).doc \in Docs /\ GateOf(r).state = "pending"
    BY <1>1, <2>2 DEF HoldForSecond, NeedsTwo, Rows
  <2> QED BY <1>1, <2>2, <2>3, <2>4, GateEndorsed
<1> QED BY <1>1, <1>2, <1>3 DEF IsNiche, Rows, Gate!Next

LEMMA DeclineGate ==
  ASSUME AuditInv, NEW a \in Approvals, NEW u \in Users, Exists(a), Decline(a, u), UNCHANGED env
  PROVE  [Gate!Next]_Gate!vars
<1>1. /\ campaign' = campaign /\ t2' = t2 /\ brief' = brief /\ approval[a].status = "pending"
      /\ approval' = [approval EXCEPT ![a] = [approval[a] EXCEPT !.status = "declined", !.decidedBy = u]]
      /\ approval[a] \in Rows
  BY AuditTypes DEF Decline, env
<1>2. CASE ~IsNiche(a)
  BY <1>1, <1>2, PlainRowGates DEF IsNiche
<1>3. ASSUME NEW r \in Runs, approval[a].run = r
      PROVE  Gate!Decline(r)
  <2>1. PICK row \in Rows : /\ row = [approval[a] EXCEPT !.status = "declined", !.decidedBy = u]
                            /\ row.status = "declined" /\ row.doc = approval[a].doc
                            /\ row.first = approval[a].first
    <3> DEFINE new == [approval[a] EXCEPT !.status = "declined", !.decidedBy = u]
    <3>1. new \in Rows
      BY <1>1 DEF Rows, Statuses
    <3> QED BY <1>1, <3>1 DEF Rows
  <2>5. approval' = [approval EXCEPT ![a] = row]
    BY <1>1, <2>1
  <2>2. /\ GateOf(r) = [state |-> "pending", doc |-> approval[a].doc, first |-> approval[a].first]
        /\ GateOf(r)' = [state |-> row.status, doc |-> row.doc, first |-> row.first]
        /\ \A q \in Runs : q # r => GateOf(q)' = GateOf(q)
    <3>1. approval[a].run = r /\ approval[a].status = "pending" /\ brief' = brief /\ row \in Rows
      BY <1>1, <1>3
    <3>2. GateOf(r) = [state |-> "pending", doc |-> approval[a].doc, first |-> approval[a].first]
      BY <3>1, <2>5, RowGate
    <3>3. GateOf(r)' = [state |-> row.status, doc |-> row.doc, first |-> row.first]
      BY <3>1, <2>5, RowGate
    <3>4. \A q \in Runs : q # r => GateOf(q)' = GateOf(q)
      BY <3>1, <2>5, RowGate
    <3> QED BY <3>2, <3>3, <3>4
  <2>3. GateOf(r)' = [GateOf(r) EXCEPT !.state = "declined"] /\ GateOf(r).state = "pending"
    BY <2>1, <2>2
  <2> QED BY <1>1, <2>2, <2>3, GateDeclined
<1> QED BY <1>1, <1>2, <1>3 DEF IsNiche, Rows, Gate!Next

LEMMA ApproveOtherGate ==
  ASSUME AuditInv, NEW a \in Approvals, NEW u \in Users, Exists(a), ApproveOther(a, u), UNCHANGED env
  PROVE  UNCHANGED Gate!vars
<1>1. /\ approval[a].run = None /\ campaign' = campaign /\ t2' = t2 /\ brief' = brief
      /\ \A c \in Approvals : Exists(c) /\ c # a => approval'[c] = approval[c]
  BY AuditTypes DEF ApproveOther, IsNiche, env
<1> QED BY <1>1, PlainRowGates

\* The campaign of an approval is the only one of its run: had it another, the
\* run's brief would point at the approval of that one.
LEMMA OneLaunch ==
  ASSUME AuditInv, NEW a \in Approvals, NEW r \in Runs, brief[r].approval = a, campaign[a] = None,
         NEW c \in Campaigns, c.run = r, campaign' = [campaign EXCEPT ![a] = c]
  PROVE  /\ LaunchesOf(r)' = {[id |-> a, doc |-> c.doc, by |-> c.createdBy]}
         /\ \A q \in Runs : q # r => LaunchesOf(q)' = LaunchesOf(q)
<1>1. campaign'[a] = c /\ c # None /\ \A b \in Approvals : b # a => campaign'[b] = campaign[b]
  BY AuditTypes
<1>2. \A b \in Approvals : campaign[b] # None => campaign[b].run # r
  BY DEF AuditInv, LaunchedOnce
<1>3. {b \in Approvals : campaign'[b] # None /\ campaign'[b].run = r} = {a}
  <2>1. \A b \in Approvals : (campaign'[b] # None /\ campaign'[b].run = r) <=> b = a
    BY <1>1, <1>2
  <2> QED BY <2>1
<1>4. LaunchesOf(r)' = {[id |-> b, doc |-> campaign'[b].doc, by |-> campaign'[b].createdBy] : b \in {a}}
  BY <1>3 DEF LaunchesOf
<1>5. LaunchesOf(r)' = {[id |-> a, doc |-> c.doc, by |-> c.createdBy]}
  BY <1>1, <1>4
<1>6. ASSUME NEW q \in Runs, q # r PROVE LaunchesOf(q)' = LaunchesOf(q)
  BY <1>1, <1>6 DEF LaunchesOf
<1> QED BY <1>5, <1>6

LEMMA ApproveNicheGate ==
  ASSUME AuditInv, NEW a \in Approvals, NEW u \in Users, Exists(a), ApproveNiche(a, u), UNCHANGED env
  PROVE  [Gate!Next]_Gate!vars
<1>1. /\ t2' = t2 /\ approval[a].status = "pending" /\ approval[a] \in Rows /\ IsNiche(a)
  BY AuditTypes DEF ApproveNiche, env
<1>2. ASSUME NEW r \in Runs, approval[a].run = r
      PROVE  Gate!Approve(r, u)
  <2> DEFINE row == [approval[a] EXCEPT !.status = "approved", !.decidedBy = u, !.applied = TRUE]
             new == [run |-> r, doc |-> approval[a].doc, createdBy |-> u]
             marked == [brief[r] EXCEPT !.status = "approved"]
  <2>1. /\ row.status = "approved" /\ row.doc = approval[a].doc /\ row.first = approval[a].first
        /\ approval' = [approval EXCEPT ![a] = row]
    BY <1>1 DEF Rows, ApproveNiche, ApplySideEffects
  <2>2. /\ brief[r] \in Briefs /\ brief[r] # None /\ brief[r].approval = a
        /\ GateOf(r) = [state |-> "pending", doc |-> approval[a].doc, first |-> approval[a].first]
    BY <1>1, <1>2, PendingIsShown
  <2>3. marked \in Briefs /\ marked # None /\ marked.approval = a
    BY <2>2 DEF Briefs
  <2>4. brief' = [brief EXCEPT ![r] = marked]
    BY <1>2 DEF ApproveNiche, ApplySideEffects
  <2>5. brief'[r] # None /\ brief'[r].approval = a /\ approval'[a] = row
    BY <2>1, <2>3, <2>4, AuditTypes
  <2>6. GateOf(r)' = [GateOf(r) EXCEPT !.state = "approved"]
    <3>1. GateOf(r)' = [state |-> row.status, doc |-> row.doc, first |-> row.first]
      BY <2>5 DEF GateOf
    <3> QED BY <2>1, <2>2, <3>1
  <2>7. campaign[a] = None
    BY <1>1 DEF AuditInv, LaunchedOnce
  <2>8. new \in Campaigns /\ campaign' = [campaign EXCEPT ![a] = new]
    BY <1>1, <1>2, <2>7 DEF Campaigns, Rows, ApproveNiche, ApplySideEffects
  <2>9. /\ LaunchesOf(r)' = {[id |-> a, doc |-> approval[a].doc, by |-> u]}
        /\ \A q \in Runs : q # r => LaunchesOf(q)' = LaunchesOf(q)
    <3>1. new.run = r /\ new.doc = approval[a].doc /\ new.createdBy = u
      OBVIOUS
    <3> HIDE DEF new
    <3>2. /\ LaunchesOf(r)' = {[id |-> a, doc |-> new.doc, by |-> new.createdBy]}
          /\ \A q \in Runs : q # r => LaunchesOf(q)' = LaunchesOf(q)
      BY <2>2, <2>7, <2>8, <3>1, OneLaunch
    <3> QED BY <3>1, <3>2
  <2>10. ASSUME NEW q \in Runs, q # r PROVE GateOf(q)' = GateOf(q)
    <3>1. brief'[q] = brief[q] /\ approval[a].run # q
      BY <1>2, <2>4, <2>10
    <3>2. \A c \in Approvals : Exists(c) /\ c # a => approval'[c] = approval[c]
      BY <2>1
    <3> QED BY <3>1, <3>2, OtherGatesStay
  <2>11. (t2 # NoThreshold /\ CostOf(GateOf(r).doc) >= t2) => GateOf(r).first \notin {None, u}
    BY <2>2 DEF ApproveNiche, MayDecide, NeedsTwo
  <2>12. GateOf(r).state = "pending" /\ GateOf(r).doc = approval[a].doc
    BY <2>2
  <2> HIDE DEF row, new, marked
  <2> QED BY <1>1, <2>6, <2>9, <2>10, <2>11, <2>12, GateApproved
<1> QED BY <1>1, <1>2 DEF IsNiche, Rows, Gate!Next

LEMMA ReviseGate ==
  ASSUME AuditInv, NEW a \in Approvals, NEW b \in Approvals, NEW d \in Docs, Revise(a, b, d)
  PROVE  [Gate!Next]_Gate!vars
<1> DEFINE old == [approval[a] EXCEPT !.status = "superseded"]
           row == NewRow(<<"approval-revision", a>>, approval[a].run, d, approval[a].expires, a)
<1>1. /\ t2' = t2 /\ campaign' = campaign /\ Exists(a) /\ ~Exists(b) /\ approval[a].status = "pending"
      /\ approval[a] \in Rows /\ approval' = [approval EXCEPT ![a] = old, ![b] = row]
  BY AuditTypes DEF Revise, IsNext, env
<1>2. \A c \in Approvals : Exists(c) /\ c # a => approval'[c] = approval[c]
  <2> HIDE DEF old, row
  <2> QED BY <1>1, AuditTypes
<1>3. CASE ~IsNiche(a)
  <2>1. brief' = brief /\ approval[a].run = None
    BY <1>3 DEF Revise, AdvanceBrief, IsNiche
  <2> QED BY <1>1, <1>2, <2>1, PlainRowGates
<1>4. ASSUME NEW r \in Runs, approval[a].run = r
      PROVE  Gate!Redraft(r, d)
  <2> DEFINE moved == [brief[r] EXCEPT !.approval = b, !.doc = d]
  <2>1. GateOf(r).state = "pending"
    <3>1. IsNiche(a)
      BY <1>4 DEF IsNiche
    <3>2. GateOf(r) = [state |-> "pending", doc |-> approval[a].doc, first |-> approval[a].first]
      BY <1>1, <1>4, <3>1, PendingIsShown
    <3> QED BY <3>2
  <2>2. brief[r] \in Briefs /\ brief' = [brief EXCEPT ![r] = moved]
    <3>1. IsNiche(a)
      BY <1>4 DEF IsNiche
    <3>2. brief[r] \in Briefs
      BY <1>1, <1>4, <3>1, PendingIsShown
    <3>3. brief' = [brief EXCEPT ![r].approval = b, ![r].doc = d]
      BY <1>4 DEF Revise, AdvanceBrief
    <3> QED BY <3>2, <3>3
  <2>3. moved \in Briefs /\ moved.approval = b
    BY <2>2 DEF Briefs
  <2>4. brief'[r] # None /\ brief'[r].approval = b /\ approval'[b] = row
    BY <1>1, <2>2, <2>3, AuditTypes
  <2>5. GateOf(r)' = Gate!Fresh(d)
    BY <2>4 DEF GateOf, NewRow, Gate!Fresh
  <2>6. ASSUME NEW q \in Runs, q # r PROVE GateOf(q)' = GateOf(q)
    <3>1. brief'[q] = brief[q] /\ approval[a].run # q
      BY <1>4, <2>2, <2>6
    <3> QED BY <1>2, <3>1, OtherGatesStay
  <2> QED BY <1>1, <2>1, <2>5, <2>6, GateRedraws
<1> QED BY <1>1, <1>3, <1>4 DEF IsNiche, Rows, Gate!Next

\* Each step of the rows is the step of the gate it stands for.
LEMMA StepGate == AuditInv /\ [Next]_vars => [Gate!Next]_Gate!vars
<1> SUFFICES ASSUME AuditInv, [Next]_vars PROVE [Gate!Next]_Gate!vars
  OBVIOUS
<1>1. ASSUME UNCHANGED <<approval, brief, campaign, t2>> PROVE UNCHANGED Gate!vars
  BY <1>1, GateStays, GateUnchanged
<1>2. ASSUME NEW k \in Keys, NEW d \in Docs, NEW exp \in BOOLEAN, CreateApproval(k, d, exp)
      PROVE  [Gate!Next]_Gate!vars
  BY <1>2, CreateApprovalGate
<1>3. ASSUME NEW r \in Runs, NEW d \in Docs, CreateNicheBriefWithApproval(r, d)
      PROVE  [Gate!Next]_Gate!vars
  BY <1>3, CreateBriefGate
<1>4. ASSUME NEW a \in Approvals, NEW u \in Users, Approve(a, u) \/ DeclineOrReplay(a, u)
      PROVE  [Gate!Next]_Gate!vars
  <2>1. Exists(a) /\ UNCHANGED env
    BY <1>4 DEF Approve, DeclineOrReplay
  <2>2. CASE Replay(a)
    BY <1>1, <2>1, <2>2, RepeatsChangeNothing DEF rows, env
  <2> QED BY <1>4, <2>1, <2>2, HoldGate, ApproveOtherGate, ApproveNicheGate, DeclineGate
          DEF Approve, DeclineOrReplay
<1>5. ASSUME NEW a \in Approvals, NEW b \in Approvals, NEW d \in Docs, Revise(a, b, d)
      PROVE  [Gate!Next]_Gate!vars
  BY <1>5, ReviseGate
<1>6. ASSUME NEW t \in Thresholds, SetThreshold(t) PROVE [Gate!Next]_Gate!vars
  <2> DEFINE D == {d \in Docs : t # NoThreshold /\ CostOf(d) >= t}
  <2>1. approval' = approval /\ brief' = brief /\ campaign' = campaign /\ t2' = t
    BY <1>6 DEF SetThreshold, rows
  <2>2. \A q \in Runs : GateOf(q)' = GateOf(q) /\ LaunchesOf(q)' = LaunchesOf(q)
    BY <2>1, GateStays, LaunchesStay
  <2>3. Gate!Reprice(D)
    BY <2>1, <2>2 DEF Gate!Reprice
  <2> QED BY <2>3 DEF Gate!Next
<1>7. ASSUME \/ \E a, b \in Approvals : ReplayRevise(a, b)
             \/ \E C, B \in SUBSET Runs : ResearchMoves(C, B)
             \/ DeadlinePasses
             \/ UNCHANGED vars
      PROVE  [Gate!Next]_Gate!vars
  BY <1>1, <1>7 DEF ReplayRevise, ResearchMoves, DeadlinePasses, vars, rows, env
<1> QED BY <1>2, <1>3, <1>4, <1>5, <1>6, <1>7 DEF Next

\* Rows, revisions, threshold changes, deadlines and replays of any number of
\* runs and users are together the plain gate.
THEOREM ImplementsNicheGateHolds == Spec => ImplementsNicheGate
<1>1. Init => Gate!Init
  BY DEF Init, Gate!Init, Gate!Absent, GateOf, LaunchesOf
<1> QED BY <1>1, StepGate, AuditHolds, PTL DEF Spec, ImplementsNicheGate, Gate!Spec
=============================================================================
