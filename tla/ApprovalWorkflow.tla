-------------------------- MODULE ApprovalWorkflow --------------------------
(***************************************************************************)
(* Approvals, the niche briefs they gate and the campaigns they launch:    *)
(* lib/growth/repositories/approval-repository.ts (create, decide, revise),*)
(* approval-orchestration.ts (the side effects of a NICHE_TEST decision),  *)
(* niche-brief-repository.ts and the outbox rows of                        *)
(* approval-notifications.ts.                                              *)
(*                                                                         *)
(* Every handler runs in one SERIALIZABLE transaction that locks its row,  *)
(* so a handler is one action; a handler that throws, or whose transaction *)
(* is rolled back for good, is no step.  Dashboard, chat and retries are   *)
(* the same handlers taken again, in any order and by any user.            *)
(***************************************************************************)
EXTENDS Integers, FiniteSets

CONSTANTS Approvals,   \* approval rows, numbered as they are created
          Runs,        \* research runs; a run has at most one brief
          Keys,        \* idempotency keys of the approvals other services request
          Users,       \* actors resolved from a session or a chat identity
          Docs,        \* payload contents, with whoever requested them
          CostOf(_),   \* estimatedCostCents of a content
          Thresholds,  \* values of approvalThresholdT2Cents, may hold NoThreshold
          NoThreshold, \* the workspace has no two-person rule
          None         \* null

ASSUME CostAssumption == /\ \A d \in Docs : CostOf(d) \in Nat
                         /\ Thresholds \subseteq Nat \union {NoThreshold}
                         /\ NoThreshold \notin Nat
ASSUME NoneAssumption == None \notin Users /\ None \notin Approvals /\ None \notin Runs
ASSUME ApprovalsAssumption == Approvals \subseteq Nat

VARIABLES
  approval,  \* approval[a]: the row, or None
  brief,     \* brief[r]: the NicheBrief of run r: status, approvalId, document; or None
  campaign,  \* campaign[a]: the campaign with originApprovalId a, or None
  events,    \* notifyOutbox rows of approvals: kind, approvalId, payload.status
  completed, \* runs that read "completed"
  briefed,   \* runs whose request reads "briefed"
  t2,        \* the workspace's approvalThresholdT2Cents
  late       \* whether the deadline (expiresAt) of expiring approvals has passed

rows == <<approval, brief, campaign, events>>
env  == <<completed, briefed, t2, late>>
vars == <<rows, env>>

Statuses == {"pending", "approved", "declined", "superseded"}
Kinds    == {"requested", "awaiting-second", "revised", "decided"}
RowKeys  == ({"niche-test"} \X Runs) \union ({"approval-revision"} \X Approvals)
                                      \union ({"caller"} \X Keys)
Rows  == [status : Statuses, key : RowKeys, run : Runs \union {None}, doc : Docs,
          expires : BOOLEAN, first : Users \union {None},
          decidedBy : Users \union {None}, supersedes : Approvals \union {None},
          applied : BOOLEAN]
Briefs    == [status : {"pending_approval", "approved"}, approval : Approvals, doc : Docs]
Campaigns == [run : Runs, doc : Docs, createdBy : Users]

ASSUME NullAssumption == None \notin Rows /\ None \notin Briefs /\ None \notin Campaigns

TypeOK ==
  /\ approval \in [Approvals -> Rows \union {None}]
  /\ brief \in [Runs -> Briefs \union {None}]
  /\ campaign \in [Approvals -> Campaigns \union {None}]
  /\ events \subseteq [kind : Kinds, approval : Approvals, status : Statuses]
  /\ completed \subseteq Runs
  /\ briefed \subseteq Runs
  /\ t2 \in Thresholds
  /\ late \in BOOLEAN

Init ==
  /\ approval = [a \in Approvals |-> None]
  /\ brief = [r \in Runs |-> None]
  /\ campaign = [a \in Approvals |-> None]
  /\ events = {}
  /\ completed = {}
  /\ briefed = {}
  /\ t2 \in Thresholds
  /\ late = FALSE

-----------------------------------------------------------------------------
(* Helpers *)

Exists(a)  == approval[a] # None
IsNext(a)  == /\ ~Exists(a)
              /\ \A b \in Approvals : b < a => Exists(b)
IsNiche(a) == approval[a].run # None

\* Fault model: the deadline binds NICHE_TEST alone, as it did before line 233's comment.
ExpiredNicheOnly(a) == IsNiche(a) /\ approval[a].expires /\ late

Expired(a) == approval[a].expires /\ late

\* enqueueNotifyOnce: the upsert on (kind, approvalId) keeps a row it finds.
Announce(E, kind, a, status) ==
  IF \E ev \in E : ev.kind = kind /\ ev.approval = a THEN E
  ELSE E \union {[kind |-> kind, approval |-> a, status |-> status]}

\* enqueueApprovalRequestedNotification: only a pending, unexpired approval.
AnnounceRequest(E, a, row) ==
  IF row.status = "pending" /\ ~(row.expires /\ late)
  THEN Announce(E, "requested", a, "pending") ELSE E

NewRow(key, r, d, exp, prev) ==
  [status |-> "pending", key |-> key, run |-> r, doc |-> d, expires |-> exp,
   first |-> None, decidedBy |-> None, supersedes |-> prev,
   applied |-> FALSE]

-----------------------------------------------------------------------------
(* Create *)

\* createApproval for a gate other than NICHE_TEST.
CreateApproval(k, d, exp) ==
  /\ UNCHANGED <<brief, campaign, env>>
  /\ \/ \E a \in Approvals :
          /\ Exists(a) /\ approval[a].key = <<"caller", k>>
          \* The key must come back with the same content.
          /\ approval[a].doc = d /\ approval[a].expires = exp
          /\ events' = AnnounceRequest(events, a, approval[a])
          /\ UNCHANGED approval
     \/ \E a \in Approvals :
          LET row == NewRow(<<"caller", k>>, None, d, exp, None) IN
          /\ IsNext(a)
          /\ \A b \in Approvals : Exists(b) => approval[b].key # <<"caller", k>>
          /\ ~(exp /\ late)
          /\ approval' = [approval EXCEPT ![a] = row]
          /\ events' = AnnounceRequest(events, a, row)

\* createNicheBriefWithApproval: brief, approval and request move together.
CreateNicheBriefWithApproval(r, d) ==
  /\ r \in completed
  /\ UNCHANGED <<campaign, completed, t2, late>>
  /\ \/ /\ brief[r] # None
        /\ approval[brief[r].approval].doc = d
        /\ events' = AnnounceRequest(events, brief[r].approval, approval[brief[r].approval])
        /\ UNCHANGED <<approval, brief, briefed>>
     \/ \E a \in Approvals :
          LET row == NewRow(<<"niche-test", r>>, r, d, FALSE, None) IN
          /\ brief[r] = None
          /\ IsNext(a)
          /\ approval' = [approval EXCEPT ![a] = row]
          /\ brief' = [brief EXCEPT ![r] = [status |-> "pending_approval", approval |-> a, doc |-> d]]
          /\ briefed' = briefed \union {r}
          /\ events' = AnnounceRequest(events, a, row)

-----------------------------------------------------------------------------
(* Decide *)

\* loadNicheApprovalContext: the stored request, run and brief agree with the payload.
ChainMatches(a) ==
  LET r == approval[a].run IN
  /\ brief[r] # None
  /\ brief[r].approval = a
  /\ brief[r].doc = approval[a].doc
  /\ r \in completed
  /\ r \in briefed

NeedsTwo(a) == t2 # NoThreshold /\ CostOf(approval[a].doc) >= t2

Announced(kind, a, status) == events' = Announce(events, kind, a, status)

\* Fault model: a decline that tells nobody.
DeclineSilently(a, u) ==
  /\ approval[a].status = "pending"
  /\ approval' = [approval EXCEPT ![a].status = "declined", ![a].decidedBy = u]
  /\ UNCHANGED <<brief, campaign, events>>

Decline(a, u) ==
  /\ approval[a].status = "pending"
  /\ approval' = [approval EXCEPT ![a].status = "declined", ![a].decidedBy = u]
  /\ Announced("decided", a, "declined")
  /\ UNCHANGED <<brief, campaign>>

HoldForSecond(a, u) ==
  /\ approval[a].status = "pending" /\ ~Expired(a)
  /\ NeedsTwo(a) /\ approval[a].first = None
  /\ approval' = [approval EXCEPT ![a].first = u]
  /\ Announced("awaiting-second", a, "pending")
  /\ UNCHANGED <<brief, campaign>>

\* Fault model: one person tapping twice counts as two.
MayDecideTwice(a, u) == NeedsTwo(a) => approval[a].first # None

MayDecide(a, u) == NeedsTwo(a) => approval[a].first \notin {None, u}

\* Fault model: a surface calls the repository's decideApproval itself, and a
\* NICHE_TEST is decided without its side effects.
ApproveBare(a, u) ==
  /\ approval[a].status = "pending" /\ ~Expired(a)
  /\ MayDecide(a, u)
  /\ approval' = [approval EXCEPT ![a].status = "approved", ![a].decidedBy = u]
  /\ Announced("decided", a, "approved")
  /\ UNCHANGED <<brief, campaign>>

ApproveOther(a, u) ==
  /\ approval[a].status = "pending" /\ ~Expired(a) /\ ~IsNiche(a)
  /\ MayDecide(a, u)
  /\ approval' = [approval EXCEPT ![a].status = "approved", ![a].decidedBy = u]
  /\ Announced("decided", a, "approved")
  /\ UNCHANGED <<brief, campaign>>

\* markNicheBriefApproved, createCampaignForApprovedNicheTest and the marker,
\* for an approval decided by "decider"; taken again they change nothing.
ApplySideEffects(a, decider) ==
  LET r == approval[a].run IN
  /\ brief' = [brief EXCEPT ![r].status = "approved"]
  /\ campaign' = [campaign EXCEPT ![a] =
                    IF @ = None THEN [run |-> r, doc |-> approval[a].doc, createdBy |-> decider]
                    ELSE @]
  /\ approval' = [approval EXCEPT ![a].status = "approved", ![a].decidedBy = decider,
                                  ![a].applied = TRUE]
  /\ Announced("decided", a, "approved")

ApproveNiche(a, u) ==
  /\ approval[a].status = "pending" /\ ~Expired(a) /\ IsNiche(a)
  /\ ChainMatches(a)
  /\ MayDecide(a, u)
  /\ ApplySideEffects(a, u)

\* "already_final": the decision is announced and applied once more.
Replay(a) ==
  \/ /\ approval[a].status = "declined" \/ (approval[a].status = "approved" /\ ~IsNiche(a))
     /\ Announced("decided", a, approval[a].status)
     /\ UNCHANGED <<approval, brief, campaign>>
  \/ /\ approval[a].status = "approved" /\ IsNiche(a)
     /\ ChainMatches(a)
     /\ ApplySideEffects(a, approval[a].decidedBy)

\* decideApprovalWithSideEffects with decision "approve" and "decline".
Approve(a, u) ==
  /\ Exists(a)
  /\ \/ HoldForSecond(a, u) /\ (IsNiche(a) => ChainMatches(a))
     \/ ApproveOther(a, u)
     \/ ApproveNiche(a, u)
     \/ Replay(a)
  /\ UNCHANGED env

DeclineOrReplay(a, u) ==
  /\ Exists(a)
  /\ Decline(a, u) \/ Replay(a)
  /\ UNCHANGED env

-----------------------------------------------------------------------------
(* Revise *)

\* Fault model: the pointer stays at the superseded approval.
AdvanceDraftOnly(a, b, d) ==
  LET r == approval[a].run IN
  IF r = None THEN UNCHANGED brief
  ELSE brief' = [brief EXCEPT ![r].doc = d]

\* The brief's pointer and draft follow the revision, or the whole revision fails.
AdvanceBrief(a, b, d) ==
  LET r == approval[a].run IN
  IF r = None THEN UNCHANGED brief
  ELSE /\ brief[r] # None /\ brief[r].approval = a /\ brief[r].status = "pending_approval"
       /\ brief' = [brief EXCEPT ![r].approval = b, ![r].doc = d]

\* Fault model: only a superseded original refuses to be revised.
ReviseDecided(a, b, d) ==
  LET row == NewRow(<<"approval-revision", a>>, approval[a].run, d, approval[a].expires, a) IN
  /\ Exists(a) /\ approval[a].status # "superseded" /\ ~Expired(a)
  /\ IsNext(b)
  /\ approval' = [approval EXCEPT ![a].status = "superseded", ![b] = row]
  /\ AdvanceBrief(a, b, d)
  /\ events' = AnnounceRequest(Announce(events, "revised", a, "superseded"), b, row)
  /\ UNCHANGED <<campaign, env>>

\* Fault model: the revision inherits the first approval of what it replaces.
ReviseKeepingApprover(a, b, d) ==
  LET row == [NewRow(<<"approval-revision", a>>, approval[a].run, d, approval[a].expires, a)
                EXCEPT !.first = approval[a].first] IN
  /\ Exists(a) /\ approval[a].status = "pending" /\ ~Expired(a)
  /\ IsNext(b)
  /\ approval' = [approval EXCEPT ![a].status = "superseded", ![b] = row]
  /\ AdvanceBrief(a, b, d)
  /\ events' = AnnounceRequest(Announce(events, "revised", a, "superseded"), b, row)
  /\ UNCHANGED <<campaign, env>>

\* The pending original is superseded by row b, which starts without approvers.
Revise(a, b, d) ==
  LET row == NewRow(<<"approval-revision", a>>, approval[a].run, d, approval[a].expires, a) IN
  /\ Exists(a) /\ approval[a].status = "pending" /\ ~Expired(a)
  /\ IsNext(b)
  /\ approval' = [approval EXCEPT ![a].status = "superseded", ![b] = row]
  /\ AdvanceBrief(a, b, d)
  /\ events' = AnnounceRequest(Announce(events, "revised", a, "superseded"), b, row)
  /\ UNCHANGED <<campaign, env>>

\* "already_revised": both notifications again.
ReplayRevise(a, b) ==
  /\ Exists(a) /\ approval[a].status = "superseded"
  /\ Exists(b) /\ approval[b].supersedes = a
  /\ events' = AnnounceRequest(Announce(events, "revised", a, "superseded"), b, approval[b])
  /\ UNCHANGED <<approval, brief, campaign, env>>

-----------------------------------------------------------------------------
(* The rest of the system *)

\* completeResearchRun, and the stale writes of failResearchRun and
\* enqueueResearchRun that take a run or its request back (see ResearchQueue).
ResearchMoves(C, B) ==
  /\ C # completed \/ B # briefed
  /\ completed' = C
  /\ briefed' = B /\ B \subseteq {r \in Runs : brief[r] # None}
  /\ UNCHANGED <<rows, t2, late>>

SetThreshold(t) ==
  /\ t2' = t
  /\ UNCHANGED <<rows, completed, briefed, late>>

DeadlinePasses ==
  /\ ~late
  /\ late' = TRUE
  /\ UNCHANGED <<rows, completed, briefed, t2>>

Next ==
  \/ \E k \in Keys, d \in Docs, exp \in BOOLEAN : CreateApproval(k, d, exp)
  \/ \E r \in Runs, d \in Docs : CreateNicheBriefWithApproval(r, d)
  \/ \E a \in Approvals, u \in Users : Approve(a, u) \/ DeclineOrReplay(a, u)
  \/ \E a, b \in Approvals, d \in Docs : Revise(a, b, d)
  \/ \E a, b \in Approvals : ReplayRevise(a, b)
  \/ \E C, B \in SUBSET Runs : ResearchMoves(C, B)
  \/ \E t \in Thresholds : SetThreshold(t)
  \/ DeadlinePasses

Spec == Init /\ [][Next]_vars
-----------------------------------------------------------------------------
(* Properties *)

\* At or above the threshold in force when it is decided, an approval carries
\* two distinct approvers, however the threshold, the revisions and the taps of
\* the two surfaces interleave (decideApproval, lines 250-273).
TwoPersonRule ==
  [][\A a \in Approvals :
       /\ Exists(a) /\ approval[a].status = "pending"
       /\ approval'[a].status = "approved"
       /\ NeedsTwo(a)
       => approval[a].first \notin {None, approval'[a].decidedBy}]_vars

\* The audit chain has no hole and no fork: a row is superseded exactly when it
\* has a successor, never two, and each brief points at the one row of its run
\* that is still live or decided, whose content is its document (lines 285-295).
RevisionChain ==
  /\ \A a \in Approvals : Exists(a) =>
       (approval[a].status = "superseded" <=> \E b \in Approvals : Exists(b) /\ approval[b].supersedes = a)
  /\ \A a, b \in Approvals : Exists(a) /\ Exists(b) /\ approval[a].key = approval[b].key => a = b
  /\ \A b \in Approvals : Exists(b) /\ approval[b].supersedes # None =>
       /\ Exists(approval[b].supersedes)
       /\ approval[b].key = <<"approval-revision", approval[b].supersedes>>
       /\ approval[b].run = approval[approval[b].supersedes].run
  /\ \A a \in Approvals : Exists(a) /\ IsNiche(a) /\ approval[a].status # "superseded" =>
       /\ brief[approval[a].run] # None
       /\ brief[approval[a].run].approval = a
       /\ brief[approval[a].run].doc = approval[a].doc

\* A NICHE_TEST approval, its brief and its campaign are decided together: the
\* brief is approved exactly when its approval is, that approval launched exactly
\* one campaign, for the content approved and on behalf of whoever decided.
LaunchedOnce ==
  /\ \A a \in Approvals : campaign[a] # None <=> Exists(a) /\ IsNiche(a) /\ approval[a].status = "approved"
  /\ \A a \in Approvals : campaign[a] # None =>
       LET c == campaign[a] IN
       /\ c.run = approval[a].run /\ c.doc = approval[a].doc
       /\ c.createdBy = approval[a].decidedBy /\ approval[a].applied
       /\ brief[c.run].status = "approved" /\ brief[c.run].approval = a
  /\ \A r \in Runs : brief[r] # None /\ brief[r].status = "approved" => campaign[brief[r].approval] # None

\* The outbox never contradicts the row: each lifecycle event exists exactly
\* from the transaction that made it true, once, and a decision is announced
\* with the status the approval keeps.
EventsTellTheTruth ==
  \A a \in Approvals :
    LET said(kind, status) == [kind |-> kind, approval |-> a, status |-> status] \in events
        silent(kind) == \A ev \in events : ev.approval = a => ev.kind # kind IN
    IF ~Exists(a) THEN \A ev \in events : ev.approval # a
    ELSE /\ said("requested", "pending")
         /\ approval[a].status \in {"approved", "declined"} => said("decided", approval[a].status)
         /\ approval[a].status \notin {"approved", "declined"} => silent("decided")
         /\ said("decided", "approved") => ~said("decided", "declined")
         /\ IF approval[a].first = None THEN silent("awaiting-second") ELSE said("awaiting-second", "pending")
         /\ IF approval[a].status = "superseded" THEN said("revised", "superseded") ELSE silent("revised")

\* Approvals are immutable: no step rewrites a row's content or lineage, none
\* reopens or changes a decision, and no replay touches a launched campaign.
DecisionsAreFinal ==
  [][/\ \A a \in Approvals : Exists(a) =>
          /\ Exists(a)'
          /\ \A f \in {"key", "run", "doc", "expires", "supersedes"} :
               approval'[a][f] = approval[a][f]
          /\ approval[a].first # None => approval'[a].first = approval[a].first
          /\ approval[a].status # "pending" => approval'[a] = approval[a]
     /\ \A a \in Approvals : campaign[a] # None => campaign'[a] = campaign[a]]_vars

\* Once its deadline has passed an approval of any type can only be declined:
\* it is neither held, approved nor revised into a successor (lines 233-248, 336).
DeadlineBinds ==
  [][\A a \in Approvals : Exists(a) /\ approval[a].expires /\ late =>
       /\ approval'[a] # approval[a] => approval'[a].status = "declined"
       /\ \A b \in Approvals : Exists(b)' /\ ~Exists(b) => approval'[b].supersedes # a]_vars

-----------------------------------------------------------------------------
(* The gate as the rest of the system sees it *)

\* A run's gate is the row its brief points at, whichever revision that is.
GateOf(r) ==
  IF brief[r] = None THEN [state |-> "absent"]
  ELSE LET row == approval[brief[r].approval] IN
       [state |-> row.status, doc |-> row.doc, first |-> row.first]

LaunchesOf(r) ==
  {[id |-> a, doc |-> campaign[a].doc, by |-> campaign[a].createdBy] :
     a \in {a \in Approvals : campaign[a] # None /\ campaign[a].run = r}}

Gate == INSTANCE NicheGate
          WITH Ids      <- Approvals,
               gate     <- [r \in Runs |-> GateOf(r)],
               launched <- [r \in Runs |-> LaunchesOf(r)],
               costly   <- {d \in Docs : t2 # NoThreshold /\ CostOf(d) >= t2}

\* Rows, revisions, threshold changes, deadlines and replays together are the
\* plain gate: one draft at a time, approvers who saw that draft, one campaign
\* for what was approved, in the name of who approved it last.
ImplementsNicheGate == Gate!Spec
=============================================================================
