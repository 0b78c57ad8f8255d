----------------------------- MODULE NicheGate ------------------------------
(***************************************************************************)
(* What the NICHE_TEST gate promises about a research run, without rows,   *)
(* revisions, keys, outbox, deadlines or replays: a run shows one draft at *)
(* a time, a costly draft is approved by two people who saw that draft,    *)
(* and approving it launches one campaign, for that draft and in the name  *)
(* of the last of them.  ApprovalWorkflow implements this module.          *)
(***************************************************************************)
CONSTANTS Runs,   \* research runs
          Users,  \* who may decide
          Docs,   \* draft contents
          Ids,    \* identities of campaigns
          None    \* nobody

VARIABLES gate,     \* gate[r]: state, draft and first approver, or Absent
          launched, \* launched[r]: the campaigns of run r
          costly    \* the contents that need two people as things stand

vars == <<gate, launched, costly>>

Absent == [state |-> "absent"]

Init == /\ gate = [r \in Runs |-> Absent]
        /\ launched = [r \in Runs |-> {}]
        /\ costly \in SUBSET Docs

Fresh(d)   == [state |-> "pending", doc |-> d, first |-> None]
Pending(r) == gate[r].state = "pending"

Open(r, d) == /\ gate[r] = Absent
              /\ gate' = [gate EXCEPT ![r] = Fresh(d)]
              /\ UNCHANGED <<launched, costly>>

\* The first of two approvals.
Endorse(r, u) == /\ Pending(r)
                 /\ gate[r].doc \in costly /\ gate[r].first = None
                 /\ gate' = [gate EXCEPT ![r].first = u]
                 /\ UNCHANGED <<launched, costly>>

\* Whoever approved the draft before approved another one.
Redraft(r, d) == /\ Pending(r)
                 /\ gate' = [gate EXCEPT ![r] = Fresh(d)]
                 /\ UNCHANGED <<launched, costly>>

Approve(r, u) == /\ Pending(r)
                 /\ gate[r].doc \in costly => gate[r].first \notin {None, u}
                 /\ gate' = [gate EXCEPT ![r].state = "approved"]
                 /\ \E id \in Ids :
                      launched' = [launched EXCEPT ![r] = {[id |-> id, doc |-> gate[r].doc, by |-> u]}]
                 /\ UNCHANGED costly

Decline(r) == /\ Pending(r)
              /\ gate' = [gate EXCEPT ![r].state = "declined"]
              /\ UNCHANGED <<launched, costly>>

\* The owner moves the threshold.
Reprice(D) == /\ costly' = D
              /\ UNCHANGED <<gate, launched>>

Next == \/ \E r \in Runs, d \in Docs : Open(r, d) \/ Redraft(r, d)
        \/ \E r \in Runs, u \in Users : Endorse(r, u) \/ Approve(r, u)
        \/ \E r \in Runs : Decline(r)
        \/ \E D \in SUBSET Docs : Reprice(D)

Spec == Init /\ [][Next]_vars
=============================================================================
