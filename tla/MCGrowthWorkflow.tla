-------------------------- MODULE MCGrowthWorkflow --------------------------
(***************************************************************************)
(* The growth workflow for TLC: the research queue and the approvals its   *)
(* briefs wait for, side by side.  Neither reads a row of the other that   *)
(* the other could be surprised by (ApprovalWorkflow has the effect of     *)
(* research on it as actions of its own), so one of them moves in a        *)
(* behaviour, and the state space is the sum of theirs.                    *)
(*                                                                         *)
(* Approvals: one cheap and one dear content, three rows.  Research: two   *)
(* requests and two runs, numbered by age, under two open transactions.    *)
(* No handler of the queue asks which agent calls, so one agent, calling   *)
(* twice at once, is as good as two.                                       *)
(***************************************************************************)
EXTENDS ApprovalWorkflow, ResearchQueue, TLC

VARIABLE part
researchState == <<request, run, briefs, call, puts, handouts>>
growthVars == <<part, vars, researchState>>

CONSTANTS cheap, dear
Cost(d) == IF d = dear THEN 2 ELSE 1
ThreeRows == {1, 2, 3}
AlwaysOrNever == {2, NoThreshold}
TwoRuns == {1, 2}
Older(r, s) == r < s

Symmetry == Permutations(Users) \union Permutations(Requests) \union Permutations(Calls)

GrowthInit ==
  /\ part \in {"approvals", "research"}
  /\ Init /\ (part = "research" => t2 = NoThreshold)
  /\ ResearchInit

GrowthNext ==
  \/ part = "approvals" /\ Next /\ UNCHANGED <<part, researchState>>
  \/ /\ part = "research" /\ ResearchNext   \* one of the runs is queued again
     /\ puts'[2] <= 1
     /\ UNCHANGED <<part, vars>>

GrowthSpec == GrowthInit /\ [][GrowthNext]_growthVars
=============================================================================
