------------------------- MODULE NotifyOutboxProofs -------------------------
(***************************************************************************)
(* The safety properties of NotifyOutbox for any rows, workers, limits and *)
(* timings the configuration check accepts.                                *)
(***************************************************************************)
EXTENDS NotifyOutbox, TLAPS

USE DEF rowVars, workerVars, envVars

\* Every delay the outbox computes is a legal retry timer (lines 114-119).
LEMMA BackoffType == ASSUME NEW n PROVE Backoff(n) \in 0..RetryMax
BY ConfigAssumption DEF Backoff

LEMMA Minus1Type == ASSUME NEW n \in Nat, NEW m \in 0..n PROVE Minus1(m) \in 0..n
BY DEF Minus1

\* A holder's row and token are those of its claim.
LEMMA HoldsType ==
  ASSUME TypeOK, NEW w \in Workers, work[w] # NoWork
  PROVE  work[w] \in Works /\ work[w].row \in Events /\ work[w].tried \in Nat
BY DEF TypeOK, Works

LEMMA TypeInit == Init => TypeOK
BY ConfigAssumption DEF Init, TypeOK, PCs, Statuses

LEMMA SettleType ==
  ASSUME TypeOK, NEW w \in Workers, work[w] # NoWork,
         SettleDelivered(w) \/ SettleFailed(w) \/ UNCHANGED rowVars
  PROVE  /\ status' \in [Events -> Statuses]
         /\ attempts' \in [Events -> Nat]
         /\ claim' \in [Events -> Claims \union {NoClaim}]
         /\ lease' \in [Events -> 0..LeaseTicks]
         /\ retry' \in [Events -> 0..RetryMax]
<1> USE HoldsType, ConfigAssumption, BackoffType
<1>1. CASE SettleDelivered(w)
  BY <1>1 DEF SettleDelivered, WriteDelivered, TypeOK, Statuses
<1>2. CASE SettleFailed(w)
  BY <1>2 DEF SettleFailed, WriteFailure, TypeOK, Statuses
<1>3. CASE UNCHANGED rowVars
  BY <1>3 DEF TypeOK
<1> QED BY <1>1, <1>2, <1>3

\* Releasing a worker leaves it typed.
LEMMA ReleaseType ==
  ASSUME TypeOK, NEW w \in Workers, NEW next \in PCs, Release(w, next)
  PROVE  /\ pc' \in [Workers -> PCs]
         /\ work' \in [Workers -> Works \union {NoWork}]
         /\ timer' \in [Workers -> 0..TimeoutTicks]
BY ConfigAssumption DEF TypeOK, Release

LEMMA ElapseType ==
  ASSUME TypeOK, Elapse
  PROVE  /\ lease' \in [Events -> 0..LeaseTicks]
         /\ retry' \in [Events -> 0..RetryMax]
         /\ timer' \in [Workers -> 0..TimeoutTicks]
BY Minus1Type, ConfigAssumption DEF TypeOK, Elapse

LEMMA AbandonType ==
  ASSUME TypeOK, NEW w \in Workers, pc[w] = "sending" => work[w] # NoWork,
         pc[w] = "sending", Abandon(w)
  PROVE  botSeen' \subseteq Events /\ late' \subseteq Events
BY HoldsType DEF TypeOK, Abandon

\* Types are preserved by every step from a state where busy workers carry a row.
LEMMA TypeStep == TypeOK /\ WorkInv /\ [Next]_vars => TypeOK'
<1> SUFFICES ASSUME TypeOK, WorkInv, [Next]_vars PROVE TypeOK'
  OBVIOUS
<1>w. ASSUME NEW w \in Workers, pc[w] \in Busy
      PROVE  work[w] \in Works /\ work[w] # NoWork /\ work[w].row \in Events
  BY <1>w, HoldsType DEF WorkInv
<1>1. ASSUME NEW e \in Events, EnqueueNotifyOnce(e) PROVE TypeOK'
  BY <1>1 DEF EnqueueNotifyOnce, Upsert, TypeOK, Statuses
<1>2. ASSUME NEW e \in Events, BotReceivesLate(e) PROVE TypeOK'
  BY <1>2 DEF BotReceivesLate, TypeOK
<1>3. ASSUME NEW n \in AttemptLimits, Reconfigure(n) PROVE TypeOK'
  BY <1>3 DEF Reconfigure, TypeOK
<1>4. ASSUME NEW w \in Workers, StartDrain(w) PROVE TypeOK'
  BY <1>4, ConfigAssumption DEF StartDrain, TypeOK, PCs, Statuses
<1>5. ASSUME NEW w \in Workers, NEW e \in Events, NEW t \in Tokens, ClaimNextNotify(w, e, t)
      PROVE  TypeOK'
  BY <1>5, ConfigAssumption
     DEF ClaimNextNotify, LeaseLength, TypeOK, PCs, Busy, Works, Claims
<1>6. ASSUME NEW w \in Workers, EndDrain(w) PROVE TypeOK'
  BY <1>6, ConfigAssumption DEF EndDrain, TypeOK, PCs
<1>7. ASSUME NEW w \in Workers, BotAcknowledges(w) PROVE TypeOK'
  BY <1>7, <1>w, ConfigAssumption DEF BotAcknowledges, TypeOK, PCs, Busy
<1>8. ASSUME NEW w \in Workers, BotAnswersBadly(w) PROVE TypeOK'
  BY <1>8, <1>w, ConfigAssumption DEF BotAnswersBadly, TypeOK, PCs, Busy
<1>9. ASSUME NEW w \in Workers, SendTimesOut(w) PROVE TypeOK'
  BY <1>9, <1>w, AbandonType DEF SendTimesOut, TypeOK, PCs, Busy
<1>10. ASSUME NEW w \in Workers, AckSettles(w) PROVE TypeOK'
  BY <1>10, <1>w, SettleType, ReleaseType DEF AckSettles, TypeOK, PCs, Busy
<1>11. ASSUME NEW w \in Workers, FailureSettles(w) PROVE TypeOK'
  BY <1>11, <1>w, SettleType, ReleaseType DEF FailureSettles, TypeOK, PCs, Busy
<1>12. ASSUME NEW w \in Workers, AckThrows(w) PROVE TypeOK'
  BY <1>12, <1>w, SettleType, ConfigAssumption DEF AckThrows, Fault, TypeOK, PCs, Busy
<1>13. ASSUME NEW w \in Workers, FailureThrows(w) PROVE TypeOK'
  BY <1>13, <1>w, SettleType, ReleaseType, ConfigAssumption
     DEF FailureThrows, Fault, TypeOK, PCs, Busy
<1>14. ASSUME NEW w \in Workers, Crash(w) PROVE TypeOK'
  <2>1. botSeen' \subseteq Events /\ late' \subseteq Events
    BY <1>14, <1>w, AbandonType DEF Crash, TypeOK, Busy
  <2> QED BY <1>14, <2>1, ReleaseType, ConfigAssumption DEF Crash, Fault, TypeOK, PCs
<1>15. CASE Tick
  BY <1>15, ElapseType DEF Tick, Elapse, TypeOK
<1>16. CASE Stall
  BY <1>16, ElapseType, ConfigAssumption DEF Stall, Fault, Elapse, TypeOK
<1>17. CASE UNCHANGED vars
  BY <1>17 DEF vars, TypeOK
<1> QED
  BY <1>1, <1>2, <1>3, <1>4, <1>5, <1>6, <1>7, <1>8, <1>9, <1>10, <1>11, <1>12,
     <1>13, <1>14, <1>15, <1>16, <1>17
  DEF Next, WorkerStep

-----------------------------------------------------------------------------
(* The inductive invariant *)

Rest == WorkInv /\ SettledRowsAreFree /\ LateWasEnqueued /\ DeliveredWasAccepted /\ HealthyLease

LEMMA InvInit == Init => Inv
<1> SUFFICES ASSUME Init PROVE Inv
  OBVIOUS
<1>1. TypeOK
  BY TypeInit
<1>2. Rest
  BY DEF Init, Rest, WorkInv, SettledRowsAreFree, LateWasEnqueued, DeliveredWasAccepted,
         HealthyLease, Busy, Holds
<1> QED BY <1>1, <1>2 DEF Inv, Rest

\* Two workers never hold the same row: a claim names one worker.
LEMMA OneHolder ==
  ASSUME NEW v \in Workers, NEW w \in Workers, Holds(v), Holds(w), work[v].row = work[w].row
  PROVE  v = w
BY DEF Holds

\* Settling a held row keeps every part of the invariant that speaks of rows.
Settles(w) == \/ UNCHANGED rowVars
              \/ Holds(w) /\ pc[w] = "accepted" /\ WriteDelivered(w)
              \/ Holds(w) /\ pc[w] = "failed" /\ WriteFailure(w)

ClaimOf(v) == [by |-> v, token |-> work[v].token]

\* A settling update of row e frees it, touches no other row, and delivers it
\* only when its worker has the acknowledgement.
LEMMA SettleOneRow ==
  ASSUME Inv, NEW w \in Workers, NEW e \in Events, work[w] # NoWork, e = work[w].row,
         Holds(w),
         (WriteDelivered(w) /\ pc[w] = "accepted") \/ WriteFailure(w)
  PROVE  /\ \A f \in Events \ {e} : /\ status[f]' = status[f] /\ attempts[f]' = attempts[f]
                                    /\ claim[f]' = claim[f] /\ lease[f]' = lease[f]
         /\ claim[e]' = NoClaim
         /\ status[e] = "pending"
         /\ attempts[e]' = attempts[e] + 1
         /\ status[e]' \in {"pending", "delivered", "dead"}
         /\ status[e]' = "delivered" => e \in botSeen
<1>1. status[e] = "pending" /\ attempts[e] = work[w].tried /\ (pc[w] = "accepted" => e \in botSeen)
  BY DEF Inv, WorkInv
<1>2. CASE WriteDelivered(w) /\ pc[w] = "accepted"
  BY <1>1, <1>2 DEF WriteDelivered, Inv, TypeOK
<1>3. CASE WriteFailure(w)
  BY <1>1, <1>3 DEF WriteFailure, Inv, TypeOK
<1> QED BY <1>2, <1>3

\* What a settlement by w keeps: rows stay enqueued, delivered rows are the
\* Bot's, settled rows are free, and no other worker's row is disturbed.
SettleKeeps(w) ==
  /\ \A f \in Events : status[f] # "absent" => status[f]' # "absent"
  /\ \A f \in Events : status[f]' = "delivered" => f \in botSeen
  /\ \A f \in Events : status[f]' # "pending" => claim[f]' = NoClaim
  /\ \A v \in Workers \ {w}, r \in Events : work[v] # NoWork /\ r = work[v].row =>
       /\ Holds(v) => /\ status[r]' = status[r] /\ attempts[r]' = attempts[r]
                      /\ claim[r]' = claim[r] /\ lease[r]' = lease[r]
       /\ claim[r]' = ClaimOf(v) => Holds(v)

LEMMA ClaimIsReal ==
  ASSUME TypeOK, NEW v \in Workers, work[v] # NoWork
  PROVE  ClaimOf(v) # NoClaim
BY HoldsType, NoClaimAssumption DEF ClaimOf, Works

LEMMA SettleHeldKeeps ==
  ASSUME Inv, NEW w \in Workers, work[w] # NoWork, Holds(w),
         (WriteDelivered(w) /\ pc[w] = "accepted") \/ WriteFailure(w)
  PROVE  SettleKeeps(w)
<1>1. PICK e \in Events : e = work[w].row
  BY HoldsType DEF Inv
<1>2. /\ \A f \in Events \ {e} : /\ status[f]' = status[f] /\ attempts[f]' = attempts[f]
                                 /\ claim[f]' = claim[f] /\ lease[f]' = lease[f]
      /\ claim[e]' = NoClaim
      /\ status[e] = "pending"
      /\ status[e]' \in {"pending", "delivered", "dead"}
      /\ status[e]' = "delivered" => e \in botSeen
  BY <1>1, SettleOneRow
<1>3. /\ \A f \in Events : status[f]' # "pending" => claim[f]' = NoClaim
      /\ \A f \in Events : status[f] # "absent" => status[f]' # "absent"
      /\ \A f \in Events : status[f]' = "delivered" => f \in botSeen
  BY <1>2 DEF Inv, SettledRowsAreFree, DeliveredWasAccepted
<1>4. ASSUME NEW v \in Workers \ {w}, NEW r \in Events, work[v] # NoWork, r = work[v].row
      PROVE  /\ Holds(v) => /\ status[r]' = status[r] /\ attempts[r]' = attempts[r]
                            /\ claim[r]' = claim[r] /\ lease[r]' = lease[r]
             /\ claim[r]' = ClaimOf(v) => Holds(v)
  <2>1. CASE r = e
    BY <1>1, <1>2, <1>4, <2>1, OneHolder, ClaimIsReal DEF Inv
  <2>2. CASE r # e
    BY <1>2, <1>4, <2>2 DEF Holds, ClaimOf
  <2> QED BY <2>1, <2>2
<1> QED BY <1>3, <1>4 DEF SettleKeeps

\* Settling, whether or not the worker still holds its row.
LEMMA SettleRows ==
  ASSUME Inv, NEW w \in Workers, pc[w] \in Busy, Settles(w)
  PROVE  SettleKeeps(w)
<1>1. work[w] # NoWork
  BY DEF Inv, WorkInv
<1>2. CASE UNCHANGED rowVars
  BY <1>2 DEF Inv, SettledRowsAreFree, DeliveredWasAccepted, Holds, ClaimOf, SettleKeeps
<1>3. CASE Holds(w) /\ pc[w] = "accepted" /\ WriteDelivered(w)
  BY <1>1, <1>3, SettleHeldKeeps
<1>4. CASE Holds(w) /\ pc[w] = "failed" /\ WriteFailure(w)
  BY <1>1, <1>4, SettleHeldKeeps
<1> QED BY <1>2, <1>3, <1>4 DEF Settles

\* The rest of the invariant after w settled its row and let go of it.
LEMMA ReleasedRest ==
  ASSUME Inv, NEW w \in Workers, pc[w] \in Busy, Settles(w),
         NEW next \in PCs \ Busy, Release(w, next),
         UNCHANGED <<botSeen, late>>, faults' = 0 => faults = 0
  PROVE  Rest'
<1>k. SettleKeeps(w)
  BY SettleRows
<1>p. /\ pc'[w] \notin Busy /\ work'[w] = NoWork
      /\ \A v \in Workers \ {w} : pc'[v] = pc[v] /\ work'[v] = work[v] /\ timer'[v] = timer[v]
  BY DEF Release, Inv, TypeOK
<1>r. \A v \in Workers : work[v] # NoWork => work[v].row \in Events
  BY HoldsType DEF Inv
<1>h. \A v \in Workers \ {w} : work[v] # NoWork /\ Holds(v)' => Holds(v)
  BY <1>k, <1>p, <1>r DEF Holds, SettleKeeps, ClaimOf
<1>1. ASSUME NEW v \in Workers
      PROVE  WorkInv!(v)'
  <2>1. CASE v = w
    BY <1>p, <2>1 DEF Holds, Busy
  <2>2. CASE v # w
    BY <1>k, <1>p, <1>r, <1>h, <2>2 DEF Holds, SettleKeeps, Inv, WorkInv
  <2> QED BY <2>1, <2>2
<1>2. SettledRowsAreFree' /\ LateWasEnqueued' /\ DeliveredWasAccepted'
  BY <1>k DEF SettleKeeps, SettledRowsAreFree, LateWasEnqueued, DeliveredWasAccepted, Inv, TypeOK
<1>3. HealthyLease'
  BY <1>k, <1>p, <1>r DEF SettleKeeps, HealthyLease, Inv, WorkInv, Holds
<1> QED BY <1>1, <1>2, <1>3 DEF Rest, WorkInv

LEMMA RestStep == Inv /\ TypeOK' /\ [Next]_vars => Rest'
<1> SUFFICES ASSUME Inv, TypeOK', [Next]_vars PROVE Rest'
  OBVIOUS
<1> USE DEF Inv, Rest, WorkInv, SettledRowsAreFree, LateWasEnqueued, DeliveredWasAccepted,
            HealthyLease, Busy
<1>r. \A v \in Workers : work[v] # NoWork => work[v].row \in Events /\ work[v].tried \in Nat
  BY HoldsType
<1>1. ASSUME NEW e \in Events, EnqueueNotifyOnce(e) PROVE Rest'
  <2>1. /\ \A f \in Events : status[f] # "absent" => status[f]' = status[f]
        /\ status[e]' # "absent"
        /\ \A f \in Events : status[f]' # status[f] => status[f] = "absent" /\ status[f]' = "pending"
    BY <1>1 DEF EnqueueNotifyOnce, Upsert, TypeOK
  <2>2. UNCHANGED <<attempts, claim, lease, pc, work, timer, botSeen, late, faults>>
    BY <1>1 DEF EnqueueNotifyOnce
  <2>3. \A v \in Workers : Holds(v)' <=> Holds(v)
    BY <2>2 DEF Holds
  <2>4. ASSUME NEW v \in Workers PROVE WorkInv!(v)'
    <3>1. /\ pc[v]' \in Busy <=> work[v]' # NoWork
          /\ pc[v]' = "accepted" => work[v].row' \in botSeen'
      BY <2>2
    <3>2. \A r \in Events : work[v] # NoWork /\ pc[v] \in Busy /\ r = work[v].row =>
            status[r]' # "absent"
      BY <2>1
    <3>3. \A r \in Events : work[v] # NoWork /\ Holds(v) /\ r = work[v].row =>
            status[r]' = "pending" /\ attempts[r]' = work[v].tried
      BY <2>1, <2>2
    <3> QED BY <1>r, <2>2, <2>3, <3>1, <3>2, <3>3 DEF Holds
  <2>5. SettledRowsAreFree' /\ LateWasEnqueued' /\ DeliveredWasAccepted'
    BY <2>1, <2>2 DEF TypeOK
  <2>6. HealthyLease'
    BY <2>2, <2>3
  <2> QED BY <2>4, <2>5, <2>6
<1>2. ASSUME NEW e \in Events, BotReceivesLate(e) PROVE Rest'
  BY <1>2, <1>r DEF BotReceivesLate, Holds
<1>3. ASSUME NEW n \in AttemptLimits, Reconfigure(n) PROVE Rest'
  BY <1>3, <1>r DEF Reconfigure, Holds
<1>4. ASSUME NEW w \in Workers, StartDrain(w) PROVE Rest'
  <2>1. /\ \A f \in Events : \/ UNCHANGED <<status[f], claim[f], attempts[f], lease[f]>>
                             \/ /\ status[f] = "pending" /\ status[f]' = "dead"
                                /\ claim[f]' = NoClaim /\ lease[f] = 0
        /\ UNCHANGED <<attempts, lease, work, timer, botSeen, late, faults>>
        /\ pc[w] = "idle" /\ pc' = [pc EXCEPT ![w] = "drain"]
    BY <1>4 DEF StartDrain, Exhausted, Unleased, TypeOK
  <2>2. \A v \in Workers : work[v] # NoWork /\ Holds(v)' => Holds(v) /\ UNCHANGED status[work[v].row]
    BY <1>r, <2>1, ClaimIsReal DEF Holds, ClaimOf
  <2>3. ASSUME NEW v \in Workers PROVE WorkInv!(v)'
    BY <1>r, <2>1, <2>2 DEF TypeOK, Holds
  <2>4. SettledRowsAreFree' /\ LateWasEnqueued' /\ DeliveredWasAccepted'
    BY <2>1 DEF TypeOK
  <2>5. ASSUME NEW v \in Workers, faults = 0, pc'[v] \in Busy
        PROVE  Holds(v)' /\ timer'[v] < lease'[work'[v].row]
    BY <1>r, <2>1, <2>5, ConfigAssumption DEF TypeOK, Holds
  <2> QED BY <2>1, <2>3, <2>4, <2>5
<1>5. ASSUME NEW w \in Workers, NEW e \in Events, NEW t \in Tokens, ClaimNextNotify(w, e, t)
      PROVE  Rest'
  BY <1>5, <1>r, NoClaimAssumption, ConfigAssumption
     DEF ClaimNextNotify, Claimable, FreshTokens, Unleased, LeaseLength, Holds, TypeOK, Claims
<1>6. ASSUME NEW w \in Workers, EndDrain(w) PROVE Rest'
  BY <1>6, <1>r DEF EndDrain, Holds, TypeOK
<1>7. ASSUME NEW w \in Workers, BotAcknowledges(w) PROVE Rest'
  BY <1>7, <1>r, ConfigAssumption DEF BotAcknowledges, Holds, TypeOK
<1>8. ASSUME NEW w \in Workers, BotAnswersBadly(w) PROVE Rest'
  BY <1>8, <1>r, ConfigAssumption DEF BotAnswersBadly, Holds, TypeOK
<1>9. ASSUME NEW w \in Workers, SendTimesOut(w) PROVE Rest'
  <2>1. /\ UNCHANGED <<rowVars, work, timer, faults>>
        /\ pc[w] = "sending" /\ pc' = [pc EXCEPT ![w] = "failed"]
    BY <1>9 DEF SendTimesOut
  <2>2. botSeen \subseteq botSeen' /\ late' \subseteq late \union {work[w].row}
    BY <1>9 DEF SendTimesOut, Abandon
  <2>3. WorkInv' /\ HealthyLease'
    BY <1>r, <2>1, <2>2 DEF Holds, TypeOK
  <2>4. SettledRowsAreFree' /\ LateWasEnqueued' /\ DeliveredWasAccepted'
    BY <1>r, <2>1, <2>2 DEF TypeOK
  <2> QED BY <2>3, <2>4
<1>10. ASSUME NEW w \in Workers, AckSettles(w) PROVE Rest'
  <2>1. Settles(w)
    BY <1>10 DEF AckSettles, SettleDelivered, Settles
  <2> QED BY <1>10, <2>1, ReleasedRest DEF AckSettles, PCs
<1>11. ASSUME NEW w \in Workers, FailureSettles(w) PROVE Rest'
  <2>1. Settles(w)
    BY <1>11 DEF FailureSettles, SettleFailed, Settles
  <2> QED BY <1>11, <2>1, ReleasedRest DEF FailureSettles, PCs
<1>12. ASSUME NEW w \in Workers, AckThrows(w) PROVE Rest'
  <2>1. Settles(w)
    BY <1>12 DEF AckThrows, SettleDelivered, Settles
  <2>2. SettleKeeps(w)
    BY <1>12, <2>1, SettleRows DEF AckThrows
  <2>3. faults' # 0 /\ UNCHANGED <<work, timer, botSeen, late>>
    BY <1>12 DEF AckThrows, Fault, TypeOK
  <2>4. work[w] # NoWork /\ pc' = [pc EXCEPT ![w] = "failed"]
    BY <1>12 DEF AckThrows
  <2>5. \A v \in Workers \ {w} : work[v] # NoWork /\ Holds(v)' => Holds(v)
    BY <1>r, <2>2, <2>3 DEF Holds, SettleKeeps, ClaimOf
  <2>6. Holds(w)' => UNCHANGED rowVars
    BY <1>12, <1>r, <2>3, <2>4, ClaimIsReal
       DEF AckThrows, SettleDelivered, WriteDelivered, Holds, ClaimOf, TypeOK
  <2>7. ASSUME NEW v \in Workers PROVE WorkInv!(v)'
    <3>1. CASE v = w
      BY <1>r, <2>2, <2>3, <2>4, <2>6, <3>1 DEF SettleKeeps, Holds, TypeOK
    <3>2. CASE v # w
      BY <1>r, <2>2, <2>3, <2>4, <2>5, <3>2 DEF SettleKeeps, Holds, TypeOK
    <3> QED BY <3>1, <3>2
  <2>8. SettledRowsAreFree' /\ LateWasEnqueued' /\ DeliveredWasAccepted'
    BY <2>2, <2>3 DEF SettleKeeps, TypeOK
  <2> QED BY <2>3, <2>7, <2>8
<1>13. ASSUME NEW w \in Workers, FailureThrows(w) PROVE Rest'
  <2>1. Settles(w)
    BY <1>13 DEF FailureThrows, SettleFailed, Settles
  <2> QED BY <1>13, <2>1, ReleasedRest DEF FailureThrows, Fault, PCs, TypeOK
<1>14. ASSUME NEW w \in Workers, Crash(w) PROVE Rest'
  <2>1. /\ UNCHANGED rowVars /\ faults' # 0
        /\ pc' = [pc EXCEPT ![w] = "idle"] /\ work' = [work EXCEPT ![w] = NoWork]
    BY <1>14 DEF Crash, Fault, Release, TypeOK
  <2>2. /\ botSeen \subseteq botSeen'
        /\ late' \subseteq late \union (IF pc[w] = "sending" THEN {work[w].row} ELSE {})
    BY <1>14 DEF Crash, Abandon
  <2>3. ASSUME NEW v \in Workers PROVE WorkInv!(v)'
    BY <1>r, <2>1, <2>2 DEF Holds, TypeOK
  <2>4. SettledRowsAreFree' /\ LateWasEnqueued' /\ DeliveredWasAccepted'
    BY <1>r, <2>1, <2>2 DEF TypeOK
  <2> QED BY <2>1, <2>3, <2>4
<1>15. CASE Tick
  BY <1>15, <1>r DEF Tick, KeepsUp, Elapse, Minus1, Holds, TypeOK
<1>16. CASE Stall
  BY <1>16, <1>r DEF Stall, Fault, Elapse, Holds, TypeOK
<1>17. CASE UNCHANGED vars
  BY <1>17, <1>r DEF vars, Holds
<1> QED
  BY <1>1, <1>2, <1>3, <1>4, <1>5, <1>6, <1>7, <1>8, <1>9, <1>10, <1>11, <1>12,
     <1>13, <1>14, <1>15, <1>16, <1>17
  DEF Next, WorkerStep

\* The invariant is inductive: every action, and every stutter, preserves it.
THEOREM InvStep == Inv /\ [Next]_vars => Inv'
BY TypeStep, RestStep DEF Inv, Rest

\* Every state the outbox reaches satisfies the invariant the proofs rest on.
THEOREM InvHolds == Spec => []Inv
BY InvInit, InvStep, PTL DEF Spec

-----------------------------------------------------------------------------
(* Safety *)

\* Types: the row and worker state spaces, timers within their configuration.
THEOREM TypeCorrect == Spec => []TypeOK
<1>1. Inv => TypeOK
  BY DEF Inv
<1> QED BY <1>1, InvHolds, PTL

\* A row is only ever marked delivered when the Bot accepted its event.
THEOREM DeliveredOnlyWhatTheBotHas == Spec => []DeliveredWasAccepted
<1>1. Inv => DeliveredWasAccepted
  BY DEF Inv
<1> QED BY <1>1, InvHolds, PTL

\* With leaseMs > timeoutMs no worker loses its claim before a fault.
THEOREM HealthyClaims == Spec => []HealthyWorkersKeepTheirClaim
<1>1. Inv => HealthyWorkersKeepTheirClaim
  BY DEF Inv, HealthyLease, HealthyWorkersKeepTheirClaim
<1> QED BY <1>1, InvHolds, PTL

-----------------------------------------------------------------------------
(* Action properties *)

\* The steps by which a row changes: enqueued, swept at the start of a drain
\* call, or settled by the worker that holds it.
RowStep ==
  \/ UNCHANGED <<status, attempts>>
  \/ \E e \in Events : EnqueueNotifyOnce(e)
  \/ \E w \in Workers : StartDrain(w)
  \/ \E w \in Workers : /\ Holds(w) /\ work[w] # NoWork
                        /\ (pc[w] = "accepted" /\ WriteDelivered(w)) \/ WriteFailure(w)
                        /\ pc[w]' # pc[w]

LEMMA RowStepOfNext == Inv /\ [Next]_vars => RowStep
<1> SUFFICES ASSUME Inv, [Next]_vars PROVE RowStep
  OBVIOUS
<1>1. ASSUME NEW w \in Workers,
             AckSettles(w) \/ FailureSettles(w) \/ AckThrows(w) \/ FailureThrows(w)
      PROVE  RowStep
  <2>1. pc[w]' # pc[w]
    BY <1>1 DEF AckSettles, FailureSettles, AckThrows, FailureThrows, Release, Inv, TypeOK
  <2>2. \/ UNCHANGED rowVars
        \/ Holds(w) /\ ((pc[w] = "accepted" /\ WriteDelivered(w)) \/ WriteFailure(w))
    BY <1>1 DEF AckSettles, FailureSettles, AckThrows, FailureThrows, SettleDelivered, SettleFailed
  <2> QED BY <2>1, <2>2 DEF RowStep, Holds
<1>2. ASSUME NEW w \in Workers,
             \/ EndDrain(w) \/ SendTimesOut(w) \/ BotAcknowledges(w) \/ BotAnswersBadly(w)
             \/ Crash(w) \/ \E e \in Events, t \in Tokens : ClaimNextNotify(w, e, t)
      PROVE  RowStep
  BY <1>2 DEF EndDrain, SendTimesOut, BotAcknowledges, BotAnswersBadly, Crash, ClaimNextNotify,
              RowStep
<1>3. CASE \/ Tick \/ Stall \/ UNCHANGED vars
           \/ \E n \in AttemptLimits : Reconfigure(n)
           \/ \E e \in Events : BotReceivesLate(e)
  BY <1>3 DEF Tick, Stall, Elapse, vars, Reconfigure, BotReceivesLate, RowStep
<1>4. CASE \/ \E e \in Events : EnqueueNotifyOnce(e)
           \/ \E w \in Workers : StartDrain(w)
  BY <1>4 DEF RowStep
<1> QED BY <1>1, <1>2, <1>3, <1>4 DEF Next, WorkerStep

\* Delivered and dead-lettered rows are final and attempts count one by one,
\* however leases lapse and workers race.
THEOREM SettledOnceHolds == Spec => SettledOnce
<1> DEFINE Final == \A e \in Events :
                      /\ status[e] \in {"delivered", "dead"} =>
                           status[e]' = status[e] /\ attempts[e]' = attempts[e]
                      /\ attempts[e]' \in {attempts[e], attempts[e] + 1}
<1>1. Inv /\ [Next]_vars => Final
  <2> SUFFICES ASSUME Inv, [Next]_vars PROVE Final
    OBVIOUS
  <2>1. CASE UNCHANGED <<status, attempts>>
    BY <2>1
  <2>2. ASSUME NEW e \in Events, EnqueueNotifyOnce(e) PROVE Final
    BY <2>2 DEF EnqueueNotifyOnce, Upsert, Inv, TypeOK
  <2>3. ASSUME NEW w \in Workers, StartDrain(w) PROVE Final
    BY <2>3 DEF StartDrain, Exhausted, Inv, TypeOK
  <2>4. ASSUME NEW w \in Workers, Holds(w), work[w] # NoWork,
               (pc[w] = "accepted" /\ WriteDelivered(w)) \/ WriteFailure(w)
        PROVE  Final
    <3>1. PICK e \in Events : e = work[w].row
      BY <2>4, HoldsType DEF Inv
    <3> QED BY <2>4, <3>1, SettleOneRow
  <2> QED BY <2>1, <2>2, <2>3, <2>4, RowStepOfNext DEF RowStep
<1> QED BY <1>1, InvHolds, PTL DEF Spec, SettledOnce

\* A row is dead-lettered only at the limit of the call that gives it up.
THEOREM DeadLetterAtTheLimitHolds == Spec => DeadLetterAtTheLimit
<1> DEFINE AtLimit == \A e \in Events : status[e] = "pending" /\ status[e]' = "dead" =>
                        \E w \in Workers :
                          /\ pc[w]' # pc[w]
                          /\ attempts[e]' >= IF pc[w] = "idle" THEN maxAttempts ELSE limit[w]
<1>1. Inv /\ [Next]_vars => AtLimit
  <2> SUFFICES ASSUME Inv, [Next]_vars PROVE AtLimit
    OBVIOUS
  <2>1. CASE UNCHANGED <<status, attempts>>
    BY <2>1
  <2>2. ASSUME NEW e \in Events, EnqueueNotifyOnce(e) PROVE AtLimit
    BY <2>2 DEF EnqueueNotifyOnce, Upsert, Inv, TypeOK
  <2>3. ASSUME NEW w \in Workers, StartDrain(w) PROVE AtLimit
    BY <2>3 DEF StartDrain, Exhausted, Inv, TypeOK
  <2>4. ASSUME NEW w \in Workers, Holds(w), work[w] # NoWork, pc[w]' # pc[w],
               (pc[w] = "accepted" /\ WriteDelivered(w)) \/ WriteFailure(w)
        PROVE  AtLimit
    BY <2>4, HoldsType DEF WriteDelivered, WriteFailure, Terminal, Inv, TypeOK, WorkInv, Busy
  <2> QED BY <2>1, <2>2, <2>3, <2>4, RowStepOfNext DEF RowStep
<1> QED BY <1>1, InvHolds, PTL DEF Spec, DeadLetterAtTheLimit

\* A claim under a live lease leaves its holder only by the holder's own step.
THEOREM LeaseRespectedHolds == Spec => LeaseRespected
<1> DEFINE Kept == \A w \in Workers : Holds(w) /\ ~Unleased(work[w].row) => Holds(w)' \/ pc[w]' # pc[w]
<1>1. Inv /\ [Next]_vars => Kept
  <2> SUFFICES ASSUME Inv, [Next]_vars,
                      NEW v \in Workers, NEW r \in Events, r = work[v].row, work[v] # NoWork,
                      Holds(v), lease[r] # 0
               PROVE  Holds(v)' \/ pc[v]' # pc[v]
    BY HoldsType DEF Inv, Holds, Unleased
  <2>1. ASSUME NEW w \in Workers,
               AckSettles(w) \/ FailureSettles(w) \/ AckThrows(w) \/ FailureThrows(w)
        PROVE  Holds(v)' \/ pc[v]' # pc[v]
    <3>1. pc[w]' # pc[w]
      BY <2>1 DEF AckSettles, FailureSettles, AckThrows, FailureThrows, Release, Inv, TypeOK
    <3>2. \A u \in Workers \ {w} : UNCHANGED work[u]
      BY <2>1 DEF AckSettles, FailureSettles, AckThrows, FailureThrows, Release, Inv, TypeOK
    <3>3. pc[w] \in Busy
      BY <2>1 DEF AckSettles, FailureSettles, AckThrows, FailureThrows, Busy
    <3>4. Settles(w)
      BY <2>1 DEF AckSettles, FailureSettles, AckThrows, FailureThrows, SettleDelivered,
                  SettleFailed, Settles
    <3>5. SettleKeeps(w)
      BY <3>3, <3>4, SettleRows
    <3>6. v # w => claim[r]' = claim[r]
      BY <3>5 DEF SettleKeeps
    <3> QED BY <3>1, <3>2, <3>6 DEF Holds
  <2>2. ASSUME NEW w \in Workers, StartDrain(w) PROVE Holds(v)'
    BY <2>2 DEF StartDrain, Exhausted, Unleased, Holds
  <2>3. ASSUME NEW w \in Workers, NEW e \in Events, NEW t \in Tokens, ClaimNextNotify(w, e, t)
        PROVE  Holds(v)'
    BY <2>3 DEF ClaimNextNotify, Claimable, Unleased, Holds, Inv, TypeOK, WorkInv, Busy
  <2>4. ASSUME NEW w \in Workers, Crash(w) PROVE Holds(v)' \/ pc[v]' # pc[v]
    BY <2>4 DEF Crash, Release, Holds, Inv, TypeOK
  <2>5. CASE UNCHANGED <<claim, work>>
    BY <2>5 DEF Holds
  <2>6. \/ UNCHANGED <<claim, work>>
        \/ \E w \in Workers : \/ AckSettles(w) \/ FailureSettles(w)
                              \/ AckThrows(w) \/ FailureThrows(w)
                              \/ StartDrain(w) \/ Crash(w)
                              \/ \E e \in Events, t \in Tokens : ClaimNextNotify(w, e, t)
    BY DEF Next, WorkerStep, vars, EnqueueNotifyOnce, BotReceivesLate, Reconfigure, EndDrain,
           SendTimesOut, BotAcknowledges, BotAnswersBadly, Tick, Stall, Elapse
  <2> QED BY <2>1, <2>2, <2>3, <2>4, <2>5, <2>6
<1> QED BY <1>1, InvHolds, PTL DEF Spec, LeaseRespected

-----------------------------------------------------------------------------
(* Refinement *)

\* A settlement is one abstract delivery or dead letter, or a stutter.
LEMMA SettlesDelivery ==
  ASSUME Inv, NEW w \in Workers, pc[w] \in Busy, Settles(w), UNCHANGED botSeen
  PROVE  [Delivery!Next]_Delivery!vars
<1> USE DEF Delivery!vars, Delivery!Next, Delivery!Deliver, Delivery!DeadLetter
<1>1. PICK e \in Events : e = work[w].row /\ work[w] # NoWork
  BY HoldsType DEF Inv, WorkInv
<1>2. CASE UNCHANGED rowVars
  BY <1>2
<1>3. CASE Holds(w) /\ pc[w] = "accepted" /\ WriteDelivered(w)
  <2>1. Delivery!Deliver(e)
    BY <1>1, <1>3 DEF WriteDelivered, Inv, WorkInv
  <2> QED BY <2>1
<1>4. CASE Holds(w) /\ pc[w] = "failed" /\ WriteFailure(w)
  <2>1. status[e] = "pending"
    BY <1>1, <1>4 DEF Inv, WorkInv
  <2>2. \/ UNCHANGED status
        \/ status' = [status EXCEPT ![e] = "dead"]
    BY <1>1, <1>4 DEF WriteFailure, Inv, TypeOK
  <2>3. CASE status' = [status EXCEPT ![e] = "dead"]
    <3>1. Delivery!DeadLetter({e})
      BY <2>1, <2>3 DEF Inv, TypeOK
    <3> QED BY <3>1
  <2> QED BY <2>2, <2>3
<1> QED BY <1>2, <1>3, <1>4 DEF Settles

LEMMA StepDelivery == Inv /\ [Next]_vars => [Delivery!Next]_Delivery!vars
<1> SUFFICES ASSUME Inv, [Next]_vars PROVE [Delivery!Next]_Delivery!vars
  OBVIOUS
<1> USE DEF Delivery!vars, Delivery!Next
<1>r. \A v \in Workers : pc[v] \in Busy => work[v].row \in Events /\ status[work[v].row] # "absent"
  BY HoldsType DEF Inv, WorkInv
<1>1. ASSUME NEW e \in Events, EnqueueNotifyOnce(e) PROVE [Delivery!Next]_Delivery!vars
  BY <1>1 DEF EnqueueNotifyOnce, Upsert, Delivery!Enqueue, Inv, TypeOK
<1>2. ASSUME NEW w \in Workers, StartDrain(w) PROVE [Delivery!Next]_Delivery!vars
  <2>1. CASE Exhausted(maxAttempts) = {}
    BY <1>2, <2>1 DEF StartDrain, Inv, TypeOK
  <2>2. CASE Exhausted(maxAttempts) # {}
    <3>1. Delivery!DeadLetter(Exhausted(maxAttempts))
      BY <1>2, <2>2 DEF StartDrain, Exhausted, Delivery!DeadLetter
    <3> QED BY <3>1 DEF Exhausted
  <2> QED BY <2>1, <2>2
<1>3. ASSUME NEW w \in Workers,
             AckSettles(w) \/ FailureSettles(w) \/ AckThrows(w) \/ FailureThrows(w)
      PROVE  [Delivery!Next]_Delivery!vars
  BY <1>3, SettlesDelivery
     DEF AckSettles, FailureSettles, AckThrows, FailureThrows, SettleDelivered, SettleFailed,
         Settles, Busy
<1>4. ASSUME NEW e \in Events, status[e] # "absent", UNCHANGED status,
             botSeen' = botSeen \/ botSeen' = botSeen \union {e}
      PROVE  [Delivery!Next]_Delivery!vars
  BY <1>4 DEF Delivery!Accept
<1>5. ASSUME NEW e \in Events, BotReceivesLate(e) PROVE [Delivery!Next]_Delivery!vars
  BY <1>4, <1>5 DEF BotReceivesLate, Inv, LateWasEnqueued
<1>6. ASSUME NEW w \in Workers,
             BotAcknowledges(w) \/ BotAnswersBadly(w) \/ SendTimesOut(w)
      PROVE  [Delivery!Next]_Delivery!vars
  BY <1>4, <1>6, <1>r DEF BotAcknowledges, BotAnswersBadly, SendTimesOut, Abandon, Busy
<1>7. ASSUME NEW w \in Workers, Crash(w) PROVE [Delivery!Next]_Delivery!vars
  BY <1>4, <1>7, <1>r DEF Crash, Abandon, Busy
<1>8. CASE UNCHANGED <<status, botSeen>>
  BY <1>8
<1>9. \/ UNCHANGED <<status, botSeen>>
      \/ \E e \in Events : EnqueueNotifyOnce(e) \/ BotReceivesLate(e)
      \/ \E w \in Workers : \/ StartDrain(w) \/ AckSettles(w) \/ FailureSettles(w)
                            \/ AckThrows(w) \/ FailureThrows(w) \/ Crash(w)
                            \/ BotAcknowledges(w) \/ BotAnswersBadly(w) \/ SendTimesOut(w)
  BY DEF Next, WorkerStep, vars, Reconfigure, EndDrain, ClaimNextNotify, Tick, Stall, Elapse
<1> QED BY <1>1, <1>2, <1>3, <1>5, <1>6, <1>7, <1>8, <1>9

\* The drain implements the delivery the outbox promises: every step of rows,
\* workers, faults and clocks is one step of NotifyDelivery or changes nothing there.
THEOREM ImplementsDeliverySteps == Spec => Delivery!Init /\ [][Delivery!Next]_Delivery!vars
<1>1. Init => Delivery!Init
  BY DEF Init, Delivery!Init
<1> QED BY <1>1, StepDelivery, InvHolds, PTL DEF Spec
=============================================================================
