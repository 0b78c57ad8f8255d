---------------------------- MODULE NotifyOutbox ----------------------------
(***************************************************************************)
(* The durable outbox of lib/growth/notify-outbox.ts: rows written in the  *)
(* transaction of a business event, drained by workers that lease a row,   *)
(* post it to the Syncore Bot outside any transaction, and settle it under *)
(* the lease's token.                                                      *)
(*                                                                         *)
(* Every SQL statement of the drain is one action.  Dates are kept as the  *)
(* ticks left until they are reached, so "claimExpiresAt <= now" reads     *)
(* lease[e] = 0 and "nextAttemptAt <= now" reads retry[e] = 0.             *)
(***************************************************************************)
EXTENDS Integers, FiniteSets

CONSTANTS Events,       \* outbox rows, numbered by (createdAt, id)
          Malformed,    \* rows whose stored envelope cannot be decoded
          Workers,      \* worker identities (claimedBy)
          Tokens,       \* claim tokens (randomUUID)
          NoClaim,      \* a row without claimedBy and claimToken
          NoWork,       \* a worker that holds no claimed row
          LeaseTicks,   \* leaseMs
          TimeoutTicks, \* timeoutMs
          RetryBase, RetryMax, \* retryBaseMs, retryMaxMs
          AttemptLimits,  \* the values operators give maxAttempts
          BatchSize,    \* claims per drain call
          MaxFaults     \* bound on crashes, stalls, database errors, shutdowns

ASSUME EventsAssumption == Events \subseteq Nat /\ Malformed \subseteq Events
ASSUME NoClaimAssumption == /\ NoClaim \notin [by : Workers, token : Tokens]
                           /\ NoWork \notin [row : Events, tried : Nat, token : Tokens]
\* The checks of resolveNotifyDeliveryConfig.
ASSUME ConfigAssumption ==
  /\ TimeoutTicks \in Nat \ {0}
  /\ LeaseTicks \in Nat /\ LeaseTicks > TimeoutTicks
  /\ RetryBase \in Nat \ {0}
  /\ RetryMax \in Nat /\ RetryMax >= RetryBase
  /\ AttemptLimits \subseteq Nat \ {0}
  /\ BatchSize \in Nat \ {0}
  /\ MaxFaults \in Nat

VARIABLES
  status,      \* status[e]: absent, pending, delivered (deliveredAt), dead (deadLetteredAt)
  attempts,    \* attempts[e]: settled attempts
  claim,       \* claim[e]: claimedBy and claimToken, or NoClaim
  lease,       \* lease[e]: ticks until claimExpiresAt
  retry,       \* retry[e]: ticks until nextAttemptAt
  pc,          \* pc[w]: where worker w is in drainNotifyOutbox
  work,        \* work[w]: the claimed row, its attempts then and the token, or NoWork
  timer,       \* timer[w]: ticks until the send is aborted
  limit,       \* limit[w]: config.maxAttempts of w's drain call, 0 outside a call
  taken,       \* taken[w]: claims made by w's drain call
  maxAttempts, \* the maxAttempts a drain call starting now reads
  botSeen,     \* events the Bot has accepted; it deduplicates by eventId
  late,        \* abandoned posts that may still reach the Bot
  faults       \* faults so far

rowVars    == <<status, attempts, claim, lease, retry>>
workerVars == <<pc, work, timer, limit, taken>>
envVars    == <<maxAttempts, botSeen, late, faults>>
vars       == <<rowVars, workerVars, envVars>>

Statuses == {"absent", "pending", "delivered", "dead"}
Claims   == [by : Workers, token : Tokens]
Works    == [row : Events, tried : Nat, token : Tokens]
Busy     == {"sending", "accepted", "failed"}
PCs      == {"idle", "drain"} \union Busy

\* State spaces of the rows, of the workers, and of everything else.
TypeOK ==
  /\ status \in [Events -> Statuses]
  /\ attempts \in [Events -> Nat]
  /\ claim \in [Events -> Claims \union {NoClaim}]
  /\ lease \in [Events -> 0..LeaseTicks]
  /\ retry \in [Events -> 0..RetryMax]
  /\ pc \in [Workers -> PCs]
  /\ work \in [Workers -> Works \union {NoWork}]
  /\ timer \in [Workers -> 0..TimeoutTicks]
  /\ limit \in [Workers -> AttemptLimits \union {0}]
  /\ taken \in [Workers -> 0..BatchSize]
  /\ maxAttempts \in AttemptLimits
  /\ botSeen \subseteq Events
  /\ late \subseteq Events
  /\ faults \in 0..MaxFaults

Init ==
  /\ status = [e \in Events |-> "absent"]
  /\ attempts = [e \in Events |-> 0]
  /\ claim = [e \in Events |-> NoClaim]
  /\ lease = [e \in Events |-> 0]
  /\ retry = [e \in Events |-> 0]
  /\ pc = [w \in Workers |-> "idle"]
  /\ work = [w \in Workers |-> NoWork]
  /\ timer = [w \in Workers |-> 0]
  /\ limit = [w \in Workers |-> 0]
  /\ taken = [w \in Workers |-> 0]
  /\ maxAttempts \in AttemptLimits
  /\ botSeen = {}
  /\ late = {}
  /\ faults = 0

-----------------------------------------------------------------------------
(* Writers *)

\* Fault model: a replay that rewrites the row instead of keeping it.
UpsertRewriting(s) == "pending"

\* upsert on the unique eventId with "update: {}": a replay keeps the row.
Upsert(s) == IF s = "absent" THEN "pending" ELSE s

\* The business transactions commit in any order, whatever their rows' createdAt.
EnqueueNotifyOnce(e) ==
  /\ status' = [status EXCEPT ![e] = Upsert(@)]
  /\ UNCHANGED <<attempts, claim, lease, retry, workerVars, envVars>>

\* A deployment changes the limit that later drain calls read.
Reconfigure(n) ==
  /\ maxAttempts' = n
  /\ UNCHANGED <<rowVars, workerVars, botSeen, late, faults>>

-----------------------------------------------------------------------------
(* drainNotifyOutbox *)

Unleased(e) == lease[e] = 0

\* Fault models: the sweep forgets the lease clause; there is no sweep.
ExhaustedLeasedToo(n) == {e \in Events : status[e] = "pending" /\ attempts[e] >= n}
ExhaustedNever(n) == {}

\* Rows at or over the limit nobody holds become visible terminal work.
Exhausted(n) == {e \in Events : /\ status[e] = "pending"
                                /\ attempts[e] >= n
                                /\ Unleased(e)}

StartDrain(w) ==
  LET spent == Exhausted(maxAttempts) IN
  /\ pc[w] = "idle"
  /\ pc' = [pc EXCEPT ![w] = "drain"]
  /\ limit' = [limit EXCEPT ![w] = maxAttempts]
  /\ status' = [e \in Events |-> IF e \in spent THEN "dead" ELSE status[e]]
  /\ retry' = [e \in Events |-> IF e \in spent THEN 0 ELSE retry[e]]
  /\ claim' = [e \in Events |-> IF e \in spent THEN NoClaim ELSE claim[e]]
  /\ UNCHANGED <<attempts, lease, work, timer, taken, envVars>>

Claimable(w, e) == /\ status[e] = "pending"
                   /\ attempts[e] < limit[w]
                   /\ retry[e] = 0
                   /\ Unleased(e)

\* randomUUID never repeats a token that a row or a worker still carries.
FreshTokens == {t \in Tokens : /\ \A e \in Events : claim[e] # NoClaim => claim[e].token # t
                               /\ \A w \in Workers : work[w] # NoWork => work[w].token # t}

\* Fault model: a lease no longer than the send timeout.
LeaseLikeTimeout == TimeoutTicks

LeaseLength == LeaseTicks

ClaimNextNotify(w, e, t) ==
  /\ pc[w] = "drain" /\ taken[w] < BatchSize
  /\ Claimable(w, e)
  /\ \A f \in Events : Claimable(w, f) => e <= f
  /\ t \in FreshTokens
  /\ claim' = [claim EXCEPT ![e] = [by |-> w, token |-> t]]
  /\ lease' = [lease EXCEPT ![e] = LeaseLength]
  /\ work' = [work EXCEPT ![w] = [row |-> e, tried |-> attempts[e], token |-> t]]
  /\ taken' = [taken EXCEPT ![w] = @ + 1]
  \* A row that cannot be decoded fails before anything is sent.
  /\ pc' = [pc EXCEPT ![w] = IF e \in Malformed THEN "failed" ELSE "sending"]
  /\ timer' = [timer EXCEPT ![w] = IF e \in Malformed THEN 0 ELSE TimeoutTicks]
  /\ UNCHANGED <<status, attempts, retry, limit, envVars>>

\* The call returns: its batch is full or nothing is claimable.
EndDrain(w) ==
  /\ pc[w] = "drain"
  /\ taken[w] = BatchSize \/ \A e \in Events : ~Claimable(w, e)
  /\ pc' = [pc EXCEPT ![w] = "idle"]
  /\ limit' = [limit EXCEPT ![w] = 0]
  /\ taken' = [taken EXCEPT ![w] = 0]
  /\ UNCHANGED <<rowVars, work, timer, envVars>>

-----------------------------------------------------------------------------
(* The post to the Bot *)

\* A valid acknowledgement, "accepted" the first time and "duplicate" after.
BotAcknowledges(w) ==
  /\ pc[w] = "sending"
  /\ botSeen' = botSeen \union {work[w].row}
  /\ pc' = [pc EXCEPT ![w] = "accepted"]
  /\ timer' = [timer EXCEPT ![w] = 0]
  /\ UNCHANGED <<rowVars, work, limit, taken, maxAttempts, late, faults>>

\* The Bot answers with an error, or accepts and its answer is malformed.
BotAnswersBadly(w) ==
  /\ pc[w] = "sending"
  /\ botSeen' \in {botSeen, botSeen \union {work[w].row}}
  /\ pc' = [pc EXCEPT ![w] = "failed"]
  /\ timer' = [timer EXCEPT ![w] = 0]
  /\ UNCHANGED <<rowVars, work, limit, taken, maxAttempts, late, faults>>

\* The request never arrived, arrived without its answer, or is still under way.
Abandon(w) ==
  \/ UNCHANGED <<botSeen, late>>
  \/ botSeen' = botSeen \union {work[w].row} /\ UNCHANGED late
  \/ late' = late \union {work[w].row} /\ UNCHANGED botSeen

SendTimesOut(w) ==
  /\ pc[w] = "sending" /\ timer[w] = 0
  /\ Abandon(w)
  /\ pc' = [pc EXCEPT ![w] = "failed"]
  /\ UNCHANGED <<rowVars, work, timer, limit, taken, maxAttempts, faults>>

BotReceivesLate(e) ==
  /\ e \in late
  /\ late' = late \ {e}
  /\ botSeen' = botSeen \union {e}
  /\ UNCHANGED <<rowVars, workerVars, maxAttempts, faults>>

-----------------------------------------------------------------------------
(* Settlement: both updates match the row on id, claimedBy and claimToken *)

Holds(w) == /\ work[w] # NoWork
            /\ claim[work[w].row] = [by |-> w, token |-> work[w].token]

\* "finishedAt + nextNotifyAttemptDelayMs": doubling, capped at RetryMax.
Backoff(n) == LET delay == RetryBase * 2^(n - 1)
              IN  IF delay \in 0..RetryMax THEN delay ELSE RetryMax

WriteDelivered(w) ==
  LET e == work[w].row IN
  /\ status' = [status EXCEPT ![e] = "delivered"]
  /\ attempts' = [attempts EXCEPT ![e] = work[w].tried + 1]
  /\ retry' = [retry EXCEPT ![e] = 0]
  /\ claim' = [claim EXCEPT ![e] = NoClaim]
  /\ lease' = [lease EXCEPT ![e] = 0]

\* Fault model: the attempt under way is counted twice against the limit.
TerminalEarly(n, max) == n + 1 >= max

Terminal(n, max) == n >= max

WriteFailure(w) ==
  LET e == work[w].row
      n == work[w].tried + 1
      terminal == Terminal(n, limit[w]) IN
  /\ status' = [status EXCEPT ![e] = IF terminal THEN "dead" ELSE @]
  /\ attempts' = [attempts EXCEPT ![e] = n]
  /\ retry' = [retry EXCEPT ![e] = IF terminal THEN 0 ELSE Backoff(n)]
  /\ claim' = [claim EXCEPT ![e] = NoClaim]
  /\ lease' = [lease EXCEPT ![e] = 0]

\* Fault model: the update matches the row by id alone.
SettleFailedById(w) == WriteFailure(w)

\* updateMany touches the row while the worker still holds it, else nothing.
SettleDelivered(w) == IF Holds(w) THEN WriteDelivered(w) ELSE UNCHANGED rowVars
SettleFailed(w)    == IF Holds(w) THEN WriteFailure(w) ELSE UNCHANGED rowVars

Release(w, next) ==
  /\ pc' = [pc EXCEPT ![w] = next]
  /\ work' = [work EXCEPT ![w] = NoWork]
  /\ timer' = [timer EXCEPT ![w] = 0]

AckSettles(w) ==
  /\ pc[w] = "accepted"
  /\ SettleDelivered(w)
  /\ Release(w, "drain")
  /\ UNCHANGED <<limit, taken, envVars>>

FailureSettles(w) ==
  /\ pc[w] = "failed"
  /\ SettleFailed(w)
  /\ Release(w, "drain")
  /\ UNCHANGED <<limit, taken, envVars>>

-----------------------------------------------------------------------------
(* Faults *)

Fault == /\ faults < MaxFaults
         /\ faults' = faults + 1

\* The settling update throws, applied or not: the catch block settles a failure.
AckThrows(w) ==
  /\ pc[w] = "accepted" /\ Fault
  /\ SettleDelivered(w) \/ UNCHANGED rowVars
  /\ pc' = [pc EXCEPT ![w] = "failed"]
  /\ UNCHANGED <<work, timer, limit, taken, maxAttempts, botSeen, late>>

\* The catch block's own update throws, and with it the drain call.
FailureThrows(w) ==
  /\ pc[w] = "failed" /\ Fault
  /\ SettleFailed(w) \/ UNCHANGED rowVars
  /\ Release(w, "idle")
  /\ limit' = [limit EXCEPT ![w] = 0]
  /\ taken' = [taken EXCEPT ![w] = 0]
  /\ UNCHANGED <<maxAttempts, botSeen, late>>

\* The process dies at any point of a call (or shouldStop ends it between rows);
\* its replacement may run under the same worker identity.
Crash(w) ==
  /\ pc[w] # "idle" /\ Fault
  /\ IF pc[w] = "sending" THEN Abandon(w) ELSE UNCHANGED <<botSeen, late>>
  /\ Release(w, "idle")
  /\ limit' = [limit EXCEPT ![w] = 0]
  /\ taken' = [taken EXCEPT ![w] = 0]
  /\ UNCHANGED <<rowVars, maxAttempts>>

-----------------------------------------------------------------------------
(* Time *)

Minus1(n) == IF n = 0 THEN 0 ELSE n - 1

Elapse == /\ lease' = [e \in Events |-> Minus1(lease[e])]
          /\ retry' = [e \in Events |-> Minus1(retry[e])]
          /\ timer' = [w \in Workers |-> Minus1(timer[w])]
          /\ UNCHANGED <<status, attempts, claim, pc, work, limit, taken, maxAttempts, botSeen, late>>

\* A worker keeps up: its abort fires on time and it settles within the tick.
KeepsUp(w) == CASE pc[w] = "sending" -> timer[w] > 0
                [] pc[w] \in {"accepted", "failed"} -> FALSE
                [] OTHER -> TRUE

Tick  == (\A w \in Workers : KeepsUp(w)) /\ Elapse /\ UNCHANGED faults
\* A paused process or a slow database lets time pass regardless.
Stall == ~(\A w \in Workers : KeepsUp(w)) /\ Fault /\ Elapse

-----------------------------------------------------------------------------
WorkerStep(w) == \/ StartDrain(w)
                 \/ \E e \in Events, t \in Tokens : ClaimNextNotify(w, e, t)
                 \/ EndDrain(w)
                 \/ SendTimesOut(w)
                 \/ AckSettles(w)
                 \/ FailureSettles(w)

Next == \/ \E e \in Events : EnqueueNotifyOnce(e) \/ BotReceivesLate(e)
        \/ \E n \in AttemptLimits : Reconfigure(n)
        \/ \E w \in Workers : \/ WorkerStep(w)
                              \/ BotAcknowledges(w) \/ BotAnswersBadly(w)
                              \/ AckThrows(w) \/ FailureThrows(w) \/ Crash(w)
        \/ Tick
        \/ Stall

Spec == Init /\ [][Next]_vars

\* The background worker loops for ever, and time passes.
FairSpec == /\ Spec
            /\ \A w \in Workers : WF_vars(WorkerStep(w))
            /\ WF_vars(Tick)
-----------------------------------------------------------------------------
(* Properties *)

\* A row says "delivered" only when the Bot has really accepted its event:
\* no interleaving of lost answers, lapsed leases and failed settlements lets
\* a worker mark a row it has no acknowledgement for (lines 523-535).
DeliveredWasAccepted == \A e \in Events : status[e] = "delivered" => e \in botSeen

\* A row is given up only by a drain call whose own limit its attempts have
\* reached, whatever deployments change the limit between two calls (478-494, 545).
DeadLetterAtTheLimit ==
  [][\A e \in Events : status[e] = "pending" /\ status[e]' = "dead" =>
       \E w \in Workers : /\ pc[w]' # pc[w]
                          /\ attempts[e]' >= IF pc[w] = "idle" THEN maxAttempts ELSE limit[w]]_vars

\* leaseMs > timeoutMs (line 107) is what keeps a healthy worker's claim alive:
\* without a fault, no post is ever answered after its claim was lost.
HealthyWorkersKeepTheirClaim ==
  faults = 0 => \A w \in Workers : pc[w] \in Busy => Holds(w)

\* Delivered and dead-lettered are final and an attempt is counted once: a
\* worker whose lease lapsed cannot settle a row that somebody else settled,
\* terminalized or took over, nor rewind its attempts.
SettledOnce ==
  [][\A e \in Events :
       /\ status[e] \in {"delivered", "dead"} =>
            status[e]' = status[e] /\ attempts[e]' = attempts[e]
       /\ attempts[e]' \in {attempts[e], attempts[e] + 1}]_vars

\* A live lease is never taken away: a claim changes hands only by its own
\* holder's step or after its lease has run out (lines 395, 484).
LeaseRespected ==
  [][\A w \in Workers : Holds(w) /\ ~Unleased(work[w].row)
                            => Holds(w)' \/ pc[w]' # pc[w]]_vars

\* Why the properties hold: a worker is busy exactly while it carries a row,
\* and a row it still holds is pending with the attempts it read.
WorkInv ==
  \A w \in Workers :
    /\ pc[w] \in Busy <=> work[w] # NoWork
    /\ pc[w] \in Busy => status[work[w].row] # "absent"
    /\ pc[w] = "accepted" => work[w].row \in botSeen
    /\ Holds(w) => /\ status[work[w].row] = "pending"
                   /\ attempts[work[w].row] = work[w].tried

SettledRowsAreFree == \A e \in Events : status[e] # "pending" => claim[e] = NoClaim

LateWasEnqueued == \A e \in late : status[e] # "absent"

\* While nothing has gone wrong a claim outlives the send it covers.
HealthyLease ==
  faults = 0 => \A w \in Workers : pc[w] \in Busy =>
                  /\ Holds(w)
                  /\ timer[w] < lease[work[w].row]

Inv == /\ TypeOK /\ WorkInv /\ SettledRowsAreFree /\ LateWasEnqueued
       /\ DeliveredWasAccepted /\ HealthyLease

\* The refinement: rows and the Bot are the abstract delivery.
Delivery == INSTANCE NotifyDelivery
ImplementsDelivery == Delivery!Spec

\* Every enqueued event is settled: retries, takeovers and reconfigured limits
\* cannot leave a row neither claimable nor terminal (comment at lines 475-477).
EveryEventSettles ==
  \A e \in Events : status[e] = "pending" ~> status[e] \in {"delivered", "dead"}
=============================================================================
