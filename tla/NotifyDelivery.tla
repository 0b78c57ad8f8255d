--------------------------- MODULE NotifyDelivery ---------------------------
(***************************************************************************)
(* What the notification outbox promises, without leases, workers, clocks  *)
(* or retries: an event is pending from the transaction that enqueued it   *)
(* until one final outcome, and it is only reported delivered when the Bot *)
(* has it.  NotifyOutbox implements this module.                           *)
(***************************************************************************)
CONSTANT Events

VARIABLES status,   \* status[e]: absent, pending, delivered or dead
          botSeen   \* the events the Bot has accepted

vars == <<status, botSeen>>

Init == /\ status = [e \in Events |-> "absent"]
        /\ botSeen = {}

Enqueue(e) == /\ status[e] = "absent"
              /\ status' = [status EXCEPT ![e] = "pending"]
              /\ UNCHANGED botSeen

\* The Bot may have an event long before, or after, its row is settled.
Accept(e) == /\ status[e] # "absent"
             /\ botSeen' = botSeen \union {e}
             /\ UNCHANGED status

Deliver(e) == /\ status[e] = "pending"
              /\ e \in botSeen
              /\ status' = [status EXCEPT ![e] = "delivered"]
              /\ UNCHANGED botSeen

\* One drain call dead-letters any number of exhausted rows at once.
DeadLetter(E) == /\ E # {}
                 /\ \A e \in E : status[e] = "pending"
                 /\ status' = [e \in Events |-> IF e \in E THEN "dead" ELSE status[e]]
                 /\ UNCHANGED botSeen

Finish(e) == Deliver(e) \/ \E E \in SUBSET Events : e \in E /\ DeadLetter(E)

Next == \/ \E e \in Events : Enqueue(e) \/ Accept(e) \/ Deliver(e)
        \/ \E E \in SUBSET Events : DeadLetter(E)

Spec == Init /\ [][Next]_vars /\ \A e \in Events : WF_vars(Finish(e))
=============================================================================
