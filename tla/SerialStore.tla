---------------------------- MODULE SerialStore ----------------------------
(***************************************************************************)
(* What lib/phase1/store.ts promises the rest of the application: one      *)
(* application state to which updates are applied one after the other,     *)
(* each exactly once, on top of all the updates before it, or refused      *)
(* without a trace.                                                        *)
(***************************************************************************)
EXTENDS Sequences

CONSTANT Calls      \* updateState calls and script runs, each with its mutation

VARIABLES log,      \* the state, as the mutations that made it
          outcome   \* outcome[c]: what the caller of c has been told
vars == <<log, outcome>>

Init == log = <<>> /\ outcome = [c \in Calls |-> "open"]

Apply(c) ==
  /\ outcome[c] = "open"
  /\ log' = Append(log, c)
  /\ outcome' = [outcome EXCEPT ![c] = "committed"]

Refuse(c) ==
  /\ outcome[c] = "open"
  /\ outcome' = [outcome EXCEPT ![c] = "refused"]
  /\ UNCHANGED log

\* What the store does besides, and does not promise: the state goes back to one
\* made of acknowledged mutations only; those it lost stay acknowledged.
Revert ==
  /\ \A i \in DOMAIN log' : outcome[log'[i]] = "committed"
  /\ UNCHANGED outcome

Next == \E c \in Calls : Apply(c) \/ Refuse(c)

Spec == Init /\ [][Next]_vars
=============================================================================
