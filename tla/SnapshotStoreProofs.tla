------------------------ MODULE SnapshotStoreProofs ------------------------
(***************************************************************************)
(* For any number of update calls and scripts, and whichever of them leave *)
(* work for migrateState: no last write wins, the snapshot is a serial     *)
(* store but for self-heals, and the tables hold what was committed.       *)
(***************************************************************************)
EXTENDS SnapshotStore, TLAPS

\* A call that still works with the copy it has read.
Holding == {"read", "ready", "healing", "healed"}

\* Only an update call that has an attempt left waits to read again.
TriesLeft == \A c \in Updates : pc[c] = "idle" => tries[c] < MaxTries

\* writeSeq only grows, and the writeSeq a call holds stands for its copy.
Fresh ==
  \A c \in Calls : pc[c] \in Holding =>
    /\ seen[c].seq <= row.seq
    /\ seen[c].seq = row.seq => seen[c].log = row.log

\* The mutations that were committed, some of which a self-heal may have reverted.
Committed == {c \in Calls : pc[c] \in {"projecting", "done"}}

\* Nothing anywhere is more than committed mutations.
OnlyCommitted ==
  /\ table.has \subseteq Committed /\ In(row.log) \subseteq Committed
  /\ \A c \in Calls :
       /\ pc[c] \in Holding => In(seen[c].log) \subseteq Committed
       /\ pc[c] = "projecting" => In(Append(seen[c].log, c)) \subseteq Committed

IInv == TypeOK /\ TriesLeft /\ Fresh /\ OnlyCommitted

USE DEF Calls, Holding

LEMMA InAppend ==
  ASSUME NEW S, NEW s \in Seq(S), NEW x \in S
  PROVE  In(Append(s, x)) = In(s) \union {x}
<1> DEFINE t == Append(s, x)
<1>1. /\ t \in Seq(S) /\ Len(s) \in Nat /\ Len(t) = Len(s) + 1
      /\ DOMAIN s = 1..Len(s) /\ DOMAIN t = 1..(Len(s) + 1)
  OBVIOUS
<1>2. t[Len(s) + 1] = x /\ \A i \in 1..Len(s) : t[i] = s[i]
  OBVIOUS
<1>3. ASSUME NEW y \in In(t) PROVE y \in In(s) \union {x}
  BY <1>1, <1>2, <1>3 DEF In
<1>4. ASSUME NEW y \in In(s) PROVE y \in In(t)
  BY <1>1, <1>2, <1>4 DEF In
<1>5. x \in In(t)
  BY <1>1, <1>2 DEF In
<1> QED BY <1>3, <1>4, <1>5

LEMMA InCalls == ASSUME NEW s \in States PROVE In(s) \subseteq Calls
BY DEF In, States

LEMMA AppendCalls ==
  ASSUME NEW s \in States, NEW c \in Calls
  PROVE  /\ Append(s, c) \in States
         /\ In(Append(s, c)) = In(s) \union {c}
         /\ In(Append(s, c)) \subseteq Calls
<1>1. s \in Seq(Calls) /\ Append(s, c) \in Seq(Calls)
  BY DEF States
<1>2. In(Append(s, c)) = In(s) \union {c}
  BY <1>1, InAppend
<1> QED BY <1>1, <1>2, InCalls DEF States

LEMMA TypeInit == Init => IInv
<1> SUFFICES ASSUME Init PROVE IInv
  OBVIOUS
<1>1. In(<<>>) = {} /\ <<>> \in States
  BY DEF In, States
<1>2. row.seq = 0 /\ row.log = <<>> /\ row \in [seq : Nat, log : States, old : BOOLEAN]
  BY <1>1 DEF Init
<1>3. TypeOK
  BY <1>1, <1>2, StoreAssumption DEF Init, TypeOK, NoCopy, Invites, Open
<1>4. \A c \in Calls : pc[c] = "idle"
  BY DEF Init
<1>5. TriesLeft /\ Fresh
  BY <1>4, StoreAssumption DEF Init, TriesLeft, Fresh
<1>6. OnlyCommitted
  BY <1>1, <1>2, <1>4 DEF Init, OnlyCommitted
<1> QED BY <1>3, <1>5, <1>6 DEF IInv

Copies == [seq : Nat, log : States, old : BOOLEAN, invite : Invites]

LEMMA GotoType ==
  ASSUME TypeOK, NEW c \in Calls, NEW label \in Open \union {"projecting"} \union Settled,
         Goto(c, label)
  PROVE  pc' \in [Calls -> Open \union {"projecting"} \union Settled]
BY DEF TypeOK, Goto

LEMMA LeaveType ==
  ASSUME TypeOK, NEW c \in Calls, NEW label \in Open \union {"projecting"} \union Settled,
         Leave(c, label)
  PROVE  /\ pc' \in [Calls -> Open \union {"projecting"} \union Settled]
         /\ seen' \in [Calls -> Copies]
<1>1. NoCopy \in Copies
  BY DEF NoCopy, Copies, States, Invites
<1> QED BY <1>1, GotoType DEF TypeOK, Leave, Copies

-----------------------------------------------------------------------------
\* Type correctness, step by step.

LEMMA TypeStep == TypeOK /\ TriesLeft /\ [Next]_vars => TypeOK'
<1> SUFFICES ASSUME TypeOK, TriesLeft, [Next]_vars PROVE TypeOK'
  OBVIOUS
<1> USE StoreAssumption
<1> DEFINE PCs == Open \union {"projecting"} \union Settled
<1>0. /\ row.seq \in Nat /\ row.log \in States /\ row.old \in BOOLEAN
      /\ \A c \in Calls : seen[c] \in Copies
      /\ {"idle", "read", "ready", "healing", "healed", "projecting", "done", "failed"} = PCs
  BY DEF TypeOK, Open, Settled, Copies
<1>1. ASSUME NEW c \in Calls, ReadSnapshot(c) PROVE TypeOK'
  BY <1>0, <1>1, GotoType DEF ReadSnapshot, TriesLeft, TypeOK, Open
<1>2. ASSUME NEW c \in Calls, MergeIdentity(c) PROVE TypeOK'
  <2>1. MergedInvite \in Invites
    BY DEF MergedInvite, TypeOK, Invites
  <2>2. seen' \in [Calls -> Copies]
    BY <1>0, <1>2, <2>1 DEF MergeIdentity, TypeOK, Copies
  <2>3. pc' \in [Calls -> PCs]
    BY <1>0, <1>2, GotoType DEF MergeIdentity
  <2> QED BY <1>2, <2>2, <2>3 DEF MergeIdentity, TypeOK, Copies
<1>3. ASSUME NEW c \in Calls, Commit(c) PROVE TypeOK'
  <2>1. Append(seen[c].log, c) \in States /\ In(Append(seen[c].log, c)) \subseteq Calls
    BY <1>0, AppendCalls DEF Copies
  <2>2. table' \in [has : SUBSET Calls, invite : Invites, active : BOOLEAN]
    BY <1>0, <1>3, <2>1 DEF Commit, Written, FullProjection, ScopedDiff, TypeOK, Copies
  <2>3. row' \in [seq : Nat, log : States, old : BOOLEAN]
    BY <1>0, <1>3, <2>1 DEF Commit, Written, Copies
  <2>4. pc' \in [Calls -> PCs] /\ seen' \in [Calls -> Copies]
    BY <1>0, <1>3, LeaveType DEF Commit
  <2> QED BY <1>3, <2>2, <2>3, <2>4 DEF Commit, TypeOK, Copies
<1>4. ASSUME NEW c \in Calls, Conflict(c) \/ Abort(c) \/ WriteRefused(c) \/ Stop(c) PROVE TypeOK'
  <2>1. PICK label \in PCs : Leave(c, label)
    BY <1>0, <1>4 DEF Conflict, Abort, WriteRefused, Stop
  <2>2. pc' \in [Calls -> PCs] /\ seen' \in [Calls -> Copies]
    BY <2>1, LeaveType
  <2> QED BY <1>4, <2>2 DEF Conflict, Abort, WriteRefused, Stop, TypeOK, Copies
<1>5. ASSUME NEW s \in Calls, HealSnapshot(s) PROVE TypeOK'
  <2>1. seen' \in [Calls -> Copies]
    BY <1>0, <1>5 DEF HealSnapshot, TypeOK, Copies
  <2>2. row' \in [seq : Nat, log : States, old : BOOLEAN]
    BY <1>0, <1>5 DEF HealSnapshot, Written, Copies
  <2>3. pc' \in [Calls -> PCs]
    BY <1>0, <1>5, GotoType DEF HealSnapshot
  <2> QED BY <1>5, <2>1, <2>2, <2>3 DEF HealSnapshot, TypeOK, Copies
<1>6. ASSUME NEW s \in Calls, HealTables(s) PROVE TypeOK'
  <2>1. In(seen[s].log) \subseteq Calls
    BY <1>0, InCalls DEF Copies
  <2>2. table' \in [has : SUBSET Calls, invite : Invites, active : BOOLEAN]
    BY <1>0, <1>6, <2>1 DEF HealTables, FullProjection, TypeOK, Copies
  <2>3. pc' \in [Calls -> PCs]
    BY <1>0, <1>6, GotoType DEF HealTables
  <2> QED BY <1>6, <2>2, <2>3 DEF HealTables, TypeOK
<1>7. ASSUME NEW s \in Calls, WriteSnapshot(s) PROVE TypeOK'
  <2>1. row' \in [seq : Nat, log : States, old : BOOLEAN]
    BY <1>0, <1>7 DEF WriteSnapshot, Written, Copies, States
  <2>2. pc' \in [Calls -> PCs]
    BY <1>0, <1>7, GotoType DEF WriteSnapshot
  <2> QED BY <1>7, <2>1, <2>2 DEF WriteSnapshot, TypeOK
<1>8. ASSUME NEW s \in Calls, WriteTables(s) PROVE TypeOK'
  <2>1. In(Append(seen[s].log, s)) \subseteq Calls
    BY <1>0, AppendCalls DEF Copies
  <2>2. table' \in [has : SUBSET Calls, invite : Invites, active : BOOLEAN]
    BY <1>0, <1>8, <2>1 DEF WriteTables, FullProjection, TypeOK, Copies
  <2>3. pc' \in [Calls -> PCs] /\ seen' \in [Calls -> Copies]
    BY <1>0, <1>8, LeaveType DEF WriteTables
  <2> QED BY <1>8, <2>2, <2>3 DEF WriteTables, TypeOK, Copies
<1>9. CASE AcceptInvite
  BY <1>9 DEF AcceptInvite, TypeOK, Invites
<1>10. CASE UNCHANGED vars
  BY <1>10 DEF vars, TypeOK
<1> QED BY <1>1, <1>2, <1>3, <1>4, <1>5, <1>6, <1>7, <1>8, <1>9, <1>10
       DEF Next, Attempt, Write

LEMMA TriesStep == TypeOK /\ TriesLeft /\ [Next]_vars => TriesLeft'
<1> SUFFICES ASSUME TypeOK, TriesLeft, [Next]_vars, NEW d \in Updates, pc'[d] = "idle"
             PROVE  tries'[d] < MaxTries
  BY DEF TriesLeft
<1> USE StoreAssumption DEF TypeOK, TriesLeft, Goto, Leave
<1>1. ASSUME NEW c \in Calls, Attempt(c) PROVE tries'[d] < MaxTries
  BY <1>1 DEF Attempt, ReadSnapshot, MergeIdentity, Commit, Conflict
<1>2. ASSUME NEW c \in Calls, Abort(c) \/ Write(c) \/ Stop(c) PROVE tries'[d] < MaxTries
  BY <1>2 DEF Abort, Write, HealSnapshot, HealTables, WriteSnapshot, WriteTables, WriteRefused, Stop
<1>3. CASE AcceptInvite \/ UNCHANGED vars
  BY <1>3 DEF AcceptInvite, vars
<1> QED BY <1>1, <1>2, <1>3 DEF Next

-----------------------------------------------------------------------------
\* writeSeq guards what was read.

\* A call that is left alone stays fresh when writeSeq grows or nothing moves.
LEMMA FreshStep == TypeOK /\ TypeOK' /\ Fresh /\ [Next]_vars => Fresh'
<1> SUFFICES ASSUME TypeOK, TypeOK', Fresh, [Next]_vars, NEW d \in Calls, pc'[d] \in Holding
             PROVE  /\ seen'[d].seq <= row'.seq
                    /\ seen'[d].seq = row'.seq => seen'[d].log = row'.log
  BY DEF Fresh
<1> DEFINE Good == /\ seen'[d].seq <= row'.seq
                   /\ seen'[d].seq = row'.seq => seen'[d].log = row'.log
<1>0. /\ row.seq \in Nat /\ seen[d].seq \in Nat
      /\ row'.seq \in Nat /\ seen'[d].seq \in Nat
      /\ pc[d] \in Holding => /\ seen[d].seq <= row.seq
                              /\ seen[d].seq = row.seq => seen[d].log = row.log
  BY DEF TypeOK, Fresh
<1>1. ASSUME NEW c \in Calls, ReadSnapshot(c) PROVE Good
  BY <1>0, <1>1 DEF ReadSnapshot, Goto, TypeOK
<1>2. ASSUME NEW c \in Calls, MergeIdentity(c) PROVE Good
  BY <1>0, <1>2 DEF MergeIdentity, Goto, TypeOK
<1>3. ASSUME NEW c \in Calls, Commit(c) PROVE Good
  BY <1>0, <1>3 DEF Commit, Written, Matches, Leave, Goto, TypeOK
<1>4. ASSUME NEW c \in Calls, Conflict(c) \/ Abort(c) \/ WriteRefused(c) \/ Stop(c) PROVE Good
  BY <1>0, <1>4 DEF Conflict, Abort, WriteRefused, Stop, Leave, Goto, TypeOK
<1>5. ASSUME NEW s \in Calls, HealSnapshot(s) PROVE Good
  <2>1. CASE d = s
    BY <1>0, <1>5, <2>1 DEF HealSnapshot, Written, Goto, TypeOK
  <2>2. CASE d # s
    BY <1>0, <1>5, <2>2 DEF HealSnapshot, Written, Goto, TypeOK
  <2> QED BY <2>1, <2>2
<1>6. ASSUME NEW s \in Calls, HealTables(s) PROVE Good
  BY <1>0, <1>6 DEF HealTables, Goto, TypeOK
<1>7. ASSUME NEW s \in Calls, WriteSnapshot(s) PROVE Good
  BY <1>0, <1>7 DEF WriteSnapshot, Written, Matches, Goto, TypeOK
<1>8. ASSUME NEW s \in Calls, WriteTables(s) PROVE Good
  BY <1>0, <1>8 DEF WriteTables, Leave, Goto, TypeOK
<1>9. CASE AcceptInvite \/ UNCHANGED vars
  BY <1>0, <1>9 DEF AcceptInvite, vars
<1> QED BY <1>1, <1>2, <1>3, <1>4, <1>5, <1>6, <1>7, <1>8, <1>9 DEF Next, Attempt, Write

-----------------------------------------------------------------------------
\* Copies, snapshot and tables, through every self-heal.

\* What was committed stays so.
LEMMA CommittedGrows ==
  ASSUME TypeOK, NEW c \in Calls, NEW label, Goto(c, label),
         pc[c] \in {"projecting", "done"} => label \in {"projecting", "done"}
  PROVE  /\ Committed \subseteq Committed'
         /\ label \in {"projecting", "done"} => c \in Committed'
         /\ \A d \in Calls : d # c => pc'[d] = pc[d]
         /\ pc'[c] = label
BY DEF TypeOK, Goto, Committed

LEMMA CommittedStep == IInv /\ [Next]_vars => OnlyCommitted'
<1> SUFFICES ASSUME TypeOK, Fresh, OnlyCommitted, [Next]_vars PROVE OnlyCommitted'
  BY DEF IInv
<1>0. /\ table.has \subseteq Committed /\ In(row.log) \subseteq Committed
      /\ \A c \in Calls :
           /\ pc[c] \in Holding => In(seen[c].log) \subseteq Committed
           /\ pc[c] = "projecting" => In(Append(seen[c].log, c)) \subseteq Committed
  BY DEF OnlyCommitted
<1>1. ASSUME NEW c \in Calls, ReadSnapshot(c) PROVE OnlyCommitted'
  <2>1. Committed \subseteq Committed' /\ \A d \in Calls : d # c => pc'[d] = pc[d]
    BY <1>1, CommittedGrows DEF ReadSnapshot
  <2> QED BY <1>0, <1>1, <2>1 DEF ReadSnapshot, Goto, TypeOK, OnlyCommitted
<1>2. ASSUME NEW c \in Calls, MergeIdentity(c) PROVE OnlyCommitted'
  <2>1. PICK label \in Open : Goto(c, label)
    BY <1>2 DEF MergeIdentity, Open
  <2>2. Committed \subseteq Committed' /\ (\A d \in Calls : d # c => pc'[d] = pc[d]) /\ pc'[c] = label
    BY <1>2, <2>1, CommittedGrows DEF MergeIdentity
  <2>3. \A d \in Calls : seen'[d].log = seen[d].log
    BY <1>2 DEF MergeIdentity, TypeOK
  <2>4. label # "projecting" /\ pc[c] \in Holding
    BY <1>2 DEF MergeIdentity, Open
  <2> QED BY <1>0, <1>2, <2>2, <2>3, <2>4 DEF MergeIdentity, OnlyCommitted
<1>3. ASSUME NEW c \in Calls, Commit(c) PROVE OnlyCommitted'
  <2>1. seen[c].log = row.log /\ seen[c].log \in States
    BY <1>3 DEF Commit, Matches, Fresh, TypeOK
  <2>2. /\ Committed \subseteq Committed' /\ c \in Committed'
        /\ (\A d \in Calls : d # c => pc'[d] = pc[d]) /\ pc'[c] = "done"
    BY <1>3, CommittedGrows DEF Commit, Leave
  <2>3. In(row'.log) \subseteq Committed'
    BY <1>0, <1>3, <2>1, <2>2, AppendCalls DEF Commit, Written
  <2>4. table'.has \subseteq Committed'
    BY <1>0, <1>3, <2>2, <2>3 DEF Commit, FullProjection, ScopedDiff, TypeOK
  <2>5. \A d \in Calls : d # c => seen'[d] = seen[d]
    BY <1>3 DEF Commit, Leave, TypeOK
  <2> QED BY <1>0, <2>2, <2>3, <2>4, <2>5 DEF OnlyCommitted
<1>4. ASSUME NEW c \in Calls, Conflict(c) \/ Abort(c) \/ WriteRefused(c) \/ Stop(c)
      PROVE OnlyCommitted'
  <2>1. PICK label \in {"idle", "failed", "done"} :
          Leave(c, label) /\ (pc[c] \in {"projecting", "done"} => label = "done")
    BY <1>4 DEF Conflict, Abort, WriteRefused, Stop
  <2>2. /\ Committed \subseteq Committed'
        /\ (\A d \in Calls : d # c => pc'[d] = pc[d]) /\ pc'[c] = label
    BY <2>1, CommittedGrows DEF Leave
  <2>3. \A d \in Calls : d # c => seen'[d] = seen[d]
    BY <2>1 DEF Leave, TypeOK
  <2>4. row' = row /\ table' = table
    BY <1>4 DEF Conflict, Abort, WriteRefused, Stop
  <2> QED BY <1>0, <2>2, <2>3, <2>4 DEF OnlyCommitted
<1>5. ASSUME NEW s \in Calls, HealSnapshot(s) PROVE OnlyCommitted'
  <2>1. /\ Committed \subseteq Committed'
        /\ (\A d \in Calls : d # s => pc'[d] = pc[d]) /\ pc'[s] = "healed"
    BY <1>5, CommittedGrows DEF HealSnapshot
  <2>2. \A d \in Calls : seen'[d].log = seen[d].log
    BY <1>5 DEF HealSnapshot, TypeOK
  <2>3. row'.log = seen[s].log /\ pc[s] \in Holding /\ table' = table
    BY <1>5 DEF HealSnapshot, Written
  <2> QED BY <1>0, <2>1, <2>2, <2>3 DEF OnlyCommitted
<1>6. ASSUME NEW s \in Calls, HealTables(s) PROVE OnlyCommitted'
  <2>1. /\ Committed \subseteq Committed'
        /\ (\A d \in Calls : d # s => pc'[d] = pc[d]) /\ pc'[s] = "ready"
    BY <1>6, CommittedGrows DEF HealTables
  <2>2. table'.has = In(seen[s].log) /\ pc[s] \in Holding /\ row' = row /\ seen' = seen
    BY <1>6 DEF HealTables, FullProjection, TypeOK
  <2> QED BY <1>0, <2>1, <2>2 DEF OnlyCommitted
<1>7. ASSUME NEW s \in Calls, WriteSnapshot(s) PROVE OnlyCommitted'
  <2>1. seen[s].log = row.log /\ seen[s].log \in States
    BY <1>7 DEF WriteSnapshot, Matches, Fresh, TypeOK
  <2>2. /\ Committed \subseteq Committed' /\ s \in Committed'
        /\ (\A d \in Calls : d # s => pc'[d] = pc[d]) /\ pc'[s] = "projecting"
    BY <1>7, CommittedGrows DEF WriteSnapshot
  <2>3. row'.log = Append(row.log, s) /\ seen' = seen /\ table' = table
    BY <1>7, <2>1 DEF WriteSnapshot, Written
  <2>4. In(Append(row.log, s)) \subseteq Committed'
    BY <1>0, <2>1, <2>2, AppendCalls
  <2> QED BY <1>0, <2>1, <2>2, <2>3, <2>4 DEF OnlyCommitted
<1>8. ASSUME NEW s \in Calls, WriteTables(s) PROVE OnlyCommitted'
  <2>1. /\ Committed \subseteq Committed'
        /\ (\A d \in Calls : d # s => pc'[d] = pc[d]) /\ pc'[s] = "done"
    BY <1>8, CommittedGrows DEF WriteTables, Leave
  <2>2. \A d \in Calls : d # s => seen'[d] = seen[d]
    BY <1>8 DEF WriteTables, Leave, TypeOK
  <2>3. table'.has = In(Append(seen[s].log, s)) /\ pc[s] = "projecting" /\ row' = row
    BY <1>8 DEF WriteTables, FullProjection, TypeOK
  <2> QED BY <1>0, <2>1, <2>2, <2>3 DEF OnlyCommitted
<1>9. CASE AcceptInvite \/ UNCHANGED vars
  BY <1>0, <1>9 DEF AcceptInvite, vars, OnlyCommitted, Committed, TypeOK
<1> QED BY <1>1, <1>2, <1>3, <1>4, <1>5, <1>6, <1>7, <1>8, <1>9 DEF Next, Attempt, Write

LEMMA ShownCommitted == \A c \in Committed : Outcome[c] = "committed"
<1> SUFFICES ASSUME NEW c \in Committed PROVE Outcome[c] = "committed"
  OBVIOUS
<1>1. pc[c] \in {"projecting", "done"} /\ pc[c] \notin Open
  BY DEF Committed, Open
<1> QED BY <1>1 DEF Outcome, Committed

-----------------------------------------------------------------------------
\* The theorems.

(* The invariant is inductive, and holds of every reachable state.         *)
THEOREM IInvHolds == Spec => []IInv
<1>1. IInv /\ [Next]_vars => IInv'
  BY TypeStep, TriesStep, FreshStep, CommittedStep DEF IInv
<1> QED BY TypeInit, <1>1, PTL DEF Spec

(* The store's variables keep their types; no call tries more often than   *)
(* MAX_WRITE_CONFLICT_RETRIES allows.                                       *)
THEOREM TypeCorrect == Spec => []TypeOK
<1>1. IInv => TypeOK
  BY DEF IInv
<1> QED BY IInvHolds, <1>1, PTL

(* A writeSeq that still matches stands for the state that was read, so    *)
(* the compare-and-set of store.ts never overwrites an unseen commit.      *)
THEOREM CompareAndSetIsSound == Spec => []MatchMeansFresh
<1>1. IInv => MatchMeansFresh
  BY DEF IInv, Fresh, MatchMeansFresh, Matches
<1> QED BY IInvHolds, <1>1, PTL

(* The normalized tables hold committed mutations only, wherever a script  *)
(* stops and whatever the self-heals revert.                                *)
THEOREM TablesStayBehind == Spec => []TablesNeverAhead
<1>1. IInv => TablesNeverAhead
  BY ShownCommitted DEF IInv, OnlyCommitted, TypeOK, TablesNeverAhead
<1> QED BY IInvHolds, <1>1, PTL

-----------------------------------------------------------------------------
\* The snapshot is a serial store.

\* What the callers see of a step of call c.
LEMMA OutcomeStep ==
  ASSUME TypeOK, NEW c \in Calls, NEW label, Goto(c, label)
  PROVE  /\ pc[c] \in Open => Outcome[c] = "open"
         /\ label \in Open /\ pc[c] \in Open => Outcome' = Outcome
         /\ label \in {"projecting", "done"} => Outcome' = [Outcome EXCEPT ![c] = "committed"]
         /\ label = "failed" => Outcome' = [Outcome EXCEPT ![c] = "refused"]
         /\ pc[c] = "projecting" /\ label = "done" => Outcome' = Outcome
<1>1. pc' = [pc EXCEPT ![c] = label] /\ pc \in [Calls -> Open \union {"projecting"} \union Settled]
  BY DEF Goto, TypeOK
<1> DEFINE Shown(p) == CASE p \in Open -> "open"
                         [] p \in {"projecting", "done"} -> "committed"
                         [] OTHER -> "refused"
<1>2. Outcome = [d \in Calls |-> Shown(pc[d])] /\ Outcome' = [d \in Calls |-> Shown(pc'[d])]
  BY DEF Outcome
<1>3. /\ \A p \in Open : Shown(p) = "open"
      /\ Shown("projecting") = "committed" /\ Shown("done") = "committed"
      /\ Shown("failed") = "refused"
  BY DEF Open
<1> HIDE DEF Shown
<1>4. Outcome' = [Outcome EXCEPT ![c] = Shown(label)]
  BY <1>1, <1>2
<1>5. Outcome[c] = Shown(pc[c]) /\ [Outcome EXCEPT ![c] = Outcome[c]] = Outcome
  BY <1>2
<1> QED BY <1>3, <1>4, <1>5

Healing == Serial!Revert /\ \E s \in Scripts : HealSnapshot(s)

LEMMA SerialStep == IInv /\ [Next]_vars => [Serial!Next \/ Healing]_(Serial!vars)
<1> SUFFICES ASSUME IInv, [Next]_vars PROVE [Serial!Next \/ Healing]_(Serial!vars)
  OBVIOUS
<1>0. TypeOK /\ Fresh /\ OnlyCommitted
  BY DEF IInv
<1> DEFINE Stutters == row'.log = row.log /\ Outcome' = Outcome
<1> DEFINE Refused(c) == /\ row'.log = row.log /\ Outcome[c] = "open"
                         /\ Outcome' = [Outcome EXCEPT ![c] = "refused"]
<1>a. Stutters => UNCHANGED Serial!vars
  BY DEF Serial!vars
<1>b. ASSUME NEW c \in Calls, Refused(c) PROVE Serial!Next
  BY <1>b DEF Serial!Next, Serial!Refuse
<1>1. ASSUME NEW c \in Calls, ReadSnapshot(c) PROVE Stutters
  BY <1>0, <1>1, OutcomeStep DEF ReadSnapshot, Open
<1>2. ASSUME NEW c \in Calls, MergeIdentity(c) PROVE Stutters
  <2>1. PICK label \in Open : Goto(c, label)
    BY <1>2 DEF MergeIdentity, Open
  <2> QED BY <1>0, <1>2, <2>1, OutcomeStep DEF MergeIdentity, Open
<1>3. ASSUME NEW c \in Calls, Commit(c) \/ WriteSnapshot(c) PROVE Serial!Next
  <2>1. PICK label \in {"projecting", "done"} : Goto(c, label)
    BY <1>3 DEF Commit, WriteSnapshot, Leave
  <2>2. pc[c] = "ready" /\ seen[c].log = row.log
    BY <1>0, <1>3 DEF Commit, WriteSnapshot, Matches, Fresh, TypeOK
  <2>3. row'.log = Append(row.log, c)
    BY <1>3, <2>2 DEF Commit, WriteSnapshot, Written
  <2>4. Outcome[c] = "open" /\ Outcome' = [Outcome EXCEPT ![c] = "committed"]
    BY <1>0, <2>1, <2>2, OutcomeStep DEF Open
  <2> QED BY <2>3, <2>4 DEF Serial!Next, Serial!Apply
<1>4. ASSUME NEW c \in Calls, Conflict(c) PROVE Stutters \/ Refused(c)
  <2>1. pc[c] \in Open /\ row' = row
    BY <1>4 DEF Conflict, Open
  <2>2. PICK label \in {"idle", "failed"} : Goto(c, label)
    BY <1>4 DEF Conflict, Leave
  <2> QED BY <1>0, <2>1, <2>2, OutcomeStep DEF Open
<1>5. ASSUME NEW c \in Calls, Abort(c) \/ WriteRefused(c) PROVE Refused(c)
  <2>1. pc[c] \in Open /\ row' = row /\ Goto(c, "failed")
    BY <1>5 DEF Abort, WriteRefused, Open, Leave
  <2> QED BY <1>0, <2>1, OutcomeStep
<1>6. ASSUME NEW s \in Calls, HealSnapshot(s) PROVE Healing
  <2>1. row'.log = seen[s].log /\ s \in Scripts /\ pc[s] \in Holding \intersect Open
    BY <1>6 DEF HealSnapshot, Written, Open
  <2>2. Outcome' = Outcome
    BY <1>0, <1>6, <2>1, OutcomeStep DEF HealSnapshot, Open
  <2>3. In(seen[s].log) \subseteq Committed
    BY <1>0, <2>1 DEF OnlyCommitted
  <2>4. \A i \in DOMAIN row'.log : Outcome[row'.log[i]] = "committed"
    BY <2>1, <2>3, ShownCommitted DEF In
  <2> QED BY <1>6, <2>1, <2>2, <2>4 DEF Healing, Serial!Revert
<1>7. ASSUME NEW s \in Calls, HealTables(s) PROVE Stutters
  BY <1>0, <1>7, OutcomeStep DEF HealTables, Open
<1>8. ASSUME NEW s \in Calls, WriteTables(s) PROVE Stutters
  BY <1>0, <1>8, OutcomeStep DEF WriteTables, Leave
<1>9. ASSUME NEW s \in Calls, Stop(s) PROVE Stutters \/ Refused(s)
  <2>1. CASE pc[s] = "projecting"
    BY <1>0, <1>9, <2>1, OutcomeStep DEF Stop, Leave
  <2>2. CASE pc[s] # "projecting"
    <3>1. pc[s] \in Open /\ row' = row /\ Goto(s, "failed")
      BY <1>9, <2>2 DEF Stop, Open, Leave
    <3> QED BY <1>0, <3>1, OutcomeStep
  <2> QED BY <2>1, <2>2
<1>10. ASSUME AcceptInvite \/ UNCHANGED vars PROVE Stutters
  <2>1. row' = row /\ pc' = pc
    BY <1>10 DEF AcceptInvite, vars
  <2> DEFINE Shown(p) == CASE p \in Open -> "open"
                           [] p \in {"projecting", "done"} -> "committed"
                           [] OTHER -> "refused"
  <2>2. Outcome = [c \in Calls |-> Shown(pc[c])] /\ Outcome' = [c \in Calls |-> Shown(pc'[c])]
    BY DEF Outcome
  <2> HIDE DEF Shown
  <2>3. Outcome' = Outcome
    BY <2>1, <2>2
  <2> QED BY <2>1, <2>3
<1> HIDE DEF Stutters, Refused
<1>11. CASE Next
  BY <1>a, <1>b, <1>1, <1>2, <1>3, <1>4, <1>5, <1>6, <1>7, <1>8, <1>9, <1>10, <1>11
     DEF Next, Attempt, Write
<1> QED BY <1>a, <1>10, <1>11

(* Every step of the store is a step of the serial store, or invisible to  *)
(* its callers, or the self-heal of a plain read; and that one puts back   *)
(* acknowledged mutations only.                                            *)
THEOREM SerialStoreImplemented == Spec => ImplementsSerialStore
<1>1. Init => Serial!Init
  <2> SUFFICES ASSUME Init PROVE Serial!Init
    OBVIOUS
  <2>1. \A c \in Calls : pc[c] \in Open
    BY DEF Init, Open
  <2> DEFINE Shown(p) == CASE p \in Open -> "open"
                           [] p \in {"projecting", "done"} -> "committed"
                           [] OTHER -> "refused"
  <2>3. \A p \in Open : Shown(p) = "open"
    BY DEF Open
  <2>4. Outcome = [c \in Calls |-> Shown(pc[c])]
    BY DEF Outcome
  <2> HIDE DEF Shown
  <2>2. Outcome = [c \in Calls |-> "open"]
    BY <2>1, <2>3, <2>4
  <2> QED BY <2>2 DEF Init, Serial!Init
<1>2. IInv /\ [Next]_vars => [Serial!Next \/ (Serial!Revert /\ \E s \in Scripts : HealSnapshot(s))]_(Serial!vars)
  BY SerialStep DEF Healing
<1> QED BY IInvHolds, <1>1, <1>2, PTL DEF Spec, ImplementsSerialStore
=============================================================================
