--------------------------- MODULE SnapshotStore ---------------------------
(***************************************************************************)
(* The snapshot store of lib/phase1/store.ts: the whole application state  *)
(* in one row guarded by writeSeq, its projection into normalized tables,  *)
(* and the identity rows that the auth fast path writes past the snapshot. *)
(*                                                                         *)
(* updateState and updateAuthState run in one READ COMMITTED transaction:  *)
(* their writes become visible together, so read, merge and commit are an  *)
(* action each.  readState and writeState of a script run statement by     *)
(* statement.  A state is the sequence of the mutations that made it.      *)
(***************************************************************************)
EXTENDS Integers, Sequences, FiniteSets

CONSTANTS Updates,   \* updateState / updateAuthState calls
          Unscoped,  \* those without normalizedTables: they project everything
          Scripts,   \* ops scripts and pages: readState, then perhaps writeState
          Raising,   \* calls whose write leaves a state that migrateState changes
          MaxTries   \* MAX_WRITE_CONFLICT_RETRIES

Calls == Updates \union Scripts

ASSUME StoreAssumption ==
  /\ Unscoped \subseteq Updates /\ Raising \subseteq Calls /\ Updates \intersect Scripts = {}
  /\ MaxTries \in Nat \ {0}

VARIABLES
  row,    \* the snapshot row: writeSeq, state, and whether migrateState changes it
  table,  \* the normalized tables: the mutations in them, the invite, its account
  pc,     \* pc[c]: where call c is
  seen,   \* seen[c]: the state c has read, with the writeSeq it holds for it
  tries   \* tries[c]: attempts begun by runWithWriteConflictRetry
vars == <<row, table, pc, seen, tries>>

Invites == {"Pending", "Accepted"}
States  == Seq(Calls)
Open    == {"idle", "read", "ready", "healing", "healed"}
Settled == {"done", "failed"}

TypeOK ==
  /\ row \in [seq : Nat, log : States, old : BOOLEAN]
  /\ table \in [has : SUBSET Calls, invite : Invites, active : BOOLEAN]
  /\ pc \in [Calls -> Open \union {"projecting"} \union Settled]
  /\ seen \in [Calls -> [seq : Nat, log : States, old : BOOLEAN, invite : Invites]]
  /\ tries \in [Calls -> 0..MaxTries]

NoCopy == [seq |-> 0, log |-> <<>>, old |-> FALSE, invite |-> "Pending"]

\* What call c writes.  migrateState completes more than the states of older
\* releases (a demo ledger entry for a job whose cost was raised, a ledger entry
\* for a completed run, missing defaults), so the next read may find a state that
\* this release has written, a self-heal's included, in need of it.
Written(c, seq, log) == [seq |-> seq, log |-> log, old |-> c \in Raising]

Init ==
  /\ row \in [seq : {0}, log : {<<>>}, old : BOOLEAN]
  /\ table = [has |-> {}, invite |-> "Pending", active |-> FALSE]
  /\ pc = [c \in Calls |-> "idle"]
  /\ seen = [c \in Calls |-> NoCopy]
  /\ tries = [c \in Calls |-> 0]

In(log) == {log[i] : i \in DOMAIN log}

Goto(c, label) == pc' = [pc EXCEPT ![c] = label]

\* An attempt is over and its copy of the state is dropped.
Leave(c, label) == Goto(c, label) /\ seen' = [seen EXCEPT ![c] = NoCopy]

-----------------------------------------------------------------------------
\* readStateFromPrisma: the snapshot and its writeSeq in one query, then the
\* identity rows, which the copy takes over (an invite whose account is active
\* counts as accepted).

ReadSnapshot(c) ==
  /\ pc[c] = "idle"
  /\ seen' = [seen EXCEPT ![c] = [seq |-> row.seq, log |-> row.log, old |-> row.old,
                                  invite |-> @.invite]]
  /\ tries' = [tries EXCEPT ![c] = IF c \in Updates THEN @ + 1 ELSE @]
  /\ Goto(c, "read")
  /\ UNCHANGED <<row, table>>

MergedInvite == IF table.active THEN "Accepted" ELSE table.invite

MergeIdentity(c) ==
  /\ pc[c] = "read"
  /\ seen' = [seen EXCEPT ![c].invite = MergedInvite]
  /\ Goto(c, IF c \in Scripts /\ seen[c].old THEN "healing" ELSE "ready")
  /\ UNCHANGED <<row, table, tries>>

\* A full projection makes the tables what the copy says; a scoped diff writes
\* the rows the mutation changed and no others.  (The account of the invite is
\* upserted, never deleted, and the copy knows it as active or not at all.  What
\* the same writer does to seats, members and sessions is in WorkspaceSeats.)
FullProjection(copy, log) == [table EXCEPT !.has = In(log), !.invite = copy.invite]
ScopedDiff(c) == [table EXCEPT !.has = @ \union {c}]

-----------------------------------------------------------------------------
\* updateState and updateAuthState.  The transaction of an outdated snapshot
\* first writes the migrated state (and everything with it), then compares with
\* the sequence number it gave that write; the row lock it holds by then makes
\* the comparison one with the row as it was read.

\* Mutant: last write wins.
AlwaysMatches(c) == row.seq >= seen[c].seq

Matches(c) == row.seq = seen[c].seq

Commit(c) ==
  /\ c \in Updates /\ pc[c] = "ready"
  /\ Matches(c)
  /\ row' = Written(c, seen[c].seq + (IF seen[c].old THEN 2 ELSE 1), Append(seen[c].log, c))
  /\ table' = IF c \in Unscoped \/ seen[c].old
              THEN FullProjection(seen[c], row'.log) ELSE ScopedDiff(c)
  /\ Leave(c, "done")
  /\ UNCHANGED <<tries>>

\* Mutant: the retry keeps the copy that has just lost.
RetryOnTheSameCopy(c) ==
  /\ c \in Updates /\ pc[c] = "ready"
  /\ ~Matches(c)
  /\ tries[c] < MaxTries
  /\ UNCHANGED vars

\* WriteConflictError: everything is rolled back and, while attempts are left,
\* the mutation runs again on a fresh read.
Conflict(c) ==
  /\ c \in Updates /\ pc[c] = "ready"
  /\ ~Matches(c)
  /\ Leave(c, IF tries[c] < MaxTries THEN "idle" ELSE "failed")
  /\ UNCHANGED <<row, table, tries>>

\* The mutator throws, or the transaction runs into its timeout.
Abort(c) ==
  /\ c \in Updates /\ pc[c] \in {"read", "ready"}
  /\ Leave(c, "failed")
  /\ UNCHANGED <<row, table, tries>>

-----------------------------------------------------------------------------
\* Scripts.  The self-heal of a plain readState writes unconditionally.

\* Mutant: an unconditional write leaves writeSeq alone.
HealUncounted(s) ==
  /\ s \in Scripts /\ pc[s] = "healing"
  /\ row' = Written(s, row.seq, seen[s].log)
  /\ seen' = [seen EXCEPT ![s].old = FALSE]
  /\ Goto(s, "healed")
  /\ UNCHANGED <<table, tries>>

HealSnapshot(s) ==
  /\ s \in Scripts /\ pc[s] = "healing"
  /\ row' = Written(s, row.seq + 1, seen[s].log)
  /\ seen' = [seen EXCEPT ![s] = [seq |-> @.seq + 1, log |-> @.log, old |-> FALSE,
                                  invite |-> @.invite]]
  /\ Goto(s, "healed")
  /\ UNCHANGED <<table, tries>>

HealTables(s) ==
  /\ s \in Scripts /\ pc[s] = "healed"
  /\ table' = FullProjection(seen[s], seen[s].log)
  /\ Goto(s, "ready")
  /\ UNCHANGED <<row, seen, tries>>

\* writeState, whose compare-and-set and projection are separate statements.
WriteSnapshot(s) ==
  /\ s \in Scripts /\ pc[s] = "ready"
  /\ Matches(s)
  /\ row' = Written(s, seen[s].seq + 1, Append(seen[s].log, s))
  /\ Goto(s, "projecting")
  /\ UNCHANGED <<table, seen, tries>>

WriteTables(s) ==
  /\ s \in Scripts /\ pc[s] = "projecting"
  /\ table' = FullProjection(seen[s], Append(seen[s].log, s))
  /\ Leave(s, "done")
  /\ UNCHANGED <<row, tries>>

\* Mutant: the projection runs although the compare-and-set failed.
WriteRefusedTooLate(s) ==
  /\ s \in Scripts /\ pc[s] = "ready"
  /\ ~Matches(s)
  /\ table' = FullProjection(seen[s], Append(seen[s].log, s))
  /\ Leave(s, "failed")
  /\ UNCHANGED <<row, tries>>

\* "Nothing was written - re-run the script."
WriteRefused(s) ==
  /\ s \in Scripts /\ pc[s] = "ready"
  /\ ~Matches(s)
  /\ Leave(s, "failed")
  /\ UNCHANGED <<row, table, tries>>

\* A page that only reads, or a script that dies; after its compare-and-set the
\* snapshot is written and the tables are not.
Stop(s) ==
  /\ s \in Scripts /\ pc[s] \in {"read", "healing", "healed", "ready", "projecting"}
  /\ Leave(s, IF pc[s] = "projecting" THEN "done" ELSE "failed")
  /\ UNCHANGED <<row, table, tries>>

-----------------------------------------------------------------------------
\* acceptInvite of auth-fast-path.ts: one transaction on the tables alone.
AcceptInvite ==
  /\ table.invite = "Pending"
  /\ table' = [table EXCEPT !.invite = "Accepted", !.active = TRUE]
  /\ UNCHANGED <<row, pc, seen, tries>>

Attempt(c) == ReadSnapshot(c) \/ MergeIdentity(c) \/ Commit(c) \/ Conflict(c)

Write(s) == HealSnapshot(s) \/ HealTables(s) \/ WriteSnapshot(s) \/ WriteTables(s) \/ WriteRefused(s)

Next ==
  \/ \E c \in Calls : Attempt(c) \/ Abort(c) \/ Write(c) \/ Stop(c)
  \/ AcceptInvite

Spec == Init /\ [][Next]_vars

\* A call that has been made runs on; nobody promises an invite is accepted or
\* a script is finished.
FairSpec == Spec /\ \A c \in Updates : WF_vars(Attempt(c))

-----------------------------------------------------------------------------
Outcome == [c \in Calls |-> CASE pc[c] \in Open -> "open"
                              [] pc[c] \in {"projecting", "done"} -> "committed"
                              [] OTHER -> "refused"]

Serial == INSTANCE SerialStore WITH log <- row.log, outcome <- Outcome

(* However calls interleave, retry and fail, the snapshot is the result of *)
(* applying the acknowledged mutations one by one, each once, each on top  *)
(* of all before it; a refused call has left nothing behind.  There is one *)
(* exception, and it loses acknowledged mutations: a read outside a        *)
(* transaction that finds the state in need of migration writes what it    *)
(* has read over whatever was committed since.  No update, no conflicting  *)
(* write and no projection does so; and what the read puts back holds      *)
(* acknowledged mutations only.                                            *)
ImplementsSerialStore ==
  Serial!Init /\ [][\/ Serial!Next
                    \/ Serial!Revert /\ \E s \in Scripts : HealSnapshot(s)]_(Serial!vars)

(* A writeSeq that still matches stands for the very state that was read,  *)
(* self-heals included: "any concurrent CAS writer whose baseline predates *)
(* this write conflicts ... instead of silently reverting it" (store.ts).  *)
MatchMeansFresh ==
  \A c \in Calls : pc[c] = "ready" /\ Matches(c) => seen[c].log = row.log

(* The tables hold no mutation that was not committed to the snapshot,     *)
(* whichever partial write a script died in, whichever self-heal reverted  *)
(* what, and whichever diff came after it: readers of the tables see no    *)
(* effect of a call that was refused or is still open.                     *)
TablesNeverAhead == \A c \in table.has : Outcome[c] = "committed"

(* An update call comes back: contention ends in a commit or, after        *)
(* MAX_WRITE_CONFLICT_RETRIES attempts, in an error.                       *)
EveryUpdateSettles == \A c \in Updates : <>(pc[c] \in Settled)

(* store-write-seq-cas.test.ts: "does not lose a concurrent write (no      *)
(* last-write-wins)": a mutation in the snapshot stays in it.              *)
CommittedStays == [][In(row.log) \subseteq In(row'.log)]_vars

(* store.ts on the merge of identity rows: "a projection can't reset a     *)
(* natively-accepted invite".                                              *)
AcceptedInviteStays ==
  [][table.invite = "Accepted" => table'.invite = "Accepted"]_vars
=============================================================================
