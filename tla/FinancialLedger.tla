-------------------------- MODULE FinancialLedger --------------------------
(***************************************************************************)
(* The append-only ledger of lib/growth/repositories/                      *)
(* financial-ledger-repository.ts.  Every command runs in a SERIALIZABLE   *)
(* transaction, so each is one step; a command that throws changes         *)
(* nothing, whatever made it throw.  The transport may repeat a command,   *)
(* and another one may carry an event of the same source again.            *)
(* One workspace, one currency, one provider, events without evidence.     *)
(***************************************************************************)
EXTENDS Integers, FiniteSets, FiniteSetsExt

CONSTANTS EventKeys,  \* idempotency keys; a row's id is a hash of its key
          Sources,    \* (sourceSystem, sourceEventId, sourceLineId)
          Spenders,   \* campaigns the events are about
          Amounts, NoRow,
          MaxAnswers  \* bound on distinct commands answered with a row

ASSUME LedgerAssumption ==
  Amounts \subseteq Int /\ NoRow \notin EventKeys /\ MaxAnswers \in Nat

VARIABLES ledger,  \* the rows of cost_entries by key
          answers  \* ghost: the commands answered with a row, and which row
ledgerVars == <<ledger, answers>>

Kinds == {"ESTIMATE", "AUTHORIZATION", "ACTUAL", "ADJUSTMENT", "REVERSAL"}
FinancialEvents == [kind : Kinds, source : Sources, campaign : Spenders, amount : Int,
                    totalCents : Int, target : EventKeys \union {NoRow}]
ASSUME NoRowAssumption == NoRow \notin FinancialEvents

Recorded == {k \in EventKeys : ledger[k] # NoRow}

LedgerTypeOK ==
  /\ ledger \in [EventKeys -> FinancialEvents \union {NoRow}]
  /\ answers \subseteq [key : EventKeys, event : FinancialEvents, row : EventKeys]

LedgerInit == ledger = [k \in EventKeys |-> NoRow] /\ answers = {}

-----------------------------------------------------------------------------
\* normalizeEvent and the totals.

Negative(n) == -n
Abs(n) == IF n < 0 THEN -n ELSE n

ActualSpendEffect(kind, amount, target) ==
  IF kind \in {"ACTUAL", "ADJUSTMENT"} THEN amount
  ELSE IF kind = "REVERSAL" /\ ledger[target].kind \in {"ACTUAL", "ADJUSTMENT"}
       THEN Negative(ledger[target].amount) ELSE 0

\* Mutant: a reversal takes off its own amount, which is never negative.
OwnAmountOff(row, bucket) ==
  IF row.kind # "REVERSAL" THEN IF row.kind \in bucket THEN row.amount ELSE 0
  ELSE IF ledger[row.target].kind \in bucket THEN Negative(row.amount) ELSE 0

\* calculateFinancialTotals, a bucket being the kinds that count into it.
Counted(row, bucket) ==
  IF row.kind # "REVERSAL" THEN IF row.kind \in bucket THEN row.amount ELSE 0
  ELSE IF ledger[row.target].kind \in bucket THEN Negative(ledger[row.target].amount) ELSE 0

RowsOf(campaign) == {k \in Recorded : ledger[k].campaign = campaign}
TotalCents(campaign, bucket) == MapThenSumSet(LAMBDA k : Counted(ledger[k], bucket), RowsOf(campaign))

-----------------------------------------------------------------------------
\* The commands.

SameSource(e) == {k \in Recorded : ledger[k].source = e.source /\ ledger[k].kind = e.kind}
FindReplay(key, e) == ({key} \intersect Recorded) \union SameSource(e)

\* The unique index on reversesCostEntryId; those on the key and the source
\* are FindReplay's own.
Reversed(target) == \E k \in Recorded : ledger[k].kind = "REVERSAL" /\ ledger[k].target = target

Answer(key, e, row) == answers' = answers \union {[key |-> key, event |-> e, row |-> row]}

\* Mutant: a replay is answered without comparing its content.
PersistWithoutCompare(key, e) ==
  /\ Cardinality(answers) < MaxAnswers
  /\ \/ /\ FindReplay(key, e) = {} /\ (e.kind = "REVERSAL" => ~Reversed(e.target))
        /\ ledger' = [ledger EXCEPT ![key] = e] /\ Answer(key, e, key)
     \/ \E row \in FindReplay(key, e) :
          Cardinality(FindReplay(key, e)) = 1 /\ Answer(key, e, row) /\ UNCHANGED ledger

\* Rows that differ for key and source, or other content than the row's, are
\* a conflict.
PersistEvent(key, e) ==
  /\ Cardinality(answers) < MaxAnswers
  /\ \/ /\ FindReplay(key, e) = {} /\ (e.kind = "REVERSAL" => ~Reversed(e.target))
        /\ ledger' = [ledger EXCEPT ![key] = e] /\ Answer(key, e, key)
     \/ \E row \in EventKeys :
          /\ FindReplay(key, e) = {row} /\ ledger[row] = e
          /\ Answer(key, e, row) /\ UNCHANGED ledger

Event(kind, source, campaign, amount, target) ==
  [kind |-> kind, source |-> source, campaign |-> campaign, amount |-> amount,
   totalCents |-> ActualSpendEffect(kind, amount, target), target |-> target]

RecordEstimate(key, source, campaign, amount) ==
  amount >= 0 /\ PersistEvent(key, Event("ESTIMATE", source, campaign, amount, NoRow))

RecordAuthorization(key, source, campaign, amount) ==
  amount >= 0 /\ PersistEvent(key, Event("AUTHORIZATION", source, campaign, amount, NoRow))

RecordActual(key, source, campaign, amount) ==
  amount >= 0 /\ PersistEvent(key, Event("ACTUAL", source, campaign, amount, NoRow))

\* A correction is booked on the campaign of its target.  An adjustment of an
\* event that was reversed is accepted.
RecordAdjustment(key, source, target, amount) ==
  /\ target \in Recorded /\ ledger[target].kind = "ACTUAL" /\ amount # 0
  /\ PersistEvent(key, Event("ADJUSTMENT", source, ledger[target].campaign, amount, target))

RecordReversal(key, source, target) ==
  /\ target \in Recorded /\ ledger[target].kind # "REVERSAL"
  /\ PersistEvent(key, Event("REVERSAL", source, ledger[target].campaign,
                             Abs(ledger[target].amount), target))

LedgerNext ==
  \E key \in EventKeys, source \in Sources :
    \/ \E campaign \in Spenders, amount \in Amounts :
         \/ RecordEstimate(key, source, campaign, amount)
         \/ RecordAuthorization(key, source, campaign, amount)
         \/ RecordActual(key, source, campaign, amount)
    \/ \E target \in EventKeys :
         \/ \E amount \in Amounts : RecordAdjustment(key, source, target, amount)
         \/ RecordReversal(key, source, target)

LedgerSpec == LedgerInit /\ [][LedgerNext]_ledgerVars

-----------------------------------------------------------------------------
\* A command answered with a row has that row's content for ever, and all
\* commands about one event of a source were answered with one row, under
\* whichever keys they came: what is repeated or corrected is booked once.
BookedOnce ==
  /\ \A a \in answers : ledger[a.row] = a.event
  /\ \A a, b \in answers :
       (a.event.source = b.event.source /\ a.event.kind = b.event.kind) => a.row = b.row

\* The totals of a campaign are the sum of its events that nothing reversed,
\* each counted once, and the compatibility column totalCents sums to the
\* actual total (cost-ledger.ts shows either).
Standing(campaign, bucket) ==
  {k \in RowsOf(campaign) : ledger[k].kind \in bucket /\ ~Reversed(k)}

TotalsCountWhatStands ==
  \A campaign \in Spenders :
    /\ \A bucket \in {{"ESTIMATE"}, {"AUTHORIZATION"}, {"ACTUAL", "ADJUSTMENT"}} :
         TotalCents(campaign, bucket)
           = MapThenSumSet(LAMBDA k : ledger[k].amount, Standing(campaign, bucket))
    /\ TotalCents(campaign, {"ACTUAL", "ADJUSTMENT"})
         = MapThenSumSet(LAMBDA k : ledger[k].totalCents, RowsOf(campaign))
=============================================================================
