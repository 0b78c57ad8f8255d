------------------------ MODULE ContactHygieneProofs ------------------------
(***************************************************************************)
(* For any contacts, addresses and number of steps: the type invariant,    *)
(* and that an opt-out sticks.  The strengthening says that a contact that *)
(* was not imported yet has no opt-out, so that its import cannot lose one.*)
(* Beside any such change, and for any clicks, retries and deaths: what    *)
(* the sends promise.  There the strengthening is who owns a recipient.    *)
(***************************************************************************)
EXTENDS DirectSends, TLAPS

Cells == Rows \union {Absent, Merged}
Opted == {"no", "weak", "full"}
Flagged(row) == row.doNotContact = TRUE /\ row.isSuppressed = TRUE

\* What the invariant says of the contacts cs and the opt-outs os.
Good(cs, os) ==
  /\ cs \in [Contacts -> Cells] /\ os \in [Contacts -> Opted]
  /\ \A c \in Contacts :
       /\ (cs[c] \in Rows /\ os[c] = "full") => Flagged(cs[c])
       /\ cs[c] = Absent => os[c] = "no"

\* The rest of the type invariant.
ListsOK ==
  /\ suppressions \subseteq Records
  /\ requests \subseteq Requests
  /\ webhooks \subseteq Deliveries /\ applied \in [Deliveries -> Nat]
  /\ crmSteps \in 0..MaxCrmSteps

IInv == Good(contacts, optedOut) /\ ListsOK

LEMMA IInvImpliesTypeOK == IInv => HygieneTypeOK
BY DEF IInv, Good, ListsOK, HygieneTypeOK, Cells, Opted

LEMMA LiveRow ==
  ASSUME NEW c \in Live, Good(contacts, optedOut) PROVE c \in Contacts /\ contacts[c] \in Rows
BY DEF Live, Good, Cells

LEMMA IInvImpliesSticks == IInv => OptOutSticks
<1> SUFFICES ASSUME IInv, NEW c \in Live, optedOut[c] = "full"
             PROVE contacts[c].doNotContact /\ contacts[c].isSuppressed
  BY DEF OptOutSticks
<1>1. Good(contacts, optedOut)
  BY DEF IInv
<1>2. c \in Contacts /\ contacts[c] \in Rows
  BY <1>1, LiveRow
<1>3. Flagged(contacts[c])
  BY <1>1, <1>2 DEF Good
<1> QED BY <1>3 DEF Flagged

-----------------------------------------------------------------------------
\* Rows.

LEMMA FreshContactRow == ASSUME NEW e \in Emails \union {NoEmail} PROVE Fresh(e) \in Rows
BY DEF Fresh, Rows

LEMMA SuppressedRow ==
  ASSUME NEW row \in Rows PROVE Suppressed(row) \in Rows /\ Flagged(Suppressed(row))
BY DEF Suppressed, Rows, Flagged

LEMMA VerifiedRow ==
  ASSUME NEW row \in Rows, NEW list
  PROVE  Verified(row, list) \in Rows /\ (Flagged(row) => Flagged(Verified(row, list)))
<1>1. CASE row.doNotContact \/ ReasonFor(row, list)
  BY <1>1, SuppressedRow DEF Verified
<1>2. CASE ~(row.doNotContact \/ ReasonFor(row, list))
  <2> DEFINE g == GradeOf(row)
             p == PriorityOf(g)
  <2>1. g \in {"ABC", "D"} /\ p \in {"P", "S"}
    BY DEF GradeOf, PriorityOf
  <2>2. Verified(row, list) = [row EXCEPT !.isSuppressed = FALSE, !.grade = g, !.priority = p]
    BY <1>2 DEF Verified
  <2>3. ~Flagged(row)
    BY <1>2 DEF Flagged
  <2> HIDE DEF g, p
  <2>4. [row EXCEPT !.isSuppressed = FALSE, !.grade = g, !.priority = p] \in Rows
    BY <2>1 DEF Rows
  <2> QED BY <2>2, <2>3, <2>4
<1> QED BY <1>1, <1>2

-----------------------------------------------------------------------------
\* What keeps the contacts good.

LEMMA KeepRow ==
  ASSUME NEW cs, NEW os, Good(cs, os),
         NEW c \in Contacts, NEW row \in Cells, NEW how \in Opted,
         (row \in Rows /\ how = "full") => Flagged(row),
         row = Absent => how = "no"
  PROVE  Good([cs EXCEPT ![c] = row], [os EXCEPT ![c] = how])
BY DEF Good

LEMMA KeepRowOnly ==
  ASSUME NEW c \in Contacts, NEW row \in Rows, contacts[c] \in Rows,
         Good(contacts, optedOut), Flagged(contacts[c]) => Flagged(row)
  PROVE  Good([contacts EXCEPT ![c] = row], optedOut)
<1>1. row \in Cells /\ row # Absent
  BY RowsAssumption DEF Cells
<1> QED BY <1>1 DEF Good

\* A fresh row in the place of one that was not imported yet.
LEMMA KeepImport ==
  ASSUME NEW c \in Contacts, NEW row \in Rows, contacts[c] = Absent, Good(contacts, optedOut)
  PROVE  Good([contacts EXCEPT ![c] = row], optedOut)
<1>1. row \in Cells /\ row # Absent
  BY RowsAssumption DEF Cells
<1> QED BY <1>1 DEF Good

LEMMA KeepSuppress ==
  ASSUME NEW c \in Contacts, contacts[c] \in Rows, Good(contacts, optedOut)
  PROVE  Good([contacts EXCEPT ![c] = Suppressed(@)], [optedOut EXCEPT ![c] = "full"])
<1> DEFINE row == Suppressed(contacts[c])
<1>1. row \in Rows /\ Flagged(row)
  BY SuppressedRow
<1>2. row \in Cells /\ row # Absent
  BY <1>1, RowsAssumption DEF Cells
<1> HIDE DEF row
<1>3. "full" \in Opted
  BY DEF Opted
<1>4. Good([contacts EXCEPT ![c] = row], [optedOut EXCEPT ![c] = "full"])
  BY <1>1, <1>2, <1>3, KeepRow
<1> QED BY <1>4 DEF row

LEMMA KeepVerified ==
  ASSUME NEW cs, NEW os, NEW list, Good(cs, os)
  PROVE  Good(VerifiedAll(cs, list), os)
<1> DEFINE vs == VerifiedAll(cs, list)
<1>1. vs = [c \in Contacts |-> IF cs[c] \in {Absent, Merged} THEN cs[c] ELSE Verified(cs[c], list)]
  BY DEF VerifiedAll
<1> HIDE DEF vs
<1>2. ASSUME NEW c \in Contacts
      PROVE  /\ vs[c] \in Cells
             /\ (vs[c] \in Rows /\ os[c] = "full") => Flagged(vs[c])
             /\ vs[c] = Absent => os[c] = "no"
  <2>1. cs[c] \in Cells /\ ((cs[c] \in Rows /\ os[c] = "full") => Flagged(cs[c]))
        /\ (cs[c] = Absent => os[c] = "no")
    BY DEF Good
  <2>2. CASE cs[c] \in {Absent, Merged}
    <3>1. vs[c] = cs[c]
      BY <1>1, <2>2
    <3> QED BY <2>1, <3>1
  <2>3. CASE cs[c] \notin {Absent, Merged}
    <3>1. cs[c] \in Rows /\ vs[c] = Verified(cs[c], list)
      BY <1>1, <2>1, <2>3 DEF Cells
    <3>2. vs[c] \in Rows /\ (Flagged(cs[c]) => Flagged(vs[c]))
      BY <3>1, VerifiedRow
    <3> QED BY <2>1, <3>1, <3>2, RowsAssumption DEF Cells
  <2> QED BY <2>2, <2>3
<1>3. vs \in [Contacts -> Cells]
  BY <1>1, <1>2
<1>4. os \in [Contacts -> Opted]
  BY DEF Good
<1>5. Good(vs, os)
  BY <1>2, <1>3, <1>4 DEF Good
<1> QED BY <1>5 DEF vs

-----------------------------------------------------------------------------
\* The actions.

\* What an opt-out adds to the list is a record.
LEMMA NewRecord ==
  ASSUME ListsOK, NEW address \in Emails \union {NoEmail, Domain},
         NEW t \in {"Unsubscribe", "Hard bounce", "Deletion request"}
  PROVE  suppressions \union {[type |-> t, address |-> address]} \subseteq Records
<1>1. [type |-> t, address |-> address] \in Records
  BY DEF Records
<1>2. suppressions \subseteq Records
  BY DEF ListsOK
<1> QED BY <1>1, <1>2

LEMMA RowAddress == ASSUME NEW row \in Rows PROVE row.email \in Emails \union {NoEmail}
BY DEF Rows

LEMMA StepCounts == ASSUME ListsOK, Step PROVE crmSteps' \in 0..MaxCrmSteps
BY HygieneAssumption DEF ListsOK, Step

LEMMA InitIInv == HygieneInit => IInv
<1> SUFFICES ASSUME HygieneInit PROVE IInv
  OBVIOUS
<1>1. contacts \in [Contacts -> Cells]
  BY FreshContactRow DEF HygieneInit, Cells
<1>2. optedOut \in [Contacts -> Opted] /\ \A c \in Contacts : optedOut[c] = "no"
  BY DEF HygieneInit, Opted
<1>3. Good(contacts, optedOut)
  BY <1>1, <1>2 DEF Good
<1>4. ListsOK
  BY HygieneAssumption DEF HygieneInit, ListsOK
<1> QED BY <1>3, <1>4 DEF IInv

LEMMA VerificationKeeps ==
  ASSUME IInv, RunVerification PROVE IInv'
<1>1. Good(contacts', optedOut')
  BY KeepVerified DEF IInv, RunVerification
<1>2. ListsOK'
  BY StepCounts DEF IInv, RunVerification, ListsOK
<1> QED BY <1>1, <1>2 DEF IInv

LEMMA AddKeeps ==
  ASSUME IInv, NEW address \in Emails \union {Domain}, AddSuppression(address) PROVE IInv'
<1> DEFINE cs == [c \in Contacts |-> IF c \in Live /\ address \in {contacts[c].email, Domain}
                                    THEN Suppressed(contacts[c]) ELSE contacts[c]]
<1>1. Good(contacts, optedOut)
  BY DEF IInv
<1>2. ASSUME NEW c \in Contacts
      PROVE  /\ cs[c] \in Cells
             /\ (cs[c] \in Rows /\ optedOut[c] = "full") => Flagged(cs[c])
             /\ cs[c] = Absent => optedOut[c] = "no"
  <2>1. CASE cs[c] = contacts[c]
    BY <1>1, <2>1 DEF Good
  <2>2. CASE c \in Live /\ cs[c] = Suppressed(contacts[c])
    <3>1. contacts[c] \in Rows
      BY <1>1, <2>2, LiveRow
    <3>2. cs[c] \in Rows /\ Flagged(cs[c])
      BY <2>2, <3>1, SuppressedRow
    <3> HIDE DEF cs
    <3> QED BY <3>2, RowsAssumption DEF Cells
  <2> QED BY <2>1, <2>2
<1>3. cs \in [Contacts -> Cells] /\ optedOut \in [Contacts -> Opted]
  BY <1>1, <1>2 DEF Good
<1>4. Good(cs, optedOut)
  <2> HIDE DEF cs
  <2> QED BY <1>2, <1>3 DEF Good
<1>5. Good(contacts', optedOut')
  <2>1. contacts' = VerifiedAll(cs, suppressions') /\ optedOut' = optedOut
    BY DEF AddSuppression
  <2> HIDE DEF cs
  <2>2. Good(VerifiedAll(cs, suppressions'), optedOut)
    BY <1>4, KeepVerified
  <2> QED BY <2>1, <2>2
<1>6. ListsOK'
  <2>1. suppressions \union {[type |-> "Unsubscribe", address |-> address]} \subseteq Records
    BY NewRecord DEF IInv
  <2>2. suppressions' \subseteq Records
    BY <2>1 DEF AddSuppression
  <2> QED BY <2>2, StepCounts DEF IInv, AddSuppression, ListsOK
<1> QED BY <1>5, <1>6 DEF IInv

LEMMA DeleteKeeps ==
  ASSUME IInv, NEW r \in suppressions, DeleteSuppression(r) PROVE IInv'
<1>1. Good(contacts, optedOut)
  BY DEF IInv
<1> DEFINE os == [c \in Contacts |-> IF optedOut[c] = "weak" THEN "no" ELSE optedOut[c]]
<1>2. Good(contacts, os)
  BY <1>1 DEF Good, Opted
<1>3. contacts' = VerifiedAll(contacts, suppressions') /\ optedOut' = os
  BY DEF DeleteSuppression
<1> HIDE DEF os
<1>4. Good(contacts', optedOut')
  BY <1>2, <1>3, KeepVerified
<1>5. ListsOK'
  BY StepCounts DEF IInv, DeleteSuppression, ListsOK
<1> QED BY <1>4, <1>5 DEF IInv

LEMMA DetailsKeep ==
  ASSUME IInv, NEW c \in Contacts, NEW e \in Emails \union {NoEmail},
         UpdateContactDetails(c, e)
  PROVE  IInv'
<1>1. Good(contacts, optedOut) /\ c \in Live /\ contacts[c] \in Rows
  BY LiveRow DEF IInv, UpdateContactDetails
<1> DEFINE row == [contacts[c] EXCEPT !.email = e]
           flag == row.isSuppressed \/ row.doNotContact \/ OnList(row, suppressions)
           new == [row EXCEPT !.isSuppressed = flag]
<1>2. row \in Rows /\ row.isSuppressed = contacts[c].isSuppressed
      /\ row.doNotContact = contacts[c].doNotContact
  BY <1>1 DEF Rows
<1>3. contacts' = [contacts EXCEPT ![c] = new]
  BY DEF UpdateContactDetails
<1>4. flag \in BOOLEAN /\ (row.isSuppressed = TRUE => flag = TRUE)
  BY <1>2 DEF Rows
<1>5. new \in Rows /\ (Flagged(contacts[c]) => Flagged(new))
  <2> HIDE DEF row, flag
  <2> QED BY <1>2, <1>4 DEF Rows, Flagged
<1> HIDE DEF new, row, flag
<1>6. Good(contacts', optedOut')
  <2>1. Good([contacts EXCEPT ![c] = new], optedOut)
    BY <1>1, <1>5, KeepRowOnly
  <2> QED BY <1>3, <2>1 DEF UpdateContactDetails
<1>7. ListsOK'
  BY StepCounts DEF IInv, UpdateContactDetails, ListsOK
<1> QED BY <1>6, <1>7 DEF IInv

LEMMA WaterfallKeeps ==
  ASSUME IInv, NEW c \in Live, NEW e \in Emails, NEW g \in {"ABC", "D", contacts[c].grade},
         ApplyWaterfallResults(c, e, g)
  PROVE  IInv'
<1>1. Good(contacts, optedOut) /\ c \in Contacts /\ contacts[c] \in Rows
  BY LiveRow DEF IInv
<1> DEFINE new == [contacts[c] EXCEPT !.email = e, !.grade = g]
<1>2. g \in {"ABC", "D", "S"}
  BY <1>1 DEF Rows
<1>3. new \in Rows /\ (Flagged(contacts[c]) => Flagged(new))
  BY <1>1, <1>2 DEF Rows, Flagged
<1>4. contacts' = [contacts EXCEPT ![c] = new]
  BY <1>1 DEF ApplyWaterfallResults, Good
<1> HIDE DEF new
<1>5. Good(contacts', optedOut')
  <2>1. Good([contacts EXCEPT ![c] = new], optedOut)
    BY <1>1, <1>3, KeepRowOnly
  <2> QED BY <1>4, <2>1 DEF ApplyWaterfallResults
<1>6. ListsOK'
  BY StepCounts DEF IInv, ApplyWaterfallResults, ListsOK
<1> QED BY <1>5, <1>6 DEF IInv

LEMMA ComplianceKeeps ==
  ASSUME IInv, NEW c \in Contacts, NEW b \in BOOLEAN, UpdateContactCompliance(c, b) PROVE IInv'
<1>1. Good(contacts, optedOut) /\ ListsOK /\ c \in Live /\ contacts[c] \in Rows
  BY LiveRow DEF IInv, UpdateContactCompliance
<1>2. CASE b
  <2>1. Good(contacts', optedOut')
    <3>1. contacts' = [contacts EXCEPT ![c] = Suppressed(@)] /\ optedOut' = [optedOut EXCEPT ![c] = "full"]
      BY <1>2 DEF UpdateContactCompliance, OptOut
    <3> QED BY <1>1, <3>1, KeepSuppress
  <2>2. suppressions' \subseteq Records
    <3>1. suppressions \union {[type |-> "Unsubscribe", address |-> contacts[c].email]} \subseteq Records
      BY <1>1, RowAddress, NewRecord
    <3> QED BY <1>1, <1>2, <3>1 DEF UpdateContactCompliance, ListsOK
  <2>3. ListsOK'
    BY <1>1, <2>2, StepCounts DEF UpdateContactCompliance, ListsOK
  <2> QED BY <2>1, <2>3 DEF IInv
<1>3. CASE ~b
  <2> DEFINE new == [contacts[c] EXCEPT !.doNotContact = FALSE]
  <2>1. new \in Rows
    BY <1>1 DEF Rows
  <2>2. contacts' = [contacts EXCEPT ![c] = new] /\ optedOut' = [optedOut EXCEPT ![c] = "no"]
    BY <1>1, <1>3 DEF UpdateContactCompliance, OptOut, Good
  <2> HIDE DEF new
  <2>3. new \in Cells /\ new # Absent /\ "no" \in Opted
    BY <2>1, RowsAssumption DEF Cells, Opted
  <2>4. Good([contacts EXCEPT ![c] = new], [optedOut EXCEPT ![c] = "no"])
    BY <1>1, <2>3, KeepRow
  <2>5. ListsOK'
    BY <1>1, <1>3, StepCounts DEF UpdateContactCompliance, ListsOK
  <2> QED BY <2>2, <2>4, <2>5 DEF IInv
<1> QED BY <1>2, <1>3

LEMMA BetterIsGrade ==
  ASSUME NEW g, NEW h PROVE BetterGrade(g, h) \in {"ABC", "D", "S"}
BY DEF BetterGrade

LEMMA ImportKeeps ==
  ASSUME IInv, NEW c \in Contacts, NEW e \in Emails \union {NoEmail}, ImportLead(c, e)
  PROVE  IInv'
<1> DEFINE reason == ReasonFor(Fresh(e), suppressions)
           graded == [Fresh(e) EXCEPT !.grade = GradeOf(Fresh(e))]
           lead   == IF reason THEN Suppressed(Fresh(e)) ELSE graded
<1>1. Good(contacts, optedOut) /\ ListsOK
  BY DEF IInv
<1>2. lead \in Rows
  <2>1. Fresh(e) \in Rows /\ Suppressed(Fresh(e)) \in Rows
    BY FreshContactRow, SuppressedRow
  <2>2. GradeOf(Fresh(e)) \in {"ABC", "D", "S"}
    BY DEF GradeOf
  <2>3. graded \in Rows
    BY <2>1, <2>2 DEF Rows
  <2> QED BY <2>1, <2>3
<1>3. /\ Step
      /\ \/ c \in Live /\ ImportInto(c, lead, reason)
         \/ contacts[c] = Absent /\ contacts' = [contacts EXCEPT ![c] = lead]
      /\ UNCHANGED <<suppressions, requests, webhooks, applied, optedOut>>
  BY DEF ImportLead
<1> HIDE DEF lead, reason, graded
<1>4. Good(contacts', optedOut)
  <2>1. CASE c \in Live /\ ImportInto(c, lead, reason)
    <3> DEFINE row == contacts[c]
               grade == BetterGrade(row.grade, lead.grade)
               priority == IF row.isSuppressed THEN "S" ELSE lead.priority
               merged == [row EXCEPT !.grade = grade, !.priority = priority]
               new == IF reason THEN Suppressed(merged) ELSE merged
    <3>1. row \in Rows
      BY <1>1, <2>1, LiveRow
    <3>2. grade \in {"ABC", "D", "S"} /\ priority \in {"P", "S"}
      BY <1>2, BetterIsGrade DEF Rows
    <3>3. contacts' = [contacts EXCEPT ![c] = new]
      BY <2>1 DEF ImportInto
    <3>4. merged \in Rows /\ (Flagged(row) => Flagged(merged))
      <4> HIDE DEF grade, priority, row
      <4> QED BY <3>1, <3>2 DEF Rows, Flagged
    <3> HIDE DEF merged
    <3>5. new \in Rows /\ (Flagged(contacts[c]) => Flagged(new))
      BY <3>4, SuppressedRow
    <3> HIDE DEF new
    <3>6. Good([contacts EXCEPT ![c] = new], optedOut)
      BY <1>1, <3>1, <3>5, KeepRowOnly
    <3> QED BY <3>3, <3>6
  <2>2. CASE contacts[c] = Absent /\ contacts' = [contacts EXCEPT ![c] = lead]
    BY <1>1, <1>2, <2>2, KeepImport
  <2> QED BY <1>3, <2>1, <2>2
<1>5. ListsOK'
  BY <1>1, <1>3, StepCounts DEF ListsOK
<1> QED BY <1>3, <1>4, <1>5 DEF IInv

LEMMA MergeKeeps ==
  ASSUME IInv, NEW c \in Contacts, NEW d \in Contacts, MergeContacts(c, d) PROVE IInv'
<1>1. Good(contacts, optedOut) /\ ListsOK /\ c # d /\ c \in Live /\ d \in Live
  BY DEF IInv, MergeContacts
<1>2. contacts[c] \in Rows /\ contacts[d] \in Rows
  BY <1>1, LiveRow
<1> DEFINE row == contacts[c]
           email == IF row.email = NoEmail THEN contacts[d].email ELSE row.email
           grade == BetterGrade(row.grade, contacts[d].grade)
           flag == row.isSuppressed \/ contacts[d].isSuppressed
           new == [row EXCEPT !.email = email, !.grade = grade, !.isSuppressed = flag]
           how == IF optedOut[c] = "full" THEN "full"
                  ELSE IF optedOut[d] = "no" THEN optedOut[c] ELSE "weak"
           cs == [contacts EXCEPT ![c] = new]
           os == [optedOut EXCEPT ![c] = how]
<1>3. /\ email \in Emails \union {NoEmail} /\ grade \in {"ABC", "D", "S"}
      /\ flag \in BOOLEAN /\ (row.isSuppressed = TRUE => flag = TRUE)
  BY <1>2, BetterIsGrade DEF Rows
<1>4. new \in Rows /\ (Flagged(row) => Flagged(new))
  <2> HIDE DEF row, email, grade, flag
  <2> QED BY <1>2, <1>3 DEF row, Rows, Flagged
<1>5. how \in Opted /\ (how = "full" => optedOut[c] = "full")
  BY <1>1 DEF Good, Opted
<1>6. contacts' = [cs EXCEPT ![d] = Merged]
  BY <1>1 DEF MergeContacts, Good
<1>7. optedOut' = [os EXCEPT ![d] = "no"]
  BY <1>1 DEF MergeContacts, Good
<1>8. Good(cs, os)
  <2>1. Flagged(row) \/ how # "full"
    BY <1>1, <1>2, <1>5 DEF Good
  <2>2. new \in Cells /\ new # Absent
    BY <1>4, RowsAssumption DEF Cells
  <2> HIDE DEF new, how, row
  <2> QED BY <1>1, <1>4, <1>5, <2>1, <2>2, KeepRow
<1> HIDE DEF cs, os
<1>9. Good(contacts', optedOut')
  <2>1. Merged \in Cells /\ Merged \notin Rows /\ Merged # Absent /\ "no" \in Opted
    BY RowsAssumption, HygieneAssumption DEF Cells, Opted
  <2>2. Good([cs EXCEPT ![d] = Merged], [os EXCEPT ![d] = "no"])
    BY <1>8, <2>1, KeepRow
  <2> QED BY <1>6, <1>7, <2>2
<1>10. ListsOK'
  BY <1>1, StepCounts DEF MergeContacts, ListsOK
<1> QED BY <1>9, <1>10 DEF IInv

\* The two suppressing entries of outreach.ts and compliance.ts.
LEMMA HardKeeps ==
  ASSUME IInv, NEW c \in Live, NEW t \in {"Unsubscribe", "Hard bounce", "Deletion request"},
         HardSuppression(c, t)
  PROVE  Good(contacts', optedOut') /\ suppressions' \subseteq Records
<1>1. Good(contacts, optedOut) /\ ListsOK /\ c \in Contacts /\ contacts[c] \in Rows
  BY LiveRow DEF IInv
<1>2. Good(contacts', optedOut')
  <2>1. contacts' = [contacts EXCEPT ![c] = Suppressed(@)] /\ optedOut' = [optedOut EXCEPT ![c] = "full"]
    BY DEF HardSuppression, OptOut
  <2> QED BY <1>1, <2>1, KeepSuppress
<1>3. suppressions' \subseteq Records
  <2>1. suppressions \union {[type |-> t, address |-> contacts[c].email]} \subseteq Records
    BY <1>1, RowAddress, NewRecord
  <2> QED BY <2>1 DEF HardSuppression
<1> QED BY <1>2, <1>3

LEMMA EventKeeps ==
  ASSUME IInv, NEW c \in Contacts, NEW t \in OptOutTypes, RecordEmailEvent(c, t) PROVE IInv'
<1>1. Good(contacts', optedOut') /\ suppressions' \subseteq Records
  BY HardKeeps DEF RecordEmailEvent, OptOutTypes
<1>2. ListsOK'
  BY <1>1, StepCounts DEF IInv, RecordEmailEvent, ListsOK
<1> QED BY <1>1, <1>2 DEF IInv

LEMMA WebhookKeeps ==
  ASSUME IInv, NEW c \in Contacts, NEW t \in OptOutTypes, NEW w \in Deliveries,
         ProcessEmailWebhook(w, c, t)
  PROVE  IInv'
<1>1. ListsOK /\ c \in Live /\ crmSteps' \in 0..MaxCrmSteps
  BY StepCounts DEF IInv, ProcessEmailWebhook
<1>2. CASE w \in webhooks
  BY <1>1, <1>2 DEF IInv, ProcessEmailWebhook, ListsOK
<1>3. CASE w \notin webhooks
  <2>1. HardSuppression(c, t) /\ requests' = requests
        /\ webhooks' = webhooks \union {w} /\ applied' = [applied EXCEPT ![w] = @ + 1]
    BY <1>3 DEF ProcessEmailWebhook
  <2>2. Good(contacts', optedOut') /\ suppressions' \subseteq Records
    BY <1>1, <2>1, HardKeeps DEF OptOutTypes
  <2>3. webhooks' \subseteq Deliveries /\ applied' \in [Deliveries -> Nat]
    BY <1>1, <2>1 DEF ListsOK
  <2>4. ListsOK'
    BY <1>1, <2>1, <2>2, <2>3 DEF ListsOK
  <2> QED BY <2>2, <2>4 DEF IInv
<1> QED BY <1>2, <1>3

LEMMA SmsKeeps ==
  ASSUME IInv, NEW c \in Live, SmsOptOut(c)
  PROVE  Good(contacts', optedOut') /\ suppressions' = suppressions
<1>1. Good(contacts, optedOut) /\ c \in Contacts /\ contacts[c] \in Rows
  BY LiveRow DEF IInv
<1>2. contacts' = [contacts EXCEPT ![c] = Suppressed(@)] /\ optedOut' = [optedOut EXCEPT ![c] = "full"]
  BY DEF SmsOptOut, OptOut
<1>3. suppressions' = suppressions
  BY DEF SmsOptOut
<1> QED BY <1>1, <1>2, <1>3, KeepSuppress

LEMMA SmsEventKeeps ==
  ASSUME IInv, NEW c \in Contacts, RecordSmsEvent(c) PROVE IInv'
<1>1. Good(contacts', optedOut') /\ suppressions' = suppressions
  BY SmsKeeps DEF RecordSmsEvent
<1>2. ListsOK'
  BY <1>1, StepCounts DEF IInv, RecordSmsEvent, ListsOK
<1> QED BY <1>1, <1>2 DEF IInv

LEMMA SmsWebhookKeeps ==
  ASSUME IInv, NEW c \in Contacts, NEW w \in Deliveries, ProcessSmsWebhook(w, c) PROVE IInv'
<1>1. ListsOK /\ c \in Live /\ crmSteps' \in 0..MaxCrmSteps
  BY StepCounts DEF IInv, ProcessSmsWebhook
<1>2. CASE w \in webhooks
  BY <1>1, <1>2 DEF IInv, ProcessSmsWebhook, ListsOK
<1>3. CASE w \notin webhooks
  <2>1. SmsOptOut(c) /\ requests' = requests
        /\ webhooks' = webhooks \union {w} /\ applied' = [applied EXCEPT ![w] = @ + 1]
    BY <1>3 DEF ProcessSmsWebhook
  <2>2. Good(contacts', optedOut') /\ suppressions' = suppressions
    BY <1>1, <2>1, SmsKeeps
  <2>3. webhooks' \subseteq Deliveries /\ applied' \in [Deliveries -> Nat]
    BY <1>1, <2>1 DEF ListsOK
  <2>4. ListsOK'
    BY <1>1, <2>1, <2>2, <2>3 DEF ListsOK
  <2> QED BY <2>2, <2>4 DEF IInv
<1> QED BY <1>2, <1>3

LEMMA UnsubscribeKeeps ==
  ASSUME IInv, NEW c \in Contacts, Unsubscribe(c) PROVE IInv'
<1>1. Good(contacts, optedOut) /\ ListsOK /\ c \in Live /\ contacts[c] \in Rows
  BY LiveRow DEF IInv, Unsubscribe
<1>2. Good(contacts', optedOut')
  <2>1. CASE contacts[c].isSuppressed
    <3> DEFINE how == IF optedOut[c] = "full" THEN "full" ELSE "weak"
    <3>1. contacts' = contacts /\ optedOut' = [optedOut EXCEPT ![c] = how]
      BY <2>1 DEF Unsubscribe, OptOut
    <3>2. how \in Opted /\ (how = "full" => optedOut[c] = "full")
      BY DEF Opted
    <3>3. contacts[c] # Absent
      BY <1>1 DEF Live
    <3> HIDE DEF how
    <3> QED BY <1>1, <3>1, <3>2, <3>3 DEF Good
  <2>2. CASE ~contacts[c].isSuppressed
    <3>1. contacts' = [contacts EXCEPT ![c] = Suppressed(@)] /\ optedOut' = [optedOut EXCEPT ![c] = "full"]
      BY <2>2 DEF Unsubscribe, OptOut
    <3> QED BY <1>1, <3>1, KeepSuppress
  <2> QED BY <2>1, <2>2
<1>3. suppressions' \subseteq Records
  <2>1. suppressions \union {[type |-> "Unsubscribe", address |-> contacts[c].email]} \subseteq Records
    BY <1>1, RowAddress, NewRecord
  <2> QED BY <2>1 DEF Unsubscribe
<1>4. ListsOK'
  BY <1>1, <1>3, StepCounts DEF Unsubscribe, ListsOK
<1> QED BY <1>2, <1>4 DEF IInv

LEMMA CreateRequestKeeps ==
  ASSUME IInv, NEW t \in {"Deletion", "Suppression"}, NEW e \in Emails,
         CreateDataSubjectRequest(t, e)
  PROVE  IInv'
<1>1. PICK c \in Contacts \union {Absent} :
         requests' = requests \union {[type |-> t, email |-> e, contact |-> c]}
  BY DEF CreateDataSubjectRequest
<1>2. requests' \subseteq Requests
  <2>1. [type |-> t, email |-> e, contact |-> c] \in Requests
    BY <1>1 DEF Requests
  <2> QED BY <1>1, <2>1 DEF IInv, ListsOK
<1>3. Good(contacts', optedOut')
  BY DEF IInv, CreateDataSubjectRequest
<1>4. ListsOK'
  BY <1>2, StepCounts DEF IInv, CreateDataSubjectRequest, ListsOK
<1> QED BY <1>3, <1>4 DEF IInv

LEMMA CompleteRequestKeeps ==
  ASSUME IInv, NEW q \in requests, CompleteDataSubjectRequest(q) PROVE IInv'
<1>1. Good(contacts, optedOut) /\ ListsOK /\ crmSteps' \in 0..MaxCrmSteps
  BY StepCounts DEF IInv, CompleteDataSubjectRequest
<1>2. UNCHANGED <<requests, webhooks, applied>>
  BY DEF CompleteDataSubjectRequest
<1>3. CASE contacts' = VerifiedAll(contacts, suppressions) /\ UNCHANGED <<suppressions, optedOut>>
  <2>1. Good(contacts', optedOut')
    BY <1>1, <1>3, KeepVerified
  <2>2. ListsOK'
    BY <1>1, <1>2, <1>3 DEF ListsOK
  <2> QED BY <2>1, <2>2 DEF IInv
<1>4. ASSUME NEW c \in RequestContacts(q),
             NEW address, NEW type, NEW left,
             address = IF contacts[c].email = NoEmail THEN q.email ELSE contacts[c].email,
             type = IF q.type = "Deletion" THEN "Deletion request" ELSE "Unsubscribe",
             left = IF q.type = "Deletion" THEN [contacts[c] EXCEPT !.email = NoEmail] ELSE contacts[c],
             suppressions' = suppressions \union {[type |-> type, address |-> address]},
             contacts' = VerifiedAll([contacts EXCEPT ![c] = Suppressed(left)], suppressions'),
             OptOut(c, "full")
      PROVE  IInv'
  <2>1. q \in Requests
    BY <1>1 DEF ListsOK
  <2>2. c \in Contacts /\ contacts[c] \in Rows
    <3>1. c \in Live
      BY <1>4 DEF RequestContacts
    <3> QED BY <1>1, <3>1, LiveRow
  <2>3. address \in Emails \union {NoEmail, Domain} /\ type \in {"Unsubscribe", "Hard bounce", "Deletion request"}
    BY <1>4, <2>1, <2>2, RowAddress DEF Requests
  <2>4. left \in Rows
    BY <1>4, <2>2 DEF Rows
  <2> DEFINE new == Suppressed(left)
             cs == [contacts EXCEPT ![c] = new]
             os == [optedOut EXCEPT ![c] = "full"]
  <2>5. new \in Rows /\ Flagged(new)
    BY <2>4, SuppressedRow
  <2>6. new \in Cells /\ new # Absent /\ "full" \in Opted
    BY <2>5, RowsAssumption DEF Cells, Opted
  <2>7. contacts' = VerifiedAll(cs, suppressions') /\ optedOut' = os
    BY <1>4 DEF OptOut
  <2>8. Good(cs, os)
    <3> HIDE DEF new
    <3> QED BY <1>1, <2>2, <2>5, <2>6, KeepRow
  <2> HIDE DEF cs, os
  <2>9. Good(contacts', optedOut')
    <3>1. Good(VerifiedAll(cs, suppressions'), os)
      BY <2>8, KeepVerified
    <3> QED BY <2>7, <3>1
  <2>10. suppressions' \subseteq Records
    <3>1. suppressions \union {[type |-> type, address |-> address]} \subseteq Records
      BY <1>1, <2>3, NewRecord
    <3> QED BY <1>4, <3>1
  <2>11. ListsOK'
    BY <1>1, <1>2, <2>10 DEF ListsOK
  <2> QED BY <2>9, <2>11 DEF IInv
<1> QED BY <1>3, <1>4 DEF CompleteDataSubjectRequest

-----------------------------------------------------------------------------
\* The specification.

LEMMA NextKeeps == ASSUME IInv, [HygieneNext]_hygieneVars PROVE IInv'
<1>1. CASE RunVerification
  BY <1>1, VerificationKeeps
<1>2. ASSUME NEW a \in Emails \union {Domain}, AddSuppression(a) PROVE IInv'
  BY <1>2, AddKeeps
<1>3. ASSUME NEW r \in suppressions, DeleteSuppression(r) PROVE IInv'
  BY <1>3, DeleteKeeps
<1>4. ASSUME NEW c \in Contacts, NEW e \in Emails \union {NoEmail},
             UpdateContactDetails(c, e) \/ ImportLead(c, e)
      PROVE  IInv'
  BY <1>4, DetailsKeep, ImportKeeps
<1>5. ASSUME NEW c \in Live, NEW e \in Emails, NEW g \in {"ABC", "D", contacts[c].grade},
             ApplyWaterfallResults(c, e, g)
      PROVE  IInv'
  BY <1>5, WaterfallKeeps
<1>6. ASSUME NEW c \in Contacts, NEW b \in BOOLEAN, UpdateContactCompliance(c, b) PROVE IInv'
  BY <1>6, ComplianceKeeps
<1>7. ASSUME NEW c \in Contacts, NEW d \in Contacts, MergeContacts(c, d) PROVE IInv'
  BY <1>7, MergeKeeps
<1>8. ASSUME NEW c \in Contacts, NEW t \in OptOutTypes, RecordEmailEvent(c, t) PROVE IInv'
  BY <1>8, EventKeeps
<1>9. ASSUME NEW c \in Contacts, NEW t \in OptOutTypes, NEW w \in Deliveries \ SmsDeliveries,
             ProcessEmailWebhook(w, c, t)
      PROVE  IInv'
  BY <1>9, WebhookKeeps
<1>10. ASSUME NEW c \in Contacts, Unsubscribe(c) PROVE IInv'
  BY <1>10, UnsubscribeKeeps
<1>11. ASSUME NEW t \in {"Deletion", "Suppression"}, NEW e \in Emails,
              CreateDataSubjectRequest(t, e)
       PROVE  IInv'
  BY <1>11, CreateRequestKeeps
<1>12. ASSUME NEW q \in requests, CompleteDataSubjectRequest(q) PROVE IInv'
  BY <1>12, CompleteRequestKeeps
<1>13. CASE UNCHANGED hygieneVars
  BY <1>13 DEF hygieneVars, IInv, ListsOK
<1>14. ASSUME NEW c \in Contacts, RecordSmsEvent(c) PROVE IInv'
  BY <1>14, SmsEventKeeps
<1>15. ASSUME NEW c \in Contacts, NEW w \in SmsDeliveries, ProcessSmsWebhook(w, c) PROVE IInv'
  <2>1. w \in Deliveries
    BY HygieneAssumption
  <2> QED BY <1>15, <2>1, SmsWebhookKeeps
<1> QED
  BY <1>1, <1>2, <1>3, <1>4, <1>5, <1>6, <1>7, <1>8, <1>9, <1>10, <1>11, <1>12, <1>13,
     <1>14, <1>15
  DEF HygieneNext

LEMMA IInvHolds == HygieneSpec => []IInv
<1>1. HygieneInit => IInv
  BY InitIInv
<1>2. IInv /\ [HygieneNext]_hygieneVars => IInv'
  BY NextKeeps
<1> QED BY <1>1, <1>2, PTL DEF HygieneSpec

\* Contacts, list, requests and webhooks keep their types for any number of
\* contacts, addresses and transactions.
THEOREM HygieneTypeCorrect == HygieneSpec => []HygieneTypeOK
<1>1. IInv => HygieneTypeOK
  BY IInvImpliesTypeOK
<1> QED BY <1>1, IInvHolds, PTL

\* Nothing that verification, edits, imports, merges, the waterfall or the
\* deletion of a record does takes a full opt-out back.
THEOREM OptOutSticksHolds == HygieneSpec => []OptOutSticks
<1>1. IInv => OptOutSticks
  BY IInvImpliesSticks
<1> QED BY <1>1, IInvHolds, PTL

-----------------------------------------------------------------------------
\* Sends.  With the outbox on, a recipient of a one-to-one request that is
\* being posted belongs to one click, the one that claimed it, and the ledger
\* of claims says "Sending" until that click records its results.

Owns(k, q, c) == clicks[k].at = "post" /\ clicks[k].key = q /\ c \in clicks[k].to

ClickInOrder(k) ==
  /\ clicks[k].at # "idle" => clicks[k].key \in Keys
  /\ clicks[k].at = "claim" => outbox /\ clicks[k].key \in DirectRequests
  /\ \A c \in Contacts :
       /\ clicks[k].at \in {"idle", "claim"} => clicks[k].outcome[c] = "none"
       /\ clicks[k].at = "post" /\ clicks[k].outcome[c] = "sent" => accepted[<<clicks[k].key, c>>] > 0

ClaimIsKept(q, c) ==
  /\ posted[<<q, c>>] > 0 => claims[<<q, c>>] # "none"
  /\ posted[<<q, c>>] <= 1
  /\ posted[<<q, c>>] = 0 => accepted[<<q, c>>] = 0
  /\ accepted[<<q, c>>] <= Attempts(q)
  /\ (claims[<<q, c>>] = "Sent") <=> (sent[<<q, c>>] > 0)
  /\ \A k \in Clicks : Owns(k, q, c) =>
       /\ claims[<<q, c>>] = "Sending"
       /\ clicks[k].outcome[c] = "none" => posted[<<q, c>>] = 0
       /\ \A j \in Clicks : Owns(j, q, c) => j = k

SentWasTaken(key, c) == sent[<<key, c>>] <= 1 /\ (sent[<<key, c>>] > 0 => accepted[<<key, c>>] > 0)

AppliedOnce == \A w \in Deliveries : applied[w] = IF w \in webhooks THEN 1 ELSE 0

LedgerInv ==
  /\ SendsTypeOK
  /\ \A k \in Clicks : ClickInOrder(k)
  /\ outbox => \A q \in DirectRequests, c \in Contacts : ClaimIsKept(q, c)
  /\ \A key \in Keys, c \in Contacts : SentWasTaken(key, c)

SendsInv == LedgerInv /\ AppliedOnce /\ IInv

LEMMA SameCell == \A p, q, c, d : <<p, c>> = <<q, d>> <=> p = q /\ c = d
OBVIOUS

LEMMA CellsOfKeys ==
  /\ \A key \in Keys, c \in Contacts : <<key, c>> \in Keys \X Contacts
  /\ \A q \in DirectRequests, c \in Contacts : q \in Keys /\ <<q, c>> \in DirectRequests \X Contacts
BY DEF Keys

\* What the type invariant says, cell by cell.
ClickRecords == [at : {"idle", "claim", "post", "done"}, key : Keys \union {NoKey},
                 to : SUBSET Contacts, outcome : [Contacts -> {"none", "sent", "failed"}]]

LEMMA SendsTypes ==
  ASSUME SendsTypeOK
  PROVE  /\ clicks \in [Clicks -> ClickRecords]
         /\ \A k \in Clicks : clicks[k].to \subseteq Contacts
         /\ claims \in [DirectRequests \X Contacts -> {"none", "Sending", "Sent", "Failed"}]
         /\ sent \in Counts /\ posted \in Counts /\ accepted \in Counts
         /\ \A key \in Keys, c \in Contacts :
              sent[<<key, c>>] \in Nat /\ posted[<<key, c>>] \in Nat /\ accepted[<<key, c>>] \in Nat
<1>1. clicks \in [Clicks -> ClickRecords]
  BY DEF SendsTypeOK, ClickRecords
<1>2. \A row \in ClickRecords : row.to \subseteq Contacts
  BY DEF ClickRecords
<1>3. sent \in Counts /\ posted \in Counts /\ accepted \in Counts
  BY DEF SendsTypeOK
<1>4. \A f \in Counts, key \in Keys, c \in Contacts : f[<<key, c>>] \in Nat
  BY CellsOfKeys DEF Counts
<1> QED BY <1>1, <1>2, <1>3, <1>4 DEF SendsTypeOK

LEMMA AttemptsType == \A key \in Keys : Attempts(key) \in Nat
BY SendsAssumption DEF Attempts

LEMMA LedgerInitInv == SendsInit => LedgerInv
<1> SUFFICES ASSUME SendsInit PROVE LedgerInv
  OBVIOUS
<1>1. Nothing \in Counts /\ \A key \in Keys, c \in Contacts : Nothing[<<key, c>>] = 0
  BY CellsOfKeys DEF Nothing, Counts
<1>2. NoOutcomes \in [Contacts -> {"none", "sent", "failed"}] /\ \A c \in Contacts : NoOutcomes[c] = "none"
  BY DEF NoOutcomes
<1>3. SendsTypeOK
  BY <1>1, <1>2 DEF SendsInit, SendsTypeOK
<1>4. ASSUME NEW k \in Clicks PROVE ClickInOrder(k)
  BY <1>2 DEF SendsInit, ClickInOrder
<1>5. \A key \in Keys, c \in Contacts : sent[<<key, c>>] = 0 /\ posted[<<key, c>>] = 0 /\ accepted[<<key, c>>] = 0
  BY <1>1 DEF SendsInit
<1>6. ASSUME NEW q \in DirectRequests, NEW c \in Contacts PROVE ClaimIsKept(q, c)
  <2>1. /\ sent[<<q, c>>] = 0 /\ posted[<<q, c>>] = 0 /\ accepted[<<q, c>>] = 0
        /\ claims[<<q, c>>] = "none" /\ Attempts(q) \in Nat
    BY <1>5, CellsOfKeys, AttemptsType DEF SendsInit
  <2>2. \A k \in Clicks : ~Owns(k, q, c)
    BY DEF SendsInit, Owns
  <2> QED BY <2>1, <2>2 DEF ClaimIsKept
<1>7. ASSUME NEW key \in Keys, NEW c \in Contacts PROVE SentWasTaken(key, c)
  <2>1. sent[<<key, c>>] = 0
    BY <1>5
  <2> QED BY <2>1 DEF SentWasTaken
<1> QED BY <1>3, <1>4, <1>6, <1>7 DEF LedgerInv

\* A click begins.
LEMMA BeginKeeps ==
  ASSUME LedgerInv, NEW k \in Clicks, NEW key \in Keys, NEW at \in {"claim", "post"},
         NEW recipients \in SUBSET Contacts, Begin(k, key, at, recipients),
         at = "claim" => outbox /\ key \in DirectRequests,
         outbox /\ key \in DirectRequests => at = "claim"
  PROVE  LedgerInv'
<1> DEFINE row == [at |-> at, key |-> key, to |-> recipients, outcome |-> NoOutcomes]
<1>1. NoOutcomes \in [Contacts -> {"none", "sent", "failed"}] /\ \A c \in Contacts : NoOutcomes[c] = "none"
  BY DEF NoOutcomes
<1>2. row \in ClickRecords /\ row.at = at /\ row.key = key /\ row.outcome = NoOutcomes
  BY <1>1 DEF ClickRecords
<1>3. /\ clicks' = [clicks EXCEPT ![k] = row]
      /\ UNCHANGED <<outbox, claims, sent, simulated, campaign, posted, accepted>>
  BY DEF Begin
<1> HIDE DEF row
<1>4. clicks' \in [Clicks -> ClickRecords] /\ clicks'[k] = row
      /\ \A j \in Clicks \ {k} : clicks'[j] = clicks[j]
  BY <1>2, <1>3, SendsTypes DEF LedgerInv
<1>5. SendsTypeOK'
  BY <1>3, <1>4 DEF LedgerInv, SendsTypeOK, ClickRecords
<1>6. ASSUME NEW j \in Clicks PROVE ClickInOrder(j)'
  <2>1. CASE j = k
    BY <1>1, <1>2, <1>3, <1>4, <2>1 DEF ClickInOrder
  <2>2. CASE j # k
    BY <1>3, <1>4, <2>2 DEF LedgerInv, ClickInOrder
  <2> QED BY <2>1, <2>2
<1>7. ASSUME outbox, NEW j \in Clicks, NEW q \in DirectRequests, NEW c \in Contacts, Owns(j, q, c)'
      PROVE  j # k /\ Owns(j, q, c) /\ clicks'[j] = clicks[j]
  BY <1>2, <1>4, <1>7 DEF Owns
<1>8. ASSUME outbox, NEW q \in DirectRequests, NEW c \in Contacts PROVE ClaimIsKept(q, c)'
  <2>1. ClaimIsKept(q, c)
    BY <1>8 DEF LedgerInv
  <2> QED BY <1>3, <1>7, <1>8, <2>1 DEF ClaimIsKept
<1>9. ASSUME NEW q \in Keys, NEW c \in Contacts PROVE SentWasTaken(q, c)'
  BY <1>3 DEF LedgerInv, SentWasTaken
<1> QED BY <1>3, <1>5, <1>6, <1>8, <1>9 DEF LedgerInv

\* Every step changes one click.
LEMMA OneClick ==
  ASSUME SendsTypeOK, NEW k \in Clicks, NEW row \in ClickRecords, clicks' = [clicks EXCEPT ![k] = row]
  PROVE  /\ clicks' \in [Clicks -> ClickRecords] /\ clicks'[k] = row
         /\ \A j \in Clicks \ {k} : clicks'[j] = clicks[j]
BY SendsTypes

\* A click that claims takes the recipients nobody has claimed.
LEMMA ClaimKeeps == ASSUME LedgerInv, NEW k \in Clicks, ClaimDirectSends(k) PROVE LedgerInv'
<1> DEFINE key == clicks[k].key
           fresh == {c \in clicks[k].to : claims[<<key, c>>] = "none"}
           row == [clicks[k] EXCEPT !.at = "post", !.to = fresh]
<1>1. /\ clicks[k] \in ClickRecords /\ clicks[k].to \subseteq Contacts
      /\ claims \in [DirectRequests \X Contacts -> {"none", "Sending", "Sent", "Failed"}]
  BY SendsTypes DEF LedgerInv
<1>2. /\ clicks[k].at = "claim" /\ outbox /\ key \in DirectRequests /\ key \in Keys
      /\ \A c \in Contacts : clicks[k].outcome[c] = "none"
  BY CellsOfKeys DEF ClaimDirectSends, LedgerInv, ClickInOrder
<1>3. /\ claims' = [r \in DOMAIN claims |-> IF r \in {key} \X fresh THEN "Sending" ELSE claims[r]]
      /\ clicks' = [clicks EXCEPT ![k] = row]
      /\ UNCHANGED <<outbox, sent, simulated, campaign, posted, accepted>>
  BY DEF ClaimDirectSends
<1>4. /\ row \in ClickRecords /\ row.at = "post" /\ row.key = key /\ row.to = fresh
      /\ row.outcome = clicks[k].outcome
  BY <1>1 DEF ClickRecords
<1>5. \A c \in fresh : c \in Contacts /\ claims[<<key, c>>] = "none"
  BY <1>1
<1> HIDE DEF row, fresh
<1>6. /\ clicks' \in [Clicks -> ClickRecords] /\ clicks'[k] = row
      /\ \A j \in Clicks \ {k} : clicks'[j] = clicks[j]
  BY <1>3, <1>4, OneClick DEF LedgerInv
<1>7. claims' \in [DirectRequests \X Contacts -> {"none", "Sending", "Sent", "Failed"}]
  BY <1>1, <1>3
<1>8. ASSUME NEW q \in DirectRequests, NEW c \in Contacts
      PROVE  claims'[<<q, c>>] = IF q = key /\ c \in fresh THEN "Sending" ELSE claims[<<q, c>>]
  <2>1. <<q, c>> \in {key} \X fresh <=> q = key /\ c \in fresh
    OBVIOUS
  <2> QED BY <1>1, <1>3, <2>1, CellsOfKeys
<1>9. SendsTypeOK'
  BY <1>3, <1>6, <1>7 DEF LedgerInv, SendsTypeOK, ClickRecords
<1>10. ASSUME NEW j \in Clicks PROVE ClickInOrder(j)'
  <2>1. CASE j = k
    BY <1>2, <1>3, <1>4, <1>6, <2>1 DEF ClickInOrder
  <2>2. CASE j # k
    BY <1>3, <1>6, <2>2 DEF LedgerInv, ClickInOrder
  <2> QED BY <2>1, <2>2
<1>11. ASSUME NEW q \in DirectRequests, NEW c \in Contacts PROVE ClaimIsKept(q, c)'
  <2>1. ClaimIsKept(q, c) /\ posted[<<q, c>>] \in Nat
    BY <1>2, SendsTypes, CellsOfKeys DEF LedgerInv
  <2>2. CASE q = key /\ c \in fresh
    <3>1. claims[<<q, c>>] = "none" /\ claims'[<<q, c>>] = "Sending"
      BY <1>5, <1>8, <2>2
    <3>2. posted[<<q, c>>] = 0 /\ ~(sent[<<q, c>>] > 0)
      BY <2>1, <3>1 DEF ClaimIsKept
    <3>3. ASSUME NEW j \in Clicks, Owns(j, q, c)' PROVE j = k
      <4>1. CASE j # k
        <5>1. Owns(j, q, c)
          BY <1>6, <3>3, <4>1 DEF Owns
        <5> QED BY <2>1, <3>1, <5>1 DEF ClaimIsKept
      <4> QED BY <4>1
    <3>4. accepted[<<q, c>>] = 0 /\ accepted[<<q, c>>] <= Attempts(q)
      BY <2>1, <3>2 DEF ClaimIsKept
    <3> QED BY <1>3, <3>1, <3>2, <3>3, <3>4 DEF ClaimIsKept
  <2>3. CASE ~(q = key /\ c \in fresh)
    <3>1. claims'[<<q, c>>] = claims[<<q, c>>]
      BY <1>8, <2>3
    <3>2. ASSUME NEW j \in Clicks, Owns(j, q, c)' PROVE Owns(j, q, c) /\ clicks'[j] = clicks[j]
      BY <1>4, <1>6, <2>3, <3>2 DEF Owns
    <3> QED BY <1>3, <2>1, <3>1, <3>2 DEF ClaimIsKept
  <2> QED BY <2>2, <2>3
<1>12. ASSUME NEW q \in Keys, NEW c \in Contacts PROVE SentWasTaken(q, c)'
  BY <1>3 DEF LedgerInv, SentWasTaken
<1> QED BY <1>9, <1>10, <1>11, <1>12 DEF LedgerInv

\* Some messages more in a cell of a count.
Bumped(f, key, c, n) == [f EXCEPT ![<<key, c>>] = @ + n]

LEMMA OneMore ==
  ASSUME NEW f \in Counts, NEW key \in Keys, NEW c \in Contacts, NEW n \in Nat
  PROVE  /\ Bumped(f, key, c, n) \in Counts /\ Bumped(f, key, c, n)[<<key, c>>] = f[<<key, c>>] + n
         /\ \A p \in Keys, d \in Contacts :
              ~(p = key /\ d = c) => Bumped(f, key, c, n)[<<p, d>>] = f[<<p, d>>]
<1> DEFINE r == <<key, c>>
           g == [f EXCEPT ![r] = @ + n]
<1>1. r \in Keys \X Contacts /\ f[r] \in Nat
  BY DEF Counts
<1>2. \A p \in Keys, d \in Contacts : <<p, d>> \in Keys \X Contacts /\ (<<p, d>> = r => p = key /\ d = c)
  OBVIOUS
<1>3. Bumped(f, key, c, n) = g
  BY DEF Bumped
<1> HIDE DEF r
<1>4. g \in Counts /\ g[r] = f[r] + n /\ \A t \in (Keys \X Contacts) \ {r} : g[t] = f[t]
  BY <1>1 DEF Counts
<1> HIDE DEF g
<1>5. \A p \in Keys, d \in Contacts : ~(p = key /\ d = c) => g[<<p, d>>] = f[<<p, d>>]
  BY <1>2, <1>4
<1> QED BY <1>3, <1>4, <1>5 DEF r

\* A click posts a message to a recipient that nothing was posted to.
LEMMA PostKeeps == ASSUME LedgerInv, NEW k \in Clicks, NEW c \in Contacts, Post(k, c) PROVE LedgerInv'
<1> DEFINE key == clicks[k].key
<1>1. PICK taken \in 0..Attempts(key), answer \in {"sent", "failed"} :
        /\ answer = "sent" => taken > 0
        /\ accepted' = [accepted EXCEPT ![<<key, c>>] = @ + taken]
        /\ clicks' = [clicks EXCEPT ![k].outcome[c] = answer]
  BY DEF Post
<1> DEFINE row == [clicks[k] EXCEPT !.outcome[c] = answer]
<1>2. /\ clicks[k] \in ClickRecords /\ clicks[k].to \subseteq Contacts
      /\ sent \in Counts /\ posted \in Counts /\ accepted \in Counts
  BY SendsTypes DEF LedgerInv
<1>3. /\ clicks[k].at = "post" /\ c \in clicks[k].to /\ clicks[k].outcome[c] = "none"
      /\ posted' = [posted EXCEPT ![<<key, c>>] = @ + 1]
      /\ UNCHANGED <<outbox, claims, sent, simulated, campaign>>
  BY DEF Post
<1>4. key \in Keys
  BY <1>3 DEF LedgerInv, ClickInOrder
<1>5. /\ row \in ClickRecords /\ row.at = "post" /\ row.key = key /\ row.to = clicks[k].to
      /\ row.outcome[c] = answer /\ \A d \in Contacts \ {c} : row.outcome[d] = clicks[k].outcome[d]
  BY <1>2, <1>3 DEF ClickRecords
<1>6. clicks' = [clicks EXCEPT ![k] = row]
  BY <1>1
<1> HIDE DEF row, key
<1>7. /\ clicks' \in [Clicks -> ClickRecords] /\ clicks'[k] = row
      /\ \A j \in Clicks \ {k} : clicks'[j] = clicks[j]
  BY <1>5, <1>6, OneClick DEF LedgerInv
<1>8. /\ posted' \in Counts /\ posted'[<<key, c>>] = posted[<<key, c>>] + 1
      /\ \A p \in Keys, d \in Contacts : ~(p = key /\ d = c) => posted'[<<p, d>>] = posted[<<p, d>>]
  <2>1. posted' = Bumped(posted, key, c, 1)
    BY <1>3 DEF Bumped
  <2>2. /\ Bumped(posted, key, c, 1) \in Counts /\ Bumped(posted, key, c, 1)[<<key, c>>] = posted[<<key, c>>] + 1
        /\ \A p \in Keys, d \in Contacts :
             ~(p = key /\ d = c) => Bumped(posted, key, c, 1)[<<p, d>>] = posted[<<p, d>>]
    <3>1. 1 \in Nat /\ posted \in Counts /\ key \in Keys /\ c \in Contacts
      BY <1>2, <1>4
    <3> QED BY <3>1, OneMore
  <2> QED BY <2>1, <2>2
<1>a. taken \in Nat /\ taken <= Attempts(key)
  BY <1>1, <1>4, AttemptsType
<1>9. /\ accepted' \in Counts /\ accepted'[<<key, c>>] = accepted[<<key, c>>] + taken
      /\ \A p \in Keys, d \in Contacts : ~(p = key /\ d = c) => accepted'[<<p, d>>] = accepted[<<p, d>>]
  <2>1. accepted' = Bumped(accepted, key, c, taken)
    BY <1>1 DEF Bumped
  <2>2. /\ Bumped(accepted, key, c, taken) \in Counts
        /\ Bumped(accepted, key, c, taken)[<<key, c>>] = accepted[<<key, c>>] + taken
        /\ \A p \in Keys, d \in Contacts :
             ~(p = key /\ d = c) => Bumped(accepted, key, c, taken)[<<p, d>>] = accepted[<<p, d>>]
    BY ZenonT(60), <1>2, <1>4, <1>a, OneMore
  <2> QED BY <2>1, <2>2
<1>10. ASSUME NEW p \in Keys, NEW d \in Contacts, accepted[<<p, d>>] > 0 PROVE accepted'[<<p, d>>] > 0
  <2>1. accepted[<<p, d>>] \in Nat
    BY SendsTypes DEF LedgerInv
  <2>2. CASE p = key /\ d = c
    <3>1. accepted'[<<p, d>>] = accepted[<<p, d>>] + taken
      BY <1>9, <2>2
    <3> QED BY <1>10, <1>a, <2>1, <3>1
  <2> QED BY <1>9, <1>10, <2>2
<1>11. SendsTypeOK'
  BY <1>3, <1>7, <1>8, <1>9 DEF LedgerInv, SendsTypeOK, ClickRecords
<1>12. ASSUME NEW j \in Clicks PROVE ClickInOrder(j)'
  <2>0. ClickInOrder(j)
    BY DEF LedgerInv
  <2>1. CASE j = k
    <3>1. clicks'[k].at = "post" /\ clicks'[k].key = key /\ key \in Keys
      BY <1>4, <1>5, <1>7
    <3>2. ASSUME NEW d \in Contacts, clicks'[k].outcome[d] = "sent" PROVE accepted'[<<key, d>>] > 0
      <4>1. CASE d = c
        <5>1. taken > 0
          BY <1>1, <1>5, <1>7, <3>2, <4>1
        <5>2. accepted[<<key, c>>] \in Nat
          BY <1>4, SendsTypes DEF LedgerInv
        <5> QED BY <1>9, <1>a, <4>1, <5>1, <5>2
      <4>2. CASE d # c
        <5>1. clicks[k].outcome[d] = "sent"
          BY <1>5, <1>7, <3>2, <4>2
        <5>2. accepted[<<key, d>>] > 0
          BY <1>3, <2>0, <2>1, <5>1 DEF ClickInOrder, key
        <5> QED BY <1>4, <1>10, <5>2
      <4> QED BY <4>1, <4>2
    <3> QED BY <2>1, <3>1, <3>2 DEF ClickInOrder
  <2>2. CASE j # k
    BY <1>3, <1>7, <1>10, <2>0, <2>2 DEF ClickInOrder
  <2> QED BY <2>1, <2>2
<1>13. ASSUME outbox, NEW q \in DirectRequests, NEW d \in Contacts PROVE ClaimIsKept(q, d)'
  <2>1. /\ ClaimIsKept(q, d) /\ posted[<<q, d>>] \in Nat /\ q \in Keys
        /\ accepted[<<q, d>>] \in Nat
    BY <1>13, SendsTypes, CellsOfKeys DEF LedgerInv
  <2>2. ASSUME NEW j \in Clicks PROVE Owns(j, q, d)' <=> Owns(j, q, d)
    BY <1>3, <1>5, <1>7 DEF Owns, key
  <2>3. CASE q = key /\ d = c
    <3>1. Owns(k, q, d)
      BY <1>3, <2>3 DEF Owns, key
    <3>2. claims[<<q, d>>] = "Sending" /\ posted[<<q, d>>] = 0 /\ ~(sent[<<q, d>>] > 0)
      BY <1>3, <2>1, <2>3, <3>1 DEF ClaimIsKept
    <3>3. posted'[<<q, d>>] = 1 /\ claims'[<<q, d>>] = "Sending" /\ sent' = sent
      BY <1>3, <1>8, <2>3, <3>2
    <3>6. accepted'[<<q, d>>] <= Attempts(q)
      BY <1>9, <1>a, <2>1, <2>3, <3>2 DEF ClaimIsKept
    <3>4. clicks'[k].outcome[d] # "none"
      BY <1>5, <1>7, <2>3
    <3>5. \A j \in Clicks : Owns(j, q, d)' => j = k
      BY <2>1, <2>2, <3>1 DEF ClaimIsKept
    <3> QED BY <3>2, <3>3, <3>4, <3>5, <3>6 DEF ClaimIsKept
  <2>4. CASE ~(q = key /\ d = c)
    <3>1. posted'[<<q, d>>] = posted[<<q, d>>] /\ accepted'[<<q, d>>] = accepted[<<q, d>>]
      BY <1>8, <1>9, <2>1, <2>4
    <3>2. ASSUME NEW j \in Clicks, Owns(j, q, d) PROVE clicks'[j].outcome[d] = clicks[j].outcome[d]
      BY <1>5, <1>7, <2>4, <3>2 DEF Owns, key
    <3> QED BY <1>3, <2>1, <2>2, <3>1, <3>2 DEF ClaimIsKept
  <2> QED BY <2>3, <2>4
<1>14. ASSUME NEW q \in Keys, NEW d \in Contacts PROVE SentWasTaken(q, d)'
  <2>1. SentWasTaken(q, d)
    BY DEF LedgerInv
  <2> QED BY <1>3, <1>10, <2>1 DEF SentWasTaken
<1> QED BY <1>3, <1>11, <1>12, <1>13, <1>14 DEF LedgerInv

\* What a click that is over leaves: its own recipients are nobody's.
LEMMA OverClick ==
  ASSUME LedgerInv, NEW k \in Clicks, clicks[k].at # "idle", clicks' = [clicks EXCEPT ![k].at = "done"],
         UNCHANGED <<outbox, accepted>>
  PROVE  /\ clicks' \in [Clicks -> ClickRecords] /\ \A j \in Clicks : ClickInOrder(j)'
         /\ \A q, c : ~Owns(k, q, c)'
         /\ \A j \in Clicks : \A q, c : Owns(j, q, c)' => j # k /\ Owns(j, q, c)
         /\ \A j \in Clicks \ {k} : clicks'[j] = clicks[j]
<1> DEFINE row == [clicks[k] EXCEPT !.at = "done"]
<1>1. clicks[k] \in ClickRecords
  BY SendsTypes DEF LedgerInv
<1>2. row \in ClickRecords /\ row.at = "done" /\ row.key = clicks[k].key /\ row.outcome = clicks[k].outcome
  BY <1>1 DEF ClickRecords
<1> HIDE DEF row
<1>3. /\ clicks' \in [Clicks -> ClickRecords] /\ clicks'[k] = row
      /\ \A j \in Clicks \ {k} : clicks'[j] = clicks[j]
  BY <1>2, OneClick DEF LedgerInv, row
<1>4. ASSUME NEW j \in Clicks PROVE ClickInOrder(j)'
  <2>0. ClickInOrder(j)
    BY DEF LedgerInv
  <2>1. CASE j = k
    <3>1. clicks[k].key \in Keys
      BY <2>0, <2>1 DEF ClickInOrder
    <3> QED BY <1>2, <1>3, <2>1, <3>1 DEF ClickInOrder
  <2>2. CASE j # k
    BY <1>3, <2>0, <2>2 DEF ClickInOrder
  <2> QED BY <2>1, <2>2
<1> QED BY <1>2, <1>3, <1>4 DEF Owns

\* A click stops without a trace.
LEMMA StopKeeps ==
  ASSUME LedgerInv, NEW k \in Clicks, clicks[k].at # "idle", clicks' = [clicks EXCEPT ![k].at = "done"],
         UNCHANGED <<outbox, claims, sent, simulated, campaign, posted, accepted>>
  PROVE  LedgerInv'
<1>1. /\ clicks' \in [Clicks -> ClickRecords] /\ \A j \in Clicks : ClickInOrder(j)'
      /\ \A j \in Clicks : \A q, c : Owns(j, q, c)' => j # k /\ Owns(j, q, c)
      /\ \A j \in Clicks \ {k} : clicks'[j] = clicks[j]
  BY OverClick
<1>2. SendsTypeOK'
  BY <1>1 DEF LedgerInv, SendsTypeOK, ClickRecords
<1>3. ASSUME outbox, NEW q \in DirectRequests, NEW c \in Contacts PROVE ClaimIsKept(q, c)'
  <2>1. ClaimIsKept(q, c)
    BY <1>3 DEF LedgerInv
  <2> QED BY <1>1, <2>1 DEF ClaimIsKept
<1>4. ASSUME NEW key \in Keys, NEW c \in Contacts PROVE SentWasTaken(key, c)'
  BY DEF LedgerInv, SentWasTaken
<1> QED BY <1>1, <1>2, <1>3, <1>4 DEF LedgerInv

\* Events are added for recipients the provider took and that had none.
LEMMA AddedEvents ==
  ASSUME LedgerInv, NEW k \in Clicks, AllPosted(k), NEW who, who \subseteq NewlySent(k),
         AddSentEvents(k, who), UNCHANGED accepted
  PROVE  /\ clicks[k].key \in Keys /\ sent' \in Counts
         /\ \A key \in Keys, c \in Contacts :
              /\ SentWasTaken(key, c)'
              /\ sent'[<<key, c>>] = IF key = clicks[k].key /\ c \in who
                                    THEN sent[<<key, c>>] + 1 ELSE sent[<<key, c>>]
<1>1. /\ sent \in Counts /\ DOMAIN sent = Keys \X Contacts /\ clicks[k].to \subseteq Contacts
      /\ \A r \in Keys \X Contacts : sent[r] \in Nat
  BY SendsTypes DEF LedgerInv, Counts
<1>2. clicks[k].at = "post" /\ clicks[k].key \in Keys
  BY DEF AllPosted, LedgerInv, ClickInOrder
<1>3. sent' = [r \in Keys \X Contacts |-> IF r \in {clicks[k].key} \X who THEN sent[r] + 1 ELSE sent[r]]
  BY <1>1 DEF AddSentEvents
<1>4. sent' \in Counts
  BY <1>1, <1>3 DEF Counts
<1>5. ASSUME NEW key \in Keys, NEW c \in Contacts
      PROVE  sent'[<<key, c>>] = IF key = clicks[k].key /\ c \in who
                               THEN sent[<<key, c>>] + 1 ELSE sent[<<key, c>>]
  <2>1. <<key, c>> \in {clicks[k].key} \X who <=> key = clicks[k].key /\ c \in who
    OBVIOUS
  <2>2. <<key, c>> \in Keys \X Contacts
    OBVIOUS
  <2> QED BY <1>3, <2>1, <2>2
<1>6. ASSUME NEW key \in Keys, NEW c \in Contacts PROVE SentWasTaken(key, c)'
  <2>1. SentWasTaken(key, c) /\ sent[<<key, c>>] \in Nat
    BY <1>1, CellsOfKeys DEF LedgerInv
  <2>2. CASE key = clicks[k].key /\ c \in who
    <3>1. clicks[k].outcome[c] = "sent" /\ ~(sent[<<key, c>>] > 0)
      BY <2>2 DEF NewlySent, AlreadySent
    <3>2. sent'[<<key, c>>] = sent[<<key, c>>] + 1
      BY <1>5, <2>2
    <3>3. sent'[<<key, c>>] = 1
      BY <2>1, <3>1, <3>2
    <3>4. accepted'[<<key, c>>] > 0
      BY <1>2, <2>2, <3>1 DEF LedgerInv, ClickInOrder
    <3> QED BY <3>3, <3>4 DEF SentWasTaken
  <2>3. CASE ~(key = clicks[k].key /\ c \in who)
    <3>1. sent'[<<key, c>>] = sent[<<key, c>>]
      BY <1>5, <2>3
    <3> QED BY <2>1, <3>1 DEF SentWasTaken
  <2> QED BY <2>2, <2>3
<1> QED BY <1>2, <1>4, <1>5, <1>6

\* A click records its results: its claims say "Sent" where an event was added.
LEMMA RecordKeeps ==
  ASSUME LedgerInv, NEW k \in Clicks, AllPosted(k), NEW who, who \subseteq NewlySent(k),
         AddSentEvents(k, who), clicks' = [clicks EXCEPT ![k].at = "done"],
         UNCHANGED <<outbox, simulated, posted, accepted>>,
         campaign' \in {"Draft", "Active", "Completed"},
         claims' \in [DirectRequests \X Contacts -> {"none", "Sending", "Sent", "Failed"}],
         \A q \in DirectRequests, c \in Contacts : outbox =>
           claims'[<<q, c>>] = IF Owns(k, q, c) THEN IF c \in who THEN "Sent" ELSE "Failed"
                               ELSE claims[<<q, c>>]
  PROVE  LedgerInv'
<1>0. clicks[k].at = "post" /\ who \subseteq clicks[k].to
  BY DEF AllPosted, NewlySent
<1>1. /\ clicks' \in [Clicks -> ClickRecords] /\ \A j \in Clicks : ClickInOrder(j)'
      /\ \A j \in Clicks : \A q, c : Owns(j, q, c)' => j # k /\ Owns(j, q, c)
      /\ \A j \in Clicks \ {k} : clicks'[j] = clicks[j]
  BY <1>0, OverClick
<1>2. /\ clicks[k].key \in Keys /\ sent' \in Counts
      /\ \A key \in Keys, c \in Contacts :
           /\ SentWasTaken(key, c)'
           /\ sent'[<<key, c>>] = IF key = clicks[k].key /\ c \in who
                                 THEN sent[<<key, c>>] + 1 ELSE sent[<<key, c>>]
  BY AddedEvents
<1>3. SendsTypeOK'
  BY ZenonT(60), <1>1, <1>2 DEF LedgerInv, SendsTypeOK, ClickRecords
<1>4. ASSUME outbox, NEW q \in DirectRequests, NEW c \in Contacts PROVE ClaimIsKept(q, c)'
  <2>1. ClaimIsKept(q, c) /\ q \in Keys /\ sent[<<q, c>>] \in Nat
    BY <1>4, SendsTypes, CellsOfKeys DEF LedgerInv
  <2>2. CASE Owns(k, q, c)
    <3>1. claims[<<q, c>>] = "Sending" /\ ~(sent[<<q, c>>] > 0) /\ \A j \in Clicks : Owns(j, q, c) => j = k
      BY <2>1, <2>2 DEF ClaimIsKept
    <3>2. claims'[<<q, c>>] = IF c \in who THEN "Sent" ELSE "Failed"
      BY <1>4, <2>2
    <3>3. sent'[<<q, c>>] = IF c \in who THEN sent[<<q, c>>] + 1 ELSE sent[<<q, c>>]
      BY <1>2, <2>1, <2>2 DEF Owns
    <3>4. (claims'[<<q, c>>] = "Sent") <=> (sent'[<<q, c>>] > 0)
      BY <2>1, <3>1, <3>2, <3>3
    <3>5. claims'[<<q, c>>] # "none" /\ \A j \in Clicks : ~Owns(j, q, c)'
      BY <1>1, <3>1, <3>2
    <3> QED BY <2>1, <3>4, <3>5 DEF ClaimIsKept
  <2>3. CASE ~Owns(k, q, c)
    <3>1. claims'[<<q, c>>] = claims[<<q, c>>]
      BY <1>4, <2>3
    <3>2. ~(q = clicks[k].key /\ c \in who)
      BY <1>0, <2>3 DEF Owns
    <3>3. sent'[<<q, c>>] = sent[<<q, c>>]
      BY <1>2, <2>1, <3>2
    <3> QED BY <1>1, <2>1, <3>1, <3>3 DEF ClaimIsKept
  <2> QED BY <2>2, <2>3
<1> QED BY <1>1, <1>2, <1>3, <1>4 DEF LedgerInv

LEMMA RecordDirectKeeps == ASSUME LedgerInv, NEW k \in Clicks, RecordDirectResults(k) PROVE LedgerInv'
<1>0. /\ AllPosted(k) /\ clicks[k].at = "post" /\ clicks' = [clicks EXCEPT ![k].at = "done"]
      /\ UNCHANGED <<outbox, simulated, campaign, posted, accepted>>
  BY DEF RecordDirectResults, AllPosted
<1>1. CASE UNCHANGED <<sent, claims>>
  BY <1>0, <1>1, StopKeeps
<1>2. CASE AddSentEvents(k, NewlySent(k)) /\ claims' = Finalized(k)
  <2>1. claims \in [DirectRequests \X Contacts -> {"none", "Sending", "Sent", "Failed"}]
    BY SendsTypes DEF LedgerInv
  <2>2. claims' \in [DirectRequests \X Contacts -> {"none", "Sending", "Sent", "Failed"}]
    BY <1>2, <2>1 DEF Finalized
  <2>3. ASSUME outbox, NEW q \in DirectRequests, NEW c \in Contacts
        PROVE  claims'[<<q, c>>] = IF Owns(k, q, c) THEN IF c \in NewlySent(k) THEN "Sent" ELSE "Failed"
                                   ELSE claims[<<q, c>>]
    <3>1. /\ <<q, c>> \in DirectRequests \X Contacts /\ <<q, c>>[1] = q /\ <<q, c>>[2] = c
          /\ q # Campaign
      BY SendsAssumption
    <3>2. claims'[<<q, c>>] = IF q = clicks[k].key /\ c \in clicks[k].to
                              THEN IF clicks[k].outcome[c] = "sent" THEN "Sent" ELSE "Failed"
                              ELSE claims[<<q, c>>]
      BY <1>2, <2>1, <2>3, <3>1 DEF Finalized
    <3>3. ASSUME Owns(k, q, c) PROVE c \in NewlySent(k) <=> clicks[k].outcome[c] = "sent"
      <4>1. ~(sent[<<q, c>>] > 0)
        BY <2>3, <3>3 DEF LedgerInv, ClaimIsKept
      <4> QED BY <3>1, <3>3, <4>1 DEF NewlySent, AlreadySent, Owns
    <3>4. Owns(k, q, c) <=> q = clicks[k].key /\ c \in clicks[k].to
      BY <1>0 DEF Owns
    <3> QED BY <3>2, <3>3, <3>4
  <2>4. campaign' \in {"Draft", "Active", "Completed"}
    BY <1>0 DEF LedgerInv, SendsTypeOK
  <2> DEFINE who == NewlySent(k)
  <2>5. AddSentEvents(k, who) /\ who \subseteq NewlySent(k)
    BY <1>2
  <2>6. \A q \in DirectRequests, c \in Contacts : outbox =>
          claims'[<<q, c>>] = IF Owns(k, q, c) THEN IF c \in who THEN "Sent" ELSE "Failed"
                              ELSE claims[<<q, c>>]
    BY <2>3
  <2> HIDE DEF who
  <2> QED BY <1>0, <2>2, <2>4, <2>5, <2>6, RecordKeeps
<1> QED BY <1>1, <1>2 DEF RecordDirectResults

LEMMA RecordCampaignKeeps ==
  ASSUME LedgerInv, NEW k \in Clicks, RecordCampaignSendResults(k) PROVE LedgerInv'
<1> DEFINE added == NewlySent(k) \intersect Live
<1>1. /\ clicks[k].key = Campaign /\ AllPosted(k) /\ AddSentEvents(k, added)
      /\ clicks' = [clicks EXCEPT ![k].at = "done"]
      /\ UNCHANGED <<outbox, claims, simulated, posted, accepted>>
  BY DEF RecordCampaignSendResults
<1>2. campaign' \in {"Completed", "Active", campaign}
  BY DEF RecordCampaignSendResults
<1>3. /\ campaign' \in {"Draft", "Active", "Completed"}
      /\ claims' \in [DirectRequests \X Contacts -> {"none", "Sending", "Sent", "Failed"}]
  BY <1>1, <1>2 DEF LedgerInv, SendsTypeOK
<1>4. \A q \in DirectRequests, c \in Contacts : ~Owns(k, q, c)
  BY <1>1, SendsAssumption DEF Owns
<1>5. added \subseteq NewlySent(k)
  OBVIOUS
<1> HIDE DEF added
<1> QED BY <1>1, <1>3, <1>4, <1>5, RecordKeeps

LEMMA SimulateKeeps == ASSUME LedgerInv, SimulateCampaignSend PROVE LedgerInv'
<1>1. /\ simulated' \subseteq Contacts /\ campaign' = "Active"
      /\ UNCHANGED <<outbox, clicks, claims, sent, posted, accepted>>
  BY DEF SimulateCampaignSend, Live, LedgerInv, SendsTypeOK
<1>2. SendsTypeOK'
  BY <1>1 DEF LedgerInv, SendsTypeOK
<1> QED BY <1>1, <1>2 DEF LedgerInv, ClickInOrder, ClaimIsKept, SentWasTaken, Owns

LEMMA SendStepKeeps == ASSUME LedgerInv, SendStep PROVE LedgerInv'
<1>1. ASSUME NEW k \in Clicks, NEW key \in Keys, NEW c \in Contacts, NEW at \in {"claim", "post"},
             at = (IF outbox THEN "claim" ELSE "post"), key \in DirectRequests,
             Begin(k, key, at, Sendable(key) \intersect {c})
      PROVE  LedgerInv'
  BY <1>1, BeginKeeps
<1>2. ASSUME NEW k \in Clicks, NEW key \in DirectRequests, NEW c \in Contacts,
             SendDirectEmail(k, key, c) \/ SendDirectSms(k, key, c)
      PROVE  LedgerInv'
  <2> DEFINE at == IF outbox THEN "claim" ELSE "post"
  <2>1. Begin(k, key, at, Sendable(key) \intersect {c}) /\ key \in Keys
    BY <1>2, CellsOfKeys DEF SendDirectEmail, SendDirectSms
  <2>2. at \in {"claim", "post"}
    OBVIOUS
  <2> HIDE DEF at
  <2> QED BY <1>1, <2>1, <2>2 DEF at
<1>3. ASSUME NEW k \in Clicks, NEW key \in BulkRequests \union {Campaign}, NEW recipients \in SUBSET Contacts,
             Begin(k, key, "post", recipients)
      PROVE  LedgerInv'
  <2>1. key \in Keys /\ key \notin DirectRequests
    BY SendsAssumption DEF Keys
  <2> QED BY <1>3, <2>1, BeginKeeps
<1>4. ASSUME NEW k \in Clicks, NEW some \in SUBSET Contacts,
             SendCampaign(k, some) \/ \E key \in BulkRequests : SendAssignedBulkEmail(k, key, some)
      PROVE  LedgerInv'
  <2>1. CASE SendCampaign(k, some)
    BY <1>3, <2>1 DEF SendCampaign
  <2>2. ASSUME NEW key \in BulkRequests, SendAssignedBulkEmail(k, key, some) PROVE LedgerInv'
    <3>1. Begin(k, key, "post", Sendable(key) \intersect some) /\ Sendable(key) \intersect some \in SUBSET Contacts
      BY <2>2 DEF SendAssignedBulkEmail
    <3> QED BY <1>3, <3>1
  <2> QED BY <1>4, <2>1, <2>2
<1>5. ASSUME NEW k \in Clicks, NEW c \in Contacts, SendEmail(k, c) \/ SendSms(k, c) \/ SendCampaignEmail(k, c)
      PROVE  LedgerInv'
  BY <1>5, PostKeeps DEF SendEmail, SendSms, SendCampaignEmail
<1>6. ASSUME NEW k \in Clicks, Die(k) PROVE LedgerInv'
  BY <1>6, StopKeeps DEF Die
<1> QED BY <1>2, <1>4, <1>5, <1>6, ClaimKeeps, RecordDirectKeeps, RecordCampaignKeeps, SimulateKeeps
        DEF SendStep

\* Only a webhook that was not processed yet counts as applied.
LEMMA WebhooksAlone ==
  ASSUME HygieneNext
  PROVE  \/ UNCHANGED <<webhooks, applied>>
         \/ \E w \in Deliveries \ webhooks :
              webhooks' = webhooks \union {w} /\ applied' = [applied EXCEPT ![w] = @ + 1]
<1> DEFINE Counted == \E w \in Deliveries \ webhooks :
              webhooks' = webhooks \union {w} /\ applied' = [applied EXCEPT ![w] = @ + 1]
<1>1. ASSUME NEW w \in Deliveries, NEW c \in Contacts,
             ProcessSmsWebhook(w, c) \/ \E t \in OptOutTypes : ProcessEmailWebhook(w, c, t)
      PROVE  UNCHANGED <<webhooks, applied>> \/ Counted
  BY <1>1 DEF ProcessSmsWebhook, ProcessEmailWebhook
<1>2. CASE \E a \in Emails \union {Domain} : AddSuppression(a)
  BY <1>2 DEF AddSuppression
<1>3. CASE \E r \in suppressions : DeleteSuppression(r)
  BY <1>3 DEF DeleteSuppression
<1>4. CASE \E c \in Contacts, e \in Emails \union {NoEmail} : UpdateContactDetails(c, e) \/ ImportLead(c, e)
  BY <1>4 DEF UpdateContactDetails, ImportLead
<1>5. CASE \E c \in Live, e \in Emails : \E g \in {"ABC", "D", contacts[c].grade} :
             ApplyWaterfallResults(c, e, g)
  BY <1>5 DEF ApplyWaterfallResults
<1>6. CASE \E c \in Contacts, b \in BOOLEAN : UpdateContactCompliance(c, b)
  BY <1>6 DEF UpdateContactCompliance
<1>7. CASE \E c, d \in Contacts : MergeContacts(c, d)
  BY <1>7 DEF MergeContacts
<1>8. CASE \E c \in Contacts, t \in OptOutTypes : RecordEmailEvent(c, t)
  BY <1>8 DEF RecordEmailEvent
<1>9. CASE \E c \in Contacts : Unsubscribe(c) \/ RecordSmsEvent(c)
  BY <1>9 DEF Unsubscribe, RecordSmsEvent
<1>10. CASE \E t \in {"Deletion", "Suppression"}, e \in Emails : CreateDataSubjectRequest(t, e)
  BY <1>10 DEF CreateDataSubjectRequest
<1>11. CASE \E q \in requests : CompleteDataSubjectRequest(q)
  BY <1>11 DEF CompleteDataSubjectRequest
<1>12. CASE RunVerification
  BY <1>12 DEF RunVerification
<1>13. CASE \E c \in Contacts, w \in SmsDeliveries : ProcessSmsWebhook(w, c)
  BY <1>1, <1>13, HygieneAssumption
<1>14. CASE \E c \in Contacts, t \in OptOutTypes : \E w \in Deliveries \ SmsDeliveries :
              ProcessEmailWebhook(w, c, t)
  BY <1>1, <1>14
<1> QED BY <1>2, <1>3, <1>4, <1>5, <1>6, <1>7, <1>8, <1>9, <1>10, <1>11, <1>12, <1>13, <1>14
        DEF HygieneNext

LEMMA AppliedKeeps ==
  ASSUME AppliedOnce, HygieneTypeOK, [HygieneNext]_hygieneVars PROVE AppliedOnce'
<1>1. CASE UNCHANGED <<webhooks, applied>>
  BY <1>1 DEF AppliedOnce
<1>2. ASSUME NEW w \in Deliveries \ webhooks,
             webhooks' = webhooks \union {w} /\ applied' = [applied EXCEPT ![w] = @ + 1]
      PROVE  AppliedOnce'
  <2>1. applied[w] = 0 /\ applied \in [Deliveries -> Nat]
    BY <1>2 DEF AppliedOnce, HygieneTypeOK
  <2>2. applied'[w] = 1 /\ \A v \in Deliveries \ {w} : applied'[v] = applied[v]
    BY <1>2, <2>1
  <2>3. \A v \in Deliveries : v \in webhooks' <=> v \in webhooks \/ v = w
    BY <1>2
  <2> QED BY <2>2, <2>3 DEF AppliedOnce
<1> QED BY <1>1, <1>2, WebhooksAlone DEF hygieneVars

sendsState == <<hygieneVars, sendVars>>

LEMMA SendsInvHolds == SendsSpec => []SendsInv
<1>1. HygieneInit /\ SendsInit => SendsInv
  BY LedgerInitInv, InitIInv DEF SendsInv, AppliedOnce, HygieneInit
<1>2. SendsInv /\ [SendsNext]_sendsState => SendsInv'
  <2> SUFFICES ASSUME SendsInv, [SendsNext]_sendsState PROVE SendsInv'
    OBVIOUS
  <2>1. LedgerInv /\ AppliedOnce /\ IInv /\ HygieneTypeOK
    BY IInvImpliesTypeOK DEF SendsInv
  <2>2. [HygieneNext]_hygieneVars
    BY DEF SendsNext, sendsState
  <2>3. AppliedOnce' /\ IInv'
    BY <2>1, <2>2, AppliedKeeps, NextKeeps
  <2>4. LedgerInv'
    <3>1. CASE SendStep
      BY <2>1, <3>1, SendStepKeeps
    <3>2. CASE UNCHANGED sendVars
      <4>1. SendsTypeOK'
        BY <2>1, <3>2 DEF sendVars, LedgerInv, SendsTypeOK
      <4> QED BY <2>1, <3>2, <4>1 DEF sendVars, LedgerInv, ClickInOrder, ClaimIsKept, SentWasTaken, Owns
    <3> QED BY <3>1, <3>2 DEF SendsNext, sendsState
  <2> QED BY <2>3, <2>4 DEF SendsInv
<1> QED BY <1>1, <1>2, PTL DEF SendsSpec, sendsState

\* Clicks, claims and counts keep their types beside any change of contacts.
THEOREM SendsTypeCorrect == SendsSpec => [](HygieneTypeOK /\ SendsTypeOK)
<1>1. SendsInv => HygieneTypeOK /\ SendsTypeOK
  BY IInvImpliesTypeOK DEF SendsInv, LedgerInv
<1> QED BY <1>1, SendsInvHolds, PTL

\* For any number of clicks, retries and deaths: with the outbox on, a
\* one-to-one message is handed to its adapter at most once, which posts a text
\* message once and an e-mail as often as its SDK tries; no Sent event is added twice,
\* and a webhook changes a contact once.
THEOREM AtMostOnceHolds == SendsSpec => []AtMostOnce
<1>1. SendsInv => AtMostOnce
  <2> SUFFICES ASSUME SendsInv PROVE AtMostOnce
    OBVIOUS
  <2>1. \A q \in DirectRequests, c \in Contacts :
          outbox => posted[<<q, c>>] <= 1 /\ accepted[<<q, c>>] <= Attempts(q)
    BY DEF SendsInv, LedgerInv, ClaimIsKept
  <2>2. \A key \in Keys, c \in Contacts : sent[<<key, c>>] <= 1
    BY DEF SendsInv, LedgerInv, SentWasTaken
  <2>3. \A w \in Deliveries : applied[w] <= 1
    BY DEF SendsInv, AppliedOnce
  <2> QED BY <2>1, <2>2, <2>3 DEF AtMostOnce
<1> QED BY <1>1, SendsInvHolds, PTL

\* For any number of clicks, retries and deaths: a Sent event is about a
\* message the provider took, and the claims tell which messages were posted
\* and which were recorded.
THEOREM HistoryTellsTheTruthHolds == SendsSpec => []HistoryTellsTheTruth
<1>1. SendsInv => HistoryTellsTheTruth
  <2> SUFFICES ASSUME SendsInv, NEW q \in DirectRequests, NEW c \in Contacts
               PROVE  /\ sent[<<q, c>>] > 0 => accepted[<<q, c>>] > 0
                      /\ outbox => /\ posted[<<q, c>>] > 0 => claims[<<q, c>>] # "none"
                                   /\ (claims[<<q, c>>] = "Sent") <=> (sent[<<q, c>>] > 0)
    BY DEF HistoryTellsTheTruth
  <2>1. SentWasTaken(q, c)
    BY CellsOfKeys DEF SendsInv, LedgerInv
  <2>2. outbox => ClaimIsKept(q, c)
    BY DEF SendsInv, LedgerInv
  <2> QED BY <2>1, <2>2 DEF SentWasTaken, ClaimIsKept
<1> QED BY <1>1, SendsInvHolds, PTL

\* An opt-out sticks beside the sends too.
THEOREM OptOutSticksBesideSends == SendsSpec => []OptOutSticks
<1>1. SendsInv => OptOutSticks
  BY IInvImpliesSticks DEF SendsInv
<1> QED BY <1>1, SendsInvHolds, PTL
=============================================================================
