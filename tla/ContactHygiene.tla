--------------------------- MODULE ContactHygiene ---------------------------
(***************************************************************************)
(* Contacts, the suppression list and the opt-outs: lib/phase1/            *)
(* verification.ts, compliance.ts, contact-details.ts, dedupe.ts, the      *)
(* import of normalization.ts, the e-mail events of outreach.ts and        *)
(* webhooks.ts, app/api/unsubscribe and the actions of app/actions.ts.     *)
(*                                                                         *)
(* A contact has one address; a suppression record names an address or the *)
(* contacts' company domain.  Phone numbers are left out, with the records *)
(* that name one: they could only suppress more.  Every action is one      *)
(* transaction on the snapshot.  One workspace, one company.               *)
(***************************************************************************)
EXTENDS Naturals, FiniteSets

CONSTANTS Contacts,   \* contact ids
          Emails,     \* addresses
          AtCompany,  \* the addresses in the company's domain
          NoEmail, Domain, Absent, Merged,
          Deliveries, \* provider event ids of webhooks
          SmsDeliveries, \* of SMS webhooks
          MaxCrmSteps \* bound on the actions of this module

ASSUME HygieneAssumption ==
  /\ AtCompany \subseteq Emails /\ {NoEmail, Domain} \cap Emails = {}
  /\ SmsDeliveries \subseteq Deliveries
  /\ Absent # Merged /\ MaxCrmSteps \in Nat

VARIABLES
  contacts,     \* state.contacts: a row, Absent before its import, Merged away
  suppressions, \* state.suppressionRecords
  requests,     \* state.dataSubjectRequests (completing one twice is allowed)
  webhooks,     \* state.webhookEvents that were processed
  applied,      \* ghost: how often each webhook changed a contact
  optedOut,     \* ghost: whether the person asked not to be contacted (below)
  crmSteps
hygieneVars == <<contacts, suppressions, requests, webhooks, applied, optedOut, crmSteps>>

Rows == [email : Emails \union {NoEmail}, isSuppressed : BOOLEAN,
         doNotContact : BOOLEAN,
         grade : {"ABC", "D", "S"},       \* A, B and C may be mailed
         priority : {"P", "S"}]
ASSUME RowsAssumption == {Absent, Merged} \cap Rows = {}
Records == [type : {"Unsubscribe", "Hard bounce", "Deletion request"},
            address : Emails \union {NoEmail, Domain}]
Requests == [type : {"Deletion", "Suppression"}, email : Emails,
             contact : Contacts \union {Absent}]

\* "weak": through the unsubscribe link while the contact was suppressed
\* already, or on a duplicate that was merged into the contact; "full": any
\* other opt-out.  A manager who clears the flag do-not-contact ends it, and
\* for "weak" so does one who deletes a record of the list.
HygieneTypeOK ==
  /\ contacts \in [Contacts -> Rows \union {Absent, Merged}]
  /\ suppressions \subseteq Records
  /\ requests \subseteq Requests
  /\ webhooks \subseteq Deliveries /\ applied \in [Deliveries -> Nat]
  /\ optedOut \in [Contacts -> {"no", "weak", "full"}]
  /\ crmSteps \in 0..MaxCrmSteps

Live == {c \in Contacts : contacts[c] \notin {Absent, Merged}}

-----------------------------------------------------------------------------
\* Reading a row against the list.

OnList(row, list) == row.email # NoEmail /\ \E r \in list : r.address = row.email

\* findSuppressionReason: the address, or the domain of the address or else
\* of the company.  The gates before a send and an export ask OnList only.
ReasonFor(row, list) ==
  \/ OnList(row, list)
  \/ /\ row.email \in AtCompany \union {NoEmail}
     /\ \E r \in list : r.address = Domain

GradeOf(row) == IF row.email = NoEmail THEN "D" ELSE "ABC"
PriorityOf(grade) == IF grade = "S" THEN "S" ELSE "P"
BetterGrade(g, h) == IF "ABC" \in {g, h} THEN "ABC" ELSE IF "D" \in {g, h} THEN "D" ELSE "S"

Suppressed(row) ==
  [row EXCEPT !.isSuppressed = TRUE, !.doNotContact = TRUE, !.grade = "S", !.priority = "S"]

\* Mutant: verification asks the list and forgets the contact's own flag.
VerifiedByListOnly(row, list) ==
  IF ReasonFor(row, list) THEN Suppressed(row)
  ELSE [row EXCEPT !.isSuppressed = FALSE, !.grade = GradeOf(row), !.priority = "P"]

Verified(row, list) ==
  IF row.doNotContact \/ ReasonFor(row, list) THEN Suppressed(row)
  ELSE [row EXCEPT !.isSuppressed = FALSE, !.grade = GradeOf(row),
                   !.priority = PriorityOf(GradeOf(row))]

\* runWorkspaceVerification over the rows of cs.
VerifiedAll(cs, list) ==
  [c \in Contacts |-> IF cs[c] \in {Absent, Merged} THEN cs[c] ELSE Verified(cs[c], list)]

CurrentlySuppressed(c) ==
  contacts[c].isSuppressed \/ contacts[c].doNotContact \/ OnList(contacts[c], suppressions)

\* directEmailBlockReason and isSendEligible.
Blocked(c) ==
  \/ CurrentlySuppressed(c) \/ contacts[c].email = NoEmail
  \/ contacts[c].grade \in {"S", "D"} \/ contacts[c].priority = "S"

-----------------------------------------------------------------------------
\* The transactions.

Step == crmSteps < MaxCrmSteps /\ crmSteps' = crmSteps + 1
OptOut(c, how) == optedOut' = [optedOut EXCEPT ![c] = how]

Fresh(email) == [email |-> email, isSuppressed |-> FALSE, doNotContact |-> FALSE,
                 grade |-> "ABC", priority |-> "P"]

HygieneInit ==
  /\ contacts \in [Contacts -> {Fresh(e) : e \in Emails} \union {Absent}]
  /\ suppressions = {} /\ requests = {} /\ webhooks = {}
  /\ applied = [w \in Deliveries |-> 0]
  /\ optedOut = [c \in Contacts |-> "no"]
  /\ crmSteps = 0

RunVerification ==
  /\ Step
  /\ contacts' = VerifiedAll(contacts, suppressions)
  /\ UNCHANGED <<suppressions, requests, webhooks, applied, optedOut>>

AddSuppression(address) ==
  /\ Step
  /\ suppressions' = suppressions \union {[type |-> "Unsubscribe", address |-> address]}
  /\ contacts' = VerifiedAll(
       [c \in Contacts |-> IF c \in Live /\ address \in {contacts[c].email, Domain}
                           THEN Suppressed(contacts[c]) ELSE contacts[c]], suppressions')
  /\ UNCHANGED <<requests, webhooks, applied, optedOut>>

DeleteSuppression(r) ==
  /\ Step
  /\ suppressions' = suppressions \ {r}
  /\ contacts' = VerifiedAll(contacts, suppressions')
  /\ optedOut' = [c \in Contacts |-> IF optedOut[c] = "weak" THEN "no" ELSE optedOut[c]]
  /\ UNCHANGED <<requests, webhooks, applied>>

\* The edit only ever sets isSuppressed.
UpdateContactDetails(c, email) ==
  /\ Step /\ c \in Live
  /\ LET row == [contacts[c] EXCEPT !.email = email] IN
     contacts' = [contacts EXCEPT ![c] =
       [row EXCEPT !.isSuppressed = @ \/ row.doNotContact \/ OnList(row, suppressions)]]
  /\ UNCHANGED <<suppressions, requests, webhooks, applied, optedOut>>

\* What a waterfall run found, or only read, before its provider calls
\* overwrites the address; a verified address sets the grade.
ApplyWaterfallResults(c, email, grade) ==
  /\ Step /\ c \in Live
  /\ contacts' = [contacts EXCEPT ![c].email = email, ![c].grade = grade]
  /\ UNCHANGED <<suppressions, requests, webhooks, applied, optedOut>>

UpdateContactCompliance(c, doNotContact) ==
  /\ Step /\ c \in Live
  /\ IF doNotContact
     THEN /\ contacts' = [contacts EXCEPT ![c] = Suppressed(@)]
          /\ suppressions' = IF OnList(contacts[c], suppressions) THEN suppressions
               ELSE suppressions \union {[type |-> "Unsubscribe", address |-> contacts[c].email]}
          /\ OptOut(c, "full")
     ELSE /\ contacts' = [contacts EXCEPT ![c].doNotContact = FALSE]
          /\ UNCHANGED suppressions
          /\ OptOut(c, "no")
  /\ UNCHANGED <<requests, webhooks, applied>>

\* A lead with this address; it may also match a contact by name and company.
ImportInto(c, lead, reason) ==
  LET row == contacts[c]
      merged == [row EXCEPT !.grade = BetterGrade(@, lead.grade),
                            !.priority = IF row.isSuppressed THEN "S" ELSE lead.priority]
  IN contacts' = [contacts EXCEPT ![c] = IF reason THEN Suppressed(merged) ELSE merged]

ImportLead(c, email) ==
  LET reason == ReasonFor(Fresh(email), suppressions)
      lead   == IF reason THEN Suppressed(Fresh(email))
                ELSE [Fresh(email) EXCEPT !.grade = GradeOf(Fresh(email))]
  IN /\ Step
     /\ \/ c \in Live /\ ImportInto(c, lead, reason)
        \/ /\ contacts[c] = Absent
           /\ email = NoEmail \/ \A d \in Live : contacts[d].email # email
           /\ contacts' = [contacts EXCEPT ![c] = lead]
     /\ UNCHANGED <<suppressions, requests, webhooks, applied, optedOut>>

\* Two contacts of one person, as an open match has them (same address or same
\* name and company when it was detected).  doNotContact is not carried over.
MergeContacts(primary, duplicate) ==
  /\ Step /\ {primary, duplicate} \subseteq Live /\ primary # duplicate
  /\ LET p == contacts[primary] d == contacts[duplicate] IN
     contacts' = [contacts EXCEPT
       ![primary] = [p EXCEPT !.email = IF @ = NoEmail THEN d.email ELSE @,
                              !.grade = BetterGrade(@, d.grade),
                              !.isSuppressed = @ \/ d.isSuppressed],
       ![duplicate] = Merged]
  /\ optedOut' = [optedOut EXCEPT
       ![primary] = IF @ = "full" THEN @ ELSE IF optedOut[duplicate] = "no" THEN @ ELSE "weak",
       ![duplicate] = "no"]
  /\ UNCHANGED <<suppressions, requests, webhooks, applied>>

HardSuppression(c, type) ==
  /\ suppressions' = suppressions \union {[type |-> type, address |-> contacts[c].email]}
  /\ contacts' = [contacts EXCEPT ![c] = Suppressed(@)]
  /\ OptOut(c, "full")

\* An unsubscribe, complaint or hard bounce a manager records.
RecordEmailEvent(c, type) ==
  /\ Step /\ c \in Live
  /\ HardSuppression(c, type)
  /\ UNCHANGED <<requests, webhooks, applied>>

\* STOP, or an opt-out a person records: the record names the phone.
SmsOptOut(c) ==
  /\ contacts' = [contacts EXCEPT ![c] = Suppressed(@)]
  /\ OptOut(c, "full")
  /\ UNCHANGED suppressions

RecordSmsEvent(c) ==
  /\ Step /\ c \in Live
  /\ SmsOptOut(c)
  /\ UNCHANGED <<requests, webhooks, applied>>

ProcessSmsWebhook(w, c) ==
  /\ Step /\ c \in Live
  /\ IF w \in webhooks
     THEN UNCHANGED <<contacts, suppressions, webhooks, applied, optedOut>>
     ELSE /\ SmsOptOut(c)
          /\ webhooks' = webhooks \union {w} /\ applied' = [applied EXCEPT ![w] = @ + 1]
  /\ UNCHANGED requests

\* A delivery, first or repeated, of a provider's event.
ProcessEmailWebhook(w, c, type) ==
  /\ Step /\ c \in Live
  /\ IF w \in webhooks
     THEN UNCHANGED <<contacts, suppressions, webhooks, applied, optedOut>>
     ELSE /\ HardSuppression(c, type)
          /\ webhooks' = webhooks \union {w} /\ applied' = [applied EXCEPT ![w] = @ + 1]
  /\ UNCHANGED requests

\* The recipient follows the unsubscribe link of a message.
Unsubscribe(c) ==
  /\ Step /\ c \in Live
  /\ IF contacts[c].isSuppressed
     THEN /\ UNCHANGED contacts
          /\ OptOut(c, IF optedOut[c] = "full" THEN "full" ELSE "weak")
     ELSE contacts' = [contacts EXCEPT ![c] = Suppressed(@)] /\ OptOut(c, "full")
  /\ suppressions' = suppressions \union {[type |-> "Unsubscribe", address |-> contacts[c].email]}
  /\ UNCHANGED <<requests, webhooks, applied>>

\* The contact is looked up once, when the request is opened.
CreateDataSubjectRequest(type, email) ==
  /\ Step
  /\ \E c \in Contacts \union {Absent} :
       /\ IF \E d \in Live : contacts[d].email = email
          THEN c \in Live /\ contacts[c].email = email ELSE c = Absent
       /\ requests' = requests \union {[type |-> type, email |-> email, contact |-> c]}
  /\ UNCHANGED <<contacts, suppressions, webhooks, applied, optedOut>>

RequestContacts(q) ==
  IF q.contact = Absent THEN {c \in Live : contacts[c].email = q.email} ELSE {q.contact} \cap Live

CompleteDataSubjectRequest(q) ==
  /\ Step
  /\ \/ /\ RequestContacts(q) = {}
        /\ contacts' = VerifiedAll(contacts, suppressions)
        /\ UNCHANGED <<suppressions, optedOut>>
     \/ \E c \in RequestContacts(q) :
          LET row     == contacts[c]
              address == IF row.email = NoEmail THEN q.email ELSE row.email
              type    == IF q.type = "Deletion" THEN "Deletion request" ELSE "Unsubscribe"
              left    == IF q.type = "Deletion" THEN [row EXCEPT !.email = NoEmail] ELSE row
          IN /\ suppressions' = suppressions \union {[type |-> type, address |-> address]}
             /\ contacts' = VerifiedAll([contacts EXCEPT ![c] = Suppressed(left)], suppressions')
             /\ OptOut(c, "full")
  /\ UNCHANGED <<requests, webhooks, applied>>

OptOutTypes == {"Unsubscribe", "Hard bounce"}

HygieneNext ==
  \/ RunVerification
  \/ \E a \in Emails \union {Domain} : AddSuppression(a)
  \/ \E r \in suppressions : DeleteSuppression(r)
  \/ \E c \in Contacts, e \in Emails \union {NoEmail} : UpdateContactDetails(c, e) \/ ImportLead(c, e)
  \/ \E c \in Live, e \in Emails : \E g \in {"ABC", "D", contacts[c].grade} :
       ApplyWaterfallResults(c, e, g)
  \/ \E c \in Contacts, b \in BOOLEAN : UpdateContactCompliance(c, b)
  \/ \E c, d \in Contacts : MergeContacts(c, d)
  \/ \E c \in Contacts, t \in OptOutTypes :
       \/ RecordEmailEvent(c, t)
       \/ \E w \in Deliveries \ SmsDeliveries : ProcessEmailWebhook(w, c, t)
  \/ \E c \in Contacts :
       Unsubscribe(c) \/ RecordSmsEvent(c) \/ (\E w \in SmsDeliveries : ProcessSmsWebhook(w, c))
  \/ \E t \in {"Deletion", "Suppression"}, e \in Emails : CreateDataSubjectRequest(t, e)
  \/ \E q \in requests : CompleteDataSubjectRequest(q)

HygieneSpec == HygieneInit /\ [][HygieneNext]_hygieneVars

-----------------------------------------------------------------------------
\* An opt-out recorded by the full path stays: whatever is verified, edited,
\* imported, merged into the contact or taken off the list afterwards, the
\* contact keeps both flags until a manager clears the do-not-contact flag.
OptOutSticks ==
  \A c \in Live : optedOut[c] = "full" => contacts[c].doNotContact /\ contacts[c].isSuppressed

\* docs/SDR_GUIDE.md:137: unsubscribes "immediately suppress a contact -- they
\* are blocked from future outreach".  Every person who opted out, on a
\* duplicate row or through the link in a message too, is blocked.
OptOutBlocksOutreach ==
  \A c \in Live : optedOut[c] # "no" => Blocked(c)
=============================================================================
