---------------------------- MODULE DirectSends ----------------------------
(***************************************************************************)
(* Live sends: lib/phase1/direct-email-send.ts, direct-sms-send.ts,        *)
(* direct-send-outbox.ts, outreach-send.ts and their actions in            *)
(* app/actions.ts.  A click reads the state, plans its recipients from     *)
(* that copy, claims them (one-to-one sends, when the outbox is on), posts *)
(* one message after the other to the provider, and records the outcomes   *)
(* in one transaction.  Contacts change in between (ContactHygiene), the   *)
(* process can die at any point, and a retry is a click that carries the   *)
(* same request id.                                                        *)
(***************************************************************************)
EXTENDS ContactHygiene, Functions

CONSTANTS Clicks,
          DirectRequests, \* request ids of one-to-one forms, e-mail or SMS
          SmsRequests,    \* the SMS ones among them
          BulkRequests,   \* request ids of the assigned-leads bulk form
          Campaign,       \* the outreach campaign
          NoKey,
          SdkAttempts,    \* of the SES client for one send, its default of 3
          MaxPosts        \* bound on the sends handed to the adapters

ASSUME SendsAssumption ==
  /\ SmsRequests \subseteq DirectRequests
  /\ DirectRequests \cap BulkRequests = {}
  /\ MaxPosts \in Nat /\ SdkAttempts \in Nat \ {0}
  /\ {Campaign, NoKey} \cap (DirectRequests \union BulkRequests) = {} /\ Campaign # NoKey

VARIABLES
  outbox,    \* directSendOutboxEnabled()
  clicks,    \* clicks[k]: where its action is, what it planned, the outcomes
  claims,    \* state.directSendClaims of the one-to-one requests
  sent,      \* ghost on state.emailEvents/smsEvents: live Sent events per key
  simulated, \* contacts with a simulated Sent event of the campaign
  campaign,  \* its status
  posted, accepted  \* ghosts: sends handed to the adapter, and copies of the
                    \* message that the provider took
sendVars == <<outbox, clicks, claims, sent, simulated, campaign, posted, accepted>>

Keys == DirectRequests \union BulkRequests \union {Campaign}
Counts == [Keys \X Contacts -> Nat]

SendsTypeOK ==
  /\ outbox \in BOOLEAN
  /\ clicks \in [Clicks -> [at : {"idle", "claim", "post", "done"}, key : Keys \union {NoKey},
                            to : SUBSET Contacts,
                            outcome : [Contacts -> {"none", "sent", "failed"}]]]
  /\ claims \in [DirectRequests \X Contacts -> {"none", "Sending", "Sent", "Failed"}]
  /\ simulated \subseteq Contacts
  /\ campaign \in {"Draft", "Active", "Completed"}
  /\ {sent, posted, accepted} \subseteq Counts

NoOutcomes == [c \in Contacts |-> "none"]
Nothing == [k \in Keys \X Contacts |-> 0]

SendsInit ==
  /\ outbox \in BOOLEAN
  /\ clicks = [k \in Clicks |-> [at |-> "idle", key |-> NoKey, to |-> {}, outcome |-> NoOutcomes]]
  /\ claims = [k \in DirectRequests \X Contacts |-> "none"]
  /\ sent = Nothing /\ posted = Nothing /\ accepted = Nothing
  /\ simulated = {} /\ campaign = "Draft"

-----------------------------------------------------------------------------
\* Planning, on the copy of the state the action reads first.

AlreadySent(key, c) == sent[<<key, c>>] > 0 \/ (key = Campaign /\ c \in simulated)

SmsBlocked(c) == CurrentlySuppressed(c)   \* the contacts have a phone
Sendable(key) ==
  {c \in Live : (IF key \in SmsRequests THEN ~SmsBlocked(c) ELSE ~Blocked(c))
                /\ ~AlreadySent(key, c)}

Begin(k, key, at, recipients) ==
  /\ clicks[k].at = "idle"
  /\ clicks' = [clicks EXCEPT ![k] = [at |-> at, key |-> key, to |-> recipients,
                                      outcome |-> NoOutcomes]]
  /\ UNCHANGED <<outbox, claims, sent, simulated, campaign, posted, accepted>>

SendDirectEmail(k, key, c) ==
  key \notin SmsRequests /\ Begin(k, key, IF outbox THEN "claim" ELSE "post", Sendable(key) \intersect {c})

SendDirectSms(k, key, c) ==
  key \in SmsRequests /\ Begin(k, key, IF outbox THEN "claim" ELSE "post", Sendable(key) \intersect {c})

\* Bulk and campaign sends take no claims.
SendAssignedBulkEmail(k, key, some) == Begin(k, key, "post", Sendable(key) \intersect some)

SendCampaign(k, batch) ==
  /\ batch \subseteq Sendable(Campaign)
  /\ Begin(k, Campaign, "post", batch)

\* Without a live credential the click of a campaign records simulated sends,
\* whoever was sent to before.
SimulateCampaignSend ==
  /\ simulated' = simulated \union
       {c \in Live : ~contacts[c].isSuppressed /\ contacts[c].email # NoEmail
                     /\ contacts[c].grade \notin {"S", "D"}}
  /\ campaign' = "Active"
  /\ UNCHANGED <<outbox, clicks, claims, sent, posted, accepted>>

-----------------------------------------------------------------------------
\* The transactions and calls that follow.

\* Mutants: every recipient is claimed and sent again; a claim is kept only
\* for the recipients the provider took.
ClaimAgain(k) ==
  /\ clicks[k].at = "claim"
  /\ claims' = [r \in DOMAIN claims |->
       IF r \in {clicks[k].key} \X clicks[k].to THEN "Sending" ELSE claims[r]]
  /\ clicks' = [clicks EXCEPT ![k].at = "post"]
  /\ UNCHANGED <<outbox, sent, simulated, campaign, posted, accepted>>

ClaimDirectSends(k) ==
  LET fresh == {c \in clicks[k].to : claims[<<clicks[k].key, c>>] = "none"} IN
  /\ clicks[k].at = "claim"
  /\ claims' = [r \in DOMAIN claims |->
       IF r \in {clicks[k].key} \X fresh THEN "Sending" ELSE claims[r]]
  /\ clicks' = [clicks EXCEPT ![k].at = "post", ![k].to = fresh]
  /\ UNCHANGED <<outbox, sent, simulated, campaign, posted, accepted>>

PostCount == FoldFunction(+, 0, posted)

\* The client of the e-mail adapter keeps the retries of its SDK: an attempt
\* that times out, or is answered with an error of the server, is followed by
\* another, whether or not the message was taken.  The text message is one fetch.
Attempts(key) == IF key \in SmsRequests THEN 1 ELSE SdkAttempts

\* One send of an adapter.  The provider takes the message in some of the
\* attempts; the answer to the last can be lost, which is a failure then.
Post(k, c) ==
  LET r == <<clicks[k].key, c>> IN
  /\ clicks[k].at = "post" /\ c \in clicks[k].to /\ clicks[k].outcome[c] = "none"
  /\ PostCount < MaxPosts
  /\ posted' = [posted EXCEPT ![r] = @ + 1]
  /\ \E taken \in 0..Attempts(clicks[k].key), answer \in {"sent", "failed"} :
       /\ answer = "sent" => taken > 0
       /\ accepted' = [accepted EXCEPT ![r] = @ + taken]
       /\ clicks' = [clicks EXCEPT ![k].outcome[c] = answer]
  /\ UNCHANGED <<outbox, claims, sent, simulated, campaign>>

SendEmail(k, c) == clicks[k].key \notin SmsRequests \union {Campaign} /\ Post(k, c)
SendSms(k, c) == clicks[k].key \in SmsRequests /\ Post(k, c)
SendCampaignEmail(k, c) == clicks[k].key = Campaign /\ Post(k, c)

AllPosted(k) == clicks[k].at = "post" /\ \A c \in clicks[k].to : clicks[k].outcome[c] # "none"

\* The contacts whose Sent event the transaction of k adds.
NewlySent(k) ==
  {c \in clicks[k].to : clicks[k].outcome[c] = "sent" /\ ~AlreadySent(clicks[k].key, c)}

AddSentEvents(k, who) ==
  sent' = [r \in DOMAIN sent |-> IF r \in {clicks[k].key} \X who THEN sent[r] + 1 ELSE sent[r]]

\* finalizeDirectSendClaims, in the transaction that records the results.
Finalized(k) ==
  [r \in DOMAIN claims |->
     IF outbox /\ r[1] = clicks[k].key /\ r[2] \in clicks[k].to
     THEN IF clicks[k].outcome[r[2]] = "sent" THEN "Sent" ELSE "Failed"
     ELSE claims[r]]

\* Mutant: the claims are settled although the transaction that records fails.
FinalizeAnyway(k) ==
  /\ clicks[k].key \in DirectRequests \union BulkRequests /\ AllPosted(k)
  /\ AddSentEvents(k, NewlySent(k) \intersect Live) /\ claims' = Finalized(k)
  /\ clicks' = [clicks EXCEPT ![k].at = "done"]
  /\ UNCHANGED <<outbox, simulated, campaign, posted, accepted>>

\* One recipient that is gone makes the transaction throw, and nothing of the
\* whole batch is recorded.
RecordDirectResults(k) ==
  /\ clicks[k].key \in DirectRequests \union BulkRequests /\ AllPosted(k)
  /\ IF NewlySent(k) \subseteq Live
     THEN AddSentEvents(k, NewlySent(k)) /\ claims' = Finalized(k)
     ELSE UNCHANGED <<sent, claims>>
  /\ clicks' = [clicks EXCEPT ![k].at = "done"]
  /\ UNCHANGED <<outbox, simulated, campaign, posted, accepted>>

\* The campaign skips them.
RecordCampaignSendResults(k) ==
  LET added == NewlySent(k) \intersect Live
      left  == {c \in Sendable(Campaign) : sent'[<<Campaign, c>>] = 0}
  IN /\ clicks[k].key = Campaign /\ AllPosted(k)
     /\ AddSentEvents(k, added)
     /\ campaign' = IF left = {} THEN "Completed" ELSE IF added # {} THEN "Active" ELSE campaign
     /\ clicks' = [clicks EXCEPT ![k].at = "done"]
     /\ UNCHANGED <<outbox, claims, simulated, posted, accepted>>

\* The process dies, between two steps or inside one.
Die(k) ==
  /\ clicks[k].at \in {"claim", "post"}
  /\ clicks' = [clicks EXCEPT ![k].at = "done"]
  /\ UNCHANGED <<outbox, claims, sent, simulated, campaign, posted, accepted>>

SendStep ==
  \/ \E k \in Clicks, c \in Contacts :
       \/ \E r \in DirectRequests : SendDirectEmail(k, r, c) \/ SendDirectSms(k, r, c)
       \/ SendEmail(k, c) \/ SendSms(k, c) \/ SendCampaignEmail(k, c)
  \/ \E k \in Clicks, some \in SUBSET Contacts :
       SendCampaign(k, some) \/ (\E r \in BulkRequests : SendAssignedBulkEmail(k, r, some))
  \/ SimulateCampaignSend
  \/ \E k \in Clicks :
       ClaimDirectSends(k) \/ RecordDirectResults(k) \/ RecordCampaignSendResults(k) \/ Die(k)

SendsNext == (SendStep /\ UNCHANGED hygieneVars) \/ (HygieneNext /\ UNCHANGED sendVars)

SendsSpec == HygieneInit /\ SendsInit /\ [][SendsNext]_<<hygieneVars, sendVars>>

-----------------------------------------------------------------------------
\* With the outbox on, a one-to-one message is handed to its adapter at most
\* once, whatever was clicked again, raced or died: a text message goes out at
\* most once, and the copies of an e-mail are those of the attempts within one
\* send of the SDK.  No send is recorded twice, and a webhook delivered twice
\* changes a contact once.
AtMostOnce ==
  /\ outbox => \A r \in DirectRequests \X Contacts :
                 posted[r] <= 1 /\ accepted[r] <= Attempts(r[1])
  /\ \A r \in Keys \X Contacts : sent[r] <= 1
  /\ \A w \in Deliveries : applied[w] <= 1

\* The history of the one-to-one sends tells the truth: a Sent event is about
\* a message the provider took; with the outbox on, every posted message has a
\* claim, and the claim says Sent exactly when the event is there.
HistoryTellsTheTruth ==
  \A r \in DirectRequests \X Contacts :
    /\ sent[r] > 0 => accepted[r] > 0
    /\ outbox => /\ posted[r] > 0 => claims[r] # "none"
                 /\ (claims[r] = "Sent") <=> (sent[r] > 0)
=============================================================================
