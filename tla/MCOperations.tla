---------------------------- MODULE MCOperations ----------------------------
(***************************************************************************)
(* The CRM's daily operations side by side: sends with the contacts they   *)
(* read, the financial ledger, the calling queue, the lead jobs, the       *)
(* softphone, the enrichment and the seats.  They share no state here, so  *)
(* one of them moves in a behaviour, chosen at the start, and the state    *)
(* space is the sum of theirs, not the product.  The sends are split once  *)
(* more: the clicks of a behaviour are all about one request, which is     *)
(* where they meet, and one change of the contacts runs beside them; the   *)
(* contacts on their own go through three.  The softphone is followed      *)
(* until an abandoned start comes back to life: one start and another      *)
(* contact opened under its call, two starts, or a start and a caller with *)
(* any contacts opened.  The seats are followed with two requests at a     *)
(* time, and with the store and one request.                               *)
(***************************************************************************)
EXTENDS DirectSends, FinancialLedger, SdrCalling, LeadJobs, Softphone, Waterfall, WorkspaceSeats, TLC

VARIABLE part
operationsVars == <<part, hygieneVars, sendVars, ledgerVars, sdrVars, jobsVars, phoneVars,
                    waterfallVars, seatsVars>>

PhoneParts == {"dialling", "caller"}
SeatsParts == {"seats", "store"}
Parts == Keys \union {"contacts", "ledger", "sdr", "jobs", "waterfall"} \union PhoneParts \union SeatsParts

AmountValues == {1, -1}
OneAndTwo == [l \in Leads |-> IF l = "l3" THEN "beta" ELSE "alpha"]
EmailStep(stage, providers, stopIf) ==
  [stage |-> stage, providers |-> providers, whenMissing |-> stage = "find",
   untilValid |-> stopIf, accepts |-> {"valid", "catch_all"}]
\* buildLiveEmailTemplate; its last call does not fit the budget after the others.
LiveEmail == [cap |-> 25, steps |-> <<EmailStep("find", <<"apollo", "hunter">>, FALSE),
                                      EmailStep("verify", <<"millionverifier", "hunter">>, TRUE)>>]
JustLiveEmail == {LiveEmail}
CallPrice == [p \in EmailProviders |-> IF p = "millionverifier" THEN 1 ELSE 9]
InArrayOrder == <<"l1", "l2", "l3">>
OneCall == CHOOSE k \in AuthCalls : TRUE
OperationsSymmetry == Permutations(Contacts) \union Permutations(Clicks)

\* Everyone can be called, l2 has an owner already, and the recipients of the
\* sends have one address.
OperationsInit ==
  /\ part \in Parts
  /\ HygieneInit /\ SendsInit /\ (part \notin DirectRequests => outbox)
  /\ part # "contacts" => Live = Contacts /\ \A c \in Contacts : contacts[c].email \in AtCompany
  /\ LedgerInit /\ JobsInit /\ PhoneInit /\ SeatsInit
  /\ part \notin SeatsParts => members = {}
  /\ WaterfallInit /\ (part # "waterfall" => person.email = Missing)
  /\ SdrInit /\ reachable = Leads
  /\ owner = [l \in Leads |-> IF l = "l2" THEN "q" ELSE Nobody]

OperationsNext ==
  \/ /\ part \in Keys
     /\ SendsNext /\ crmSteps' <= 1
     /\ \A k \in Clicks : clicks'[k].key \in {NoKey, part}
     /\ simulated' # {} => part = Campaign
     /\ UNCHANGED <<part, ledgerVars, sdrVars, jobsVars, phoneVars, waterfallVars, seatsVars>>
  \/ /\ part = "contacts" /\ HygieneNext
     /\ UNCHANGED <<part, sendVars, ledgerVars, sdrVars, jobsVars, phoneVars, waterfallVars, seatsVars>>
  \/ /\ part = "ledger" /\ LedgerNext
     /\ UNCHANGED <<part, hygieneVars, sendVars, sdrVars, jobsVars, phoneVars, waterfallVars, seatsVars>>
  \/ /\ part = "sdr" /\ SdrNext   \* request ids are used in order
     /\ \A r \in Wrapups : receipts'[r] # Nobody => \A i \in 1..(r - 1) : receipts'[i] # Nobody
     /\ UNCHANGED <<part, hygieneVars, sendVars, ledgerVars, jobsVars, phoneVars, waterfallVars, seatsVars>>
  \/ /\ part = "jobs" /\ JobsNext
     /\ UNCHANGED <<part, hygieneVars, sendVars, ledgerVars, sdrVars, phoneVars, waterfallVars, seatsVars>>
  \/ /\ part \in PhoneParts /\ ~revived /\ PhoneNext
     /\ LET inbounds == {n \in CallIds : phoneCalls'[n].inbound} IN
        IF part = "dialling" THEN inbounds = {} /\ (retargeted' # {} => Len(dials') <= 1)
        ELSE inbounds # CallIds /\ Len(dials') <= 1 /\ engine'.mounted
     /\ UNCHANGED <<part, hygieneVars, sendVars, ledgerVars, sdrVars, jobsVars, waterfallVars, seatsVars>>
  \/ /\ part = "waterfall" /\ WaterfallNext   \* an edit beside a run, or another run
     /\ edits' > 0 => runs'[2].at = "idle"
     /\ UNCHANGED <<part, hygieneVars, sendVars, ledgerVars, sdrVars, jobsVars, phoneVars, seatsVars>>
  \/ /\ part \in SeatsParts /\ SeatsNext
     /\ IF part = "seats" THEN ~copy'.taken
        ELSE /\ \A u \in Users : seats'[u].failed = 0
             /\ \A k \in AuthCalls : authCalls'[k].op # "none" => k = OneCall
     /\ UNCHANGED <<part, hygieneVars, sendVars, ledgerVars, sdrVars, jobsVars, phoneVars,
                    waterfallVars>>

OperationsSpec == OperationsInit /\ [][OperationsNext]_operationsVars

\* The types of the component that moves (the others stay as they began);
\* among them that no run of a lead job gets past its maximum of attempts
\* (docs/BACKGROUND_JOBS.md: "marked failed after max attempts").
OperationsTypeOK ==
  CASE part = "ledger" -> LedgerTypeOK
    [] part = "sdr" -> SdrTypeOK
    [] part = "jobs" -> JobsTypeOK
    [] part \in PhoneParts -> PhoneTypeOK
    [] part = "waterfall" -> WaterfallTypeOK
    [] part \in SeatsParts -> SeatsTypeOK
    [] OTHER -> HygieneTypeOK /\ SendsTypeOK
=============================================================================
