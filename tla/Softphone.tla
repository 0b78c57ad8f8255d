----------------------------- MODULE Softphone -----------------------------
(***************************************************************************)
(* The call engine of the browser softphone: components/                   *)
(* softphone-button.tsx, mounted once per tab.  It holds one SIP session;  *)
(* a start is a chain of awaits (microphone, provisioning, the INVITE)     *)
(* under a timer, callers ring in, sessions report by callbacks, and the   *)
(* user clicks in between.  Every step below runs between two awaits, so   *)
(* it is atomic; when it changes the contact on the screen, the render and *)
(* its effects belong to it.  Each render makes its own callbacks, and the *)
(* code that awaits keeps those it began with.  Audio, mute, DTMF, notes,  *)
(* transfer and recording are left out; the SIP network and the SDK are    *)
(* external.                                                               *)
(***************************************************************************)
EXTENDS Naturals, Sequences

CONSTANTS Callees,     \* contacts with a phone
          Stranger,    \* no contact: the target ""
          NoCall,
          MaxCalls,    \* bound on SIP sessions
          MaxDials     \* bound on starts

ASSUME PhoneAssumption ==
  /\ Stranger \notin Callees /\ NoCall \notin Nat /\ MaxCalls \in Nat /\ MaxDials \in Nat

VARIABLES
  phoneCalls, \* the SIP sessions of the tab
  dials,      \* the runs of startCall, oldest first: what each awaits
  engine,     \* the refs and the status of the component
  ringOut,    \* ringMyPhoneInstead awaits placeCallAction
  callLogs,   \* the logs handed to logSoftphoneCallAction, by session
  revived,    \* ghost: endedRef was cleared while older code still awaited
  retargeted  \* ghost: the calls under which the contact changed
phoneVars == <<phoneCalls, dials, engine, ringOut, callLogs, revived, retargeted>>

CallIds == 1..MaxCalls
Targets == Callees \union {Stranger}

\* heard: our handlers are attached; drawn: the contact of the render that made
\* them; doomed: cleanupSession left the listeners that cancel or hang up;
\* voicemail: toVoicemail is awaited; talked: ghost.
Session == [state : {"none", "init", "ringing", "answered", "over"}, inbound : BOOLEAN,
            party : Targets, drawn : Targets, heard : BOOLEAN, doomed : BOOLEAN,
            voicemail : BOOLEAN, talked : BOOLEAN]
\* contact: the target, in contactIdRef and on the screen.
Engine == [status : {"idle", "connecting", "ringing", "in-call", "ended", "error", "ringout-done"},
           session : CallIds \union {NoCall}, ended : BOOLEAN, wasConnected : BOOLEAN,
           blockClose : BOOLEAN, contact : Targets, timer : BOOLEAN,
           mounted : BOOLEAN]
Log == [contact : Callees, outcome : {"completed", "no-answer", "failed"}]

PhoneTypeOK ==
  /\ phoneCalls \in [CallIds -> Session]
  /\ dials \in Seq([at : {"asking", "inviting", "done"}, to : Targets, drawn : Targets,
                   call : CallIds \union {NoCall}])
  /\ engine \in Engine
  /\ callLogs \in [CallIds -> Seq(Log)]
  /\ {ringOut, revived} \subseteq BOOLEAN /\ retargeted \subseteq CallIds

PhoneInit ==
  /\ phoneCalls = [n \in CallIds |->
       [state |-> "none", inbound |-> FALSE, party |-> Stranger, drawn |-> Stranger,
        heard |-> FALSE, doomed |-> FALSE, voicemail |-> FALSE, talked |-> FALSE]]
  /\ dials = <<>> /\ callLogs = [n \in CallIds |-> <<>>]
  /\ engine = [status |-> "idle", session |-> NoCall, ended |-> FALSE, wasConnected |-> FALSE,
               blockClose |-> FALSE, contact |-> Stranger, timer |-> FALSE, mounted |-> TRUE]
  /\ ringOut = FALSE /\ revived = FALSE /\ retargeted = {}

-----------------------------------------------------------------------------
\* The helpers of the component.

OnCall == engine.status \in {"connecting", "ringing", "in-call"}
NewCall(n) == n \in CallIds /\ phoneCalls[n].state = "none" /\ \A m \in 1..(n - 1) : phoneCalls[m].state # "none"
Awaited(except) ==
  \/ \E i \in DOMAIN dials \ {except} : dials[i].at # "done"
  \/ \E n \in CallIds : phoneCalls[n].voicemail
Revives(except) == revived' = (revived \/ Awaited(except))

Quiet(e) == [e EXCEPT !.timer = FALSE, !.blockClose = FALSE]

Over(cs, n) == [cs EXCEPT ![n].state = "over", ![n].heard = FALSE, ![n].doomed = FALSE,
                          ![n].voicemail = FALSE]

\* Mutant: a session that has not been answered is dropped like the others.
CleanupAtOnce(cs, n) ==
  IF n = NoCall THEN cs
  ELSE [cs EXCEPT ![n].heard = FALSE,
                  ![n].state = IF @ \in {"init", "ringing"} THEN @ ELSE "over"]

\* A session that has not been answered can still be, and is watched for it.
CleanupSession(cs, n) ==
  IF n = NoCall THEN cs
  ELSE IF cs[n].state \in {"init", "ringing"}
       THEN [cs EXCEPT ![n].heard = FALSE, ![n].doomed = TRUE]
       ELSE [cs EXCEPT ![n].heard = FALSE, ![n].state = "over"]

\* logCall: about the contact of the ref or else of the render whose callback
\* runs, and nothing without one.  A start that got no session is logged too,
\* which is left out.
LogCall(e, final, drawn) ==
  LET about == IF e.contact = Stranger THEN drawn ELSE e.contact IN
  IF about = Stranger \/ e.session = NoCall THEN callLogs
  ELSE [callLogs EXCEPT ![e.session] = Append(@,
         [contact |-> about,
          outcome |-> IF e.wasConnected THEN "completed"
                      ELSE IF final = "error" THEN "failed" ELSE "no-answer"])]

Finalize(e, cs, final, status, drawn) ==
  /\ engine' = [Quiet(e) EXCEPT !.ended = TRUE, !.session = NoCall, !.status = status]
  /\ phoneCalls' = CleanupSession(cs, e.session)
  /\ callLogs' = LogCall(e, final, drawn)

EndCall(e, cs, final, drawn) ==
  IF e.ended THEN engine' = e /\ phoneCalls' = cs /\ UNCHANGED callLogs
  ELSE Finalize(e, cs, final, final, drawn)

\* The cleanup of the effect that is there for the unmount: the old render's
\* callbacks, and no setStatus.
TearDown(e, cs) ==
  IF e.session # NoCall /\ ~e.ended THEN Finalize(e, cs, "ended", e.status, engine.contact)
  ELSE /\ engine' = [e EXCEPT !.timer = FALSE, !.session = NoCall]
       /\ phoneCalls' = CleanupSession(cs, e.session)
       /\ UNCHANGED callLogs

\* That effect depends on finalize, so on the contact: it is run again, and
\* cleaned up first, on every render that shows another one.
Rendered(e, cs) ==
  IF e.contact = engine.contact THEN engine' = e /\ phoneCalls' = cs /\ UNCHANGED callLogs
  ELSE TearDown(e, cs)
Retargets(e) ==
  retargeted' = IF e.contact = engine.contact THEN retargeted
                ELSE retargeted \union ({e.session} \ {NoCall})

\* Mutant: the flag of the last call is kept.
AttachKeepingFlags(e, n) == [e EXCEPT !.session = n, !.ended = FALSE, !.status = "ringing"]

AttachSession(e, n) ==
  [e EXCEPT !.session = n, !.wasConnected = FALSE, !.ended = FALSE, !.status = "ringing"]

Attached(n, inbound, party, drawn) ==
  [phoneCalls EXCEPT ![n] = [@ EXCEPT !.state = IF inbound THEN "ringing" ELSE "init",
                                      !.inbound = inbound, !.party = party, !.drawn = drawn,
                                      !.heard = TRUE]]

-----------------------------------------------------------------------------
\* The user.

\* Only some of the buttons that open a contact ask whether a call is on.
OpenCall(c) ==
  /\ engine.mounted
  /\ LET e == [engine EXCEPT !.contact = c, !.status = IF OnCall THEN @ ELSE "idle"] IN
     Rendered(e, phoneCalls) /\ Retargets(e)
  /\ UNCHANGED <<dials, ringOut, revived>>

CanStart == engine.mounted /\ ~OnCall /\ Len(dials) < MaxDials
Connecting(c) == [engine EXCEPT !.contact = c, !.ended = FALSE, !.blockClose = TRUE,
                              !.status = "connecting", !.timer = TRUE]
Dialled(c) == dials' = Append(dials, [at |-> "asking", to |-> c, drawn |-> engine.contact,
                                      call |-> NoCall])

\* From the dialpad or "Try again": the contact on the screen, if there is one.
\* The dialog is there once a contact was opened or a caller answered.
StartCall ==
  /\ CanStart
  /\ engine.contact # Stranger \/ \E n \in CallIds : phoneCalls[n].inbound
  /\ engine' = Connecting(engine.contact) /\ Dialled(engine.contact)
  /\ Revives(0)
  /\ UNCHANGED <<phoneCalls, ringOut, callLogs, retargeted>>

\* From the dock: the contact is opened and dialled in one click, and the
\* render that shows it clears the timer of the start.
OpenCallInline(c) ==
  /\ CanStart
  /\ Rendered(Connecting(c), phoneCalls) /\ Retargets(Connecting(c)) /\ Dialled(c)
  /\ Revives(0)
  /\ UNCHANGED ringOut

HangUp ==
  /\ engine.mounted /\ engine.session # NoCall /\ engine.status # "connecting"
  /\ EndCall(engine, phoneCalls, "ended", engine.contact)
  /\ UNCHANGED <<dials, ringOut, revived, retargeted>>

SendIncomingCallToVoicemail(n) ==
  /\ engine.session = n /\ phoneCalls[n].inbound /\ phoneCalls[n].state = "ringing"
  /\ phoneCalls' = [phoneCalls EXCEPT ![n].voicemail = TRUE]
  /\ UNCHANGED <<dials, engine, ringOut, callLogs, revived, retargeted>>

\* "New call", closing the dialog, dismissing the wrap-up; the contact stays.
Reset ==
  /\ engine.mounted /\ ~OnCall /\ ~engine.blockClose
  /\ engine' = [Quiet(engine) EXCEPT !.session = NoCall, !.status = "idle", !.ended = FALSE,
                                     !.wasConnected = FALSE]
  /\ callLogs' = IF engine.session # NoCall /\ ~engine.ended
                 THEN LogCall(engine, "ended", engine.contact) ELSE callLogs
  /\ phoneCalls' = CleanupSession(phoneCalls, engine.session)
  /\ Revives(0)
  /\ UNCHANGED <<dials, ringOut, retargeted>>

RingMyPhoneInstead ==
  /\ engine.mounted /\ ~OnCall
  /\ engine' = [engine EXCEPT !.blockClose = FALSE, !.status = "connecting"]
  /\ ringOut' = TRUE
  /\ UNCHANGED <<phoneCalls, dials, callLogs, revived, retargeted>>

RingOutReturns ==
  /\ ringOut /\ ringOut' = FALSE
  /\ \E s \in {"ringout-done", "error"} : engine' = [engine EXCEPT !.status = s]
  /\ UNCHANGED <<phoneCalls, dials, callLogs, revived, retargeted>>

Unmount ==
  /\ engine.mounted
  /\ TearDown([engine EXCEPT !.mounted = FALSE], phoneCalls)
  /\ UNCHANGED <<dials, ringOut, revived, retargeted>>

-----------------------------------------------------------------------------
\* The continuations of startCall.

Abandoned == engine.ended \/ ~engine.mounted
Settled(i) == dials' = [dials EXCEPT ![i] = [at |-> "done", to |-> Stranger, drawn |-> Stranger,
                                             call |-> NoCall]]

ConnectTimeout ==
  /\ engine.timer /\ dials # <<>>
  /\ LET e == [engine EXCEPT !.timer = FALSE] IN
     IF e.ended \/ (e.session # NoCall /\ phoneCalls[e.session].state \in {"ringing", "answered"})
     THEN engine' = e /\ UNCHANGED <<phoneCalls, callLogs>>
     ELSE Finalize(e, phoneCalls, "error", "error", dials[Len(dials)].drawn)
  /\ UNCHANGED <<dials, ringOut, revived, retargeted>>

\* The microphone is refused or provisioning fails.
SetupFails(i) ==
  /\ i \in DOMAIN dials /\ dials[i].at = "asking"
  /\ engine' = [Quiet(engine) EXCEPT !.status = IF Abandoned THEN @ ELSE "error"]
  /\ Settled(i)
  /\ UNCHANGED <<phoneCalls, ringOut, callLogs, revived, retargeted>>

SetupTooLate(i) ==
  /\ i \in DOMAIN dials /\ dials[i].at = "asking" /\ Abandoned
  /\ engine' = [engine EXCEPT !.timer = FALSE]
  /\ Settled(i)
  /\ UNCHANGED <<phoneCalls, ringOut, callLogs, revived, retargeted>>

\* webPhone.call announces the session before it awaits anything.
Invite(i, n) ==
  /\ i \in DOMAIN dials /\ dials[i].at = "asking" /\ ~Abandoned
  /\ NewCall(n)
  /\ phoneCalls' = Attached(n, FALSE, dials[i].to, dials[i].drawn)
  /\ engine' = Quiet(AttachSession(engine, n))
  /\ dials' = [dials EXCEPT ![i].at = "inviting", ![i].call = n]
  /\ Revives(i)
  /\ retargeted' = IF dials[i].to = engine.contact THEN retargeted ELSE retargeted \union {n}
  /\ UNCHANGED <<ringOut, callLogs>>

\* webPhone.call rejects, before there is a session or when its media fail.
CallThrows(i) ==
  /\ i \in DOMAIN dials
  /\ \/ dials[i].at = "asking" /\ ~Abandoned
     \/ dials[i].at = "inviting" /\ phoneCalls[dials[i].call].state \in {"init", "over"}
  /\ IF Abandoned THEN UNCHANGED <<engine, phoneCalls, callLogs>>
     ELSE EndCall(Quiet(engine), phoneCalls, "error", dials[i].drawn)
  /\ Settled(i)
  /\ UNCHANGED <<ringOut, revived, retargeted>>

\* webPhone.call resolves: answered, over, or refused (403) without an event.
CallReturns(i) ==
  /\ i \in DOMAIN dials /\ dials[i].at = "inviting"
  /\ phoneCalls[dials[i].call].state \in {"init", "answered", "over"}
  /\ IF engine.mounted /\ engine.session # NoCall /\ phoneCalls[engine.session].state = "init"
     THEN EndCall([engine EXCEPT !.blockClose = FALSE], phoneCalls, "error", dials[i].drawn)
     ELSE UNCHANGED <<engine, phoneCalls, callLogs>>
  /\ Settled(i)
  /\ UNCHANGED <<ringOut, revived, retargeted>>

-----------------------------------------------------------------------------
\* The sessions and their callbacks.

Reported(n, e) == IF phoneCalls[n].heard THEN e ELSE engine

Rings(n) ==
  /\ phoneCalls[n].state = "init"
  /\ phoneCalls' = [phoneCalls EXCEPT ![n].state = "ringing"]
  /\ engine' = Reported(n, [Quiet(engine) EXCEPT
       !.status = IF @ \in {"in-call", "ended"} THEN @ ELSE "ringing"])
  /\ UNCHANGED <<dials, ringOut, callLogs, revived, retargeted>>

\* Answered by the lead, or by the user when the call came in.  A doomed
\* session is hung up at once.
Answered(n) ==
  /\ phoneCalls[n].state \in {"init", "ringing"} /\ ~phoneCalls[n].voicemail
  /\ phoneCalls[n].inbound => engine.session = n
  /\ phoneCalls' = IF phoneCalls[n].doomed THEN Over(phoneCalls, n)
                    ELSE [phoneCalls EXCEPT ![n].state = "answered", ![n].talked = TRUE]
  /\ engine' = Reported(n, IF engine.wasConnected THEN engine
       ELSE [Quiet(engine) EXCEPT !.wasConnected = TRUE, !.status = "in-call"])
  /\ UNCHANGED <<dials, ringOut, callLogs, revived, retargeted>>

\* The other side ends the session, does not pick up, or it fails.
Ends(n, final) ==
  /\ phoneCalls[n].state \in {"init", "ringing", "answered"}
  /\ LET over == [phoneCalls EXCEPT ![n].state = "over", ![n].doomed = FALSE] IN
     IF phoneCalls[n].heard THEN EndCall(engine, over, final, phoneCalls[n].drawn)
     ELSE phoneCalls' = over /\ UNCHANGED <<engine, callLogs>>
  /\ UNCHANGED <<dials, ringOut, revived, retargeted>>

\* toVoicemail resolves; whichever call is on is ended.
VoicemailTakes(n) ==
  /\ phoneCalls[n].voicemail
  /\ EndCall(engine, Over(phoneCalls, n), "ended", phoneCalls[n].drawn)
  /\ UNCHANGED <<dials, ringOut, revived, retargeted>>

\* A caller who finds the line busy goes to voicemail, and nothing is kept.  The
\* others take the place of the contact on the screen.
InboundCall(n, party) ==
  /\ engine.mounted /\ NewCall(n)
  /\ IF engine.session = NoCall THEN ~engine.blockClose /\ ~OnCall ELSE engine.ended
  /\ LET e == [AttachSession(engine, n) EXCEPT !.contact = Stranger] IN
     Rendered(e, Attached(n, TRUE, party, engine.contact)) /\ Retargets(e)
  /\ Revives(0)
  /\ UNCHANGED <<dials, ringOut>>

\* The search for the caller's number returns.
CallerMatched(n) ==
  /\ engine.session = n /\ ~engine.ended /\ phoneCalls[n].inbound
  /\ phoneCalls[n].party # Stranger
  /\ LET e == [engine EXCEPT !.contact = phoneCalls[n].party] IN
     Rendered(e, phoneCalls) /\ Retargets(e)
  /\ UNCHANGED <<dials, ringOut, revived>>

PhoneNext ==
  \/ \E c \in Callees : OpenCall(c) \/ OpenCallInline(c)
  \/ StartCall \/ HangUp \/ Reset \/ RingMyPhoneInstead \/ RingOutReturns \/ Unmount
  \/ ConnectTimeout
  \/ \E i \in 1..MaxDials :
       \/ SetupFails(i) \/ SetupTooLate(i) \/ CallThrows(i) \/ CallReturns(i)
       \/ \E n \in CallIds : Invite(i, n)
  \/ \E n \in CallIds :
       \/ Rings(n) \/ Answered(n) \/ Ends(n, "ended") \/ Ends(n, "error")
       \/ SendIncomingCallToVoicemail(n) \/ VoicemailTakes(n) \/ CallerMatched(n)
       \/ \E c \in Targets : InboundCall(n, c)

PhoneSpec == PhoneInit /\ [][PhoneNext]_phoneVars

-----------------------------------------------------------------------------
\* "One live call at a time": a call the lead or the caller can hear is the
\* one the buttons act on, or is hung up as soon as it is answered, and the
\* screen says what it is, but for a call dropped by a change of the contact.
\* Not so when an abandoned start came back to life.
OneLiveCall ==
  revived \/
    /\ \A n \in CallIds : phoneCalls[n].state \in {"init", "ringing", "answered"} =>
         n = engine.session \/ phoneCalls[n].doomed
    /\ engine.mounted =>
         /\ engine.session # NoCall => engine.status \in {"ringing", "in-call"}
         /\ engine.status = "in-call" =>
              IF engine.session = NoCall THEN retargeted # {}
              ELSE phoneCalls[engine.session].state = "answered"

\* Every call dialled for a contact is logged once when it is over, every other
\* one at most once, as completed exactly when the two sides talked, and on
\* the contact it was with unless the one on the screen changed under it.
LogTellsTheCall ==
  revived \/ \A n \in CallIds :
    /\ Len(callLogs[n]) <= 1
    /\ (phoneCalls[n].state # "none" /\ ~phoneCalls[n].inbound
          /\ phoneCalls[n].party # Stranger /\ n # engine.session) => Len(callLogs[n]) = 1
    /\ \A k \in DOMAIN callLogs[n] :
         /\ (callLogs[n][k].outcome = "completed") <=> phoneCalls[n].talked
         /\ callLogs[n][k].contact = phoneCalls[n].party \/ n \in retargeted

\* "A live call is never dropped", whatever is opened under it and whoever
\* turns out to be calling.  The code drops it.
LiveCallStays ==
  [][\A n \in CallIds : engine.session = n /\ phoneCalls[n].state = "answered"
       /\ ((\E c \in Callees : OpenCall(c)) \/ CallerMatched(n)) => engine'.session = n]_phoneVars
=============================================================================
