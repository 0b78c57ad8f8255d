-------------------------- MODULE OperationsProofs --------------------------
(***************************************************************************)
(* For any values of their constants: the seats of a workspace, the jobs   *)
(* of its leads, enrichment, the softphone of a tab, the calling queue and *)
(* the financial ledger; contacts and sends are in ContactHygieneProofs.   *)
(* Last, MCOperations, which composes them: its behaviours are behaviours  *)
(* of each of them, so that all these theorems are theorems about it.      *)
(***************************************************************************)
EXTENDS MCOperations, ContactHygieneProofs, IterationLemmas

-----------------------------------------------------------------------------
\* Seats.  Whatever a request under way has read, a deactivation has marked
\* it, and no live session is left that an earlier password opened, unless the
\* store wrote an older account; and its copy is the older one only for users
\* it is marked to be stale for.

LiveIsFresh ==
  \A s \in AuthSessions :
    authSessions[s].state = "live" /\ authSessions[s].user \notin rewound => ~authSessions[s].outdated

ReadsAreMarked ==
  \A k \in AuthCalls :
    /\ authCalls[k].op \in {"reset", "change"} => authCalls[k].status = "none"
    /\ (authCalls[k].op = "admin" /\ authCalls[k].status = "Invited"
        /\ authCalls[k].user \in offboarded \ rewound) => authCalls[k].overtaken

SeatsAreTaken == \A u \in offboarded \ rewound : seats[u].status = "Disabled"

CopyInOrder ==
  /\ copy.gone \subseteq copy.stale
  /\ \A u \in offboarded \ (rewound \union copy.stale) : copy.seats[u].status \in {"none", "Disabled"}

SeatsInv == SeatsTypeOK /\ LiveIsFresh /\ ReadsAreMarked /\ SeatsAreTaken /\ CopyInOrder

LEMMA BlankRows ==
  /\ AnyUser \in Users /\ NoSeat \in Seat /\ Closed \in Row /\ NoRequest \in Request
  /\ NoCopy \in Copy /\ NoCopy.gone = {} /\ NoCopy.stale = {}
  /\ \A u \in Users : NoCopy.seats[u].status = "none"
  /\ \A seat \in Seat : Unlocked(seat) \in Seat /\ Unlocked(seat).status = seat.status
<1>1. AnyUser \in Users
  BY SeatsAssumption DEF AnyUser
<1>2. Closed \in Row /\ NoRequest \in Request
  BY <1>1, SeatsAssumption DEF Closed, Row, NoRequest, Request
<1>3. NoSeat \in Seat
  BY SeatsAssumption DEF NoSeat, Seat
<1>4. ASSUME NEW seat \in Seat PROVE Unlocked(seat) \in Seat /\ Unlocked(seat).status = seat.status
  <2> DEFINE reset == [seat EXCEPT !.failed = 0]
  <2>1. reset \in Seat /\ reset.status = seat.status
    BY SeatsAssumption DEF Seat
  <2>2. Unlocked(seat) = [reset EXCEPT !.locked = FALSE]
    BY DEF Unlocked
  <2> HIDE DEF reset
  <2> QED BY <2>1, <2>2 DEF Seat
<1>5. NoCopy \in Copy /\ NoCopy.gone = {} /\ NoCopy.stale = {}
      /\ \A u \in Users : NoCopy.seats[u].status = "none"
  <2>1. NoSeat.status = "none" /\ [u \in Users |-> NoSeat] \in [Users -> Seat]
    BY <1>3 DEF NoSeat
  <2> QED BY <2>1 DEF NoCopy, Copy
<1> QED BY <1>1, <1>2, <1>3, <1>4, <1>5

LEMMA SeatsInitInv == SeatsInit => SeatsInv
<1> SUFFICES ASSUME SeatsInit PROVE SeatsInv
  OBVIOUS
<1>1. \A status \in {"none", "Invited", "Active"} : [NoSeat EXCEPT !.status = status] \in Seat
  BY BlankRows DEF NoSeat, Seat
<1>2. seats \in [Users -> Seat]
  BY <1>1 DEF SeatsInit
<1>3. SeatsTypeOK
  BY <1>2, BlankRows DEF SeatsInit, SeatsTypeOK
<1>4. LiveIsFresh /\ ReadsAreMarked
  BY DEF SeatsInit, LiveIsFresh, ReadsAreMarked, Closed, NoRequest
<1>5. SeatsAreTaken /\ CopyInOrder
  BY BlankRows DEF SeatsInit, SeatsAreTaken, CopyInOrder
<1> QED BY <1>3, <1>4, <1>5 DEF SeatsInv

\* What the store has read stays as it is when no seat is taken away.
LEMMA CopyKept ==
  ASSUME SeatsInv, UNCHANGED storeVars, offboarded' \subseteq offboarded
  PROVE  copy' \in Copy /\ rewound' \subseteq Users /\ rewound' = rewound /\ CopyInOrder'
BY DEF storeVars, SeatsInv, SeatsTypeOK, CopyInOrder

LEMMA OverwrittenCopy ==
  ASSUME SeatsInv, NEW u \in Users
  PROVE  /\ Overwritten(u) \in Copy /\ Overwritten(u).seats = copy.seats
         /\ Overwritten(u).gone = copy.gone /\ copy.stale \subseteq Overwritten(u).stale
         /\ copy.seats[u].status = "none" \/ u \in Overwritten(u).stale
BY DEF SeatsInv, SeatsTypeOK, Copy, Overwritten

\* The write of a password or of a seat marks the copy.
LEMMA CopyMarked ==
  ASSUME SeatsInv, NEW u \in Users, copy' = Overwritten(u), rewound' = rewound \ {u},
         offboarded' \subseteq offboarded \union {u}
  PROVE  copy' \in Copy /\ rewound' \subseteq Users /\ CopyInOrder'
<1>1. /\ copy' \in Copy /\ copy'.seats = copy.seats /\ copy'.gone = copy.gone
      /\ copy.stale \subseteq copy'.stale /\ (copy.seats[u].status = "none" \/ u \in copy'.stale)
  BY OverwrittenCopy
<1> QED BY <1>1 DEF SeatsInv, SeatsTypeOK, CopyInOrder

\* A request reads: a deactivated seat is not read as invited.
LEMMA ReadKeeps ==
  ASSUME SeatsInv, NEW k \in AuthCalls, NEW op \in {"login", "reset", "change", "admin", "accept"},
         NEW u \in Users, NEW fits \in BOOLEAN,
         NEW of \in AuthSessions \union Invites \union ResetTokens \union {0}, Read(k, op, u, fits, of)
  PROVE  SeatsInv'
<1> DEFINE call == [op |-> op, user |-> u, fits |-> fits, of |-> of, overtaken |-> FALSE,
                    status |-> IF op \in {"admin", "accept"} THEN seats[u].status ELSE "none",
                    failed |-> IF fits THEN 0 ELSE seats[u].failed]
<1>1. seats[u] \in Seat
  BY DEF SeatsInv, SeatsTypeOK
<1>2. call \in Request
  BY <1>1, SeatsAssumption DEF Request, Seat
<1>3. /\ call.op = op /\ call.user = u /\ call.status = (IF op \in {"admin", "accept"} THEN seats[u].status ELSE "none")
  OBVIOUS
<1>4. authCalls' = [authCalls EXCEPT ![k] = call]
      /\ UNCHANGED <<seats, members, authSessions, invites, resetTokens, offboarded, storeVars>>
  BY DEF Read
<1> HIDE DEF call
<1>5. copy' \in Copy /\ rewound' \subseteq Users /\ rewound' = rewound /\ CopyInOrder'
  BY <1>4, CopyKept
<1>6. SeatsTypeOK'
  BY <1>2, <1>4, <1>5 DEF SeatsInv, SeatsTypeOK
<1>7. ReadsAreMarked'
  BY <1>3, <1>4, <1>5 DEF SeatsInv, SeatsTypeOK, SeatsAreTaken, ReadsAreMarked
<1> QED BY <1>4, <1>5, <1>6, <1>7 DEF SeatsInv, LiveIsFresh, SeatsAreTaken

\* What remains of the requests when one is finished.
LEMMA FinishedCalls ==
  ASSUME SeatsInv, NEW k \in AuthCalls
  PROVE  /\ Finished(k) \in [AuthCalls -> Request]
         /\ \A j \in AuthCalls : Finished(k)[j] = authCalls[j] \/ Finished(k)[j].op = "none"
BY BlankRows DEF SeatsInv, SeatsTypeOK, Finished, NoRequest

LEMMA OvertakenCalls ==
  ASSUME NEW reqs \in [AuthCalls -> Request], NEW u \in Users
  PROVE  /\ Overtaken(reqs, u) \in [AuthCalls -> Request]
         /\ \A j \in AuthCalls :
              LET new == Overtaken(reqs, u)[j] IN
              /\ new.op = reqs[j].op /\ new.user = reqs[j].user /\ new.status = reqs[j].status
              /\ reqs[j].overtaken => new.overtaken
              /\ new.op = "admin" /\ new.user = u => new.overtaken
<1>1. \A r \in Request :
        LET over == [r EXCEPT !.overtaken = TRUE] IN
        over \in Request /\ over.op = r.op /\ over.user = r.user /\ over.status = r.status /\ over.overtaken
  BY DEF Request
<1>2. ASSUME NEW j \in AuthCalls
      PROVE  LET new == Overtaken(reqs, u)[j] IN
             /\ new \in Request
             /\ new.op = reqs[j].op /\ new.user = reqs[j].user /\ new.status = reqs[j].status
             /\ reqs[j].overtaken => new.overtaken
             /\ new.op = "admin" /\ new.user = u => new.overtaken
  <2>1. CASE reqs[j].op \in {"login", "admin"} /\ reqs[j].user = u
    <3>1. Overtaken(reqs, u)[j] = [reqs[j] EXCEPT !.overtaken = TRUE]
      BY <2>1 DEF Overtaken
    <3>2. reqs[j] \in Request
      OBVIOUS
    <3> QED BY <1>1, <3>1, <3>2
  <2>2. CASE ~(reqs[j].op \in {"login", "admin"} /\ reqs[j].user = u)
    <3>1. Overtaken(reqs, u)[j] = reqs[j]
      BY <2>2 DEF Overtaken
    <3> QED BY <2>2, <3>1
  <2> QED BY <2>1, <2>2
<1>3. Overtaken(reqs, u) \in [AuthCalls -> Request]
  BY <1>2 DEF Overtaken
<1> QED BY <1>2, <1>3

LEMMA RevokedRows ==
  ASSUME SeatsInv, NEW u \in Users, NEW kept
  PROVE  /\ RevokeOthers(u, kept) \in [AuthSessions -> Row]
         /\ Outdate(RevokeOthers(u, kept), u, kept) \in [AuthSessions -> Row]
         /\ \A s \in AuthSessions :
              /\ RevokeOthers(u, kept)[s].state = "live" => RevokeOthers(u, kept)[s] = authSessions[s]
              /\ RevokeOthers(u, kept)[s].state = "live" /\ authSessions[s].user = u => s = kept
         /\ \A s \in AuthSessions :
              LET row == Outdate(RevokeOthers(u, kept), u, kept)[s] IN
              row.state = "live" /\ row.user \notin rewound \ {u} => ~row.outdated
<1> DEFINE left == RevokeOthers(u, kept)
<1>1. \A row \in Row : LET off == [row EXCEPT !.state = "closed"] IN off \in Row /\ off.state = "closed"
  BY DEF Row
<1>2. \A s \in AuthSessions : Revoked(s) \in Row /\ Revoked(s).state = "closed"
  BY <1>1, BlankRows DEF SeatsInv, SeatsTypeOK, Revoked, Closed
<1>3. left \in [AuthSessions -> Row]
  BY <1>2 DEF SeatsInv, SeatsTypeOK, RevokeOthers
<1>4. \A s \in AuthSessions :
        /\ left[s].state = "live" => left[s] = authSessions[s]
        /\ left[s].state = "live" /\ authSessions[s].user = u => s = kept
  BY <1>2 DEF RevokeOthers
<1> HIDE DEF left
<1>5. ASSUME NEW s \in AuthSessions
      PROVE  LET row == Outdate(left, u, kept)[s] IN
             /\ row \in Row
             /\ row.state = "live" /\ row.user \notin rewound \ {u} => ~row.outdated
  <2>1. CASE left[s].user = u /\ left[s].state = "live"
    <3>1. s = kept
      BY <1>4, <2>1
    <3>2. Outdate(left, u, kept)[s] = [left[s] EXCEPT !.outdated = FALSE]
      BY <2>1, <3>1 DEF Outdate
    <3> QED BY <1>3, <3>2 DEF Row
  <2>2. CASE ~(left[s].user = u /\ left[s].state = "live")
    <3>1. Outdate(left, u, kept)[s] = left[s]
      BY <2>2 DEF Outdate
    <3> QED BY <1>3, <1>4, <2>2, <3>1 DEF SeatsInv, LiveIsFresh
  <2> QED BY <2>1, <2>2
<1>6. Outdate(left, u, kept) \in [AuthSessions -> Row]
  BY <1>5 DEF Outdate
<1> QED BY <1>3, <1>4, <1>5, <1>6 DEF left

\* What the steps need of the types.
LEMMA SeatsTypes ==
  ASSUME SeatsInv
  PROVE  /\ \A k \in AuthCalls : authCalls[k] \in Request /\ authCalls[k].user \in Users
         /\ \A u \in Users : seats[u] \in Seat
         /\ seats \in [Users -> Seat] /\ authSessions \in [AuthSessions -> Row]
         /\ authCalls \in [AuthCalls -> Request]
         /\ members \subseteq Users /\ offboarded \subseteq Users /\ rewound \subseteq Users
         /\ copy \in Copy
BY DEF SeatsInv, SeatsTypeOK, Request

LEMMA OpenKeeps ==
  ASSUME SeatsInv, NEW u \in Users, NEW s \in AuthSessions, OpenSession(u, s), rewound' = rewound
  PROVE  authSessions' \in [AuthSessions -> Row] /\ LiveIsFresh'
<1> DEFINE row == [user |-> u, state |-> "live", outdated |-> FALSE]
<1>1. row \in Row /\ row.outdated = FALSE
  BY DEF Row
<1>2. authSessions' = [authSessions EXCEPT ![s] = row]
  BY DEF OpenSession
<1> HIDE DEF row
<1> QED BY <1>1, <1>2, SeatsTypes DEF SeatsInv, LiveIsFresh

\* A request that ends leaves what the others have read.
LEMMA FinishKeeps ==
  ASSUME SeatsInv, NEW k \in AuthCalls, authCalls' = Finished(k), offboarded' \subseteq offboarded,
         rewound' = rewound
  PROVE  authCalls' \in [AuthCalls -> Request] /\ ReadsAreMarked'
<1>1. \A j \in AuthCalls : authCalls'[j] = authCalls[j] \/ authCalls'[j].op = "none"
  BY FinishedCalls
<1>2. ReadsAreMarked'
  BY <1>1 DEF SeatsInv, ReadsAreMarked
<1> QED BY <1>2, FinishedCalls

LEMMA LoginKeeps ==
  ASSUME SeatsInv, NEW k \in AuthCalls,
         LoginFails(k) \/ CallDies(k) \/ \E s \in AuthSessions : LoginSucceeds(k, s)
  PROVE  SeatsInv'
<1> DEFINE u == authCalls[k].user
<1>0. u \in Users /\ seats[u] \in Seat
  BY SeatsTypes
<1>1. authCalls' = Finished(k) /\ offboarded' = offboarded
      /\ UNCHANGED <<members, invites, resetTokens, storeVars>>
  BY DEF LoginFails, CallDies, LoginSucceeds
<1>6. copy' \in Copy /\ rewound' \subseteq Users /\ rewound' = rewound /\ CopyInOrder'
  BY <1>1, CopyKept
<1>2. authCalls' \in [AuthCalls -> Request] /\ ReadsAreMarked'
  BY <1>1, <1>6, FinishKeeps
<1>3. authSessions' \in [AuthSessions -> Row] /\ LiveIsFresh'
  <2>1. CASE UNCHANGED authSessions
    BY <1>6, <2>1 DEF SeatsInv, SeatsTypeOK, LiveIsFresh
  <2> QED BY <1>0, <1>6, <2>1, OpenKeeps DEF LoginFails, CallDies, LoginSucceeds
<1>4. seats' \in [Users -> Seat] /\ \A w \in Users : seats'[w].status = seats[w].status
  <2>1. CASE CallDies(k)
    BY <2>1, SeatsTypes DEF CallDies
  <2>2. CASE LoginFails(k)
    <3> DEFINE failed == authCalls[k].failed + 1
               one == [seats[u] EXCEPT !.failed = failed]
               row == [one EXCEPT !.locked = @ \/ failed >= LockAfter]
    <3>1. failed \in 0..MaxFailed
      BY <2>2, SeatsTypes, SeatsAssumption DEF LoginFails, Request
    <3>2. seats' = [seats EXCEPT ![u].failed = failed, ![u].locked = @ \/ failed >= LockAfter]
      BY <2>2 DEF LoginFails
    <3> HIDE DEF failed
    <3>3. one \in Seat /\ one.status = seats[u].status
      BY <1>0, <3>1 DEF Seat
    <3>4. seats' = [seats EXCEPT ![u] = row]
      BY <1>0, <3>2, SeatsTypes
    <3> HIDE DEF one
    <3>5. row \in Seat /\ row.status = seats[u].status
      BY <3>3 DEF Seat
    <3> HIDE DEF row
    <3> QED BY <1>0, <3>4, <3>5, SeatsTypes
  <2>3. CASE \E s \in AuthSessions : LoginSucceeds(k, s)
    <3>1. seats' = [seats EXCEPT ![u] = Unlocked(seats[u])]
      BY <2>3 DEF LoginSucceeds
    <3> QED BY <1>0, <3>1, SeatsTypes, BlankRows
  <2> QED BY <2>1, <2>2, <2>3
<1>5. SeatsTypeOK'
  BY <1>1, <1>2, <1>3, <1>4, <1>6 DEF SeatsInv, SeatsTypeOK
<1>7. SeatsAreTaken'
  BY <1>1, <1>4, <1>6, SeatsTypes DEF SeatsInv, SeatsAreTaken
<1> QED BY <1>2, <1>3, <1>5, <1>6, <1>7 DEF SeatsInv

\* The three writes of a password; an invited seat an admin had read before
\* it was taken away is the one that leaves "offboarded".
LEMMA PasswordKeeps == ASSUME SeatsInv, NEW k \in AuthCalls, SetPassword(k) PROVE SeatsInv'
<1> DEFINE call == authCalls[k]
           u == call.user
           kept == IF call.op = "change" THEN call.of ELSE 0
           status == ActivateInvited(call, seats[u].status)
           row == [Unlocked(seats[u]) EXCEPT !.status = status]
<1>1. /\ call \in Request /\ u \in Users /\ seats[u] \in Seat
      /\ call.op \in {"reset", "change", "admin"}
  BY SeatsTypes DEF SetPassword
<1>2. row \in Seat /\ row.status = status
  BY <1>1, BlankRows DEF ActivateInvited, Seat
<1>3. seats' = [seats EXCEPT ![u] = row] /\ members' = members /\ invites' = invites
  BY DEF SetPassword
<1>4. /\ authSessions' = Outdate(RevokeOthers(u, kept), u, kept)
      /\ copy' = Overwritten(u) /\ rewound' = rewound \ {u}
  BY DEF SetPassword
<1>5. authSessions' \in [AuthSessions -> Row] /\ LiveIsFresh'
  <2> HIDE DEF u, kept
  <2> QED BY <1>1, <1>4, RevokedRows DEF LiveIsFresh
<1>6. resetTokens' \in [ResetTokens -> [user : Users, state : {"closed", "unused"}]]
  BY DEF SetPassword, SeatsInv, SeatsTypeOK
<1>7. authCalls' = Overtaken(Finished(k), u)
  BY DEF SetPassword
<1>8. /\ authCalls' \in [AuthCalls -> Request]
      /\ \A j \in AuthCalls : authCalls'[j].op # "none" =>
           /\ authCalls'[j].op = authCalls[j].op /\ authCalls'[j].user = authCalls[j].user
           /\ authCalls'[j].status = authCalls[j].status
           /\ authCalls[j].overtaken => authCalls'[j].overtaken
           /\ authCalls'[j].op = "admin" /\ authCalls'[j].user = u => authCalls'[j].overtaken
  <2> DEFINE reqs == Finished(k)
  <2>1. reqs \in [AuthCalls -> Request] /\ \A j \in AuthCalls : reqs[j] = authCalls[j] \/ reqs[j].op = "none"
    BY FinishedCalls
  <2> HIDE DEF reqs
  <2>2. authCalls' = Overtaken(reqs, u)
    BY <1>7 DEF reqs
  <2> HIDE DEF u, call
  <2>3. authCalls' \in [AuthCalls -> Request]
    BY <1>1, <2>1, <2>2, OvertakenCalls
  <2>4. \A j \in AuthCalls :
         /\ authCalls'[j].op = reqs[j].op /\ authCalls'[j].user = reqs[j].user
         /\ authCalls'[j].status = reqs[j].status
         /\ reqs[j].overtaken => authCalls'[j].overtaken
         /\ authCalls'[j].op = "admin" /\ authCalls'[j].user = u => authCalls'[j].overtaken
    BY <1>1, <2>1, <2>2, OvertakenCalls
  <2> QED BY <2>1, <2>3, <2>4
<1>9. offboarded' = IF \/ call.overtaken /\ call.status = "Invited"
                       \/ u \in rewound /\ status # "Disabled"
                    THEN offboarded \ {u} ELSE offboarded
  BY DEF SetPassword
<1>10. ReadsAreMarked'
  <2>1. offboarded' \subseteq offboarded
    BY <1>9
  <2> HIDE DEF u
  <2> QED BY <1>4, <1>8, <2>1 DEF SeatsInv, ReadsAreMarked
<1>11. SeatsAreTaken'
  <2> SUFFICES ASSUME NEW w \in offboarded' \ rewound' PROVE seats'[w].status = "Disabled"
    BY DEF SeatsAreTaken
  <2>1. w \in offboarded /\ w \in Users
    BY <1>9, SeatsTypes
  <2>2. CASE w = u
    <3>1. status = "Disabled"
      <4>1. CASE u \in rewound
        BY <1>9, <2>2, <4>1
      <4>2. CASE u \notin rewound
        <5>1. seats[u].status = "Disabled"
          BY <2>1, <2>2, <4>2 DEF SeatsInv, SeatsAreTaken
        <5>2. ~(call.op = "admin" /\ call.status = "Invited")
          BY <1>1, <1>9, <2>1, <2>2, <4>2 DEF SeatsInv, ReadsAreMarked
        <5> QED BY <5>1, <5>2 DEF ActivateInvited
      <4> QED BY <4>1, <4>2
    <3> HIDE DEF row
    <3> QED BY <1>1, <1>2, <1>3, <2>2, <3>1, SeatsTypes
  <2>3. CASE w # u
    <3>1. w \notin rewound
      BY <1>4, <2>3
    <3>2. seats[w].status = "Disabled"
      BY <2>1, <3>1 DEF SeatsInv, SeatsAreTaken
    <3> HIDE DEF row, u
    <3> QED BY <1>3, <2>1, <2>3, <3>2, SeatsTypes
  <2> QED BY <2>2, <2>3
<1>12. seats' \in [Users -> Seat] /\ offboarded' \subseteq Users
  <2> HIDE DEF row
  <2> QED BY <1>1, <1>2, <1>3, <1>9, SeatsTypes
<1>13. copy' \in Copy /\ rewound' \subseteq Users /\ CopyInOrder'
  <2>1. offboarded' \subseteq offboarded \union {u}
    BY <1>9
  <2> HIDE DEF u
  <2> QED BY <1>1, <1>4, <2>1, CopyMarked
<1>14. SeatsTypeOK'
  BY <1>3, <1>5, <1>6, <1>8, <1>12, <1>13 DEF SeatsInv, SeatsTypeOK
<1> QED BY <1>5, <1>10, <1>11, <1>13, <1>14 DEF SeatsInv

LEMMA AcceptKeeps ==
  ASSUME SeatsInv, NEW k \in AuthCalls, NEW s \in AuthSessions, AcceptInvite(k, s) PROVE SeatsInv'
<1> DEFINE u == authCalls[k].user
           row == [Unlocked(seats[u]) EXCEPT !.status = "Active"]
<1>1. u \in Users /\ seats[u] \in Seat
  BY SeatsTypes
<1>2. row \in Seat
  BY <1>1, BlankRows DEF Seat
<1>3. /\ seats' = [seats EXCEPT ![u] = row] /\ members' = members \union {u}
      /\ offboarded' = offboarded \ {u} /\ authCalls' = Finished(k) /\ resetTokens' = resetTokens
      /\ OpenSession(u, s) /\ UNCHANGED storeVars
  BY DEF AcceptInvite
<1>9. copy' \in Copy /\ rewound' \subseteq Users /\ rewound' = rewound /\ CopyInOrder'
  BY <1>3, CopyKept
<1>4. invites' \in [Invites -> [user : Users, state : {"closed", "Pending"}]]
  BY DEF AcceptInvite, SeatsInv, SeatsTypeOK
<1>5. authSessions' \in [AuthSessions -> Row] /\ LiveIsFresh'
  BY <1>1, <1>3, <1>9, OpenKeeps
<1>6. authCalls' \in [AuthCalls -> Request] /\ ReadsAreMarked'
  BY <1>3, <1>9, FinishKeeps
<1> HIDE DEF row, u
<1>7. SeatsTypeOK'
  BY <1>1, <1>2, <1>3, <1>4, <1>5, <1>6, <1>9, SeatsTypes DEF SeatsInv, SeatsTypeOK
<1>8. SeatsAreTaken'
  BY <1>3, <1>9, SeatsTypes DEF SeatsInv, SeatsAreTaken
<1> QED BY <1>5, <1>6, <1>7, <1>8, <1>9 DEF SeatsInv

LEMMA DeactivateKeeps == ASSUME SeatsInv, NEW u \in Users, DeactivateUser(u) PROVE SeatsInv'
<1> DEFINE row == [seats[u] EXCEPT !.status = "Disabled"]
<1>1. row \in Seat /\ row.status = "Disabled"
  BY SeatsTypes DEF Seat
<1>2. /\ seats' = [seats EXCEPT ![u] = row] /\ offboarded' = offboarded \union {u}
      /\ authCalls' = Overtaken(authCalls, u) /\ UNCHANGED <<members, invites, resetTokens>>
      /\ copy' = Overwritten(u) /\ rewound' = rewound \ {u}
  BY DEF DeactivateUser
<1>3. authSessions' = Outdate(RevokeOthers(u, 0), u, 0)
  BY DEF DeactivateUser
<1>4. authSessions' \in [AuthSessions -> Row] /\ LiveIsFresh'
  BY <1>2, <1>3, RevokedRows DEF LiveIsFresh
<1>9. copy' \in Copy /\ rewound' \subseteq Users /\ CopyInOrder'
  BY <1>2, CopyMarked
<1>5. /\ authCalls' \in [AuthCalls -> Request]
      /\ \A j \in AuthCalls :
           /\ authCalls'[j].op = authCalls[j].op /\ authCalls'[j].user = authCalls[j].user
           /\ authCalls'[j].status = authCalls[j].status
           /\ authCalls[j].overtaken => authCalls'[j].overtaken
           /\ authCalls'[j].op = "admin" /\ authCalls'[j].user = u => authCalls'[j].overtaken
  BY <1>2, SeatsTypes, OvertakenCalls
<1>6. ReadsAreMarked'
  BY <1>2, <1>5 DEF SeatsInv, ReadsAreMarked
<1> HIDE DEF row
<1>7. SeatsTypeOK'
  BY <1>1, <1>2, <1>4, <1>5, <1>9, SeatsTypes DEF SeatsInv, SeatsTypeOK
<1>8. SeatsAreTaken'
  BY <1>1, <1>2, SeatsTypes DEF SeatsInv, SeatsAreTaken
<1> QED BY <1>4, <1>6, <1>7, <1>8, <1>9 DEF SeatsInv

LEMMA RemoveKeeps == ASSUME SeatsInv, NEW u \in Users, RemoveWorkspaceMember(u) PROVE SeatsInv'
<1>1. /\ seats' = [seats EXCEPT ![u] = NoSeat] /\ members' = members \ {u} /\ offboarded' = offboarded \ {u}
      /\ authSessions' = RevokeOthers(u, 0)
      /\ authCalls' = [k \in AuthCalls |-> IF authCalls[k].user = u THEN NoRequest ELSE authCalls[k]]
      /\ copy' = IF copy.seats[u].status = "none" THEN copy
                 ELSE [copy EXCEPT !.stale = @ \union {u}, !.gone = @ \union {u}]
      /\ rewound' = rewound \ {u}
  BY DEF RemoveWorkspaceMember
<1>2. /\ invites' \in [Invites -> [user : Users, state : {"closed", "Pending"}]]
      /\ resetTokens' \in [ResetTokens -> [user : Users, state : {"closed", "unused"}]]
  BY DEF RemoveWorkspaceMember, SeatsInv, SeatsTypeOK
<1>3. authSessions' \in [AuthSessions -> Row] /\ LiveIsFresh'
  <2>1. authSessions' \in [AuthSessions -> Row]
    BY <1>1, RevokedRows
  <2>2. ASSUME NEW s \in AuthSessions, authSessions'[s].state = "live", authSessions'[s].user \notin rewound'
        PROVE  ~authSessions'[s].outdated
    <3>1. authSessions'[s] = authSessions[s] /\ (authSessions[s].user = u => s = 0)
      BY <1>1, <2>2, RevokedRows
    <3>2. authSessions[s].user # u
      BY <3>1, SeatsAssumption
    <3> QED BY <1>1, <2>2, <3>1, <3>2 DEF SeatsInv, LiveIsFresh
  <2> QED BY <2>1, <2>2 DEF LiveIsFresh
<1>9. copy' \in Copy /\ rewound' \subseteq Users /\ CopyInOrder'
  <2>1. /\ copy' \in Copy /\ copy'.seats = copy.seats
        /\ copy.stale \subseteq copy'.stale /\ copy'.gone \subseteq copy'.stale
    BY <1>1, SeatsTypes DEF SeatsInv, CopyInOrder, Copy
  <2> QED BY <1>1, <2>1, SeatsTypes DEF SeatsInv, CopyInOrder
<1>4. authCalls' \in [AuthCalls -> Request]
  BY <1>1, SeatsTypes, BlankRows
<1>5. \A k \in AuthCalls : authCalls'[k] = authCalls[k] \/ authCalls'[k].op = "none"
  BY <1>1 DEF NoRequest
<1>6. ReadsAreMarked'
  BY <1>1, <1>5 DEF SeatsInv, ReadsAreMarked
<1>7. SeatsTypeOK'
  BY <1>1, <1>2, <1>3, <1>4, <1>9, BlankRows, SeatsTypes DEF SeatsInv, SeatsTypeOK
<1>8. SeatsAreTaken'
  BY <1>1, SeatsTypes DEF SeatsInv, SeatsAreTaken
<1> QED BY <1>3, <1>6, <1>7, <1>8, <1>9 DEF SeatsInv

\* The store reads, stops or writes its copy over the rows: the users it is
\* stale for are marked, and it has nothing older of the others.
LEMMA StoreKeeps == ASSUME SeatsInv, StoreReads \/ StoreStops \/ StoreProjects PROVE SeatsInv'
<1>1. CASE StoreReads
  <2>1. UNCHANGED accessVars /\ rewound' = rewound
    BY <1>1 DEF StoreReads
  <2>2. copy' \in Copy /\ copy'.seats = seats /\ copy'.stale = {} /\ copy'.gone = {}
    BY <1>1, SeatsTypes DEF StoreReads, Copy
  <2>3. CopyInOrder'
    BY <2>1, <2>2 DEF accessVars, CopyInOrder, SeatsInv, SeatsAreTaken
  <2>4. SeatsTypeOK'
    BY <2>1, <2>2 DEF accessVars, SeatsInv, SeatsTypeOK
  <2> QED BY <2>1, <2>3, <2>4 DEF accessVars, SeatsInv, LiveIsFresh, ReadsAreMarked, SeatsAreTaken
<1>2. CASE StoreStops
  <2>1. UNCHANGED accessVars /\ rewound' = rewound /\ copy' = NoCopy
    BY <1>2 DEF StoreStops
  <2>2. CopyInOrder'
    BY <2>1, BlankRows, SeatsTypes DEF accessVars, CopyInOrder
  <2>3. SeatsTypeOK'
    BY <2>1, BlankRows DEF accessVars, SeatsInv, SeatsTypeOK
  <2> QED BY <2>1, <2>2, <2>3 DEF accessVars, SeatsInv, LiveIsFresh, ReadsAreMarked, SeatsAreTaken
<1>3. CASE StoreProjects
  <2> DEFINE written(u) == [copy.seats[u] EXCEPT !.locked = @ \/ seats[u].locked]
             back(s) == [authSessions[s] EXCEPT !.state = "live", !.outdated = TRUE]
  <2>1. /\ members' = copy.members /\ rewound' = rewound \union copy.stale /\ copy' = NoCopy
        /\ UNCHANGED <<resetTokens, authCalls, offboarded>>
    BY <1>3 DEF StoreProjects
  <2>2. copy.seats \in [Users -> Seat] /\ copy.members \subseteq Users /\ copy.stale \subseteq Users
    BY SeatsTypes DEF Copy
  <2>3. \A u \in Users : written(u) \in Seat /\ written(u).status = copy.seats[u].status
    <3> SUFFICES ASSUME NEW u \in Users
                 PROVE  written(u) \in Seat /\ written(u).status = copy.seats[u].status
      OBVIOUS
    <3>1. copy.seats[u] \in Seat /\ (copy.seats[u].locked \/ seats[u].locked) \in BOOLEAN
      BY <2>2
    <3> QED BY <3>1 DEF Seat
  <2>4. seats' = [u \in Users |-> IF copy.seats[u].status = "none" THEN seats[u] ELSE written(u)]
    BY <1>3 DEF StoreProjects
  <2>5. \A s \in AuthSessions : back(s) \in Row /\ back(s).user = authSessions[s].user
    BY SeatsTypes DEF Row
  <2>6. authSessions' = [s \in AuthSessions |->
          IF s \notin copy.sessions THEN Closed
          ELSE IF authSessions[s].user \in copy.gone THEN back(s) ELSE authSessions[s]]
    BY <1>3 DEF StoreProjects
  <2>7. invites' \in [Invites -> [user : Users, state : {"closed", "Pending"}]]
    BY <1>3 DEF StoreProjects, SeatsInv, SeatsTypeOK
  <2> HIDE DEF written, back
  <2>8. seats' \in [Users -> Seat] /\ authSessions' \in [AuthSessions -> Row]
    BY <2>3, <2>4, <2>5, <2>6, BlankRows, SeatsTypes
  <2>9. LiveIsFresh'
    <3> SUFFICES ASSUME NEW s \in AuthSessions, authSessions'[s].state = "live",
                        authSessions'[s].user \notin rewound'
                 PROVE  ~authSessions'[s].outdated
      BY DEF LiveIsFresh
    <3>1. Closed.state # "live"
      BY DEF Closed
    <3>2. authSessions'[s] = authSessions[s]
      BY <2>1, <2>5, <2>6, <3>1 DEF SeatsInv, CopyInOrder
    <3> QED BY <2>1, <3>2 DEF SeatsInv, LiveIsFresh
  <2>10. ReadsAreMarked'
    BY <2>1 DEF SeatsInv, ReadsAreMarked
  <2>11. SeatsAreTaken'
    <3> SUFFICES ASSUME NEW u \in offboarded, u \notin rewound, u \notin copy.stale
                 PROVE  seats'[u].status = "Disabled"
      BY <2>1 DEF SeatsAreTaken
    <3>1. /\ u \in Users /\ seats[u].status = "Disabled"
          /\ copy.seats[u].status \in {"none", "Disabled"}
      BY SeatsTypes DEF SeatsInv, SeatsAreTaken, CopyInOrder
    <3> QED BY <2>3, <2>4, <3>1
  <2>12. copy' \in Copy /\ CopyInOrder'
    BY <2>1, BlankRows, SeatsTypes DEF CopyInOrder
  <2>13. SeatsTypeOK'
    BY <2>1, <2>2, <2>7, <2>8, <2>12 DEF SeatsInv, SeatsTypeOK
  <2> QED BY <2>9, <2>10, <2>11, <2>12, <2>13 DEF SeatsInv
<1> QED BY <1>1, <1>2, <1>3

\* The steps that touch rows of one kind.
LEMMA LinksKeep ==
  ASSUME SeatsInv, NEW u \in Users,
         \/ LinkExpires \/ LockEnds(u)
         \/ \E t \in ResetTokens : CreatePasswordResetToken(t, u)
         \/ \E i \in Invites : CreateUserInvite(i, u)
         \/ \E s \in AuthSessions : Logout(s)
  PROVE  SeatsInv'
<1>1. UNCHANGED <<members, authCalls, offboarded, rewound>>
  BY DEF LinkExpires, LockEnds, CreatePasswordResetToken, CreateUserInvite, Logout, storeVars
<1>8. /\ copy' \in Copy /\ copy'.stale = copy.stale /\ copy'.gone = copy.gone
      /\ \A w \in Users : copy'.seats[w].status = copy.seats[w].status
  <2>1. CASE UNCHANGED copy
    BY <2>1, SeatsTypes
  <2>2. CASE LockEnds(u)
    <3> DEFINE row == [copy.seats[u] EXCEPT !.locked = FALSE]
               unlocked == [copy.seats EXCEPT ![u] = row]
    <3>1. copy.seats \in [Users -> Seat]
      BY SeatsTypes DEF Copy
    <3>2. row \in Seat /\ row.status = copy.seats[u].status
      BY <3>1 DEF Seat
    <3>3. copy' = [copy EXCEPT !.seats = unlocked]
      BY <2>2, <3>1, SeatsTypes DEF LockEnds, Copy
    <3> HIDE DEF row
    <3>4. unlocked \in [Users -> Seat] /\ \A w \in Users : unlocked[w].status = copy.seats[w].status
      BY <3>1, <3>2
    <3> HIDE DEF unlocked
    <3> QED BY <3>3, <3>4, SeatsTypes DEF Copy
  <2>3. CASE LinkExpires
    BY <2>1, <2>3, SeatsTypes DEF LinkExpires, Copy
  <2> QED BY <2>1, <2>2, <2>3 DEF CreatePasswordResetToken, CreateUserInvite, Logout, storeVars
<1>9. CopyInOrder'
  BY <1>1, <1>8, SeatsTypes DEF SeatsInv, CopyInOrder
<1>2. invites' \in [Invites -> [user : Users, state : {"closed", "Pending"}]]
  BY DEF LinkExpires, LockEnds, CreatePasswordResetToken, CreateUserInvite, Logout, SeatsInv, SeatsTypeOK
<1>3. resetTokens' \in [ResetTokens -> [user : Users, state : {"closed", "unused"}]]
  BY DEF LinkExpires, LockEnds, CreatePasswordResetToken, CreateUserInvite, Logout, SeatsInv, SeatsTypeOK
<1>4. authSessions' \in [AuthSessions -> Row] /\ LiveIsFresh'
  <2>1. CASE UNCHANGED authSessions
    BY <1>1, <2>1, SeatsTypes DEF SeatsInv, LiveIsFresh
  <2>2. ASSUME NEW s \in AuthSessions, Logout(s) PROVE authSessions' \in [AuthSessions -> Row] /\ LiveIsFresh'
    <3>1. authSessions' = [authSessions EXCEPT ![s] = Revoked(s)]
      BY <2>2 DEF Logout
    <3>2. Revoked(s) \in Row /\ Revoked(s).state # "live"
      BY SeatsTypes, BlankRows DEF Revoked, Closed, Row
    <3> QED BY <1>1, <3>1, <3>2, SeatsTypes DEF SeatsInv, LiveIsFresh
  <2> QED BY <2>1, <2>2 DEF LinkExpires, LockEnds, CreatePasswordResetToken, CreateUserInvite
<1>5. seats' \in [Users -> Seat] /\ \A w \in Users : seats'[w].status = seats[w].status
  <2>1. CASE UNCHANGED seats
    BY <2>1, SeatsTypes
  <2>2. CASE LockEnds(u)
    <3> DEFINE row == [seats[u] EXCEPT !.locked = FALSE]
    <3>1. row \in Seat /\ row.status = seats[u].status
      BY SeatsTypes DEF Seat
    <3>2. seats' = [seats EXCEPT ![u] = row]
      BY <2>2 DEF LockEnds
    <3> HIDE DEF row
    <3> QED BY <3>1, <3>2, SeatsTypes
  <2> QED BY <2>1, <2>2 DEF LinkExpires, CreatePasswordResetToken, CreateUserInvite, Logout
<1>6. ReadsAreMarked'
  BY <1>1 DEF SeatsInv, ReadsAreMarked
<1>7. SeatsTypeOK'
  BY <1>1, <1>2, <1>3, <1>4, <1>5, <1>8 DEF SeatsInv, SeatsTypeOK
<1>10. SeatsAreTaken'
  BY <1>1, <1>5, SeatsTypes DEF SeatsInv, SeatsAreTaken
<1> QED BY <1>4, <1>6, <1>7, <1>9, <1>10 DEF SeatsInv

LEMMA ReadsKeep ==
  ASSUME SeatsInv, NEW k \in AuthCalls,
         \/ \E s \in AuthSessions : ChangeReads(k, s)
         \/ \E u \in Users : AdminReads(k, u) \/ \E fits \in BOOLEAN : LoginReads(k, u, fits)
         \/ \E t \in ResetTokens : ResetReads(k, t)
         \/ \E i \in Invites : AcceptReads(k, i)
  PROVE  SeatsInv'
<1>1. ASSUME NEW s \in AuthSessions, ChangeReads(k, s) PROVE SeatsInv'
  <2>1. authSessions[s].user \in Users
    BY SeatsTypes DEF Row
  <2> QED BY <1>1, <2>1, ReadKeeps DEF ChangeReads
<1>2. ASSUME NEW u \in Users, AdminReads(k, u) \/ \E fits \in BOOLEAN : LoginReads(k, u, fits) PROVE SeatsInv'
  BY <1>2, ReadKeeps DEF AdminReads, LoginReads
<1>3. ASSUME NEW t \in ResetTokens, ResetReads(k, t) PROVE SeatsInv'
  <2>1. resetTokens[t].user \in Users
    BY DEF SeatsInv, SeatsTypeOK
  <2> QED BY <1>3, <2>1, ReadKeeps DEF ResetReads
<1>4. ASSUME NEW i \in Invites, AcceptReads(k, i) PROVE SeatsInv'
  <2>1. invites[i].user \in Users
    BY DEF SeatsInv, SeatsTypeOK
  <2> QED BY <1>4, <2>1, ReadKeeps DEF AcceptReads
<1> QED BY <1>1, <1>2, <1>3, <1>4

LEMMA SeatsStep == ASSUME SeatsInv, [SeatsNext]_seatsVars PROVE SeatsInv'
<1>1. CASE UNCHANGED seatsVars
  BY <1>1 DEF seatsVars, accessVars, storeVars, SeatsInv, SeatsTypeOK, LiveIsFresh, ReadsAreMarked,
              SeatsAreTaken, CopyInOrder
<1>2. CASE LinkExpires \/ \E s \in AuthSessions : Logout(s)
  BY <1>2, LinksKeep, BlankRows
<1>3. ASSUME NEW u \in Users,
             \/ LockEnds(u) \/ DeactivateUser(u) \/ RemoveWorkspaceMember(u)
             \/ \E t \in ResetTokens : CreatePasswordResetToken(t, u)
             \/ \E i \in Invites : CreateUserInvite(i, u)
      PROVE  SeatsInv'
  BY <1>3, LinksKeep, DeactivateKeeps, RemoveKeeps
<1>4. ASSUME NEW k \in AuthCalls,
             \/ LoginFails(k) \/ CallDies(k) \/ SetPassword(k)
             \/ \E s \in AuthSessions : LoginSucceeds(k, s) \/ AcceptInvite(k, s)
      PROVE  SeatsInv'
  BY <1>4, LoginKeeps, PasswordKeeps, AcceptKeeps
<1>5. ASSUME NEW k \in AuthCalls,
             \/ \E s \in AuthSessions : ChangeReads(k, s)
             \/ \E u \in Users : AdminReads(k, u) \/ \E fits \in BOOLEAN : LoginReads(k, u, fits)
             \/ \E t \in ResetTokens : ResetReads(k, t)
             \/ \E i \in Invites : AcceptReads(k, i)
      PROVE  SeatsInv'
  BY <1>5, ReadsKeep
<1>6. CASE StoreReads \/ StoreStops \/ StoreProjects
  BY <1>6, StoreKeeps
<1> QED BY <1>1, <1>2, <1>3, <1>4, <1>5, <1>6 DEF SeatsNext

LEMMA SeatsInvHolds == SeatsSpec => []SeatsInv
<1>1. SeatsInv /\ [SeatsNext]_seatsVars => SeatsInv'
  BY SeatsStep
<1> QED BY <1>1, SeatsInitInv, PTL DEF SeatsSpec

\* Seats, sessions, links and requests keep their types.
THEOREM SeatsTypeCorrect == SeatsSpec => []SeatsTypeOK
<1>1. SeatsInv => SeatsTypeOK
  BY DEF SeatsInv
<1> QED BY <1>1, SeatsInvHolds, PTL

\* Whichever of any number of requests cross, no session older than the last
\* reset, change or deactivation opens the workspace, and a deactivated seat
\* stays Disabled, for every user whose account the store has not put back.
THEOREM NoOldWayInHolds == SeatsSpec => []NoOldWayIn
<1>1. SeatsInv => NoOldWayIn
  BY DEF SeatsInv, LiveIsFresh, SeatsAreTaken, NoOldWayIn, Resolves
<1> QED BY <1>1, SeatsInvHolds, PTL
-----------------------------------------------------------------------------
\* Lead jobs.  A run that failed for good has used up its attempts, so no
\* retry can follow it: its job stays failed.

AttemptsCount ==
  \A i \in DOMAIN jobRuns :
    /\ jobRuns[i].status = "Retry scheduled" => jobRuns[i].attempt < MaxAttempts
    /\ jobRuns[i].status = "Failed" => jobRuns[i].attempt = MaxAttempts

CompletedIsWhole ==
  \A j \in Jobs : leadJobs[j] = "Completed" =>
    /\ j \in Uploads => records[j] = "Completed" /\ rowsIn[j] = "all"
    /\ \A i \in RunsOf(jobRuns, j) : jobRuns[i].status = "Completed"

FailedForGood ==
  \A u \in Uploads : records[u] = "Failed" =>
    leadJobs[u] = "Failed" /\ SomeRun(jobRuns, u, "Failed")

JobsInv == JobsTypeOK /\ AttemptsCount /\ CompletedIsWhole /\ FailedForGood

LEMMA JobsInitInv == JobsInit => JobsInv
BY DEF JobsInit, JobsInv, JobsTypeOK, AttemptsCount, CompletedIsWhole, FailedForGood, Jobs

LEMMA RunTypes ==
  ASSUME JobsInv
  PROVE  /\ jobRuns \in Seq(Run)
         /\ \A i \in DOMAIN jobRuns :
              /\ jobRuns[i] \in Run /\ jobRuns[i].job \in Jobs /\ jobRuns[i].csv \in BOOLEAN
              /\ jobRuns[i].attempt \in 1..MaxAttempts
<1>1. jobRuns \in Seq(Run)
  BY DEF JobsInv, JobsTypeOK
<1>2. \A i \in DOMAIN jobRuns : jobRuns[i] \in Run
  BY <1>1
<1>3. \A run \in Run : run.job \in Jobs /\ run.csv \in BOOLEAN /\ run.attempt \in 1..MaxAttempts
  BY DEF Run
<1> QED BY <1>1, <1>2, <1>3

\* New runs of one job, behind the others and still to be made.
MoreRuns(rs, j) ==
  /\ rs \in Seq(Run) /\ Len(rs) >= Len(jobRuns)
  /\ \A i \in DOMAIN jobRuns : rs[i] = jobRuns[i]
  /\ \A i \in DOMAIN rs \ DOMAIN jobRuns : rs[i].job = j /\ rs[i].status = "Queued"

\* A job with more runs is queued again, unless its upload failed for good.
LEMMA MoreRunsKeep ==
  ASSUME JobsInv, NEW j \in Jobs, MoreRuns(jobRuns', j), UNCHANGED rowsIn,
         leadJobs' = [leadJobs EXCEPT ![j] = "Queued"],
         records' \in [Uploads -> {"none", "Reserved", "Completed", "Failed"}],
         \A u \in Uploads \ {j} : records'[u] = records[u],
         j \in Uploads => records'[j] # "Failed"
  PROVE  JobsInv'
<1>1. /\ jobRuns \in Seq(Run) /\ jobRuns' \in Seq(Run) /\ DOMAIN jobRuns \subseteq DOMAIN jobRuns'
      /\ \A i \in DOMAIN jobRuns : jobRuns'[i] = jobRuns[i]
      /\ \A i \in DOMAIN jobRuns' \ DOMAIN jobRuns : jobRuns'[i].job = j /\ jobRuns'[i].status = "Queued"
  BY DEF MoreRuns, JobsInv, JobsTypeOK
<1>2. JobsTypeOK'
  BY <1>1 DEF JobsInv, JobsTypeOK
<1>3. AttemptsCount'
  BY <1>1 DEF JobsInv, AttemptsCount
<1>4. ASSUME NEW other \in Jobs \ {j}
      PROVE  leadJobs'[other] = leadJobs[other] /\ RunsOf(jobRuns', other) = RunsOf(jobRuns, other)
  BY <1>1 DEF RunsOf, JobsInv, JobsTypeOK
<1>5. leadJobs'[j] = "Queued"
  BY DEF JobsInv, JobsTypeOK
<1>6. CompletedIsWhole'
  <2> SUFFICES ASSUME NEW other \in Jobs, leadJobs'[other] = "Completed"
               PROVE  /\ other \in Uploads => records'[other] = "Completed" /\ rowsIn'[other] = "all"
                      /\ \A i \in RunsOf(jobRuns', other) : jobRuns'[i].status = "Completed"
    BY DEF CompletedIsWhole
  <2>1. other \in Jobs \ {j}
    BY <1>5
  <2>2. \A i \in RunsOf(jobRuns, other) : i \in DOMAIN jobRuns
    BY DEF RunsOf
  <2> QED BY <1>1, <1>4, <2>1, <2>2 DEF JobsInv, CompletedIsWhole
<1>7. FailedForGood'
  <2> SUFFICES ASSUME NEW u \in Uploads, records'[u] = "Failed"
               PROVE  leadJobs'[u] = "Failed" /\ SomeRun(jobRuns', u, "Failed")
    BY DEF FailedForGood
  <2>1. u \in Jobs \ {j} /\ records[u] = "Failed"
    BY DEF Jobs
  <2>2. \A i \in RunsOf(jobRuns, u) : i \in DOMAIN jobRuns
    BY DEF RunsOf
  <2>3. leadJobs[u] = "Failed" /\ SomeRun(jobRuns, u, "Failed")
    BY <2>1 DEF JobsInv, FailedForGood
  <2> QED BY <1>1, <1>4, <2>1, <2>2, <2>3 DEF SomeRun
<1> QED BY <1>2, <1>3, <1>6, <1>7 DEF JobsInv

LEMMA CreateKeeps ==
  ASSUME JobsInv, NEW j \in Jobs, NEW kinds \in Seq(BOOLEAN), CreateTrackedJob(j, kinds),
         records' \in [Uploads -> {"none", "Reserved", "Completed", "Failed"}],
         \A u \in Uploads \ {j} : records'[u] = records[u],
         j \in Uploads => records'[j] # "Failed"
  PROVE  JobsInv'
<1> DEFINE made == [i \in DOMAIN kinds |-> CreateRun(j, kinds[i], 1)]
<1>1. jobRuns \in Seq(Run)
  BY DEF JobsInv, JobsTypeOK
<1>2. \A csv \in BOOLEAN : CreateRun(j, csv, 1) \in Run /\ CreateRun(j, csv, 1).job = j
                           /\ CreateRun(j, csv, 1).status = "Queued"
  BY JobsAssumption DEF CreateRun, Run
<1>3. made \in Seq(Run) /\ \A i \in DOMAIN made : made[i].job = j /\ made[i].status = "Queued"
  BY <1>2
<1>4. jobRuns' = jobRuns \o made
  BY DEF CreateTrackedJob
<1> HIDE DEF made
<1>5. MoreRuns(jobRuns', j)
  BY <1>1, <1>3, <1>4 DEF MoreRuns
<1> QED BY <1>5, MoreRunsKeep DEF CreateTrackedJob

LEMMA RetryKeeps ==
  ASSUME JobsInv, NEW j \in Jobs, RetryFailedJob(j)
  PROVE  JobsInv'
<1>1. jobRuns \in Seq(Run)
  BY RunTypes
<1>2. PICK i \in RunsOf(jobRuns, j) :
        /\ jobRuns[i].status \in {"Failed", "Retry scheduled"}
        /\ \A k \in RunsOf(jobRuns, j) :
             jobRuns[k].status \in {"Failed", "Retry scheduled"} => jobRuns[k].attempt <= jobRuns[i].attempt
        /\ jobRuns[i].attempt < MaxAttempts
        /\ jobRuns' = Append(jobRuns, CreateRun(j, jobRuns[i].csv, jobRuns[i].attempt + 1))
        /\ leadJobs' = [leadJobs EXCEPT ![j] = "Queued"]
        /\ UNCHANGED <<records, rowsIn>>
  BY DEF RetryFailedJob
<1> DEFINE new == CreateRun(j, jobRuns[i].csv, jobRuns[i].attempt + 1)
<1>3. /\ i \in DOMAIN jobRuns /\ jobRuns[i].csv \in BOOLEAN
      /\ jobRuns[i].attempt \in 1..MaxAttempts
  BY <1>2, RunTypes DEF RunsOf
<1>4. new \in Run /\ new.job = j /\ new.status = "Queued"
  <2>1. jobRuns[i].attempt < MaxAttempts
    BY <1>2
  <2>2. jobRuns[i].attempt + 1 \in 1..MaxAttempts
    BY <1>3, <2>1, JobsAssumption
  <2> QED BY <1>3, <2>2 DEF CreateRun, Run
<1>7. jobRuns' = Append(jobRuns, new)
  BY <1>2
<1> HIDE DEF new
<1>5. MoreRuns(jobRuns', j)
  <2>1. /\ Append(jobRuns, new) \in Seq(Run) /\ Len(Append(jobRuns, new)) >= Len(jobRuns)
        /\ \A k \in DOMAIN jobRuns : Append(jobRuns, new)[k] = jobRuns[k]
        /\ \A k \in DOMAIN Append(jobRuns, new) \ DOMAIN jobRuns : Append(jobRuns, new)[k] = new
    BY <1>1, <1>4
  <2> QED BY <1>4, <1>7, <2>1 DEF MoreRuns
<1>6. ASSUME j \in Uploads, records[j] = "Failed" PROVE FALSE
  <2>1. PICK k \in RunsOf(jobRuns, j) : jobRuns[k].status = "Failed"
    BY <1>6 DEF JobsInv, FailedForGood, SomeRun
  <2>2. jobRuns[k].attempt = MaxAttempts
    BY <2>1 DEF JobsInv, AttemptsCount, RunsOf
  <2>3. jobRuns[k].attempt <= jobRuns[i].attempt /\ jobRuns[i].attempt < MaxAttempts
    BY <1>2, <2>1
  <2> QED BY <1>3, <2>2, <2>3, JobsAssumption
<1> QED BY <1>2, <1>5, <1>6, MoreRunsKeep DEF JobsInv, JobsTypeOK

LEMMA ReplacedRun ==
  ASSUME NEW rs \in Seq(Run), NEW i \in DOMAIN rs, NEW run \in Run
  PROVE  LET new == [rs EXCEPT ![i] = run] IN
         /\ new \in Seq(Run) /\ DOMAIN new = DOMAIN rs /\ new[i] = run
         /\ \A k \in DOMAIN rs \ {i} : new[k] = rs[k]
OBVIOUS

LEMMA MaxAttemptsType == MaxAttempts \in Nat
BY JobsAssumption

LEMMA NextAttempt ==
  ASSUME NEW attempt \in 1..MaxAttempts
  PROVE  attempt + 0 = attempt /\ (attempt < MaxAttempts => attempt + 1 \in 1..MaxAttempts)
BY MaxAttemptsType

LEMMA DueKeeps == ASSUME JobsInv, RetryComesDue PROVE JobsInv'
<1>1. PICK i \in DOMAIN jobRuns : jobRuns' = [jobRuns EXCEPT ![i].due = TRUE]
  BY DEF RetryComesDue
<1> DEFINE run == [jobRuns[i] EXCEPT !.due = TRUE]
<1>2. jobRuns \in Seq(Run) /\ jobRuns[i] \in Run
  BY RunTypes
<1>3. /\ run \in Run /\ run.job = jobRuns[i].job /\ run.status = jobRuns[i].status
      /\ run.attempt = jobRuns[i].attempt
  BY <1>2 DEF Run
<1>4. jobRuns' = [jobRuns EXCEPT ![i] = run]
  BY <1>1
<1> HIDE DEF run
<1>5. jobRuns' \in Seq(Run) /\ DOMAIN jobRuns' = DOMAIN jobRuns
  BY <1>2, <1>3, <1>4
<1>6. \A k \in DOMAIN jobRuns :
        /\ jobRuns'[k].job = jobRuns[k].job /\ jobRuns'[k].status = jobRuns[k].status
        /\ jobRuns'[k].attempt = jobRuns[k].attempt
  BY <1>2, <1>3, <1>4
<1>7. \A j \in Jobs : RunsOf(jobRuns', j) = RunsOf(jobRuns, j)
  BY <1>5, <1>6 DEF RunsOf
<1>8. UNCHANGED <<leadJobs, records, rowsIn>>
  BY DEF RetryComesDue
<1>9. JobsTypeOK' /\ AttemptsCount'
  BY <1>5, <1>6, <1>8 DEF JobsInv, JobsTypeOK, AttemptsCount
<1>10. \A j \in Jobs : \A k \in RunsOf(jobRuns, j) : jobRuns'[k].status = jobRuns[k].status
  BY <1>6 DEF RunsOf
<1>11. CompletedIsWhole'
  BY <1>7, <1>8, <1>10 DEF JobsInv, CompletedIsWhole
<1>12. FailedForGood'
  BY <1>7, <1>8, <1>10 DEF JobsInv, FailedForGood, SomeRun, Jobs
<1> QED BY <1>9, <1>11, <1>12 DEF JobsInv

\* A claimed run has an attempt left, and settling it changes no other run.
LEMMA SettledRuns ==
  ASSUME JobsInv, NEW i \in DOMAIN jobRuns, NEW status \in {"Retry scheduled", "Failed", "Completed"},
         Claimed(i), Settle(i, status)
  PROVE  /\ AttemptOf(i) \in 1..MaxAttempts /\ jobRuns[i].job \in Jobs
         /\ jobRuns[i].status \in {"Queued", "Retry scheduled"}
         /\ jobRuns' \in Seq(Run) /\ DOMAIN jobRuns' = DOMAIN jobRuns
         /\ jobRuns'[i].status = status /\ jobRuns'[i].attempt = AttemptOf(i)
         /\ \A k \in DOMAIN jobRuns \ {i} : jobRuns'[k] = jobRuns[k]
         /\ \A j \in Jobs : RunsOf(jobRuns', j) = RunsOf(jobRuns, j)
         /\ leadJobs' = [leadJobs EXCEPT ![jobRuns[i].job] =
                           RefreshJobFromRuns(jobRuns', jobRuns[i].job, "Running")]
         /\ leadJobs' \in [Jobs -> {"none", "Queued", "Running", "Paused", "Failed", "Completed"}]
<1> DEFINE run == [jobRuns[i] EXCEPT !.status = status, !.attempt = AttemptOf(i), !.due = FALSE]
           retried == [jobRuns[i] EXCEPT !.status = status, !.due = FALSE]
<1>1. /\ jobRuns \in Seq(Run) /\ jobRuns[i] \in Run /\ jobRuns[i].job \in Jobs
      /\ jobRuns[i].attempt \in 1..MaxAttempts
  BY RunTypes
<1>2. jobRuns[i].status \in {"Queued", "Retry scheduled"}
  BY DEF Claimed, IsDue
<1>3. AttemptOf(i) \in 1..MaxAttempts
  <2>1. CASE jobRuns[i].status = "Retry scheduled"
    <3>1. jobRuns[i].attempt < MaxAttempts
      BY <2>1 DEF JobsInv, AttemptsCount
    <3>2. AttemptOf(i) = jobRuns[i].attempt + 1
      BY <2>1 DEF AttemptOf
    <3> QED BY <1>1, <3>1, <3>2, NextAttempt
  <2>2. CASE jobRuns[i].status # "Retry scheduled"
    <3>1. AttemptOf(i) = jobRuns[i].attempt + 0
      BY <2>2 DEF AttemptOf
    <3> QED BY <1>1, <3>1, NextAttempt
  <2> QED BY <2>1, <2>2
<1>4. retried \in Run /\ retried.job = jobRuns[i].job /\ retried.status = status
  BY <1>1 DEF Run
<1>5. run = [retried EXCEPT !.attempt = AttemptOf(i)]
  BY <1>1 DEF Run
<1>6. jobRuns' = [jobRuns EXCEPT ![i] = run]
  BY DEF Settle
<1> HIDE DEF retried, run
<1>7. run \in Run /\ run.job = jobRuns[i].job /\ run.status = status /\ run.attempt = AttemptOf(i)
  BY <1>3, <1>4, <1>5 DEF Run
<1>8. /\ jobRuns' \in Seq(Run) /\ DOMAIN jobRuns' = DOMAIN jobRuns /\ jobRuns'[i] = run
      /\ \A k \in DOMAIN jobRuns \ {i} : jobRuns'[k] = jobRuns[k]
  BY <1>1, <1>6, <1>7, ReplacedRun
<1>9. \A j \in Jobs : RunsOf(jobRuns', j) = RunsOf(jobRuns, j)
  BY <1>7, <1>8 DEF RunsOf
<1>10. leadJobs' = [leadJobs EXCEPT ![jobRuns[i].job] =
                      RefreshJobFromRuns(jobRuns', jobRuns[i].job, "Running")]
  BY DEF Settle
<1>11. RefreshJobFromRuns(jobRuns', jobRuns[i].job, "Running") \in {"Running", "Paused", "Failed", "Completed"}
  BY DEF RefreshJobFromRuns
<1>12. leadJobs' \in [Jobs -> {"none", "Queued", "Running", "Paused", "Failed", "Completed"}]
  BY <1>1, <1>10, <1>11 DEF JobsInv, JobsTypeOK
<1> QED BY <1>1, <1>2, <1>3, <1>7, <1>8, <1>9, <1>10, <1>12

\* One settled run leaves the invariant if the record and the rows of its job
\* say what became of it.
LEMMA SettleKeeps ==
  ASSUME JobsInv, NEW i \in DOMAIN jobRuns, NEW status \in {"Retry scheduled", "Failed", "Completed"},
         Claimed(i), Settle(i, status),
         status = "Retry scheduled" => AttemptOf(i) < MaxAttempts,
         status = "Failed" => AttemptOf(i) = MaxAttempts,
         records' \in [Uploads -> {"none", "Reserved", "Completed", "Failed"}],
         rowsIn' \in [Jobs -> {"none", "part", "all"}],
         \A u \in Uploads : u # jobRuns[i].job => records'[u] = records[u] /\ rowsIn'[u] = rowsIn[u],
         status = "Completed" /\ jobRuns[i].job \in Uploads =>
           records'[jobRuns[i].job] = "Completed" /\ rowsIn'[jobRuns[i].job] = "all",
         status = "Retry scheduled" => UNCHANGED records
  PROVE  JobsInv'
<1> DEFINE j == jobRuns[i].job
<1>1. /\ j \in Jobs /\ jobRuns[i].status \in {"Queued", "Retry scheduled"}
      /\ jobRuns' \in Seq(Run) /\ DOMAIN jobRuns' = DOMAIN jobRuns
      /\ jobRuns'[i].status = status /\ jobRuns'[i].attempt = AttemptOf(i)
      /\ \A k \in DOMAIN jobRuns \ {i} : jobRuns'[k] = jobRuns[k]
      /\ leadJobs' \in [Jobs -> {"none", "Queued", "Running", "Paused", "Failed", "Completed"}]
  <2>1. /\ j \in Jobs /\ jobRuns[i].status \in {"Queued", "Retry scheduled"}
        /\ jobRuns' \in Seq(Run) /\ DOMAIN jobRuns' = DOMAIN jobRuns
    BY SettledRuns
  <2>2. /\ jobRuns'[i].status = status /\ jobRuns'[i].attempt = AttemptOf(i)
        /\ \A k \in DOMAIN jobRuns \ {i} : jobRuns'[k] = jobRuns[k]
    BY SettledRuns
  <2>3. leadJobs' \in [Jobs -> {"none", "Queued", "Running", "Paused", "Failed", "Completed"}]
    BY SettledRuns
  <2> QED BY <2>1, <2>2, <2>3
<1>2. \A other \in Jobs : RunsOf(jobRuns', other) = RunsOf(jobRuns, other)
  BY SettledRuns
<1>3. /\ leadJobs'[j] = RefreshJobFromRuns(jobRuns', j, "Running")
      /\ \A other \in Jobs \ {j} : leadJobs'[other] = leadJobs[other]
  <2>1. leadJobs' = [leadJobs EXCEPT ![j] = RefreshJobFromRuns(jobRuns', j, "Running")]
    BY SettledRuns
  <2>2. leadJobs \in [Jobs -> {"none", "Queued", "Running", "Paused", "Failed", "Completed"}]
    BY DEF JobsInv, JobsTypeOK
  <2> HIDE DEF j
  <2> QED BY <1>1, <2>1, <2>2
<1>4. i \in RunsOf(jobRuns, j) /\ i \in RunsOf(jobRuns', j)
  BY <1>1, <1>2 DEF RunsOf
<1>5. \A other \in Jobs \ {j} : \A k \in RunsOf(jobRuns, other) : jobRuns'[k] = jobRuns[k]
  BY <1>1 DEF RunsOf
<1> HIDE DEF j
<1>6. JobsTypeOK'
  BY <1>1 DEF JobsTypeOK
<1>7. AttemptsCount'
  <2>1. AttemptsCount
    BY DEF JobsInv
  <2> SUFFICES ASSUME NEW k \in DOMAIN jobRuns
               PROVE  /\ jobRuns'[k].status = "Retry scheduled" => jobRuns'[k].attempt < MaxAttempts
                      /\ jobRuns'[k].status = "Failed" => jobRuns'[k].attempt = MaxAttempts
    BY <1>1 DEF AttemptsCount
  <2>2. CASE k = i
    BY <1>1, <2>2
  <2>3. CASE k # i
    <3>1. jobRuns'[k] = jobRuns[k]
      BY <1>1, <2>3
    <3> QED BY <2>1, <3>1 DEF AttemptsCount
  <2> QED BY <2>2, <2>3
<1>8. CompletedIsWhole'
  <2> SUFFICES ASSUME NEW other \in Jobs, leadJobs'[other] = "Completed"
               PROVE  /\ other \in Uploads => records'[other] = "Completed" /\ rowsIn'[other] = "all"
                      /\ \A k \in RunsOf(jobRuns', other) : jobRuns'[k].status = "Completed"
    BY DEF CompletedIsWhole
  <2>1. CASE other = j
    <3>1. \A k \in RunsOf(jobRuns', j) : jobRuns'[k].status = "Completed"
      BY <1>3, <2>1 DEF RefreshJobFromRuns
    <3>2. status = "Completed"
      BY <1>1, <1>4, <3>1
    <3> QED BY <2>1, <3>1, <3>2 DEF j
  <2>2. CASE other # j
    <3>1. other \in Uploads => records'[other] = records[other] /\ rowsIn'[other] = rowsIn[other]
      BY <2>2 DEF j
    <3>2. leadJobs[other] = "Completed"
      BY <1>3, <2>2
    <3>3. /\ other \in Uploads => records[other] = "Completed" /\ rowsIn[other] = "all"
          /\ \A k \in RunsOf(jobRuns, other) : jobRuns[k].status = "Completed"
      BY <3>2 DEF JobsInv, CompletedIsWhole
    <3>4. \A k \in RunsOf(jobRuns', other) : jobRuns'[k].status = "Completed"
      <4>1. \A k \in RunsOf(jobRuns, other) : jobRuns'[k] = jobRuns[k]
        BY <1>5, <2>2
      <4>2. RunsOf(jobRuns', other) = RunsOf(jobRuns, other)
        BY <1>2
      <4> QED BY <3>3, <4>1, <4>2
    <3> QED BY <3>1, <3>3, <3>4
  <2> QED BY <2>1, <2>2
<1>9. FailedForGood'
  <2> SUFFICES ASSUME NEW u \in Uploads, records'[u] = "Failed"
               PROVE  leadJobs'[u] = "Failed" /\ SomeRun(jobRuns', u, "Failed")
    BY DEF FailedForGood
  <2>0. u \in Jobs
    BY DEF Jobs
  <2>1. CASE u = j
    <3>1. SomeRun(jobRuns', j, "Failed")
      <4>1. CASE status = "Failed"
        BY <1>1, <1>4, <4>1 DEF SomeRun
      <4>2. CASE status = "Retry scheduled"
        <5>1. PICK k \in RunsOf(jobRuns, j) : jobRuns[k].status = "Failed"
          BY <2>1, <4>2 DEF JobsInv, FailedForGood, SomeRun
        <5>2. k \in DOMAIN jobRuns \ {i}
          BY <1>1, <5>1 DEF RunsOf
        <5>3. jobRuns'[k].status = "Failed" /\ k \in RunsOf(jobRuns', j)
          BY <1>1, <1>2, <5>1, <5>2
        <5> QED BY <5>3 DEF SomeRun
      <4>3. status # "Completed"
        BY <2>1 DEF j
      <4> QED BY <4>1, <4>2, <4>3
    <3>2. ~ \A k \in RunsOf(jobRuns', j) : jobRuns'[k].status = "Completed"
      BY <3>1 DEF SomeRun
    <3>3. leadJobs'[j] = "Failed"
      BY <1>3, <3>1, <3>2 DEF RefreshJobFromRuns
    <3> QED BY <2>1, <3>1, <3>3
  <2>2. CASE u # j
    <3>1. records[u] = "Failed"
      BY <2>2 DEF j
    <3>2. leadJobs[u] = "Failed" /\ SomeRun(jobRuns, u, "Failed")
      BY <3>1 DEF JobsInv, FailedForGood
    <3> QED BY <1>2, <1>3, <1>5, <2>0, <2>2, <3>2 DEF SomeRun
  <2> QED BY <2>1, <2>2
<1> QED BY <1>6, <1>7, <1>8, <1>9 DEF JobsInv

LEMMA CompleteKeeps == ASSUME JobsInv, NEW i \in DOMAIN jobRuns, CompleteCsvImportRun(i) PROVE JobsInv'
<1>1. /\ Claimed(i) /\ Settle(i, "Completed") /\ jobRuns[i].job \in Uploads /\ jobRuns[i].job \in Jobs
  BY DEF CompleteCsvImportRun, Jobs
<1>2. records' = [u \in Uploads |-> IF u = jobRuns[i].job THEN "Completed" ELSE records[u]]
  BY DEF CompleteCsvImportRun, Mark
<1>3. rowsIn' = [rowsIn EXCEPT ![jobRuns[i].job] = "all"]
  BY DEF CompleteCsvImportRun
<1>4. records' \in [Uploads -> {"none", "Reserved", "Completed", "Failed"}]
  BY <1>2 DEF JobsInv, JobsTypeOK
<1>5. rowsIn' \in [Jobs -> {"none", "part", "all"}] /\ rowsIn'[jobRuns[i].job] = "all"
  BY <1>1, <1>3 DEF JobsInv, JobsTypeOK
<1>6. \A u \in Uploads : u # jobRuns[i].job => records'[u] = records[u] /\ rowsIn'[u] = rowsIn[u]
  BY <1>2, <1>3 DEF JobsInv, JobsTypeOK, Jobs
<1> QED BY <1>1, <1>2, <1>4, <1>5, <1>6, SettleKeeps

LEMMA FailKeeps == ASSUME JobsInv, NEW i \in DOMAIN jobRuns, FailCsvImportRun(i) PROVE JobsInv'
<1> DEFINE j == jobRuns[i].job
           status == IF AttemptOf(i) < MaxAttempts THEN "Retry scheduled" ELSE "Failed"
<1>1. Claimed(i) /\ Settle(i, status)
  BY DEF FailCsvImportRun
<1>2. /\ rowsIn' = [rowsIn EXCEPT ![j] = IF j \in Uploads /\ @ = "none" THEN "part" ELSE @]
      /\ IF status = "Failed" THEN Mark(j, "Failed") ELSE UNCHANGED records
  BY DEF FailCsvImportRun
<1>3. AttemptOf(i) \in 1..MaxAttempts /\ j \in Jobs
  BY <1>1, SettledRuns
<1>4. /\ status = "Retry scheduled" => AttemptOf(i) < MaxAttempts
      /\ status = "Failed" => AttemptOf(i) = MaxAttempts
  BY <1>3, JobsAssumption
<1>5. status \in {"Retry scheduled", "Failed"}
  OBVIOUS
<1> HIDE DEF status
<1>6. /\ records' \in [Uploads -> {"none", "Reserved", "Completed", "Failed"}]
      /\ \A u \in Uploads : u # j => records'[u] = records[u]
      /\ status = "Retry scheduled" => UNCHANGED records
  BY <1>2 DEF Mark, JobsInv, JobsTypeOK
<1>7. /\ rowsIn' \in [Jobs -> {"none", "part", "all"}]
      /\ \A u \in Uploads : u # j => rowsIn'[u] = rowsIn[u]
  BY <1>2, <1>3 DEF JobsInv, JobsTypeOK, Jobs
<1> QED BY <1>1, <1>4, <1>5, <1>6, <1>7, SettleKeeps

LEMMA JobsStep == JobsInv /\ [JobsNext]_jobsVars => JobsInv'
<1> SUFFICES ASSUME JobsInv, [JobsNext]_jobsVars PROVE JobsInv'
  OBVIOUS
<1>1. CASE UNCHANGED jobsVars
  <2>1. UNCHANGED leadJobs /\ UNCHANGED jobRuns /\ UNCHANGED records /\ UNCHANGED rowsIn
    BY <1>1 DEF jobsVars
  <2>2. JobsTypeOK' /\ AttemptsCount'
    BY <2>1 DEF JobsInv, JobsTypeOK, AttemptsCount
  <2>3. CompletedIsWhole' /\ FailedForGood'
    BY <2>1 DEF JobsInv, CompletedIsWhole, FailedForGood, RunsOf, SomeRun
  <2> QED BY <2>2, <2>3 DEF JobsInv
<1>2. ASSUME NEW u \in Uploads, ImportCsv(u) PROVE JobsInv'
  <2>1. records' = [records EXCEPT ![u] = "Reserved"] /\ CreateTrackedJob(u, <<TRUE>>) /\ u \in Jobs
    BY <1>2 DEF ImportCsv, Jobs
  <2>2. /\ records' \in [Uploads -> {"none", "Reserved", "Completed", "Failed"}]
        /\ records'[u] # "Failed" /\ \A other \in Uploads \ {u} : records'[other] = records[other]
    BY <2>1 DEF JobsInv, JobsTypeOK
  <2>3. <<TRUE>> \in Seq(BOOLEAN)
    OBVIOUS
  <2> QED BY <2>1, <2>2, <2>3, CreateKeeps
<1>3. ASSUME NEW j \in ManualJobs, NEW kinds \in {<<TRUE>>, <<FALSE>>, <<TRUE, FALSE>>},
             CreateLeadJob(j, kinds)
      PROVE  JobsInv'
  <2>1. CreateTrackedJob(j, kinds) /\ UNCHANGED records /\ j \in Jobs /\ j \notin Uploads
    BY <1>3, JobsAssumption DEF CreateLeadJob, Jobs
  <2>2. kinds \in Seq(BOOLEAN)
    <3>1. <<TRUE>> \in Seq(BOOLEAN)
      OBVIOUS
    <3>2. <<FALSE>> \in Seq(BOOLEAN)
      OBVIOUS
    <3>3. <<TRUE, FALSE>> \in Seq(BOOLEAN)
      OBVIOUS
    <3> QED BY <3>1, <3>2, <3>3
  <2> QED BY <2>1, <2>2, CreateKeeps DEF JobsInv, JobsTypeOK
<1> QED BY <1>1, <1>2, <1>3, RetryKeeps, DueKeeps, CompleteKeeps, FailKeeps DEF JobsNext

LEMMA JobsInvHolds == JobsSpec => []JobsInv
BY JobsInitInv, JobsStep, PTL DEF JobsSpec

\* Jobs, runs and records keep their types; in particular no run gets past
\* its maximum of attempts.
THEOREM JobsTypeCorrect == JobsSpec => []JobsTypeOK
<1>1. JobsInv => JobsTypeOK
  BY DEF JobsInv
<1> QED BY <1>1, JobsInvHolds, PTL

\* For any uploads, retries and failures: a completed job has all its rows
\* and no run left, and a record says Failed only of a job that failed.
THEOREM ImportIsWholeHolds == JobsSpec => []ImportIsWhole
<1>1. JobsInv => ImportIsWhole
  BY DEF JobsInv, CompletedIsWhole, FailedForGood, ImportIsWhole
<1> QED BY <1>1, JobsInvHolds, PTL
-----------------------------------------------------------------------------
\* Enrichment.  As long as nothing is looked for while there is an address,
\* every verdict a run has heard is about the address it would write.

Template == [steps : Seq(Steps), cap : Nat]
SourceOfRun == [run : WaterfallRuns, status : Deliverability \union {"unverified"}]
LeadRead == [email : Emailish, status : Deliverability \union {"unverified"}]
AskedPairs == Nat \X EmailProviders
EnrichRun == [at : {"idle", "asking", "written", "lost"}, template : Template,
        lead : LeadRead,
        attempted : SUBSET AskedPairs, cost : Nat, found : Seq(Verdict)]

AboutTheLead(run) ==
  FindsOnlyMissing(run.template.steps) =>
    \A i \in DOMAIN run.found : run.found[i].status # "unverified" =>
      run.found[i].of = run.lead.email /\ run.lead.email # Missing

WaterfallInv ==
  /\ WaterfallTypeOK
  /\ sources \in Seq(SourceOfRun)
  /\ template \in Template
  /\ runs \in [WaterfallRuns -> EnrichRun]
  /\ \A r \in WaterfallRuns : AboutTheLead(runs[r])

\* The verdict a run is graded by is one of those it heard.
LEMMA SurestIsAVerdict ==
  ASSUME NEW found \in Seq(Verdict), HasVerdict(found)
  PROVE  Surest(found) \in DOMAIN found /\ found[Surest(found)].status # "unverified"
<1> DEFINE verdicts == {i \in DOMAIN found : found[i].status # "unverified"}
           of(c) == {i \in verdicts : found[i].confidence = c}
           best(i) == \A k \in verdicts :
             found[k].confidence < found[i].confidence
             \/ (found[k].confidence = found[i].confidence /\ i <= k)
<1>1. verdicts \in SUBSET Nat /\ \A i \in verdicts : found[i].confidence \in 0..2
  <2>1. DOMAIN found = 1..Len(found) /\ \A i \in DOMAIN found : found[i] \in Verdict
    OBVIOUS
  <2>2. \A v \in Verdict : v.confidence \in 0..2
    BY DEF Verdict
  <2> QED BY <2>1, <2>2
<1>2. ASSUME NEW c \in 0..2, of(c) # {}, \A i \in verdicts : found[i].confidence <= c
      PROVE  \E i \in verdicts : best(i)
  <2>1. of(c) \in SUBSET Nat
    BY <1>1
  <2>2. PICK i \in of(c) : \A k \in of(c) : i <= k
    BY <2>1, <1>2, LeastNatural
  <2>3. best(i)
    BY <2>2, <1>1, <1>2
  <2> QED BY <2>2, <2>3
<1>3. \E i \in verdicts : best(i)
  <2>1. verdicts # {}
    BY DEF HasVerdict
  <2>2. CASE of(2) # {}
    BY <1>1, <1>2, <2>2, SMTT(60)
  <2>3. CASE of(2) = {} /\ of(1) # {}
    <3>1. \A i \in verdicts : found[i].confidence <= 1
      BY <1>1, <2>3
    <3> QED BY <3>1, <1>2, <2>3
  <2>4. CASE of(2) = {} /\ of(1) = {}
    <3>1. \A i \in verdicts : found[i].confidence <= 0
      BY <1>1, <2>4
    <3>2. of(0) # {}
      BY <1>1, <2>1, <2>4
    <3> QED BY <3>1, <3>2, <1>2
  <2> QED BY <2>2, <2>3, <2>4
<1>4. Surest(found) = CHOOSE i \in verdicts : best(i)
  BY DEF Surest
<1>5. Surest(found) \in verdicts
  BY <1>3, <1>4
<1> QED BY <1>5

-----------------------------------------------------------------------------
LEMMA WaterfallTypes ==
  /\ Missing \in Emailish /\ Addresses \subseteq Emailish
  /\ Idle \in EnrichRun /\ Templates \subseteq Template
  /\ \A p \in EmailProviders : Price[p] \in Nat
<1>1. Missing \in Emailish /\ Addresses \subseteq Emailish
  BY DEF Emailish
<1>2. Templates \subseteq Template /\ \A p \in EmailProviders : Price[p] \in Nat
  BY WaterfallAssumption DEF Template
<1>3. Idle \in EnrichRun
  <2>1. [steps |-> <<>>, cap |-> 0] \in Template /\ <<>> \in Seq(Verdict)
    BY DEF Template
  <2>2. [email |-> Missing, status |-> "unverified"]
          \in LeadRead
    BY <1>1 DEF LeadRead
  <2> QED BY <2>1, <2>2 DEF Idle, EnrichRun
<1> QED BY <1>1, <1>2, <1>3

LEMMA WaterfallInitInv == WaterfallInit => WaterfallInv
<1> SUFFICES ASSUME WaterfallInit PROVE WaterfallInv
  OBVIOUS
<1>1. \A r \in WaterfallRuns : runs[r] = Idle
  BY DEF WaterfallInit
<1>2. runs \in [WaterfallRuns -> EnrichRun] /\ template \in Template
  BY WaterfallTypes DEF WaterfallInit
<1>3. template.steps \in Seq(Steps) /\ template.cap \in Nat
  BY <1>2 DEF Template
<1>4. /\ Idle.at = "idle" /\ Idle.lead \in LeadRead /\ Idle.found = <<>>
      /\ Idle.found \in Seq(Verdict) /\ Idle.cost <= Idle.template.cap
  <2>1. Idle.lead \in LeadRead /\ Idle.found \in Seq(Verdict)
    BY WaterfallTypes DEF EnrichRun
  <2> QED BY <2>1 DEF Idle
<1>5. WaterfallTypeOK
  <2>1. person \in [email : Emailish, grade : {"none"} \union Grades] /\ vouched \in Emailish
        /\ edits \in 0..MaxEdits /\ sources = <<>>
    BY WaterfallTypes, WaterfallAssumption DEF WaterfallInit
  <2>2. \A r \in WaterfallRuns :
          /\ runs[r].at \in {"idle", "asking", "written", "lost"}
          /\ runs[r].lead \in LeadRead
          /\ runs[r].found \in Seq(Verdict)
          /\ runs[r].cost <= runs[r].template.cap
    BY <1>1, <1>4
  <2> QED BY <1>3, <2>1, <2>2 DEF WaterfallTypeOK, LeadRead
<1>6. \A r \in WaterfallRuns : AboutTheLead(runs[r])
  BY <1>1, <1>4 DEF AboutTheLead
<1> QED BY <1>2, <1>5, <1>6 DEF WaterfallInv, WaterfallInit

\* What a run is like: enough to keep WaterfallInv when one run moves.
RunOK(run) ==
  /\ run \in EnrichRun /\ run.cost <= run.template.cap /\ AboutTheLead(run)

LEMMA RunsAreOK ==
  ASSUME WaterfallInv, NEW r \in WaterfallRuns
  PROVE  RunOK(runs[r])
<1>1. runs[r] \in EnrichRun
  BY DEF WaterfallInv
<1> QED BY <1>1 DEF WaterfallInv, WaterfallTypeOK, RunOK

LEMMA RunMoves ==
  ASSUME WaterfallInv, NEW r \in WaterfallRuns, NEW run, RunOK(run),
         runs' = [runs EXCEPT ![r] = run],
         person' \in [email : Emailish, grade : {"none"} \union Grades],
         sources' \in Seq(SourceOfRun),
         vouched' \in Emailish, UNCHANGED <<template, edits>>
  PROVE  WaterfallInv'
<1>1. \A s \in WaterfallRuns : RunOK(runs'[s])
  BY RunsAreOK DEF WaterfallInv
<1>2. runs' \in [WaterfallRuns -> EnrichRun]
  BY <1>1 DEF WaterfallInv, RunOK
<1>3. \A s \in WaterfallRuns : AboutTheLead(runs'[s])
  BY <1>1 DEF RunOK
<1>4. \A i \in DOMAIN sources' : sources'[i].run \in WaterfallRuns
                               /\ sources'[i].status \in Deliverability \union {"unverified"}
  <2>1. \A i \in DOMAIN sources' :
          sources'[i] \in SourceOfRun
    OBVIOUS
  <2> QED BY <2>1 DEF SourceOfRun
<1>5. \A s \in WaterfallRuns :
        /\ runs'[s].at \in {"idle", "asking", "written", "lost"}
        /\ runs'[s].lead \in LeadRead
        /\ runs'[s].found \in Seq(Verdict)
        /\ runs'[s].cost <= runs'[s].template.cap
  <2>1. \A run2 \in EnrichRun : /\ run2.at \in {"idle", "asking", "written", "lost"}
                          /\ run2.lead \in LeadRead
                          /\ run2.found \in Seq(Verdict)
    BY DEF EnrichRun
  <2> QED BY <1>1, <2>1 DEF RunOK
<1>6. WaterfallTypeOK'
  BY <1>4, <1>5 DEF WaterfallInv, WaterfallTypeOK, LeadRead
<1> QED BY <1>2, <1>3, <1>6 DEF WaterfallInv, AboutTheLead, FindsOnlyMissing

\* The contact and the template are edited beside the runs.
LEMMA EditsKeep ==
  ASSUME WaterfallInv, Edit, UNCHANGED <<sources, runs, vouched>>,
         person' \in [email : Emailish, grade : {"none"} \union Grades], template' \in Template
  PROVE  WaterfallInv'
<1>1. edits' \in 0..MaxEdits
  BY WaterfallAssumption DEF Edit, WaterfallInv, WaterfallTypeOK
<1>2. template'.steps \in Seq(Steps) /\ template'.cap \in Nat
  BY DEF Template
<1> QED BY <1>1, <1>2 DEF WaterfallInv, WaterfallTypeOK, AboutTheLead

LEMMA PlansFit ==
  ASSUME NEW run \in EnrichRun, NEW plan, Dispatched(run, plan)
  PROVE  LET step == run.template.steps[plan[1]]  p == step.providers[plan[2]] IN
         /\ plan[1] \in DOMAIN run.template.steps /\ plan[2] \in DOMAIN step.providers
         /\ step \in Steps /\ p \in EmailProviders /\ <<plan[1], p>> \in AskedPairs
         /\ step.whenMissing => run.lead.email = Missing
         /\ run.cost + Price[p] <= run.template.cap
<1> DEFINE step == run.template.steps[plan[1]]
           p == step.providers[plan[2]]
<1>1. plan \in Plans(run)
  BY DEF Dispatched
<1>2. /\ plan \in UNION {{i} \X DOMAIN run.template.steps[i].providers : i \in DOMAIN run.template.steps}
      /\ step.whenMissing => run.lead.email = Missing
      /\ run.cost + Price[p] <= run.template.cap
  BY <1>1 DEF Plans
<1>3. PICK i \in DOMAIN run.template.steps : plan \in {i} \X DOMAIN run.template.steps[i].providers
  BY <1>2
<1>4. plan[1] = i /\ plan[2] \in DOMAIN step.providers
  BY <1>3
<1>5. run.template.steps \in Seq(Steps)
  BY DEF EnrichRun, Template
<1>6. step \in Steps /\ plan[1] \in Nat
  BY <1>3, <1>4, <1>5
<1>7. step.providers \in Seq(EmailProviders)
  BY <1>6 DEF Steps
<1>8. p \in EmailProviders
  BY <1>4, <1>7
<1>9. <<plan[1], p>> \in AskedPairs
  BY <1>6, <1>8 DEF AskedPairs
<1> QED BY <1>2, <1>3, <1>4, <1>6, <1>8, <1>9

LEMMA AskedIsOK ==
  ASSUME WaterfallInv, NEW r \in WaterfallRuns, NEW plan, Dispatched(runs[r], plan)
  PROVE  /\ RunOK(Asked(r, plan))
         /\ Asked(r, plan).lead = runs[r].lead /\ Asked(r, plan).found = runs[r].found
         /\ Asked(r, plan).template = runs[r].template
         /\ Asked(r, plan).at = runs[r].at
<1> DEFINE run == runs[r]
           p == run.template.steps[plan[1]].providers[plan[2]]
           asked == Asked(r, plan)
<1>1. RunOK(run) /\ run \in EnrichRun
  BY RunsAreOK DEF RunOK
<1>2. p \in EmailProviders /\ <<plan[1], p>> \in AskedPairs /\ run.cost + Price[p] <= run.template.cap
  BY <1>1, PlansFit
<1>3. Price[p] \in Nat
  BY <1>2, WaterfallTypes
<1>4. run.attempted \union {<<plan[1], p>>} \in SUBSET AskedPairs /\ run.cost + Price[p] \in Nat
  <2>1. run.attempted \in SUBSET AskedPairs /\ run.cost \in Nat
    BY <1>1 DEF EnrichRun
  <2>2. \A S \in SUBSET AskedPairs, x \in AskedPairs : S \union {x} \in SUBSET AskedPairs
    OBVIOUS
  <2>3. run.attempted \union {<<plan[1], p>>} \in SUBSET AskedPairs
    BY <1>2, <2>1, <2>2
  <2>4. \A a, b \in Nat : a + b \in Nat
    OBVIOUS
  <2> HIDE DEF run, p
  <2>5. run.cost + Price[p] \in Nat
    BY <1>3, <2>1, <2>4
  <2> QED BY <2>3, <2>5
<1>5. asked = [[run EXCEPT !.attempted = @ \union {<<plan[1], p>>}] EXCEPT !.cost = run.cost + Price[p]]
  BY <1>1 DEF Asked, EnrichRun
<1> HIDE DEF asked, p
<1>6. /\ asked \in EnrichRun /\ asked.lead = run.lead /\ asked.found = run.found
      /\ asked.template = run.template /\ asked.cost = run.cost + Price[p] /\ asked.at = run.at
  BY <1>1, <1>4, <1>5 DEF EnrichRun
<1>7. AboutTheLead(asked)
  BY <1>1, <1>6 DEF RunOK, AboutTheLead
<1>8. RunOK(asked)
  BY <1>2, <1>6, <1>7 DEF RunOK
<1> QED BY <1>6, <1>8 DEF asked

\* A verdict that says nothing, or that is about the address of the lead.
LEMMA AcceptedIsOK ==
  ASSUME NEW run, RunOK(run), NEW lead \in LeadRead, NEW verdict \in Verdict,
         FindsOnlyMissing(run.template.steps) =>
           /\ lead.email = run.lead.email \/ run.lead.email = Missing
           /\ verdict.status # "unverified" => verdict.of = lead.email /\ lead.email # Missing
  PROVE  RunOK(Accepted(run, lead, verdict))
<1> DEFINE new == Accepted(run, lead, verdict)
<1>1. run \in EnrichRun /\ run.found \in Seq(Verdict)
  BY DEF RunOK, EnrichRun
<1>2. Append(run.found, verdict) \in Seq(Verdict)
  BY <1>1
<1>3. new = [[run EXCEPT !.lead = lead] EXCEPT !.found = Append(run.found, verdict)]
  BY <1>1 DEF Accepted, EnrichRun
<1> HIDE DEF new
<1>4. /\ new \in EnrichRun /\ new.lead = lead /\ new.found = Append(run.found, verdict)
      /\ new.template = run.template /\ new.cost = run.cost
  BY <1>1, <1>2, <1>3 DEF EnrichRun
<1>5. AboutTheLead(new)
  <2>1. ASSUME FindsOnlyMissing(new.template.steps), NEW i \in DOMAIN new.found,
               new.found[i].status # "unverified"
        PROVE  new.found[i].of = new.lead.email /\ new.lead.email # Missing
    <3>1. CASE i \in DOMAIN run.found
      <4>1. new.found[i] = run.found[i]
        BY <1>1, <1>4, <3>1
      <4>2. run.found[i].of = run.lead.email /\ run.lead.email # Missing
        BY <1>4, <2>1, <3>1, <4>1 DEF RunOK, AboutTheLead
      <4> QED BY <1>4, <2>1, <4>1, <4>2
    <3>2. CASE i \notin DOMAIN run.found
      <4>1. new.found[i] = verdict
        BY <1>1, <1>4, <2>1, <3>2
      <4> QED BY <1>4, <2>1, <4>1
    <3> QED BY <3>1, <3>2
  <2> QED BY <2>1 DEF AboutTheLead
<1> QED BY <1>4, <1>5 DEF RunOK, new

LEMMA SourcesAreTyped ==
  ASSUME WaterfallInv
  PROVE  sources \in Seq(SourceOfRun) /\ EmailStatus \in Deliverability \union {"unverified"}
<1> DEFINE latest == {i \in DOMAIN sources : \A k \in DOMAIN sources : sources[k].run <= sources[i].run}
           first == CHOOSE i \in latest : \A k \in latest : i <= k
<1>1. sources \in Seq(SourceOfRun)
  BY DEF WaterfallInv
<1>2. CASE latest = {}
  BY <1>1, <1>2 DEF EmailStatus
<1>3. CASE latest # {}
  <2>1. latest \in SUBSET Nat
    BY <1>1
  <2>2. \E i \in latest : \A k \in latest : i <= k
    BY <2>1, <1>3, LeastNatural
  <2>3. first \in latest
    BY <2>2
  <2>4. sources[first] \in SourceOfRun
    BY <1>1, <2>3
  <2>5. EmailStatus = sources[first].status
    BY <1>3 DEF EmailStatus
  <2> QED BY <1>1, <2>4, <2>5 DEF SourceOfRun
<1> QED BY <1>2, <1>3

LEMMA StartRunKeeps ==
  ASSUME WaterfallInv, NEW r \in WaterfallRuns, StartRun(r)
  PROVE  WaterfallInv'
<1> DEFINE lead == [email |-> person.email, status |-> EmailStatus]
           run == [Idle EXCEPT !.at = "asking", !.template = template, !.lead = lead]
<1>1. lead \in LeadRead
  BY SourcesAreTyped DEF LeadRead, WaterfallInv, WaterfallTypeOK
<1>2. template \in Template /\ template.cap \in Nat
  BY DEF WaterfallInv, WaterfallTypeOK
<1>3. Idle \in EnrichRun /\ Idle.cost = 0 /\ Idle.found = <<>>
  BY WaterfallTypes DEF Idle
<1> HIDE DEF lead
<1>4. run \in EnrichRun /\ run.cost = 0 /\ run.found = <<>> /\ run.template = template
  BY <1>1, <1>2, <1>3 DEF EnrichRun
<1>5. runs' = [runs EXCEPT ![r] = run]
  BY DEF StartRun, lead
<1> HIDE DEF run
<1>6. RunOK(run)
  BY <1>2, <1>4 DEF RunOK, AboutTheLead
<1>7. /\ person' \in [email : Emailish, grade : {"none"} \union Grades]
      /\ sources' \in Seq(SourceOfRun) /\ vouched' \in Emailish
      /\ UNCHANGED <<template, edits>>
  BY DEF StartRun, WaterfallInv, WaterfallTypeOK
<1> QED BY <1>5, <1>6, <1>7, RunMoves

LEMMA LoseRunKeeps ==
  ASSUME WaterfallInv, NEW r \in WaterfallRuns, LoseRun(r)
  PROVE  WaterfallInv'
<1> DEFINE run == [Idle EXCEPT !.at = "lost"]
<1>1. Idle \in EnrichRun /\ Idle.cost = 0 /\ Idle.found = <<>> /\ Idle.template.cap = 0
  BY WaterfallTypes DEF Idle
<1>2. run \in EnrichRun /\ run.cost = 0 /\ run.found = <<>> /\ run.template.cap = 0
  BY <1>1 DEF EnrichRun
<1>3. runs' = [runs EXCEPT ![r] = run]
  BY DEF LoseRun
<1> HIDE DEF run
<1>4. RunOK(run)
  BY <1>2 DEF RunOK, AboutTheLead
<1>5. /\ person' \in [email : Emailish, grade : {"none"} \union Grades]
      /\ sources' \in Seq(SourceOfRun) /\ vouched' \in Emailish
      /\ UNCHANGED <<template, edits>>
  BY DEF LoseRun, WaterfallInv, WaterfallTypeOK
<1> QED BY <1>3, <1>4, <1>5, RunMoves

LEMMA AskKeeps ==
  ASSUME WaterfallInv, NEW r \in WaterfallRuns, NEW plan,
         \/ AskInVain(r, plan)
         \/ \E email \in Emailish : Find(r, plan, email)
         \/ \E status \in Deliverability, confidence \in 1..2 : Verify(r, plan, status, confidence)
  PROVE  WaterfallInv'
<1> DEFINE run == runs[r]
           step == run.template.steps[plan[1]]
<1>1. /\ Dispatched(run, plan) /\ UNCHANGED <<person, sources, template, vouched, edits>>
  BY DEF AskInVain, Find, Verify
<1>2. RunOK(Asked(r, plan)) /\ Asked(r, plan).lead = run.lead /\ Asked(r, plan).template = run.template
  BY <1>1, AskedIsOK
<1>3. run \in EnrichRun /\ run.lead \in LeadRead /\ run.lead.email \in Emailish
  BY RunsAreOK DEF RunOK, EnrichRun, LeadRead
<1>4. plan[1] \in DOMAIN run.template.steps /\ (step.whenMissing => run.lead.email = Missing)
  BY <1>1, <1>3, PlansFit
<1>5. /\ person' \in [email : Emailish, grade : {"none"} \union Grades]
      /\ sources' \in Seq(SourceOfRun) /\ vouched' \in Emailish
  BY <1>1 DEF WaterfallInv, WaterfallTypeOK
<1>6. CASE AskInVain(r, plan)
  BY <1>1, <1>2, <1>5, <1>6, RunMoves DEF AskInVain
<1>7. CASE \E email \in Emailish : Find(r, plan, email)
  <2>1. PICK email \in Emailish : Find(r, plan, email)
    BY <1>7
  <2> DEFINE lead == [run.lead EXCEPT !.email = IF email = Missing THEN @ ELSE email]
             verdict == [status |-> "unverified", confidence |-> 0, of |-> lead.email]
  <2>2. lead \in LeadRead
        /\ lead.email \in Emailish
    BY <1>3 DEF LeadRead
  <2>3. verdict \in Verdict /\ verdict.status = "unverified"
    BY <2>2 DEF Verdict
  <2>4. FindsOnlyMissing(run.template.steps) => run.lead.email = Missing
    BY <1>4, <2>1 DEF Find, FindsOnlyMissing
  <2>5. runs' = [runs EXCEPT ![r] = Accepted(Asked(r, plan), lead, verdict)]
    BY <2>1 DEF Find
  <2> HIDE DEF lead, verdict
  <2>6. RunOK(Accepted(Asked(r, plan), lead, verdict))
    BY <1>2, <2>2, <2>3, <2>4, AcceptedIsOK
  <2> QED BY <1>1, <1>5, <2>5, <2>6, RunMoves
<1>8. CASE \E status \in Deliverability, confidence \in 1..2 : Verify(r, plan, status, confidence)
  <2>1. PICK status \in Deliverability, confidence \in 1..2 : Verify(r, plan, status, confidence)
    BY <1>8
  <2> DEFINE lead == [run.lead EXCEPT !.status = status]
             verdict == [status |-> status, confidence |-> confidence, of |-> run.lead.email]
  <2>2. lead \in LeadRead /\ lead.email = run.lead.email
    BY <1>3 DEF LeadRead
  <2>3. verdict \in Verdict /\ verdict.of = lead.email
    BY <1>3, <2>2 DEF Verdict
  <2>4. run.lead.email # Missing
    BY <2>1 DEF Verify
  <2>5. runs' = [runs EXCEPT ![r] = Accepted(Asked(r, plan), lead, verdict)]
    BY <2>1 DEF Verify
  <2> HIDE DEF lead, verdict
  <2>6. RunOK(Accepted(Asked(r, plan), lead, verdict))
    BY <1>2, <2>2, <2>3, <2>4, AcceptedIsOK
  <2> QED BY <1>1, <1>5, <2>5, <2>6, RunMoves
<1> QED BY <1>6, <1>7, <1>8

LEMMA GradedKeepsTheAddress ==
  ASSUME NEW row \in [email : Emailish, grade : {"none"} \union Grades], NEW found \in Seq(Verdict)
  PROVE  /\ Graded(row, found) \in [email : Emailish, grade : {"none"} \union Grades]
         /\ Graded(row, found).email = row.email
<1> DEFINE verdict == found[Surest(found)]
<1>1. CASE HasVerdict(found) /\ verdict.status # "unknown"
  <2>1. verdict \in Verdict /\ verdict.status # "unverified"
    BY <1>1, SurestIsAVerdict
  <2>2. verdict.status \in {"valid", "catch_all", "risky", "invalid"}
    BY <1>1, <2>1 DEF Verdict, Deliverability
  <2>3. GradeFor(verdict.status) \in Grades
    BY <2>2 DEF GradeFor, Grades
  <2>4. Graded(row, found) = [row EXCEPT !.grade = GradeFor(verdict.status)]
    BY <1>1 DEF Graded
  <2> HIDE DEF verdict
  <2> QED BY <2>3, <2>4
<1>2. CASE ~(HasVerdict(found) /\ verdict.status # "unknown")
  BY <1>2 DEF Graded
<1> QED BY <1>1, <1>2

LEMMA WrittenKeepsTheAddress ==
  ASSUME WaterfallInv, NEW run \in EnrichRun
  PROVE  /\ Written(run) \in [email : Emailish, grade : {"none"} \union Grades]
         /\ run.lead.email # Missing => Written(run).email = run.lead.email
<1> DEFINE row == [person EXCEPT !.email = IF run.lead.email = Missing THEN @ ELSE run.lead.email]
<1>1. run.lead.email \in Emailish /\ run.found \in Seq(Verdict)
  BY DEF EnrichRun, LeadRead
<1>2. /\ row \in [email : Emailish, grade : {"none"} \union Grades]
      /\ run.lead.email # Missing => row.email = run.lead.email
  BY <1>1 DEF WaterfallInv, WaterfallTypeOK
<1>3. Written(run) = Graded(row, run.found)
  BY DEF Written
<1> HIDE DEF row
<1> QED BY <1>1, <1>2, <1>3, GradedKeepsTheAddress

LEMMA WriteResultsKeeps ==
  ASSUME WaterfallInv, NEW r \in WaterfallRuns, WriteResults(r)
  PROVE  /\ WaterfallInv'
         /\ (HasVerdict(runs[r].found) /\ FindsOnlyMissing(runs[r].template.steps))
              => vouched' = person'.email
<1> DEFINE run == runs[r]
           new == [Idle EXCEPT !.at = "written", !.template = run.template]
           status(i) == run.found[i].status
           more == [i \in DOMAIN run.found |-> [run |-> r, status |-> status(i)]]
<1>1. run \in EnrichRun /\ AboutTheLead(run) /\ run.found \in Seq(Verdict) /\ run.template \in Template
  BY RunsAreOK DEF RunOK, EnrichRun
<1>2. \A i \in DOMAIN run.found : run.found[i] \in Verdict
  BY <1>1
<1>3. /\ person' = Written(run)
      /\ sources' = sources \o more
      /\ vouched' = IF HasVerdict(run.found) THEN run.found[Surest(run.found)].of ELSE vouched
      /\ runs' = [runs EXCEPT ![r] = new]
      /\ UNCHANGED <<template, edits>>
  BY DEF WriteResults
<1>4. /\ person' \in [email : Emailish, grade : {"none"} \union Grades]
      /\ run.lead.email # Missing => person'.email = run.lead.email
  BY <1>1, <1>3, WrittenKeepsTheAddress
<1>5. sources' \in Seq(SourceOfRun)
  <2>1. \A i \in DOMAIN run.found : status(i) \in Deliverability \union {"unverified"}
    BY <1>2 DEF Verdict
  <2>2. \A i \in DOMAIN run.found : [run |-> r, status |-> status(i)] \in SourceOfRun
    BY <2>1 DEF SourceOfRun
  <2>3. DOMAIN run.found = 1..Len(run.found) /\ Len(run.found) \in Nat
    BY <1>1
  <2>4. more \in Seq(SourceOfRun)
    BY <2>2, <2>3
  <2>5. sources \in Seq(SourceOfRun)
    BY SourcesAreTyped
  <2> HIDE DEF more
  <2> QED BY <1>3, <2>4, <2>5
<1>6. HasVerdict(run.found) =>
        /\ run.found[Surest(run.found)] \in Verdict
        /\ run.found[Surest(run.found)].status # "unverified"
        /\ Surest(run.found) \in DOMAIN run.found
  BY <1>1, <1>2, SurestIsAVerdict
<1>7. vouched' \in Emailish
  <2>1. \A v \in Verdict : v.of \in Emailish
    BY DEF Verdict
  <2> QED BY <1>3, <1>6, <2>1 DEF WaterfallInv, WaterfallTypeOK
<1>8. RunOK(new)
  <2>1. Idle \in EnrichRun /\ Idle.cost = 0 /\ Idle.found = <<>>
    BY WaterfallTypes DEF Idle
  <2>2. new \in EnrichRun /\ new.cost = 0 /\ new.found = <<>> /\ new.template.cap \in Nat
    BY <1>1, <2>1 DEF EnrichRun, Template
  <2> HIDE DEF new
  <2> QED BY <2>2 DEF RunOK, AboutTheLead
<1>9. WaterfallInv'
  <2> HIDE DEF new
  <2> QED BY <1>3, <1>4, <1>5, <1>7, <1>8, RunMoves
<1>10. ASSUME HasVerdict(run.found), FindsOnlyMissing(run.template.steps)
       PROVE  vouched' = person'.email
  BY <1>1, <1>3, <1>4, <1>6, <1>10 DEF AboutTheLead
<1> QED BY <1>9, <1>10

\* The five edits of the template are edits to some steps and some budget.
LEMMA TemplateEditsKeep ==
  ASSUME WaterfallInv,
         \/ \E stage \in {"find", "verify"}, p \in EmailProviders :
              AddStep(stage, p) \/ \E i \in DOMAIN template.steps : UpdateStep(i, stage, p)
         \/ \E i \in DOMAIN template.steps : RemoveStep(i) \/ MoveDown(i)
         \/ \E cap \in Caps : UpdateMeta(cap)
  PROVE  WaterfallInv' /\ UNCHANGED runs
<1>1. /\ template.steps \in Seq(Steps) /\ template.cap \in Nat
      /\ person \in [email : Emailish, grade : {"none"} \union Grades]
  BY DEF WaterfallInv, WaterfallTypeOK
<1>2. ASSUME NEW steps \in Seq(Steps), NEW cap \in Nat, EditTemplate(steps, cap)
      PROVE  WaterfallInv' /\ UNCHANGED runs
  <2>1. template' \in Template
    BY <1>2 DEF EditTemplate, Template
  <2> QED BY <1>1, <1>2, <2>1, EditsKeep DEF EditTemplate
<1>3. ASSUME NEW stage \in {"find", "verify"}, NEW p \in EmailProviders, AddStep(stage, p)
      PROVE  WaterfallInv' /\ UNCHANGED runs
  <2> DEFINE step == [stage |-> stage, providers |-> <<p>>, whenMissing |-> FALSE,
                      untilValid |-> FALSE, accepts |-> Deliverability]
  <2>1. step \in Steps
    BY DEF Steps
  <2>2. EditTemplate(Append(template.steps, step), template.cap)
    BY <1>3 DEF AddStep
  <2> HIDE DEF step
  <2>3. Append(template.steps, step) \in Seq(Steps)
    BY <1>1, <2>1
  <2> QED BY <1>1, <1>2, <2>2, <2>3
<1>4. ASSUME NEW stage \in {"find", "verify"}, NEW p \in EmailProviders,
             NEW i \in DOMAIN template.steps, UpdateStep(i, stage, p)
      PROVE  WaterfallInv' /\ UNCHANGED runs
  <2> DEFINE steps == [template.steps EXCEPT ![i].stage = stage, ![i].providers = <<p>>]
             staged == [template.steps[i] EXCEPT !.stage = stage]
             step == [staged EXCEPT !.providers = <<p>>]
  <2>1. template.steps[i] \in Steps
    BY <1>1
  <2>2. staged \in Steps
    BY <2>1 DEF Steps
  <2>3. step \in Steps
    <3>1. <<p>> \in Seq(EmailProviders)
      OBVIOUS
    <3> HIDE DEF staged
    <3> QED BY <2>2, <3>1 DEF Steps
  <2>4. steps = [template.steps EXCEPT ![i] = step]
    BY <1>1
  <2>5. steps \in Seq(Steps)
    <3> HIDE DEF steps, step
    <3> QED BY <1>1, <2>3, <2>4
  <2>6. EditTemplate(steps, template.cap)
    BY <1>4 DEF UpdateStep
  <2> HIDE DEF steps
  <2> QED BY <1>1, <1>2, <2>5, <2>6
<1>5. ASSUME NEW i \in DOMAIN template.steps, RemoveStep(i)
      PROVE  WaterfallInv' /\ UNCHANGED runs
  <2> DEFINE steps == SubSeq(template.steps, 1, i - 1)
                      \o SubSeq(template.steps, i + 1, Len(template.steps))
  <2>1. i \in 1..Len(template.steps) /\ Len(template.steps) \in Nat
    BY <1>1
  <2>2. SubSeq(template.steps, 1, i - 1) \in Seq(Steps)
    BY <1>1, <2>1
  <2>3. SubSeq(template.steps, i + 1, Len(template.steps)) \in Seq(Steps)
    BY <1>1, <2>1
  <2>4. steps \in Seq(Steps)
    BY <2>2, <2>3
  <2>5. EditTemplate(steps, template.cap)
    BY <1>5 DEF RemoveStep
  <2> HIDE DEF steps
  <2> QED BY <1>1, <1>2, <2>4, <2>5
<1>6. ASSUME NEW i \in DOMAIN template.steps, MoveDown(i)
      PROVE  WaterfallInv' /\ UNCHANGED runs
  <2> DEFINE steps == [template.steps EXCEPT ![i] = template.steps[i + 1],
                                             ![i + 1] = template.steps[i]]
  <2>1. i \in 1..Len(template.steps) /\ i + 1 \in 1..Len(template.steps)
    BY <1>1, <1>6 DEF MoveDown
  <2>2. template.steps[i] \in Steps /\ template.steps[i + 1] \in Steps
    BY <1>1, <2>1
  <2>3. steps \in Seq(Steps)
    BY <1>1, <2>1, <2>2
  <2>4. EditTemplate(steps, template.cap)
    BY <1>6 DEF MoveDown
  <2> HIDE DEF steps
  <2> QED BY <1>1, <1>2, <2>3, <2>4
<1>7. ASSUME NEW cap \in Caps, UpdateMeta(cap)
      PROVE  WaterfallInv' /\ UNCHANGED runs
  <2>1. cap \in Nat
    BY WaterfallAssumption
  <2> QED BY <1>1, <1>2, <1>7, <2>1 DEF UpdateMeta
<1> QED BY <1>3, <1>4, <1>5, <1>6, <1>7

LEMMA EditEmailKeeps ==
  ASSUME WaterfallInv, NEW email \in Emailish, EditEmail(email)
  PROVE  WaterfallInv' /\ UNCHANGED runs
<1>1. person' \in [email : Emailish, grade : {"none"} \union Grades]
  BY DEF EditEmail, WaterfallInv, WaterfallTypeOK
<1>2. template' \in Template
  BY DEF EditEmail, WaterfallInv
<1> QED BY <1>1, <1>2, EditsKeep DEF EditEmail

GradeStep(r) ==
  (runs[r].at = "asking" /\ runs'[r].at = "written" /\ HasVerdict(runs[r].found)
     /\ FindsOnlyMissing(runs[r].template.steps)) => vouched' = person'.email

LEMMA WaterfallStep ==
  ASSUME WaterfallInv, [WaterfallNext]_waterfallVars
  PROVE  WaterfallInv' /\ \A r \in WaterfallRuns : GradeStep(r)
<1>1. runs \in [WaterfallRuns -> EnrichRun]
  BY DEF WaterfallInv
<1>2. ASSUME NEW r \in WaterfallRuns, StartRun(r) \/ LoseRun(r)
      PROVE  WaterfallInv' /\ \A s \in WaterfallRuns : GradeStep(s)
  <2>1. \A s \in WaterfallRuns : runs'[s].at = "written" => runs[s].at = "written"
    BY <1>1, <1>2 DEF StartRun, LoseRun, Idle
  <2> QED BY <1>2, <2>1, StartRunKeeps, LoseRunKeeps DEF GradeStep
<1>3. ASSUME NEW r \in WaterfallRuns, WriteResults(r)
      PROVE  WaterfallInv' /\ \A s \in WaterfallRuns : GradeStep(s)
  <2>1. \A s \in WaterfallRuns \ {r} : runs'[s] = runs[s]
    BY <1>1, <1>3 DEF WriteResults
  <2>2. \A s \in WaterfallRuns \ {r} : GradeStep(s)
    BY <2>1 DEF GradeStep
  <2>3. GradeStep(r)
    BY <1>3, WriteResultsKeeps DEF GradeStep
  <2> QED BY <1>3, <2>2, <2>3, WriteResultsKeeps
<1>4. ASSUME NEW r \in WaterfallRuns, NEW plan,
             \/ AskInVain(r, plan)
             \/ \E email \in Emailish : Find(r, plan, email)
             \/ \E status \in Deliverability, confidence \in 1..2 : Verify(r, plan, status, confidence)
      PROVE  WaterfallInv' /\ \A s \in WaterfallRuns : GradeStep(s)
  <2>1. WaterfallInv'
    BY <1>4, AskKeeps
  <2>2. \A s \in WaterfallRuns : runs'[s].at = runs[s].at
    <3>1. runs[r].at = "asking" /\ Asked(r, plan).at = "asking" /\ Dispatched(runs[r], plan)
      BY <1>4, AskedIsOK DEF AskInVain, Find, Verify
    <3>2. ASSUME NEW lead, NEW verdict PROVE Accepted(Asked(r, plan), lead, verdict).at = "asking"
      <4>1. Asked(r, plan) \in EnrichRun
        BY <3>1, AskedIsOK DEF RunOK
      <4>2. "at" \in DOMAIN Asked(r, plan)
        BY <4>1 DEF EnrichRun
      <4> QED BY <3>1, <4>2 DEF Accepted
    <3>3. CASE AskInVain(r, plan)
      BY <1>1, <3>1, <3>3 DEF AskInVain
    <3>4. CASE \E email \in Emailish : Find(r, plan, email)
      BY <1>1, <3>1, <3>2, <3>4 DEF Find
    <3>5. CASE \E status \in Deliverability, confidence \in 1..2 : Verify(r, plan, status, confidence)
      BY <1>1, <3>1, <3>2, <3>5 DEF Verify
    <3> QED BY <1>4, <3>3, <3>4, <3>5
  <2> QED BY <2>1, <2>2 DEF GradeStep
<1>5. CASE \E email \in Emailish : EditEmail(email)
  <2>1. WaterfallInv' /\ UNCHANGED runs
    BY <1>5, EditEmailKeeps
  <2> QED BY <2>1 DEF GradeStep
<1>6. CASE \/ \E stage \in {"find", "verify"}, p \in EmailProviders :
                AddStep(stage, p) \/ \E i \in DOMAIN template.steps : UpdateStep(i, stage, p)
           \/ \E i \in DOMAIN template.steps : RemoveStep(i) \/ MoveDown(i)
           \/ \E cap \in Caps : UpdateMeta(cap)
  <2>1. WaterfallInv' /\ UNCHANGED runs
    BY <1>6, TemplateEditsKeep
  <2> QED BY <2>1 DEF GradeStep
<1>7. CASE UNCHANGED waterfallVars
  <2>1. WaterfallInv' /\ UNCHANGED runs
    BY <1>7 DEF waterfallVars, WaterfallInv, WaterfallTypeOK, AboutTheLead, FindsOnlyMissing
  <2> QED BY <2>1 DEF GradeStep
<1> QED BY <1>2, <1>3, <1>4, <1>5, <1>6, <1>7 DEF WaterfallNext

\* Whatever the contact, the templates and the providers' answers, the rows
\* of a run are typed and no run estimates more for the lead than the budget
\* it began with (waterfall-engine.ts counts the cost before each call).
THEOREM WaterfallTypeCorrect == WaterfallSpec => []WaterfallTypeOK
<1>1. WaterfallInv /\ [WaterfallNext]_waterfallVars => WaterfallInv'
  BY WaterfallStep
<1>2. WaterfallInv => WaterfallTypeOK
  BY DEF WaterfallInv
<1> QED BY <1>1, <1>2, WaterfallInitInv, PTL DEF WaterfallSpec

\* A run that has a verdict, of a template that looks only for a missing
\* address, leaves the contact with the address the verdict was about, however
\* it interleaves with edits and other runs (waterfall-runner.ts writes after
\* its calls).
THEOREM GradeIsOfTheAddressHolds == WaterfallSpec => GradeIsOfTheAddress
<1>1. WaterfallInv /\ [WaterfallNext]_waterfallVars => WaterfallInv'
  BY WaterfallStep
<1>2. WaterfallInv /\ [WaterfallNext]_waterfallVars =>
        [\A r \in WaterfallRuns :
          (runs[r].at = "asking" /\ runs'[r].at = "written" /\ HasVerdict(runs[r].found)
             /\ FindsOnlyMissing(runs[r].template.steps)) => vouched' = person'.email]_waterfallVars
  BY WaterfallStep DEF GradeStep
<1> QED BY <1>1, <1>2, WaterfallInitInv, PTL DEF WaterfallSpec, GradeIsOfTheAddress

-----------------------------------------------------------------------------
\* What a run has paid: the price of each ask, summed up ask by ask.

LEMMA PricesAdded ==
  ASSUME NEW S, IsFiniteSet(S), NEW f, NEW sum, Adds(sum, f, S), \A k \in S : f[k] = Price[k[2]]
  PROVE  PaidFor(S) = sum[S]
<1> DEFINE IsTaken(g) == g = [s \in SUBSET S |-> IF s = {} THEN 0
               ELSE Price[(CHOOSE x \in s : TRUE)[2]] + g[s \ {CHOOSE x \in s : TRUE}]]
           taken == CHOOSE g : IsTaken(g)
<1>1. PaidFor(S) = taken[S]
  BY DEF PaidFor, MapThenSumSet, MapThenFoldSet
<1>2. \A s \in SUBSET S : s # {} => f[CHOOSE x \in s : TRUE] = Price[(CHOOSE x \in s : TRUE)[2]]
  OBVIOUS
<1>3. ASSUME NEW g PROVE TakesOneByOne(g, f, S) <=> IsTaken(g)
  <2>1. [s \in SUBSET S |-> IF s = {} THEN 0
           ELSE f[CHOOSE x \in s : TRUE] + g[s \ {CHOOSE x \in s : TRUE}]]
        = [s \in SUBSET S |-> IF s = {} THEN 0
           ELSE Price[(CHOOSE x \in s : TRUE)[2]] + g[s \ {CHOOSE x \in s : TRUE}]]
    BY <1>2
  <2> QED BY <2>1 DEF TakesOneByOne
<1> HIDE DEF IsTaken
<1>4. IsTaken(taken)
  <2>1. IsTaken(sum)
    BY <1>3, SumTakesOneByOne
  <2> QED BY <2>1
<1> HIDE DEF taken
<1>5. taken[S] = sum[S]
  BY <1>3, <1>4, OneByOneIsTheSum
<1> QED BY <1>1, <1>5

\* Nothing asked is nothing paid, and one more ask adds its price.
LEMMA AskAddsItsPrice ==
  ASSUME NEW asks \in SUBSET AskedPairs, IsFiniteSet(asks), NEW ask \in AskedPairs, ask \notin asks
  PROVE  /\ IsFiniteSet(asks \union {ask})
         /\ PaidFor(asks \union {ask}) = PaidFor(asks) + Price[ask[2]]
<1> DEFINE more == asks \union {ask}
           price == [k \in more |-> Price[k[2]]]
<1>1. IsFiniteSet(more) /\ asks \in SUBSET more /\ ask \in more
  BY FS_AddElement
<1>2. \A k \in more : k[2] \in EmailProviders
  BY DEF AskedPairs
<1>3. price \in [more -> Int] /\ price[ask] = Price[ask[2]] /\ \A k \in more : price[k] = Price[k[2]]
  BY <1>1, <1>2, WaterfallTypes
<1> HIDE DEF more, price
<1>4. PICK sum : Adds(sum, price, more)
  BY <1>1, <1>3, SumsExist
<1> DEFINE less == [s \in SUBSET asks |-> sum[s]]
<1>5. Adds(less, price, asks) /\ less[asks] = sum[asks]
  BY <1>1, <1>4, SumNarrowed
<1>6. sum[asks \union {ask}] = price[ask] + sum[asks] /\ sum[asks] \in Int /\ price[ask] \in Int
  BY <1>1, <1>3, <1>4 DEF Adds
<1> HIDE DEF less
<1>7. PaidFor(more) = sum[more]
  BY <1>1, <1>3, <1>4, PricesAdded
<1>8. PaidFor(asks) = sum[asks]
  <2>1. \A k \in asks : price[k] = Price[k[2]]
    BY <1>1, <1>3
  <2> QED BY <1>5, <2>1, PricesAdded
<1> QED BY <1>1, <1>3, <1>6, <1>7, <1>8 DEF more

LEMMA NothingAskedNothingPaid == IsFiniteSet({}) /\ PaidFor({}) = 0
<1> DEFINE price == [k \in {} |-> 0]
<1>1. IsFiniteSet({}) /\ price \in [{} -> Int]
  BY FS_EmptySet
<1>2. \A k \in {} : price[k] = Price[k[2]]
  OBVIOUS
<1> HIDE DEF price
<1>3. PICK sum : Adds(sum, price, {})
  BY <1>1, SumsExist
<1>4. PaidFor({}) = sum[{}]
  BY <1>1, <1>2, <1>3, PricesAdded
<1> QED BY <1>1, <1>3, <1>4 DEF Adds

PaysFor(run) == IsFiniteSet(run.attempted) /\ run.cost = PaidFor(run.attempted)

\* A step of a run asks nobody, asks one whom it did not ask at this step
\* of the template and pays, or ends the run.
AsksOnce(old, new) ==
  \/ new.attempted = old.attempted /\ new.cost = old.cost
  \/ new.attempted = {} /\ new.cost = 0
  \/ \E ask \in AskedPairs \ old.attempted :
       new.attempted = old.attempted \union {ask} /\ new.cost = old.cost + Price[ask[2]]

LEMMA AskedAsksOnce ==
  ASSUME WaterfallInv, NEW r \in WaterfallRuns, NEW plan, Dispatched(runs[r], plan)
  PROVE  AsksOnce(runs[r], Asked(r, plan))
<1> DEFINE run == runs[r]
           p == run.template.steps[plan[1]].providers[plan[2]]
<1>1. run \in EnrichRun
  BY RunsAreOK DEF RunOK
<1>2. <<plan[1], p>> \in AskedPairs
  BY <1>1, PlansFit
<1>3. <<plan[1], p>> \notin run.attempted
  BY DEF Dispatched, Plans
<1>4. Asked(r, plan).attempted = run.attempted \union {<<plan[1], p>>}
      /\ Asked(r, plan).cost = run.cost + Price[p]
  BY <1>1 DEF Asked, EnrichRun
<1> HIDE DEF p
<1>5. <<plan[1], p>>[2] = p
  OBVIOUS
<1> QED BY <1>2, <1>3, <1>4, <1>5 DEF AsksOnce

LEMMA RunsAskOnce ==
  ASSUME WaterfallInv, [WaterfallNext]_waterfallVars, NEW s \in WaterfallRuns
  PROVE  AsksOnce(runs[s], runs'[s])
<1>1. runs \in [WaterfallRuns -> EnrichRun]
  BY DEF WaterfallInv
<1>2. CASE UNCHANGED runs
  BY <1>2 DEF AsksOnce
<1>3. ASSUME NEW r \in WaterfallRuns, StartRun(r) \/ LoseRun(r) \/ WriteResults(r)
      PROVE  AsksOnce(runs[s], runs'[s])
  <2>1. s # r => runs'[s] = runs[s]
    BY <1>1, <1>3 DEF StartRun, LoseRun, WriteResults
  <2>2. runs'[r].attempted = {} /\ runs'[r].cost = 0
    BY <1>1, <1>3 DEF StartRun, LoseRun, WriteResults, Idle
  <2> QED BY <2>1, <2>2 DEF AsksOnce
<1>4. ASSUME NEW r \in WaterfallRuns, NEW plan,
             \/ AskInVain(r, plan)
             \/ \E email \in Emailish : Find(r, plan, email)
             \/ \E status \in Deliverability, confidence \in 1..2 : Verify(r, plan, status, confidence)
      PROVE  AsksOnce(runs[s], runs'[s])
  <2>1. Dispatched(runs[r], plan)
    BY <1>4 DEF AskInVain, Find, Verify
  <2>2. Asked(r, plan) \in EnrichRun /\ AsksOnce(runs[r], Asked(r, plan))
    BY <2>1, AskedIsOK, AskedAsksOnce DEF RunOK
  <2>3. ASSUME NEW lead, NEW verdict
        PROVE  /\ Accepted(Asked(r, plan), lead, verdict).attempted = Asked(r, plan).attempted
               /\ Accepted(Asked(r, plan), lead, verdict).cost = Asked(r, plan).cost
    BY <2>2 DEF Accepted, EnrichRun
  <2>4. /\ runs'[r].attempted = Asked(r, plan).attempted /\ runs'[r].cost = Asked(r, plan).cost
        /\ s # r => runs'[s] = runs[s]
    <3>1. CASE AskInVain(r, plan)
      BY <1>1, <3>1 DEF AskInVain
    <3>2. CASE \E email \in Emailish : Find(r, plan, email)
      BY <1>1, <2>3, <3>2 DEF Find
    <3>3. CASE \E status \in Deliverability, confidence \in 1..2 : Verify(r, plan, status, confidence)
      BY <1>1, <2>3, <3>3 DEF Verify
    <3> QED BY <1>4, <3>1, <3>2, <3>3
  <2>5. CASE s = r
    BY <2>2, <2>4, <2>5 DEF AsksOnce
  <2>6. CASE s # r
    BY <2>4, <2>6 DEF AsksOnce
  <2> QED BY <2>5, <2>6
<1>5. CASE \E email \in Emailish : EditEmail(email)
  BY <1>2, <1>5, EditEmailKeeps
<1>6. CASE \/ \E stage \in {"find", "verify"}, p \in EmailProviders :
                AddStep(stage, p) \/ \E i \in DOMAIN template.steps : UpdateStep(i, stage, p)
           \/ \E i \in DOMAIN template.steps : RemoveStep(i) \/ MoveDown(i)
           \/ \E cap \in Caps : UpdateMeta(cap)
  BY <1>2, <1>6, TemplateEditsKeep
<1>7. CASE UNCHANGED waterfallVars
  BY <1>2, <1>7 DEF waterfallVars
<1> QED BY <1>3, <1>4, <1>5, <1>6, <1>7 DEF WaterfallNext

\* For any templates, prices, edits and answers: a run has paid for each
\* provider it asked, once per step of its template, and all of that
\* together stays within the budget per lead it began with.
THEOREM WithinBudgetHolds == WaterfallSpec => []WithinBudget
<1> DEFINE Paid == \A r \in WaterfallRuns : PaysFor(runs[r])
<1>1. WaterfallInit => Paid
  <2>1. PaysFor(Idle)
    <3>1. Idle.attempted = {} /\ Idle.cost = 0
      BY DEF Idle
    <3> QED BY <3>1, NothingAskedNothingPaid DEF PaysFor
  <2> QED BY <2>1 DEF WaterfallInit
<1>2. WaterfallInv /\ [WaterfallNext]_waterfallVars => WaterfallInv'
  BY WaterfallStep
<1>3. WaterfallInv /\ Paid /\ [WaterfallNext]_waterfallVars => Paid'
  <2> SUFFICES ASSUME WaterfallInv, Paid, [WaterfallNext]_waterfallVars, NEW s \in WaterfallRuns
               PROVE  PaysFor(runs'[s])
    BY DEF PaysFor
  <2>1. AsksOnce(runs[s], runs'[s]) /\ PaysFor(runs[s]) /\ runs[s].attempted \in SUBSET AskedPairs
    BY RunsAskOnce, RunsAreOK DEF RunOK, EnrichRun
  <2>2. CASE runs'[s].attempted = runs[s].attempted /\ runs'[s].cost = runs[s].cost
    BY <2>1, <2>2 DEF PaysFor
  <2>3. CASE runs'[s].attempted = {} /\ runs'[s].cost = 0
    BY <2>3, NothingAskedNothingPaid DEF PaysFor
  <2>4. ASSUME NEW ask \in AskedPairs, ask \notin runs[s].attempted,
               runs'[s].attempted = runs[s].attempted \union {ask},
               runs'[s].cost = runs[s].cost + Price[ask[2]]
        PROVE  PaysFor(runs'[s])
    BY <2>1, <2>4, AskAddsItsPrice DEF PaysFor
  <2> QED BY <2>1, <2>2, <2>3, <2>4 DEF AsksOnce
<1>4. WaterfallInv /\ Paid => WithinBudget
  BY RunsAreOK DEF PaysFor, RunOK, WithinBudget
<1> QED BY <1>1, <1>2, <1>3, <1>4, WaterfallInitInv, PTL DEF WaterfallSpec

-----------------------------------------------------------------------------
\* Softphone.  As long as no abandoned start has come back to life, one start
\* at most is under way, only the session of the engine is heard, and what
\* the engine knows of it is true of it.

Alive(n) == phoneCalls[n].state \in {"init", "ringing", "answered"}

CallInOrder(n) ==
  /\ phoneCalls[n].heard <=> n = engine.session
  /\ n = engine.session => Alive(n) /\ ~phoneCalls[n].doomed
  /\ Alive(n) => n = engine.session \/ phoneCalls[n].doomed
  /\ phoneCalls[n].state \in {"none", "init", "ringing"} => ~phoneCalls[n].talked
  /\ n = engine.session => (engine.wasConnected <=> phoneCalls[n].talked)
  /\ phoneCalls[n].voicemail /\ n # engine.session => engine.ended
  /\ phoneCalls[n].state = "none" => ~phoneCalls[n].doomed /\ ~phoneCalls[n].voicemail

\* A call that is on has no log yet, and an old callback has no contact to log
\* it on; one that is over has the log it deserves.
Unlogged(n) == phoneCalls[n].inbound \/ phoneCalls[n].party = Stranger
LogInOrder(n) ==
  /\ phoneCalls[n].state = "none" \/ n = engine.session => callLogs[n] = <<>>
  /\ n = engine.session =>
       /\ phoneCalls[n].inbound => engine.contact = Stranger
       /\ ~phoneCalls[n].inbound =>
            engine.contact = phoneCalls[n].party \/ (n \in retargeted /\ engine.contact # Stranger)
       /\ engine.contact = Stranger => phoneCalls[n].drawn = Stranger
  /\ n # engine.session /\ phoneCalls[n].state # "none" =>
       \/ callLogs[n] = <<>> /\ Unlogged(n)
       \/ \E log \in Log : /\ callLogs[n] = <<log>>
                           /\ (log.outcome = "completed") <=> phoneCalls[n].talked
                           /\ log.contact = phoneCalls[n].party \/ n \in retargeted

Starting(i) == dials[i].at = "asking"
DialInOrder(i) ==
  /\ Starting(i) /\ ~engine.ended /\ engine.mounted =>
       /\ engine.status = "connecting" /\ ~ringOut
       /\ engine.contact = Stranger => dials[i].to = Stranger
  /\ dials[i].at # "done" /\ ~engine.ended /\ engine.contact = Stranger => dials[i].drawn = Stranger
  /\ dials[i].at = "inviting" => engine.ended \/ engine.session = dials[i].call
  /\ dials[i].at = "inviting" => dials[i].call \in CallIds
  /\ \A j \in DOMAIN dials : dials[i].at # "done" /\ dials[j].at # "done" => i = j

ScreenInOrder ==
  /\ engine.session # NoCall =>
       engine.mounted /\ ~engine.ended /\ engine.status \in {"ringing", "in-call"}
  /\ engine.mounted /\ engine.status = "in-call" =>
       IF engine.session = NoCall THEN retargeted # {}
       ELSE phoneCalls[engine.session].state = "answered"
  /\ engine.mounted /\ ringOut => engine.status = "connecting"
  /\ engine.timer => engine.mounted /\ ~engine.ended /\ \E i \in DOMAIN dials : Starting(i)

Calm ==
  /\ \A n \in CallIds : CallInOrder(n) /\ LogInOrder(n)
  /\ \A i \in DOMAIN dials : DialInOrder(i)
  /\ ScreenInOrder

PhoneInv == PhoneTypeOK /\ (revived \/ Calm)

Statuses == {"idle", "connecting", "ringing", "in-call", "ended", "error", "ringout-done"}
Dial == [at : {"asking", "inviting", "done"}, to : Targets, drawn : Targets,
         call : CallIds \union {NoCall}]

LEMMA NoCallIsNone == NoCall \notin CallIds
BY PhoneAssumption DEF CallIds

LEMMA PhoneTypes ==
  ASSUME PhoneTypeOK
  PROVE  /\ phoneCalls \in [CallIds -> Session] /\ dials \in Seq(Dial) /\ engine \in Engine
         /\ callLogs \in [CallIds -> Seq(Log)] /\ ringOut \in BOOLEAN /\ revived \in BOOLEAN
         /\ engine.session \in CallIds \union {NoCall} /\ engine.status \in Statuses
         /\ engine.contact \in Targets
         /\ engine.ended \in BOOLEAN /\ engine.wasConnected \in BOOLEAN
         /\ engine.mounted \in BOOLEAN /\ engine.timer \in BOOLEAN
         /\ \A n \in CallIds : phoneCalls[n] \in Session
         /\ \A i \in DOMAIN dials : dials[i] \in Dial
<1>1. phoneCalls \in [CallIds -> Session] /\ dials \in Seq(Dial) /\ engine \in Engine
      /\ callLogs \in [CallIds -> Seq(Log)] /\ ringOut \in BOOLEAN /\ revived \in BOOLEAN
  BY DEF PhoneTypeOK, Dial
<1>2. \A i \in DOMAIN dials : dials[i] \in Dial
  BY <1>1
<1>3. /\ engine.session \in CallIds \union {NoCall} /\ engine.status \in Statuses
      /\ engine.contact \in Targets
      /\ engine.ended \in BOOLEAN /\ engine.wasConnected \in BOOLEAN
      /\ engine.mounted \in BOOLEAN /\ engine.timer \in BOOLEAN
  BY <1>1 DEF Engine, Statuses
<1> QED BY <1>1, <1>2, <1>3

LEMMA QuietEngine ==
  ASSUME NEW e \in Engine
  PROVE  /\ Quiet(e) \in Engine /\ ~Quiet(e).timer
         /\ Quiet(e).session = e.session /\ Quiet(e).status = e.status
         /\ Quiet(e).ended = e.ended /\ Quiet(e).wasConnected = e.wasConnected
         /\ Quiet(e).contact = e.contact /\ Quiet(e).mounted = e.mounted
BY DEF Quiet, Engine

\* A row of a call that has been hung up, or not touched.
HungUp(new, old) ==
  new = old \/ /\ new.state = "over" /\ old.state # "none" /\ ~new.doomed
               /\ new.heard => old.heard
               /\ new.voicemail => old.voicemail
               /\ new.talked = old.talked /\ new.inbound = old.inbound /\ new.party = old.party

LEMMA OverRow ==
  ASSUME NEW cs \in [CallIds -> Session], NEW n \in CallIds
  PROVE  /\ Over(cs, n) \in [CallIds -> Session]
         /\ \A m \in CallIds \ {n} : Over(cs, n)[m] = cs[m]
         /\ Over(cs, n)[n].state = "over" /\ ~Over(cs, n)[n].heard /\ ~Over(cs, n)[n].doomed
         /\ ~Over(cs, n)[n].voicemail /\ Over(cs, n)[n].talked = cs[n].talked
         /\ Over(cs, n)[n].inbound = cs[n].inbound /\ Over(cs, n)[n].party = cs[n].party
         /\ Over(cs, n)[n].drawn = cs[n].drawn
<1> DEFINE row == [cs[n] EXCEPT !.state = "over", !.heard = FALSE, !.doomed = FALSE,
                                !.voicemail = FALSE]
<1>1. cs[n] \in Session
  OBVIOUS
<1>2. /\ row \in Session /\ row.state = "over" /\ ~row.heard /\ ~row.doomed /\ ~row.voicemail
      /\ row.talked = cs[n].talked /\ row.inbound = cs[n].inbound /\ row.party = cs[n].party
      /\ row.drawn = cs[n].drawn
  BY <1>1 DEF Session
<1>3. Over(cs, n) = [cs EXCEPT ![n] = row]
  BY DEF Over
<1> HIDE DEF row
<1> QED BY <1>2, <1>3

LEMMA CleanupRow ==
  ASSUME NEW cs \in [CallIds -> Session], NEW n \in CallIds
  PROVE  /\ CleanupSession(cs, n) \in [CallIds -> Session]
         /\ \A m \in CallIds \ {n} : CleanupSession(cs, n)[m] = cs[m]
         /\ ~CleanupSession(cs, n)[n].heard
         /\ CleanupSession(cs, n)[n].talked = cs[n].talked
         /\ CleanupSession(cs, n)[n].voicemail = cs[n].voicemail
         /\ CleanupSession(cs, n)[n].inbound = cs[n].inbound
         /\ CleanupSession(cs, n)[n].party = cs[n].party
         /\ IF cs[n].state \in {"init", "ringing"}
            THEN CleanupSession(cs, n)[n].state = cs[n].state /\ CleanupSession(cs, n)[n].doomed
            ELSE CleanupSession(cs, n)[n].state = "over"
<1> DEFINE kept == [cs[n] EXCEPT !.heard = FALSE, !.doomed = TRUE]
           gone == [cs[n] EXCEPT !.heard = FALSE, !.state = "over"]
<1>1. cs[n] \in Session /\ n # NoCall
  BY NoCallIsNone
<1>2. /\ kept \in Session /\ kept.doomed /\ ~kept.heard /\ kept.state = cs[n].state
      /\ kept.talked = cs[n].talked /\ kept.inbound = cs[n].inbound /\ kept.party = cs[n].party
      /\ kept.voicemail = cs[n].voicemail
  BY <1>1 DEF Session
<1>3. /\ gone \in Session /\ ~gone.heard /\ gone.state = "over"
      /\ gone.talked = cs[n].talked /\ gone.inbound = cs[n].inbound /\ gone.party = cs[n].party
      /\ gone.voicemail = cs[n].voicemail
  BY <1>1 DEF Session
<1>4. CleanupSession(cs, n) = IF cs[n].state \in {"init", "ringing"}
                              THEN [cs EXCEPT ![n] = kept] ELSE [cs EXCEPT ![n] = gone]
  BY <1>1 DEF CleanupSession
<1> HIDE DEF kept, gone
<1> QED BY <1>2, <1>3, <1>4

LEMMA CleanupType ==
  ASSUME NEW cs \in [CallIds -> Session], NEW n \in CallIds \union {NoCall}
  PROVE  CleanupSession(cs, n) \in [CallIds -> Session]
<1>1. CASE n \in CallIds
  BY <1>1, CleanupRow
<1>2. CASE n = NoCall
  BY <1>2 DEF CleanupSession
<1> QED BY <1>1, <1>2

About(e, drawn) == IF e.contact = Stranger THEN drawn ELSE e.contact
NewLog(e, final, drawn) ==
  [contact |-> About(e, drawn),
   outcome |-> IF e.wasConnected THEN "completed"
               ELSE IF final = "error" THEN "failed" ELSE "no-answer"]

LEMMA LogCallIs ==
  ASSUME PhoneTypeOK, NEW e \in Engine, NEW final, NEW drawn \in Targets
  PROVE  \/ /\ About(e, drawn) = Stranger \/ e.session = NoCall
            /\ LogCall(e, final, drawn) = callLogs
         \/ /\ About(e, drawn) \in Callees /\ e.session \in CallIds
            /\ NewLog(e, final, drawn) \in Log
            /\ NewLog(e, final, drawn).contact = About(e, drawn)
            /\ (NewLog(e, final, drawn).outcome = "completed") <=> e.wasConnected
            /\ LogCall(e, final, drawn) =
                 [callLogs EXCEPT ![e.session] = Append(callLogs[e.session], NewLog(e, final, drawn))]
<1>1. callLogs \in [CallIds -> Seq(Log)]
  BY PhoneTypes
<1>2. e.contact \in Targets /\ e.session \in CallIds \union {NoCall} /\ e.wasConnected \in BOOLEAN
  BY DEF Engine
<1>3. CASE About(e, drawn) = Stranger \/ e.session = NoCall
  BY <1>3 DEF LogCall, About
<1>4. CASE ~(About(e, drawn) = Stranger \/ e.session = NoCall)
  <2>1. About(e, drawn) \in Callees /\ e.session \in CallIds
    BY <1>2, <1>4 DEF About, Targets
  <2>2. /\ NewLog(e, final, drawn) \in Log
        /\ NewLog(e, final, drawn).contact = About(e, drawn)
        /\ (NewLog(e, final, drawn).outcome = "completed") <=> e.wasConnected
    BY <1>2, <2>1 DEF NewLog, Log
  <2>3. LogCall(e, final, drawn) =
          [callLogs EXCEPT ![e.session] = Append(callLogs[e.session], NewLog(e, final, drawn))]
    BY <1>1, <1>4 DEF LogCall, About, NewLog
  <2> QED BY <2>1, <2>2, <2>3
<1> QED BY <1>3, <1>4

LEMMA LogCallType ==
  ASSUME PhoneTypeOK, NEW e \in Engine, NEW final, NEW drawn \in Targets
  PROVE  LogCall(e, final, drawn) \in [CallIds -> Seq(Log)]
<1>1. callLogs \in [CallIds -> Seq(Log)]
  BY PhoneTypes
<1>2. ASSUME NEW log \in Log, e.session \in CallIds
      PROVE  [callLogs EXCEPT ![e.session] = Append(callLogs[e.session], log)] \in [CallIds -> Seq(Log)]
  <2>1. Append(callLogs[e.session], log) \in Seq(Log)
    BY <1>1, <1>2
  <2> QED BY <1>1, <1>2, <2>1
<1> DEFINE log == NewLog(e, final, drawn)
<1>3. \/ LogCall(e, final, drawn) = callLogs
      \/ /\ e.session \in CallIds /\ log \in Log
         /\ LogCall(e, final, drawn) = [callLogs EXCEPT ![e.session] = Append(callLogs[e.session], log)]
  BY LogCallIs
<1> HIDE DEF log
<1> QED BY <1>1, <1>2, <1>3

\* A session that ends leaves the engine without one.
LEMMA FinalizeTypes ==
  ASSUME PhoneTypeOK, NEW e \in Engine, NEW cs \in [CallIds -> Session], NEW final,
         NEW status \in Statuses, NEW drawn \in Targets, Finalize(e, cs, final, status, drawn)
  PROVE  /\ engine' \in Engine /\ engine'.session = NoCall /\ engine'.ended /\ ~engine'.timer
         /\ engine'.status = status /\ engine'.mounted = e.mounted /\ engine'.contact = e.contact
         /\ phoneCalls' \in [CallIds -> Session] /\ callLogs' \in [CallIds -> Seq(Log)]
<1> DEFINE q == Quiet(e)
<1>1. q \in Engine /\ ~q.timer /\ q.mounted = e.mounted /\ q.contact = e.contact
  BY QuietEngine
<1>2. engine' = [q EXCEPT !.ended = TRUE, !.session = NoCall, !.status = status]
  BY DEF Finalize
<1>3. e.session \in CallIds \union {NoCall}
  BY DEF Engine
<1> HIDE DEF q
<1>4. /\ engine' \in Engine /\ engine'.session = NoCall /\ engine'.ended /\ ~engine'.timer
      /\ engine'.status = status /\ engine'.mounted = e.mounted /\ engine'.contact = e.contact
  BY <1>1, <1>2 DEF Engine, Statuses
<1> QED BY <1>3, <1>4, CleanupType, LogCallType DEF Finalize

LEMMA EndCallTypes ==
  ASSUME PhoneTypeOK, NEW e \in Engine, NEW cs \in [CallIds -> Session],
         NEW final \in {"ended", "error"}, NEW drawn \in Targets, EndCall(e, cs, final, drawn)
  PROVE  /\ engine' \in Engine /\ phoneCalls' \in [CallIds -> Session]
         /\ callLogs' \in [CallIds -> Seq(Log)]
<1>1. final \in Statuses
  BY DEF Statuses
<1>2. CASE e.ended
  BY <1>2, PhoneTypes DEF EndCall
<1>3. CASE ~e.ended
  BY <1>1, <1>3, FinalizeTypes DEF EndCall
<1> QED BY <1>2, <1>3

LEMMA TearDownTypes ==
  ASSUME PhoneTypeOK, NEW e \in Engine, NEW cs \in [CallIds -> Session],
         TearDown(e, cs) \/ Rendered(e, cs)
  PROVE  /\ engine' \in Engine /\ phoneCalls' \in [CallIds -> Session]
         /\ callLogs' \in [CallIds -> Seq(Log)]
<1>1. /\ callLogs \in [CallIds -> Seq(Log)] /\ engine.contact \in Targets
      /\ e.session \in CallIds \union {NoCall} /\ e.status \in Statuses
  BY PhoneTypes DEF Engine, Statuses
<1>2. CASE engine' = e /\ phoneCalls' = cs /\ UNCHANGED callLogs
  BY <1>1, <1>2
<1>3. CASE TearDown(e, cs)
  <2>1. CASE e.session # NoCall /\ ~e.ended
    BY <1>1, <1>3, <2>1, FinalizeTypes DEF TearDown
  <2>2. CASE ~(e.session # NoCall /\ ~e.ended)
    <3>1. engine' = [e EXCEPT !.timer = FALSE, !.session = NoCall]
          /\ phoneCalls' = CleanupSession(cs, e.session) /\ UNCHANGED callLogs
      BY <1>3, <2>2 DEF TearDown
    <3> QED BY <1>1, <3>1, CleanupType DEF Engine
  <2> QED BY <2>1, <2>2
<1> QED BY <1>2, <1>3 DEF Rendered

LEMMA SettledDials ==
  ASSUME PhoneTypeOK, NEW i \in DOMAIN dials, Settled(i)
  PROVE  /\ dials' \in Seq(Dial) /\ DOMAIN dials' = DOMAIN dials
         /\ dials'[i].at = "done" /\ \A j \in DOMAIN dials \ {i} : dials'[j] = dials[j]
<1> DEFINE done == [at |-> "done", to |-> Stranger, drawn |-> Stranger, call |-> NoCall]
<1>1. done \in Dial /\ done.at = "done"
  BY DEF Dial, Targets
<1>2. dials' = [dials EXCEPT ![i] = done]
  BY DEF Settled
<1>3. dials \in Seq(Dial)
  BY PhoneTypes
<1> HIDE DEF done
<1> QED BY <1>1, <1>2, <1>3

\* Starts that go on, or are done.
DialsSettle == DOMAIN dials' = DOMAIN dials
               /\ \A i \in DOMAIN dials : dials'[i] = dials[i] \/ dials'[i].at = "done"

\* An engine that differs from the one that is running by flags.
SameSession(e) ==
  e \in Engine /\ e.session = engine.session /\ e.wasConnected = engine.wasConnected
SameCall(e) == SameSession(e) /\ e.contact = engine.contact /\ e.ended = engine.ended

\* What the log of the call that is on would say of it, or why there is none.
Explained(e, drawn) ==
  \A n \in CallIds : n = engine.session =>
    IF About(e, drawn) = Stranger THEN Unlogged(n)
    ELSE About(e, drawn) = phoneCalls[n].party \/ n \in retargeted'

LEMMA LogCallRows ==
  ASSUME PhoneTypeOK, Calm, NEW e, SameSession(e), NEW drawn \in Targets, Explained(e, drawn),
         NEW final, NEW n \in CallIds
  PROVE  /\ n # engine.session => LogCall(e, final, drawn)[n] = callLogs[n]
         /\ n = engine.session =>
              \/ LogCall(e, final, drawn)[n] = <<>> /\ Unlogged(n)
              \/ \E log \in Log : /\ LogCall(e, final, drawn)[n] = <<log>>
                                  /\ (log.outcome = "completed") <=> phoneCalls[n].talked
                                  /\ log.contact = phoneCalls[n].party \/ n \in retargeted'
<1> DEFINE log == NewLog(e, final, drawn)
<1>1. callLogs \in [CallIds -> Seq(Log)] /\ n # NoCall
  BY PhoneTypes, NoCallIsNone
<1>2. e.session = engine.session /\ e.wasConnected = engine.wasConnected /\ e \in Engine
  BY DEF SameSession
<1>3. CallInOrder(n) /\ LogInOrder(n)
  BY DEF Calm
<1>4. n = engine.session => IF About(e, drawn) = Stranger THEN Unlogged(n)
                            ELSE About(e, drawn) = phoneCalls[n].party \/ n \in retargeted'
  BY DEF Explained
<1>5. n = engine.session => callLogs[n] = <<>> /\ (engine.wasConnected <=> phoneCalls[n].talked)
  BY <1>3 DEF LogInOrder, CallInOrder
<1>6. CASE /\ About(e, drawn) = Stranger \/ e.session = NoCall
           /\ LogCall(e, final, drawn) = callLogs
  BY <1>1, <1>2, <1>4, <1>5, <1>6
<1>7. CASE /\ About(e, drawn) \in Callees /\ e.session \in CallIds /\ log \in Log
           /\ log.contact = About(e, drawn) /\ ((log.outcome = "completed") <=> e.wasConnected)
           /\ LogCall(e, final, drawn) = [callLogs EXCEPT ![e.session] = Append(callLogs[e.session], log)]
  <2> HIDE DEF log
  <2>1. n # engine.session => LogCall(e, final, drawn)[n] = callLogs[n]
    BY <1>1, <1>2, <1>7
  <2>2. n = engine.session => LogCall(e, final, drawn)[n] = <<log>>
    <3>1. Append(<<>>, log) = <<log>>
      BY <1>7
    <3> QED BY <1>1, <1>2, <1>5, <1>7, <3>1
  <2>3. n = engine.session => log.contact = phoneCalls[n].party \/ n \in retargeted'
    BY <1>4, <1>7, PhoneAssumption
  <2> QED BY <1>2, <1>5, <1>7, <2>1, <2>2, <2>3
<1> QED BY <1>2, <1>6, <1>7, LogCallIs

\* A callback that is no older than the contact on the screen has nothing to
\* explain, and neither has one without a call.
LEMMA SameCallExplained ==
  ASSUME PhoneTypeOK, Calm, NEW e, SameCall(e), NEW drawn \in Targets, UNCHANGED retargeted,
         engine.session # NoCall /\ engine.contact = Stranger => drawn = Stranger
  PROVE  Explained(e, drawn)
<1> SUFFICES ASSUME NEW n \in CallIds, n = engine.session
             PROVE  IF About(e, drawn) = Stranger THEN Unlogged(n)
                    ELSE About(e, drawn) = phoneCalls[n].party \/ n \in retargeted'
  BY DEF Explained
<1>1. LogInOrder(n) /\ n # NoCall
  BY NoCallIsNone DEF Calm
<1>2. About(e, drawn) = engine.contact
  BY <1>1 DEF About, SameCall
<1>3. CASE phoneCalls[n].inbound
  BY <1>1, <1>2, <1>3 DEF LogInOrder, Unlogged
<1>4. CASE ~phoneCalls[n].inbound
  BY <1>1, <1>2, <1>4 DEF LogInOrder, Unlogged
<1>5. phoneCalls[n].inbound \in BOOLEAN
  BY PhoneTypes DEF Session
<1> QED BY <1>3, <1>4, <1>5

\* The calls after one of them, or none, has been hung up and the engine has
\* let go of its own.
LEMMA FinalizeCalm ==
  ASSUME PhoneTypeOK, Calm, NEW e, SameSession(e), NEW cs \in [CallIds -> Session],
         \A n \in CallIds : HungUp(cs[n], phoneCalls[n]),
         NEW final, NEW status \in Statuses, NEW drawn \in Targets, Explained(e, drawn),
         Finalize(e, cs, final, status, drawn),
         e.mounted => ~ringOut' /\ (status = "in-call" => retargeted' # {}),
         DialsSettle, retargeted \subseteq retargeted'
  PROVE  Calm'
<1>1. /\ engine' \in Engine /\ engine'.session = NoCall /\ engine'.ended /\ ~engine'.timer
      /\ engine'.status = status /\ engine'.mounted = e.mounted
      /\ phoneCalls' = CleanupSession(cs, engine.session) /\ callLogs' = LogCall(e, final, drawn)
  <2>1. e \in Engine /\ e.session = engine.session
    BY DEF SameSession
  <2>2. phoneCalls' = CleanupSession(cs, engine.session) /\ callLogs' = LogCall(e, final, drawn)
    BY <2>1 DEF Finalize
  <2> QED BY <2>1, <2>2, FinalizeTypes
<1>2. ASSUME NEW n \in CallIds PROVE CallInOrder(n)' /\ LogInOrder(n)'
  <2>1. /\ CallInOrder(n) /\ LogInOrder(n) /\ HungUp(cs[n], phoneCalls[n]) /\ n # NoCall
        /\ engine.session \in CallIds \union {NoCall} /\ cs[n] \in Session /\ phoneCalls[n] \in Session
    BY PhoneTypes, NoCallIsNone DEF Calm
  <2>2. CASE n # engine.session
    <3>1. phoneCalls'[n] = cs[n]
      <4>1. CASE engine.session \in CallIds
        BY <1>1, <2>1, <2>2, <4>1, CleanupRow
      <4>2. CASE engine.session = NoCall
        BY <1>1, <4>2 DEF CleanupSession
      <4> QED BY <2>1, <4>1, <4>2
    <3>2. callLogs'[n] = callLogs[n]
      BY <1>1, <2>2, LogCallRows
    <3>3. CallInOrder(n)'
      BY <1>1, <2>1, <2>2, <3>1 DEF CallInOrder, HungUp, Alive
    <3>4. LogInOrder(n)'
      BY <1>1, <2>1, <2>2, <3>1, <3>2 DEF LogInOrder, HungUp, Unlogged
    <3> QED BY <3>3, <3>4
  <2>3. CASE n = engine.session
    <3>1. /\ ~phoneCalls'[n].heard /\ phoneCalls'[n].talked = cs[n].talked
          /\ phoneCalls'[n].voicemail = cs[n].voicemail
          /\ phoneCalls'[n].inbound = cs[n].inbound /\ phoneCalls'[n].party = cs[n].party
          /\ IF cs[n].state \in {"init", "ringing"}
             THEN phoneCalls'[n].state = cs[n].state /\ phoneCalls'[n].doomed
             ELSE phoneCalls'[n].state = "over"
      BY <1>1, <2>3, CleanupRow
    <3>2. /\ cs[n].talked = phoneCalls[n].talked /\ cs[n].inbound = phoneCalls[n].inbound
          /\ cs[n].party = phoneCalls[n].party
          /\ cs[n].state = phoneCalls[n].state \/ cs[n].state = "over"
      BY <2>1 DEF HungUp
    <3>3. CallInOrder(n)'
      BY <1>1, <2>1, <2>3, <3>1, <3>2 DEF CallInOrder, Alive
    <3>4. phoneCalls'[n].state # "none"
      BY <2>1, <2>3, <3>1, <3>2 DEF CallInOrder, Alive
    <3>5. \/ callLogs'[n] = <<>> /\ Unlogged(n)'
          \/ \E log \in Log : /\ callLogs'[n] = <<log>>
                              /\ (log.outcome = "completed") <=> phoneCalls'[n].talked
                              /\ log.contact = phoneCalls'[n].party \/ n \in retargeted'
      BY <1>1, <2>3, <3>1, <3>2, LogCallRows DEF Unlogged
    <3>6. LogInOrder(n)'
      BY <1>1, <2>1, <3>4, <3>5 DEF LogInOrder
    <3> QED BY <3>3, <3>6
  <2> QED BY <2>2, <2>3
<1>3. ASSUME NEW i \in DOMAIN dials' PROVE DialInOrder(i)'
  <2>1. \A j \in DOMAIN dials : DialInOrder(j)
    BY DEF Calm
  <2> QED BY <1>1, <2>1 DEF DialsSettle, DialInOrder, Starting
<1>4. ScreenInOrder'
  BY <1>1 DEF ScreenInOrder
<1> QED BY <1>2, <1>3, <1>4 DEF Calm

\* EndCall, of whoever asks for it.
LEMMA EndCallCalm ==
  ASSUME PhoneTypeOK, Calm, NEW e, SameCall(e), e.status = engine.status, e.mounted = engine.mounted,
         e.timer => engine.timer, NEW cs \in [CallIds -> Session],
         \A n \in CallIds : HungUp(cs[n], phoneCalls[n]),
         NEW final \in {"ended", "error"}, NEW drawn \in Targets, EndCall(e, cs, final, drawn),
         engine.session # NoCall /\ engine.contact = Stranger => drawn = Stranger,
         engine.mounted /\ ~engine.ended => ~ringOut, UNCHANGED <<ringOut, retargeted>>,
         DialsSettle
  PROVE  Calm'
<1>1. final \in Statuses /\ final # "in-call"
  BY DEF Statuses
<1>2. CASE ~e.ended
  <2>1. Finalize(e, cs, final, final, drawn)
    BY <1>2 DEF EndCall
  <2>2. e.mounted => ~ringOut'
    BY <1>2 DEF SameCall
  <2>3. Explained(e, drawn)
    BY SameCallExplained
  <2> QED BY <1>1, <2>1, <2>2, <2>3, FinalizeCalm DEF SameCall
<1>3. CASE e.ended
  <2>1. engine' = e /\ phoneCalls' = cs /\ callLogs' = callLogs
    BY <1>3 DEF EndCall
  <2>2. engine.session = NoCall /\ ~e.timer /\ engine.ended
    BY <1>3 DEF SameCall, Calm, ScreenInOrder
  <2>3. e.session = NoCall /\ e.ended
    BY <1>3, <2>2 DEF SameCall, SameSession
  <2>4. ASSUME NEW n \in CallIds PROVE CallInOrder(n)' /\ LogInOrder(n)'
    <3>1. /\ CallInOrder(n) /\ LogInOrder(n) /\ HungUp(cs[n], phoneCalls[n]) /\ n # NoCall
          /\ cs[n] \in Session /\ phoneCalls[n] \in Session
      BY PhoneTypes, NoCallIsNone DEF Calm
    <3>2. CallInOrder(n)'
      BY <2>1, <2>2, <2>3, <3>1 DEF CallInOrder, HungUp, Alive
    <3>3. LogInOrder(n)'
      BY <2>1, <2>2, <2>3, <3>1 DEF LogInOrder, HungUp, Unlogged
    <3> QED BY <3>2, <3>3
  <2>5. ASSUME NEW i \in DOMAIN dials' PROVE DialInOrder(i)'
    <3>1. \A j \in DOMAIN dials : DialInOrder(j)
      BY DEF Calm
    <3> QED BY <2>1, <2>3, <3>1 DEF DialsSettle, DialInOrder, Starting
  <2>6. ScreenInOrder'
    BY <2>1, <2>2, <2>3 DEF ScreenInOrder, Calm
  <2> QED BY <2>4, <2>5, <2>6 DEF Calm
<1>4. e.ended \in BOOLEAN
  BY DEF SameCall, SameSession, Engine
<1> QED BY <1>2, <1>3, <1>4

\* What Calm says of one call, one start and the engine, with their types.
LEMMA CalmFacts ==
  ASSUME PhoneTypeOK, Calm
  PROVE  /\ \A n \in CallIds : CallInOrder(n) /\ LogInOrder(n) /\ phoneCalls[n] \in Session /\ n # NoCall
         /\ \A i \in DOMAIN dials : DialInOrder(i) /\ dials[i] \in Dial
         /\ ScreenInOrder
         /\ engine.mounted /\ engine.session # NoCall => ~ringOut
         /\ engine.mounted /\ ~OnCall => engine.session = NoCall /\ ~ringOut
<1>1. ScreenInOrder /\ engine.mounted \in BOOLEAN
  BY PhoneTypes DEF Calm
<1>2. \A n \in CallIds : CallInOrder(n) /\ LogInOrder(n) /\ phoneCalls[n] \in Session /\ n # NoCall
  BY PhoneTypes, NoCallIsNone DEF Calm
<1>3. \A i \in DOMAIN dials : DialInOrder(i) /\ dials[i] \in Dial
  BY PhoneTypes DEF Calm
<1>4. engine.mounted /\ engine.session # NoCall => ~ringOut
  BY <1>1 DEF ScreenInOrder
<1>5. engine.mounted /\ ~OnCall => engine.session = NoCall /\ ~ringOut
  BY <1>1 DEF ScreenInOrder, OnCall
<1> QED BY <1>1, <1>2, <1>3, <1>4, <1>5

LEMMA NothingAwaited ==
  ASSUME PhoneTypeOK, Revives(0), ~revived'
  PROVE  /\ \A i \in DOMAIN dials : dials[i].at = "done"
         /\ \A n \in CallIds : ~phoneCalls[n].voicemail
<1>1. ~Awaited(0)
  BY DEF Revives
<1>2. 0 \notin DOMAIN dials
  BY PhoneTypes
<1> QED BY <1>1, <1>2 DEF Awaited

\* Nothing about the calls changes, and the engine has no call to lose.
LEMMA IdleEngineCalm ==
  ASSUME PhoneTypeOK, Calm, UNCHANGED <<phoneCalls, callLogs>>, retargeted \subseteq retargeted',
         engine'.session = NoCall, engine.session = NoCall, engine'.ended = engine.ended,
         engine'.mounted => engine.mounted,
         engine'.mounted /\ engine'.status = "in-call" => retargeted' # {},
         engine'.contact = Stranger => engine.contact = Stranger,
         engine'.mounted /\ ringOut' => engine'.status = "connecting",
         engine'.timer => engine'.mounted /\ ~engine'.ended /\ \E i \in DOMAIN dials' : Starting(i)',
         DialsSettle,
         \A i \in DOMAIN dials' : (Starting(i)' /\ ~engine'.ended /\ engine'.mounted) =>
           engine'.status = "connecting" /\ ~ringOut'
  PROVE  Calm'
<1>1. ASSUME NEW n \in CallIds PROVE CallInOrder(n)' /\ LogInOrder(n)'
  <2>1. CallInOrder(n) /\ LogInOrder(n) /\ n # NoCall
    BY CalmFacts
  <2>2. CallInOrder(n)'
    BY <2>1 DEF CallInOrder, Alive
  <2>3. LogInOrder(n)'
    BY <2>1 DEF LogInOrder, Unlogged
  <2> QED BY <2>2, <2>3
<1>2. ASSUME NEW i \in DOMAIN dials' PROVE DialInOrder(i)'
  <2>1. \A j \in DOMAIN dials : DialInOrder(j)
    BY CalmFacts
  <2>2. \A j \in DOMAIN dials : dials'[j].at # "done" => dials'[j] = dials[j]
    BY DEF DialsSettle
  <2>3. i \in DOMAIN dials /\ DOMAIN dials' = DOMAIN dials
    BY DEF DialsSettle
  <2>4. dials'[i].at = "inviting" => dials'[i].call \in CallIds /\ engine'.ended
    <3>1. dials'[i].at = "inviting" => dials[i].at = "inviting" /\ dials'[i].call = dials[i].call
      BY <2>2, <2>3
    <3> QED BY <2>1, <2>3, <3>1, NoCallIsNone DEF DialInOrder
  <2>5. \A j \in DOMAIN dials' : dials'[i].at # "done" /\ dials'[j].at # "done" => i = j
    BY <2>1, <2>2, <2>3 DEF DialInOrder
  <2>6. dials'[i].at # "done" /\ ~engine'.ended /\ engine'.contact = Stranger =>
          dials'[i].drawn = Stranger /\ (Starting(i)' /\ engine'.mounted => dials'[i].to = Stranger)
    BY <2>1, <2>2, <2>3 DEF DialInOrder, Starting
  <2> QED BY <2>4, <2>5, <2>6 DEF DialInOrder, Starting
<1>3. ScreenInOrder'
  BY DEF ScreenInOrder
<1> QED BY <1>1, <1>2, <1>3 DEF Calm

\* The effect is cleaned up: the call that is on, if there is one, is dropped
\* and logged on what the ref says then, or on what the screen said before.
LEMMA TearDownCalm ==
  ASSUME PhoneTypeOK, Calm, NEW e, SameSession(e), e.ended = engine.ended,
         e.mounted => engine.mounted, UNCHANGED <<dials, ringOut>>,
         engine.session # NoCall => e.status = engine.status,
         e.mounted => e.status # "in-call" \/ engine.status = "in-call",
         e.mounted /\ ringOut => e.status = "connecting",
         \A i \in DOMAIN dials : Starting(i) /\ ~engine.ended /\ e.mounted => e.status = "connecting",
         e.contact # engine.contact => e.contact # Stranger,
         e.contact = engine.contact \/ engine.session = NoCall \/ engine.session \in retargeted',
         e.mounted => e.contact # engine.contact,
         retargeted \subseteq retargeted', TearDown(e, phoneCalls)
  PROVE  Calm'
<1>1. /\ e \in Engine /\ e.session = engine.session /\ engine.contact \in Targets
      /\ engine.session \in CallIds \union {NoCall} /\ phoneCalls \in [CallIds -> Session]
      /\ e.status \in Statuses /\ engine.status \in Statuses /\ e.mounted \in BOOLEAN
      /\ engine.ended \in BOOLEAN /\ engine.mounted \in BOOLEAN
  BY PhoneTypes DEF SameSession, Engine, Statuses
<1>2. CASE engine.session # NoCall
  <2>1. ~engine.ended /\ engine.mounted /\ ~ringOut
    BY <1>2, CalmFacts DEF ScreenInOrder
  <2>2. Finalize(e, phoneCalls, "ended", e.status, engine.contact)
    BY <1>1, <1>2, <2>1 DEF TearDown
  <2>3. Explained(e, engine.contact)
    <3> SUFFICES ASSUME NEW n \in CallIds, n = engine.session
                 PROVE  IF About(e, engine.contact) = Stranger THEN Unlogged(n)
                        ELSE About(e, engine.contact) = phoneCalls[n].party \/ n \in retargeted'
      BY DEF Explained
    <3>1. LogInOrder(n) /\ phoneCalls[n].inbound \in BOOLEAN
      BY CalmFacts DEF Session
    <3>2. About(e, engine.contact) = e.contact
      BY DEF About
    <3>3. CASE e.contact = engine.contact
      BY <3>1, <3>2, <3>3 DEF LogInOrder, Unlogged
    <3>4. CASE e.contact # engine.contact
      BY <1>2, <3>2, <3>4
    <3> QED BY <3>3, <3>4
  <2>4. e.mounted => ~ringOut' /\ (e.status = "in-call" => retargeted' # {})
    BY <1>2, <2>1
  <2> QED BY <1>1, <2>2, <2>3, <2>4, FinalizeCalm DEF HungUp, DialsSettle
<1>3. CASE engine.session = NoCall
  <2>1. engine' = [e EXCEPT !.timer = FALSE, !.session = NoCall] /\ UNCHANGED <<phoneCalls, callLogs>>
    BY <1>1, <1>3 DEF TearDown, CleanupSession
  <2>2. /\ engine'.session = NoCall /\ engine'.ended = engine.ended /\ engine'.mounted = e.mounted
        /\ ~engine'.timer /\ engine'.status = e.status /\ engine'.contact = e.contact
    BY <1>1, <2>1 DEF Engine
  <2>3. e.mounted /\ e.status = "in-call" => retargeted' # {}
    BY <1>3, CalmFacts DEF ScreenInOrder
  <2>4. ASSUME NEW i \in DOMAIN dials, Starting(i), ~engine.ended, e.mounted
        PROVE  e.status = "connecting" /\ ~ringOut
    <3>1. ~ringOut
      BY <2>4, CalmFacts DEF DialInOrder
    <3> QED BY <2>4, <3>1
  <2>5. e.contact = Stranger => engine.contact = Stranger
    OBVIOUS
  <2> QED BY <1>3, <2>1, <2>2, <2>3, <2>4, <2>5, IdleEngineCalm DEF DialsSettle, Starting
<1> QED BY <1>1, <1>2, <1>3

LEMMA OpenCallCalm ==
  ASSUME PhoneTypeOK, PhoneTypeOK', Calm, NEW c \in Callees, OpenCall(c)
  PROVE  Calm'
<1> DEFINE e == [engine EXCEPT !.contact = c, !.status = IF OnCall THEN @ ELSE "idle"]
<1>1. /\ c # Stranger /\ engine \in Engine /\ engine.session \in CallIds \union {NoCall}
      /\ UNCHANGED <<dials, ringOut>> /\ engine.mounted
  BY PhoneAssumption, PhoneTypes DEF OpenCall
<1>2. Rendered(e, phoneCalls) /\ Retargets(e)
  BY DEF OpenCall
<1>3. /\ e \in Engine /\ e.session = engine.session /\ e.ended = engine.ended
      /\ e.wasConnected = engine.wasConnected /\ e.mounted = engine.mounted
      /\ e.timer = engine.timer /\ e.contact = c
      /\ OnCall => e.status = engine.status
      /\ ~OnCall => e.status = "idle"
  BY <1>1 DEF Engine, Targets
<1> HIDE DEF e
<1>4. ~OnCall => engine.session = NoCall /\ ~ringOut
  BY <1>1, CalmFacts
<1>5. ASSUME NEW i \in DOMAIN dials, Starting(i), ~engine.ended
      PROVE  OnCall
  BY <1>1, <1>5, CalmFacts DEF DialInOrder, OnCall
<1>6. CASE c = engine.contact
  <2>1. engine' = e /\ UNCHANGED <<phoneCalls, callLogs, retargeted>>
    BY <1>2, <1>3, <1>6 DEF Rendered, Retargets
  <2>2. CASE OnCall
    <3>1. ASSUME NEW n \in CallIds PROVE CallInOrder(n)' /\ LogInOrder(n)'
      <4>1. CallInOrder(n) /\ LogInOrder(n)
        BY CalmFacts
      <4>2. CallInOrder(n)'
        BY <1>3, <2>1, <4>1 DEF CallInOrder, Alive
      <4>3. LogInOrder(n)'
        BY <1>3, <1>6, <2>1, <4>1 DEF LogInOrder, Unlogged
      <4> QED BY <4>2, <4>3
    <3>2. ASSUME NEW i \in DOMAIN dials' PROVE DialInOrder(i)'
      BY <1>1, <1>3, <1>6, <2>1, <2>2, CalmFacts DEF DialInOrder, Starting
    <3>3. ScreenInOrder'
      BY <1>1, <1>3, <2>1, <2>2, CalmFacts DEF ScreenInOrder, Starting
    <3> QED BY <3>1, <3>2, <3>3 DEF Calm
  <2>3. CASE ~OnCall
    <3>1. engine.timer => engine.mounted /\ ~engine.ended /\ \E i \in DOMAIN dials : Starting(i)
      BY CalmFacts DEF ScreenInOrder
    <3> QED BY <1>1, <1>3, <1>4, <1>5, <1>6, <2>1, <2>3, <3>1, IdleEngineCalm DEF DialsSettle, Starting
  <2> QED BY <2>2, <2>3
<1>7. CASE c # engine.contact
  <2>1. TearDown(e, phoneCalls) /\ retargeted' = retargeted \union ({engine.session} \ {NoCall})
    BY <1>2, <1>3, <1>7 DEF Rendered, Retargets
  <2>2. ASSUME NEW i \in DOMAIN dials, Starting(i), ~engine.ended
        PROVE  e.status = "connecting"
    BY <1>1, <1>3, <1>5, <2>2, CalmFacts DEF DialInOrder
  <2>3. ringOut => engine.status = "connecting" /\ OnCall
    BY <1>1, <1>4, CalmFacts DEF ScreenInOrder
  <2>4. engine.session # NoCall => e.status = engine.status
    BY <1>3, <1>4
  <2>5. e.status # "in-call" \/ engine.status = "in-call"
    BY <1>3
  <2> QED BY <1>1, <1>3, <1>7, <2>1, <2>2, <2>3, <2>4, <2>5, TearDownCalm DEF SameSession
<1> QED BY <1>6, <1>7

\* A start, of whoever clicked: nothing else is awaited.
LEMMA ConnectingCalm ==
  ASSUME PhoneTypeOK, PhoneTypeOK', Calm, ~revived', Revives(0), NEW c \in Targets, CanStart,
         Dialled(c), c = Stranger => engine.contact = Stranger,
         UNCHANGED <<phoneCalls, ringOut, callLogs, retargeted>>,
         engine'.session = engine.session, ~engine'.ended,
         engine'.wasConnected = engine.wasConnected, engine'.status = "connecting",
         engine'.mounted = engine.mounted, engine'.contact = c
  PROVE  Calm'
<1> DEFINE dial == [at |-> "asking", to |-> c, drawn |-> engine.contact, call |-> NoCall]
<1>1. engine \in Engine /\ dials \in Seq(Dial) /\ engine.mounted /\ dials' = Append(dials, dial)
  BY PhoneTypes DEF CanStart, Dialled
<1>2. engine.session = NoCall /\ ~ringOut
  BY <1>1, CalmFacts DEF CanStart
<1>3. (\A i \in DOMAIN dials : dials[i].at = "done") /\ \A n \in CallIds : ~phoneCalls[n].voicemail
  BY NothingAwaited
<1>4. ASSUME NEW n \in CallIds PROVE CallInOrder(n)' /\ LogInOrder(n)'
  <2>1. CallInOrder(n) /\ LogInOrder(n) /\ n # NoCall
    BY CalmFacts
  <2>2. CallInOrder(n)'
    BY <1>2, <1>3, <2>1 DEF CallInOrder, Alive
  <2>3. LogInOrder(n)'
    BY <1>2, <2>1 DEF LogInOrder, Unlogged
  <2> QED BY <2>2, <2>3
<1>5. dial.at = "asking" /\ dial.to = c /\ dial.drawn = engine.contact
  OBVIOUS
<1> HIDE DEF dial
<1>6. /\ DOMAIN dials' = DOMAIN dials \union {Len(dials) + 1} /\ dials'[Len(dials) + 1] = dial
      /\ Len(dials) + 1 \notin DOMAIN dials /\ \A i \in DOMAIN dials : dials'[i] = dials[i]
  BY <1>1
<1>7. ASSUME NEW i \in DOMAIN dials' PROVE DialInOrder(i)'
  <2>1. \A j \in DOMAIN dials' : dials'[j].at # "done" => j = Len(dials) + 1
    BY <1>3, <1>6
  <2>2. dials'[i].at # "inviting"
    BY <1>3, <1>5, <1>6
  <2>3. dials'[i].at # "done" => dials'[i] = dial
    BY <1>6, <2>1
  <2> QED BY <1>2, <1>5, <2>1, <2>2, <2>3 DEF DialInOrder, Starting
<1>8. ScreenInOrder'
  <2>1. \E i \in DOMAIN dials' : dials'[i].at = "asking"
    BY <1>5, <1>6
  <2> QED BY <1>1, <1>2, <2>1 DEF ScreenInOrder, Starting
<1> QED BY <1>4, <1>7, <1>8 DEF Calm

LEMMA ConnectingEngine ==
  ASSUME NEW c \in Targets, engine \in Engine
  PROVE  /\ Connecting(c) \in Engine /\ Connecting(c).session = engine.session
         /\ ~Connecting(c).ended /\ Connecting(c).wasConnected = engine.wasConnected
         /\ Connecting(c).status = "connecting" /\ Connecting(c).mounted = engine.mounted
         /\ Connecting(c).contact = c
BY DEF Connecting, Engine

LEMMA StartCallCalm ==
  ASSUME PhoneTypeOK, PhoneTypeOK', Calm, ~revived', StartCall
  PROVE  Calm'
<1>1. engine.contact \in Targets /\ engine \in Engine
  BY PhoneTypes
<1>2. engine' = Connecting(engine.contact)
  BY DEF StartCall
<1> QED BY <1>1, <1>2, ConnectingEngine, ConnectingCalm DEF StartCall

LEMMA OpenCallInlineCalm ==
  ASSUME PhoneTypeOK, PhoneTypeOK', Calm, ~revived', NEW c \in Callees, OpenCallInline(c)
  PROVE  Calm'
<1>1. c \in Targets /\ c # Stranger /\ engine \in Engine /\ CanStart
  BY PhoneTypes, PhoneAssumption DEF Targets, OpenCallInline
<1>2. engine.session = NoCall
  BY <1>1, CalmFacts DEF CanStart
<1>3. Rendered(Connecting(c), phoneCalls) /\ Retargets(Connecting(c))
  BY DEF OpenCallInline
<1>4. UNCHANGED retargeted
  BY <1>1, <1>2, <1>3, ConnectingEngine DEF Retargets
<1>5. /\ UNCHANGED <<phoneCalls, callLogs>> /\ engine'.session = engine.session /\ ~engine'.ended
      /\ engine'.wasConnected = engine.wasConnected /\ engine'.status = "connecting"
      /\ engine'.mounted = engine.mounted /\ engine'.contact = c
  <2> DEFINE e == Connecting(c)
  <2>1. /\ e \in Engine /\ e.session = NoCall /\ ~e.ended /\ e.wasConnected = engine.wasConnected
        /\ e.status = "connecting" /\ e.mounted = engine.mounted /\ e.contact = c
    BY <1>1, <1>2, ConnectingEngine
  <2>2. \/ engine' = e /\ UNCHANGED <<phoneCalls, callLogs>>
        \/ /\ engine' = [e EXCEPT !.timer = FALSE, !.session = NoCall]
           /\ phoneCalls' = CleanupSession(phoneCalls, NoCall) /\ UNCHANGED callLogs
    BY <1>3, <2>1 DEF Rendered, TearDown
  <2> HIDE DEF e
  <2> QED BY <1>2, <2>1, <2>2 DEF CleanupSession, Engine
<1> QED BY <1>1, <1>4, <1>5, ConnectingCalm DEF OpenCallInline

LEMMA HangUpCalm ==
  ASSUME PhoneTypeOK, PhoneTypeOK', Calm, HangUp
  PROVE  Calm'
<1>1. SameCall(engine) /\ engine.contact \in Targets /\ phoneCalls \in [CallIds -> Session] /\ engine.session # NoCall
  BY PhoneTypes DEF SameCall, SameSession, HangUp
<1>2. EndCall(engine, phoneCalls, "ended", engine.contact) /\ UNCHANGED <<dials, ringOut, retargeted>>
  BY DEF HangUp
<1>3. \A n \in CallIds : HungUp(phoneCalls[n], phoneCalls[n])
  BY DEF HungUp
<1> QED BY <1>1, <1>2, <1>3, CalmFacts, EndCallCalm DEF DialsSettle

LEMMA ResetCalm ==
  ASSUME PhoneTypeOK, PhoneTypeOK', Calm, ~revived', Reset
  PROVE  Calm'
<1>1. engine \in Engine /\ engine.mounted /\ engine.session = NoCall /\ ~ringOut
  BY PhoneTypes, CalmFacts DEF Reset
<1>2. UNCHANGED <<phoneCalls, dials, ringOut, callLogs, retargeted>>
  BY <1>1 DEF Reset, CleanupSession
<1>3. engine' = [Quiet(engine) EXCEPT !.session = NoCall, !.status = "idle", !.ended = FALSE,
                                      !.wasConnected = FALSE]
  BY DEF Reset
<1>4. engine'.session = NoCall /\ ~engine'.ended /\ engine'.status = "idle" /\ ~engine'.timer
  BY <1>1, <1>3, QuietEngine DEF Engine
<1>5. (\A i \in DOMAIN dials : dials[i].at = "done") /\ \A n \in CallIds : ~phoneCalls[n].voicemail
  BY NothingAwaited DEF Reset
<1>6. ASSUME NEW n \in CallIds PROVE CallInOrder(n)' /\ LogInOrder(n)'
  <2>1. CallInOrder(n) /\ LogInOrder(n) /\ n # NoCall
    BY CalmFacts
  <2>2. CallInOrder(n)'
    BY <1>1, <1>2, <1>4, <1>5, <2>1 DEF CallInOrder, Alive
  <2>3. LogInOrder(n)'
    BY <1>1, <1>2, <1>4, <2>1 DEF LogInOrder, Unlogged
  <2> QED BY <2>2, <2>3
<1>7. ASSUME NEW i \in DOMAIN dials' PROVE DialInOrder(i)'
  BY <1>2, <1>5 DEF DialInOrder, Starting
<1>8. ScreenInOrder'
  BY <1>1, <1>2, <1>4 DEF ScreenInOrder
<1> QED BY <1>6, <1>7, <1>8 DEF Calm

LEMMA RingMyPhoneInsteadCalm ==
  ASSUME PhoneTypeOK, PhoneTypeOK', Calm, RingMyPhoneInstead
  PROVE  Calm'
<1>1. /\ engine \in Engine /\ engine.mounted /\ engine.session = NoCall
      /\ UNCHANGED <<phoneCalls, dials, callLogs, retargeted>>
      /\ engine' = [engine EXCEPT !.blockClose = FALSE, !.status = "connecting"]
  BY PhoneTypes, CalmFacts DEF RingMyPhoneInstead
<1>2. /\ engine'.session = NoCall /\ engine'.ended = engine.ended /\ engine'.status = "connecting"
      /\ engine'.mounted /\ engine'.timer = engine.timer /\ engine'.contact = engine.contact
  BY <1>1 DEF Engine
<1>3. \A i \in DOMAIN dials : ~(Starting(i) /\ ~engine.ended)
  BY <1>1, CalmFacts DEF DialInOrder, OnCall, RingMyPhoneInstead
<1>4. engine.timer => engine.mounted /\ ~engine.ended /\ \E i \in DOMAIN dials : Starting(i)
  BY CalmFacts DEF ScreenInOrder
<1> QED BY <1>1, <1>2, <1>3, <1>4, IdleEngineCalm DEF DialsSettle, Starting

LEMMA RingOutReturnsCalm ==
  ASSUME PhoneTypeOK, PhoneTypeOK', Calm, RingOutReturns
  PROVE  Calm'
<1>1. PICK s \in {"ringout-done", "error"} : engine' = [engine EXCEPT !.status = s]
  BY DEF RingOutReturns
<1>2. engine \in Engine /\ ringOut /\ ~ringOut' /\ UNCHANGED <<phoneCalls, dials, callLogs, retargeted>>
  BY PhoneTypes DEF RingOutReturns
<1>3. engine.session = NoCall
  BY <1>2, CalmFacts DEF ScreenInOrder
<1>4. /\ engine'.session = engine.session /\ engine'.ended = engine.ended /\ engine'.status = s
      /\ engine'.mounted = engine.mounted /\ engine'.timer = engine.timer
      /\ engine'.contact = engine.contact
  BY <1>1, <1>2 DEF Engine
<1>5. \A i \in DOMAIN dials : ~(Starting(i) /\ ~engine.ended /\ engine.mounted)
  BY <1>2, CalmFacts DEF DialInOrder
<1>6. engine.timer => engine.mounted /\ ~engine.ended /\ \E i \in DOMAIN dials : Starting(i)
  BY CalmFacts DEF ScreenInOrder
<1> QED BY <1>2, <1>3, <1>4, <1>5, <1>6, IdleEngineCalm DEF DialsSettle, Starting

LEMMA UnmountCalm ==
  ASSUME PhoneTypeOK, PhoneTypeOK', Calm, Unmount
  PROVE  Calm'
<1> DEFINE e == [engine EXCEPT !.mounted = FALSE]
<1>1. engine \in Engine
  BY PhoneTypes
<1>2. /\ e \in Engine /\ ~e.mounted /\ e.session = engine.session /\ e.ended = engine.ended
      /\ e.status = engine.status /\ e.wasConnected = engine.wasConnected
      /\ e.contact = engine.contact
  BY <1>1 DEF Engine
<1>3. UNCHANGED <<dials, ringOut, retargeted>> /\ TearDown(e, phoneCalls)
  BY DEF Unmount
<1> HIDE DEF e
<1> QED BY <1>2, <1>3, TearDownCalm DEF SameSession

LEMMA LastDial ==
  ASSUME PhoneTypeOK, dials # <<>>
  PROVE  dials[Len(dials)].drawn \in Targets
<1>1. dials \in Seq(Dial) /\ Len(dials) \in DOMAIN dials
  BY PhoneTypes
<1> QED BY <1>1, PhoneTypes DEF Dial

LEMMA ConnectTimeoutCalm ==
  ASSUME PhoneTypeOK, PhoneTypeOK', Calm, ConnectTimeout
  PROVE  Calm'
<1> DEFINE e == [engine EXCEPT !.timer = FALSE]
<1>1. /\ engine \in Engine /\ phoneCalls \in [CallIds -> Session] /\ "error" \in Statuses
      /\ engine.session \in CallIds \union {NoCall}
  BY PhoneTypes DEF Statuses
<1>2. /\ e \in Engine /\ e.mounted = engine.mounted /\ e.session = engine.session
      /\ e.ended = engine.ended /\ e.wasConnected = engine.wasConnected
      /\ e.contact = engine.contact
  BY <1>1 DEF Engine
<1>3. UNCHANGED <<dials, ringOut, retargeted>> /\ engine.timer
  BY DEF ConnectTimeout
<1>4. ~engine.ended /\ \E i \in DOMAIN dials : Starting(i) /\ engine.mounted
  BY <1>3, CalmFacts DEF ScreenInOrder
<1>5. engine.status = "connecting" /\ ~ringOut
  BY <1>4, CalmFacts DEF DialInOrder
<1>6. engine.session = NoCall
  BY <1>5, CalmFacts DEF ScreenInOrder
<1>7. PICK drawn \in Targets : Finalize(e, phoneCalls, "error", "error", drawn)
  <2>1. dials[Len(dials)].drawn \in Targets
    BY LastDial DEF ConnectTimeout
  <2>2. Finalize(e, phoneCalls, "error", "error", dials[Len(dials)].drawn)
    BY <1>2, <1>4, <1>6 DEF ConnectTimeout
  <2> QED BY <2>1, <2>2
<1>8. SameCall(e)
  BY <1>2 DEF SameCall, SameSession
<1> HIDE DEF e
<1> QED BY <1>1, <1>2, <1>3, <1>5, <1>6, <1>7, <1>8, SameCallExplained, FinalizeCalm
       DEF SameCall, HungUp, DialsSettle

LEMMA SetupCalm ==
  ASSUME PhoneTypeOK, PhoneTypeOK', Calm, NEW i, SetupFails(i) \/ SetupTooLate(i)
  PROVE  Calm'
<1>1. /\ engine \in Engine /\ i \in DOMAIN dials /\ Starting(i) /\ Settled(i)
      /\ UNCHANGED <<phoneCalls, ringOut, callLogs, retargeted>>
  BY PhoneTypes DEF SetupFails, SetupTooLate, Starting
<1>2. /\ DialsSettle /\ dials'[i].at = "done"
      /\ DOMAIN dials' = DOMAIN dials /\ \A j \in DOMAIN dials \ {i} : dials'[j] = dials[j]
  BY <1>1, SettledDials DEF DialsSettle
<1>3. \A j \in DOMAIN dials' : ~Starting(j)'
  BY <1>1, <1>2, CalmFacts DEF DialInOrder, Starting
<1>4. /\ engine'.session = engine.session /\ engine'.ended = engine.ended
      /\ engine'.mounted = engine.mounted /\ engine'.wasConnected = engine.wasConnected
      /\ engine'.contact = engine.contact /\ ~engine'.timer
      /\ Abandoned => engine'.status = engine.status
      /\ engine'.status \in {engine.status, "error"}
  <2>1. CASE SetupFails(i)
    BY <1>1, <2>1, QuietEngine DEF SetupFails, Engine
  <2>2. CASE SetupTooLate(i)
    BY <1>1, <2>2 DEF SetupTooLate, Engine
  <2> QED BY <2>1, <2>2
<1>5. CASE Abandoned /\ engine.session # NoCall
  <2>1. engine.mounted /\ ~engine.ended
    BY <1>5, CalmFacts DEF ScreenInOrder
  <2> QED BY <1>5, <2>1 DEF Abandoned
<1>6. CASE Abandoned /\ engine.session = NoCall
  <2>1. /\ engine'.mounted /\ engine'.status = "in-call" => retargeted' # {}
        /\ engine'.mounted /\ ringOut' => engine'.status = "connecting"
    BY <1>1, <1>4, <1>6, CalmFacts DEF ScreenInOrder
  <2> QED BY <1>1, <1>2, <1>3, <1>4, <1>6, <2>1, IdleEngineCalm
<1>7. CASE ~Abandoned
  <2>1. engine.mounted /\ ~engine.ended
    BY <1>7 DEF Abandoned
  <2>2. engine.status = "connecting" /\ ~ringOut
    BY <1>1, <2>1, CalmFacts DEF DialInOrder
  <2>3. engine.session = NoCall
    BY <2>2, CalmFacts DEF ScreenInOrder
  <2>4. engine'.status # "in-call"
    BY <1>4, <2>2
  <2> QED BY <1>1, <1>2, <1>3, <1>4, <2>2, <2>3, <2>4, IdleEngineCalm
<1> QED BY <1>5, <1>6, <1>7

LEMMA CallThrowsCalm ==
  ASSUME PhoneTypeOK, PhoneTypeOK', Calm, NEW i, CallThrows(i)
  PROVE  Calm'
<1>1. /\ engine \in Engine /\ i \in DOMAIN dials /\ dials[i].at # "done" /\ Settled(i)
      /\ UNCHANGED <<ringOut, retargeted>> /\ phoneCalls \in [CallIds -> Session]
  BY PhoneTypes DEF CallThrows
<1>2. /\ DialsSettle /\ dials'[i].at = "done"
      /\ DOMAIN dials' = DOMAIN dials /\ \A j \in DOMAIN dials \ {i} : dials'[j] = dials[j]
  BY <1>1, SettledDials DEF DialsSettle
<1>3. CASE Abandoned
  <2>1. UNCHANGED <<engine, phoneCalls, callLogs>> /\ dials[i].at = "inviting"
    BY <1>3 DEF CallThrows
  <2>2. \A j \in DOMAIN dials' : ~Starting(j)'
    BY <1>1, <1>2, CalmFacts DEF DialInOrder, Starting
  <2>3. ~engine.timer
    BY <1>1, <1>2, <2>1, CalmFacts DEF DialInOrder, ScreenInOrder, Starting
  <2>4. engine.session = NoCall
    BY <1>3, CalmFacts DEF Abandoned, ScreenInOrder
  <2>5. /\ engine'.mounted /\ engine'.status = "in-call" => retargeted' # {}
        /\ engine'.mounted /\ ringOut' => engine'.status = "connecting"
    BY <1>1, <2>1, <2>4, CalmFacts DEF ScreenInOrder
  <2> QED BY <1>1, <1>2, <2>1, <2>2, <2>3, <2>4, <2>5, IdleEngineCalm
<1>4. CASE ~Abandoned
  <2>1. engine.mounted /\ ~engine.ended
    BY <1>4 DEF Abandoned
  <2>2. EndCall(Quiet(engine), phoneCalls, "error", dials[i].drawn)
    BY <1>4 DEF CallThrows
  <2>3. ~ringOut
    <3>1. CASE dials[i].at = "asking"
      BY <1>1, <2>1, <3>1, CalmFacts DEF DialInOrder, Starting
    <3>2. CASE dials[i].at = "inviting"
      BY <1>1, <2>1, <3>2, CalmFacts, NoCallIsNone DEF DialInOrder
    <3> QED BY <1>1, <3>1, <3>2 DEF CallThrows
  <2>4. SameCall(Quiet(engine)) /\ Quiet(engine).status = engine.status
        /\ Quiet(engine).mounted = engine.mounted /\ ~Quiet(engine).timer
    BY <1>1, QuietEngine DEF SameCall, SameSession
  <2>5. dials[i].drawn \in Targets /\ (engine.contact = Stranger => dials[i].drawn = Stranger)
    BY <1>1, <2>1, CalmFacts DEF Dial, DialInOrder
  <2> QED BY <1>1, <1>2, <2>2, <2>3, <2>4, <2>5, EndCallCalm DEF HungUp
<1> QED BY <1>3, <1>4

LEMMA CallReturnsCalm ==
  ASSUME PhoneTypeOK, PhoneTypeOK', Calm, NEW i, CallReturns(i)
  PROVE  Calm'
<1> DEFINE e == [engine EXCEPT !.blockClose = FALSE]
<1>1. /\ engine \in Engine /\ i \in DOMAIN dials /\ dials[i].at = "inviting" /\ Settled(i)
      /\ UNCHANGED <<ringOut, retargeted>> /\ phoneCalls \in [CallIds -> Session]
  BY PhoneTypes DEF CallReturns
<1>2. /\ DialsSettle /\ dials'[i].at = "done"
      /\ DOMAIN dials' = DOMAIN dials /\ \A j \in DOMAIN dials \ {i} : dials'[j] = dials[j]
  BY <1>1, SettledDials DEF DialsSettle
<1>3. CASE engine.mounted /\ engine.session # NoCall /\ phoneCalls[engine.session].state = "init"
  <2>1. EndCall(e, phoneCalls, "error", dials[i].drawn)
    BY <1>3 DEF CallReturns
  <2>2. SameCall(e) /\ e.status = engine.status /\ e.mounted = engine.mounted /\ e.timer = engine.timer
    BY <1>1 DEF SameCall, SameSession, Engine
  <2>3. ~ringOut
    BY <1>3, CalmFacts
  <2>4. dials[i].drawn \in Targets /\ (engine.contact = Stranger => dials[i].drawn = Stranger)
    <3>1. ~engine.ended
      BY <1>3, CalmFacts DEF ScreenInOrder
    <3> QED BY <1>1, <3>1, CalmFacts DEF Dial, DialInOrder
  <2> HIDE DEF e
  <2> QED BY <1>1, <1>2, <2>1, <2>2, <2>3, <2>4, EndCallCalm DEF HungUp
<1>4. CASE ~(engine.mounted /\ engine.session # NoCall /\ phoneCalls[engine.session].state = "init")
  <2>1. UNCHANGED <<engine, phoneCalls, callLogs>>
    BY <1>4 DEF CallReturns
  <2>2. ASSUME NEW n \in CallIds PROVE CallInOrder(n)' /\ LogInOrder(n)'
    <3>1. CallInOrder(n) /\ LogInOrder(n)
      BY CalmFacts
    <3> QED BY <1>1, <2>1, <3>1 DEF CallInOrder, LogInOrder, Unlogged, Alive
  <2>3. ASSUME NEW j \in DOMAIN dials' PROVE DialInOrder(j)'
    <3>1. \A k \in DOMAIN dials : DialInOrder(k)
      BY CalmFacts
    <3> QED BY <1>1, <1>2, <2>1, <3>1 DEF DialInOrder, Starting
  <2>4. ScreenInOrder'
    <3>1. ~engine.timer
      BY <1>1, CalmFacts DEF DialInOrder, ScreenInOrder, Starting
    <3> QED BY <1>1, <2>1, <3>1, CalmFacts DEF ScreenInOrder
  <2> QED BY <2>2, <2>3, <2>4 DEF Calm
<1> QED BY <1>3, <1>4

-----------------------------------------------------------------------------
\* A session is announced to an engine that has none.
LEMMA AttachedRow ==
  ASSUME PhoneTypeOK, NEW n \in CallIds, NEW inbound \in BOOLEAN,
         NEW party \in Targets, NEW drawn \in Targets
  PROVE  /\ Attached(n, inbound, party, drawn) \in [CallIds -> Session]
         /\ \A m \in CallIds \ {n} : Attached(n, inbound, party, drawn)[m] = phoneCalls[m]
         /\ Attached(n, inbound, party, drawn)[n].state = (IF inbound THEN "ringing" ELSE "init")
         /\ Attached(n, inbound, party, drawn)[n].inbound = inbound
         /\ Attached(n, inbound, party, drawn)[n].party = party /\ Attached(n, inbound, party, drawn)[n].heard
         /\ Attached(n, inbound, party, drawn)[n].drawn = drawn
         /\ Attached(n, inbound, party, drawn)[n].doomed = phoneCalls[n].doomed
         /\ Attached(n, inbound, party, drawn)[n].voicemail = phoneCalls[n].voicemail
         /\ Attached(n, inbound, party, drawn)[n].talked = phoneCalls[n].talked
<1> DEFINE row == [phoneCalls[n] EXCEPT !.state = IF inbound THEN "ringing" ELSE "init",
                                        !.inbound = inbound, !.party = party, !.drawn = drawn,
                                        !.heard = TRUE]
<1>1. phoneCalls \in [CallIds -> Session] /\ phoneCalls[n] \in Session
  BY PhoneTypes
<1>2. /\ row \in Session /\ row.state = (IF inbound THEN "ringing" ELSE "init")
      /\ row.inbound = inbound /\ row.party = party /\ row.drawn = drawn /\ row.heard
      /\ row.doomed = phoneCalls[n].doomed /\ row.voicemail = phoneCalls[n].voicemail
      /\ row.talked = phoneCalls[n].talked
  BY <1>1 DEF Session
<1>3. Attached(n, inbound, party, drawn) = [phoneCalls EXCEPT ![n] = row]
  BY <1>1 DEF Attached
<1> HIDE DEF row
<1> QED BY <1>1, <1>2, <1>3

LEMMA AttachedEngine ==
  ASSUME NEW e \in Engine, NEW n \in CallIds
  PROVE  /\ AttachSession(e, n) \in Engine /\ AttachSession(e, n).session = n
         /\ ~AttachSession(e, n).wasConnected /\ ~AttachSession(e, n).ended
         /\ AttachSession(e, n).status = "ringing" /\ AttachSession(e, n).contact = e.contact
         /\ AttachSession(e, n).mounted = e.mounted /\ AttachSession(e, n).timer = e.timer
BY DEF AttachSession, Engine

LEMMA AttachCalm ==
  ASSUME PhoneTypeOK, Calm, NEW n \in CallIds, NewCall(n), NEW inbound \in BOOLEAN,
         NEW party \in Targets, NEW drawn \in Targets,
         phoneCalls' = Attached(n, inbound, party, drawn),
         engine.session = NoCall, engine'.session = n, ~engine'.wasConnected, ~engine'.ended,
         engine'.status = "ringing", engine'.mounted, ~engine'.timer, ~ringOut',
         inbound => engine'.contact = Stranger, engine'.contact = Stranger => drawn = Stranger,
         ~inbound => engine'.contact = party \/ (n \in retargeted' /\ engine'.contact # Stranger),
         retargeted \subseteq retargeted', UNCHANGED callLogs,
         \A m \in CallIds : ~phoneCalls[m].voicemail,
         \A i \in DOMAIN dials' : DialInOrder(i)'
  PROVE  Calm'
<1>1. ASSUME NEW m \in CallIds PROVE CallInOrder(m)' /\ LogInOrder(m)'
  <2>1. CallInOrder(m) /\ LogInOrder(m) /\ m # NoCall
    BY CalmFacts
  <2>2. CASE m # n
    <3>1. phoneCalls'[m] = phoneCalls[m]
      BY <2>2, AttachedRow
    <3>2. CallInOrder(m)'
      BY <2>1, <2>2, <3>1 DEF CallInOrder, Alive
    <3>3. LogInOrder(m)'
      BY <2>1, <2>2, <3>1 DEF LogInOrder, Unlogged
    <3> QED BY <3>2, <3>3
  <2>3. CASE m = n
    <3>1. /\ phoneCalls'[n].state = (IF inbound THEN "ringing" ELSE "init")
          /\ phoneCalls'[n].inbound = inbound
          /\ phoneCalls'[n].party = party /\ phoneCalls'[n].heard /\ phoneCalls'[n].drawn = drawn
          /\ phoneCalls'[n].doomed = phoneCalls[n].doomed
          /\ phoneCalls'[n].voicemail = phoneCalls[n].voicemail
          /\ phoneCalls'[n].talked = phoneCalls[n].talked
      BY AttachedRow
    <3>2. phoneCalls[n].state = "none"
      BY DEF NewCall
    <3>3. CallInOrder(n)'
      BY <2>1, <2>3, <3>1, <3>2 DEF CallInOrder, Alive
    <3>4. LogInOrder(n)'
      BY <2>1, <2>3, <3>1, <3>2 DEF LogInOrder
    <3> QED BY <2>3, <3>3, <3>4
  <2> QED BY <2>2, <2>3
<1>2. ScreenInOrder'
  BY NoCallIsNone DEF ScreenInOrder
<1> QED BY <1>1, <1>2 DEF Calm

LEMMA InviteCalm ==
  ASSUME PhoneTypeOK, PhoneTypeOK', Calm, ~revived', NEW i, NEW n \in CallIds, Invite(i, n)
  PROVE  Calm'
<1>1. /\ engine \in Engine /\ i \in DOMAIN dials /\ dials[i] \in Dial /\ dials \in Seq(Dial)
      /\ dials[i].at = "asking" /\ NewCall(n) /\ engine.mounted /\ ~engine.ended
      /\ UNCHANGED <<ringOut, callLogs>> /\ phoneCalls' = Attached(n, FALSE, dials[i].to, dials[i].drawn)
  BY PhoneTypes DEF Invite, Abandoned
<1>2. /\ engine.status = "connecting" /\ ~ringOut
      /\ engine.contact = Stranger => dials[i].to = Stranger /\ dials[i].drawn = Stranger
  BY <1>1, CalmFacts DEF DialInOrder, Starting
<1>3. engine.session = NoCall
  BY <1>2, CalmFacts DEF ScreenInOrder
<1>4. engine' = Quiet(AttachSession(engine, n))
  BY DEF Invite
<1>5. /\ engine'.session = n /\ ~engine'.wasConnected /\ ~engine'.ended
      /\ engine'.status = "ringing" /\ engine'.mounted /\ ~engine'.timer
      /\ engine'.contact = engine.contact
  BY <1>1, <1>4, AttachedEngine, QuietEngine
<1>6. dials[i].to = engine.contact \/ n \in retargeted'
  BY DEF Invite
<1>7. retargeted \subseteq retargeted' /\ dials[i].to \in Targets /\ dials[i].drawn \in Targets
  BY <1>1 DEF Invite, Dial
<1>8. ~Awaited(i)
  BY DEF Invite, Revives
<1>9. (\A m \in CallIds : ~phoneCalls[m].voicemail)
      /\ \A j \in DOMAIN dials \ {i} : dials[j].at = "done"
  BY <1>8 DEF Awaited
<1>10. /\ DOMAIN dials' = DOMAIN dials /\ \A j \in DOMAIN dials \ {i} : dials'[j] = dials[j]
       /\ dials'[i].at = "inviting" /\ dials'[i].call = n /\ dials'[i].drawn = dials[i].drawn
  <2> DEFINE row == [dials[i] EXCEPT !.at = "inviting", !.call = n]
  <2>1. dials' = [dials EXCEPT ![i] = row]
    BY <1>1 DEF Invite
  <2>2. row.at = "inviting" /\ row.call = n /\ row.drawn = dials[i].drawn
    BY <1>1 DEF Dial
  <2> HIDE DEF row
  <2> QED BY <1>1, <2>1, <2>2
<1>11. ASSUME NEW j \in DOMAIN dials' PROVE DialInOrder(j)'
  BY <1>2, <1>5, <1>9, <1>10 DEF DialInOrder, Starting
<1> QED BY <1>1, <1>2, <1>3, <1>5, <1>6, <1>7, <1>9, <1>11, AttachCalm

\* A caller takes the place of another contact: the render drops the call.
LEMMA InboundDropped ==
  ASSUME PhoneTypeOK, Calm, NEW n \in CallIds, NewCall(n), NEW party \in Targets,
         NEW e \in Engine, e.session = n, ~e.ended, ~e.wasConnected, e.status = "ringing",
         e.contact = Stranger, engine.contact # Stranger, engine.session = NoCall, ~ringOut',
         NEW final, Finalize(e, Attached(n, TRUE, party, engine.contact), final, e.status, engine.contact),
         retargeted \subseteq retargeted', n \in retargeted',
         \A m \in CallIds : ~phoneCalls[m].voicemail,
         \A i \in DOMAIN dials' : dials'[i].at = "done"
  PROVE  Calm'
<1> DEFINE cs == Attached(n, TRUE, party, engine.contact)
<1>1. /\ engine.contact \in Callees /\ engine.contact \in Targets /\ e.status \in Statuses
      /\ callLogs \in [CallIds -> Seq(Log)]
  BY PhoneTypes DEF Targets, Statuses
<1>2. /\ cs \in [CallIds -> Session] /\ \A m \in CallIds \ {n} : cs[m] = phoneCalls[m]
      /\ cs[n].state = "ringing" /\ cs[n].inbound /\ cs[n].voicemail = phoneCalls[n].voicemail
      /\ cs[n].talked = phoneCalls[n].talked
  <2>1. PICK b \in BOOLEAN : b
    OBVIOUS
  <2>2. cs = Attached(n, b, party, engine.contact)
    BY <2>1
  <2> HIDE DEF cs
  <2>3. /\ cs \in [CallIds -> Session] /\ \A m \in CallIds \ {n} : cs[m] = phoneCalls[m]
        /\ cs[n].state = IF b THEN "ringing" ELSE "init"
        /\ cs[n].inbound = b /\ cs[n].voicemail = phoneCalls[n].voicemail
        /\ cs[n].talked = phoneCalls[n].talked
    BY <1>1, <2>2, AttachedRow
  <2> QED BY <2>1, <2>3
<1> HIDE DEF cs
<1>3. /\ engine'.session = NoCall /\ engine'.ended /\ ~engine'.timer /\ engine'.status = "ringing"
      /\ phoneCalls' = CleanupSession(cs, n) /\ callLogs' = LogCall(e, final, engine.contact)
  BY <1>1, <1>2, FinalizeTypes DEF Finalize, cs
<1>4. /\ \A m \in CallIds \ {n} : phoneCalls'[m] = phoneCalls[m]
      /\ ~phoneCalls'[n].heard /\ phoneCalls'[n].doomed /\ phoneCalls'[n].state = "ringing"
      /\ phoneCalls'[n].talked = phoneCalls[n].talked
      /\ phoneCalls'[n].voicemail = phoneCalls[n].voicemail
  BY <1>2, <1>3, CleanupRow
<1>5. n # NoCall /\ phoneCalls[n].state = "none" /\ CallInOrder(n) /\ LogInOrder(n)
  BY CalmFacts DEF NewCall
<1>6. PICK log \in Log : /\ log.outcome # "completed"
                         /\ callLogs' = [callLogs EXCEPT ![n] = Append(callLogs[n], log)]
  <2> DEFINE new == NewLog(e, final, engine.contact)
  <2>1. About(e, engine.contact) # Stranger
    BY DEF About
  <2>2. /\ new \in Log
        /\ (new.outcome = "completed") <=> e.wasConnected
        /\ callLogs' = [callLogs EXCEPT ![e.session] = Append(callLogs[e.session], new)]
    <3>1. \/ About(e, engine.contact) = Stranger \/ e.session = NoCall
          \/ /\ new \in Log
             /\ (new.outcome = "completed") <=> e.wasConnected
             /\ LogCall(e, final, engine.contact) =
                  [callLogs EXCEPT ![e.session] = Append(callLogs[e.session], new)]
      <4>1. PICK drawn \in Targets : drawn = engine.contact
        BY <1>1
      <4>2. \/ About(e, drawn) = Stranger \/ e.session = NoCall
            \/ /\ NewLog(e, final, drawn) \in Log
               /\ (NewLog(e, final, drawn).outcome = "completed") <=> e.wasConnected
               /\ LogCall(e, final, drawn) =
                    [callLogs EXCEPT ![e.session] = Append(callLogs[e.session], NewLog(e, final, drawn))]
        BY LogCallIs
      <4> QED BY <4>1, <4>2
    <3> HIDE DEF new
    <3> QED BY <1>3, <1>5, <2>1, <3>1
  <2> HIDE DEF new
  <2>3. new.outcome # "completed" /\ e.session = n
    BY <2>2
  <2> QED BY <2>2, <2>3
<1>7. callLogs'[n] = <<log>> /\ \A m \in CallIds \ {n} : callLogs'[m] = callLogs[m]
  BY <1>1, <1>5, <1>6 DEF LogInOrder
<1>8. ASSUME NEW m \in CallIds PROVE CallInOrder(m)' /\ LogInOrder(m)'
  <2>1. CallInOrder(m) /\ LogInOrder(m) /\ m # NoCall
    BY CalmFacts
  <2>2. CallInOrder(m)'
    BY <1>3, <1>4, <1>5, <2>1 DEF CallInOrder, Alive
  <2>3. CASE m = n
    BY <1>3, <1>4, <1>5, <1>6, <1>7, <2>1, <2>3 DEF LogInOrder, CallInOrder
  <2>4. CASE m # n
    <3>1. /\ phoneCalls'[m] = phoneCalls[m] /\ callLogs'[m] = callLogs[m]
          /\ m # engine.session /\ m # engine'.session
      BY <1>3, <1>4, <1>7, <2>1, <2>4
    <3>2. CASE phoneCalls[m].state = "none"
      BY <2>1, <2>2, <3>1, <3>2 DEF LogInOrder
    <3>3. CASE phoneCalls[m].state # "none"
      BY <2>1, <2>2, <3>1, <3>3 DEF LogInOrder, Unlogged
    <3> QED BY <3>2, <3>3
  <2> QED BY <2>2, <2>3, <2>4
<1>9. ASSUME NEW i \in DOMAIN dials' PROVE DialInOrder(i)'
  BY <1>9 DEF DialInOrder, Starting
<1>10. ScreenInOrder'
  BY <1>3 DEF ScreenInOrder
<1> QED BY <1>8, <1>9, <1>10 DEF Calm

LEMMA InboundCallCalm ==
  ASSUME PhoneTypeOK, PhoneTypeOK', Calm, ~revived', NEW n \in CallIds,
         NEW party \in Targets, InboundCall(n, party)
  PROVE  Calm'
<1> DEFINE attached == AttachSession(engine, n)
           e == [attached EXCEPT !.contact = Stranger]
<1>1. /\ engine \in Engine /\ engine.mounted /\ NewCall(n) /\ UNCHANGED <<dials, ringOut>>
      /\ engine.contact \in Targets
  BY PhoneTypes DEF InboundCall
<1>2. engine.session = NoCall /\ ~ringOut
  <2>1. engine.session # NoCall => ~engine.ended
    BY CalmFacts DEF ScreenInOrder
  <2> QED BY <1>1, <2>1, CalmFacts DEF InboundCall
<1>3. Rendered(e, Attached(n, TRUE, party, engine.contact)) /\ Retargets(e)
  BY DEF InboundCall
<1>4. /\ e \in Engine /\ e.session = n /\ ~e.wasConnected /\ ~e.ended
      /\ e.status = "ringing" /\ e.mounted /\ e.timer = engine.timer /\ e.contact = Stranger
  <2>1. /\ attached \in Engine /\ attached.session = n /\ ~attached.wasConnected /\ ~attached.ended
        /\ attached.status = "ringing" /\ attached.mounted /\ attached.timer = engine.timer
    BY <1>1, AttachedEngine
  <2> HIDE DEF attached
  <2> QED BY <2>1 DEF Engine, Targets
<1> HIDE DEF e
<1>5. (\A i \in DOMAIN dials : dials[i].at = "done") /\ \A m \in CallIds : ~phoneCalls[m].voicemail
  BY NothingAwaited DEF InboundCall
<1>6. ~engine.timer
  BY <1>5, CalmFacts DEF ScreenInOrder, Starting
<1>7. CASE engine.contact = Stranger
  <2>1. /\ engine' = e /\ phoneCalls' = Attached(n, TRUE, party, engine.contact)
        /\ UNCHANGED <<callLogs, retargeted>>
    BY <1>3, <1>4, <1>7 DEF Rendered, Retargets
  <2>2. ASSUME NEW i \in DOMAIN dials' PROVE DialInOrder(i)'
    BY <1>1, <1>5 DEF DialInOrder, Starting
  <2> QED BY <1>1, <1>2, <1>4, <1>5, <1>6, <1>7, <2>1, <2>2, AttachCalm
<1>8. CASE engine.contact # Stranger
  <2>1. n # NoCall
    BY NoCallIsNone
  <2>2. /\ Finalize(e, Attached(n, TRUE, party, engine.contact), "ended", e.status, engine.contact)
        /\ retargeted' = retargeted \union {n}
    BY <1>3, <1>4, <1>8, <2>1 DEF Rendered, TearDown, Retargets
  <2> QED BY <1>1, <1>2, <1>4, <1>5, <1>8, <2>2, InboundDropped
<1> QED BY <1>7, <1>8

\* The calls of a session that goes on: its engine says what it is.
LEMMA SessionCalm ==
  ASSUME PhoneTypeOK, Calm, UNCHANGED <<dials, ringOut, callLogs, retargeted>>,
         engine'.session = engine.session, engine'.ended = engine.ended,
         engine'.mounted = engine.mounted, engine'.timer => engine.timer,
         engine'.contact = engine.contact,
         engine' # engine => engine.session # NoCall /\ engine'.status \in {"ringing", "in-call"},
         engine'.status = "in-call" /\ engine'.session # NoCall =>
           phoneCalls'[engine.session].state = "answered",
         \A n \in CallIds : CallInOrder(n)',
         \A n \in CallIds :
           /\ phoneCalls'[n].party = phoneCalls[n].party /\ phoneCalls'[n].inbound = phoneCalls[n].inbound
           /\ phoneCalls'[n].drawn = phoneCalls[n].drawn
           /\ phoneCalls'[n].state = "none" <=> phoneCalls[n].state = "none"
           /\ n # engine.session => phoneCalls'[n].talked = phoneCalls[n].talked
  PROVE  Calm'
<1>1. ASSUME NEW n \in CallIds PROVE LogInOrder(n)'
  <2>1. LogInOrder(n)
    BY CalmFacts
  <2> QED BY <2>1 DEF LogInOrder, Unlogged
<1>2. ASSUME NEW i \in DOMAIN dials' PROVE DialInOrder(i)'
  <2>1. \A j \in DOMAIN dials : DialInOrder(j)
    BY CalmFacts
  <2>2. CASE engine' = engine
    BY <2>1, <2>2 DEF DialInOrder, Starting
  <2>3. CASE engine' # engine
    <3>1. engine.mounted /\ engine.status # "connecting"
      BY <2>3, CalmFacts DEF ScreenInOrder
    <3> QED BY <2>1, <3>1 DEF DialInOrder, Starting
  <2> QED BY <2>2, <2>3
<1>3. ScreenInOrder'
  <2>1. ScreenInOrder
    BY CalmFacts
  <2>2. CASE engine' = engine
    BY <2>1, <2>2 DEF ScreenInOrder, Starting
  <2>3. CASE engine' # engine
    BY <2>1, <2>3 DEF ScreenInOrder, Starting
  <2> QED BY <2>2, <2>3
<1> QED BY <1>1, <1>2, <1>3 DEF Calm

LEMMA SendToVoicemailCalm ==
  ASSUME PhoneTypeOK, PhoneTypeOK', Calm, NEW n \in CallIds, SendIncomingCallToVoicemail(n)
  PROVE  Calm'
<1> DEFINE row == [phoneCalls[n] EXCEPT !.voicemail = TRUE]
<1>1. /\ phoneCalls \in [CallIds -> Session] /\ phoneCalls[n] \in Session /\ engine.session = n
      /\ UNCHANGED <<dials, engine, ringOut, callLogs, retargeted>>
  BY PhoneTypes DEF SendIncomingCallToVoicemail
<1>2. phoneCalls' = [phoneCalls EXCEPT ![n] = row]
  BY DEF SendIncomingCallToVoicemail
<1>3. /\ row.state = phoneCalls[n].state /\ row.heard = phoneCalls[n].heard
      /\ row.doomed = phoneCalls[n].doomed /\ row.talked = phoneCalls[n].talked
      /\ row.party = phoneCalls[n].party /\ row.inbound = phoneCalls[n].inbound
      /\ row.drawn = phoneCalls[n].drawn
  BY <1>1 DEF Session
<1> HIDE DEF row
<1>4. phoneCalls'[n] = row /\ \A m \in CallIds \ {n} : phoneCalls'[m] = phoneCalls[m]
  BY <1>1, <1>2
<1>5. ASSUME NEW m \in CallIds PROVE CallInOrder(m)'
  BY <1>1, <1>3, <1>4, CalmFacts DEF CallInOrder, Alive
<1>6. engine'.status = "in-call" /\ engine'.session # NoCall => phoneCalls'[engine.session].state = "answered"
  <2>1. engine.session # NoCall /\ engine.mounted
    BY <1>1, CalmFacts DEF ScreenInOrder
  <2> QED BY <1>1, <1>3, <1>4, <2>1, CalmFacts DEF ScreenInOrder
<1> QED BY <1>1, <1>3, <1>4, <1>5, <1>6, SessionCalm

LEMMA RingsCalm ==
  ASSUME PhoneTypeOK, PhoneTypeOK', Calm, NEW n \in CallIds, Rings(n)
  PROVE  Calm'
<1> DEFINE row == [phoneCalls[n] EXCEPT !.state = "ringing"]
<1>1. /\ phoneCalls \in [CallIds -> Session] /\ phoneCalls[n] \in Session /\ engine \in Engine
      /\ UNCHANGED <<dials, ringOut, callLogs, retargeted>> /\ phoneCalls[n].state = "init"
  BY PhoneTypes DEF Rings
<1>2. phoneCalls' = [phoneCalls EXCEPT ![n] = row]
  BY DEF Rings
<1>3. /\ row.state = "ringing" /\ row.heard = phoneCalls[n].heard
      /\ row.voicemail = phoneCalls[n].voicemail
      /\ row.doomed = phoneCalls[n].doomed /\ row.talked = phoneCalls[n].talked
      /\ row.party = phoneCalls[n].party /\ row.inbound = phoneCalls[n].inbound
      /\ row.drawn = phoneCalls[n].drawn
  BY <1>1 DEF Session
<1> HIDE DEF row
<1>4. phoneCalls'[n] = row /\ \A m \in CallIds \ {n} : phoneCalls'[m] = phoneCalls[m]
  BY <1>1, <1>2
<1>5. /\ engine'.session = engine.session /\ engine'.ended = engine.ended
      /\ engine'.mounted = engine.mounted
      /\ engine'.timer => engine.timer
      /\ engine'.contact = engine.contact /\ engine'.wasConnected = engine.wasConnected
      /\ engine' # engine => n = engine.session /\ engine'.status \in {"ringing", "in-call"}
      /\ engine'.status = "in-call" => engine.status = "in-call"
  <2>1. CASE phoneCalls[n].heard
    <3>1. n = engine.session /\ engine.session # NoCall
      BY <2>1, CalmFacts DEF CallInOrder
    <3>2. engine.status \in {"ringing", "in-call"}
      BY <3>1, CalmFacts DEF ScreenInOrder
    <3>3. engine' = [Quiet(engine) EXCEPT !.status = IF @ \in {"in-call", "ended"} THEN @ ELSE "ringing"]
      BY <2>1 DEF Rings, Reported
    <3>4. /\ Quiet(engine) \in Engine /\ ~Quiet(engine).timer
          /\ Quiet(engine).session = engine.session /\ Quiet(engine).status = engine.status
          /\ Quiet(engine).ended = engine.ended /\ Quiet(engine).wasConnected = engine.wasConnected
          /\ Quiet(engine).contact = engine.contact /\ Quiet(engine).mounted = engine.mounted
      BY <1>1, QuietEngine
    <3> QED BY <3>1, <3>2, <3>3, <3>4 DEF Engine
  <2>2. CASE ~phoneCalls[n].heard
    BY <2>2 DEF Rings, Reported
  <2> QED BY <2>1, <2>2
<1>6. ASSUME NEW m \in CallIds PROVE CallInOrder(m)'
  BY <1>1, <1>3, <1>4, <1>5, CalmFacts DEF CallInOrder, Alive
<1>7. engine'.status = "in-call" /\ engine'.session # NoCall => phoneCalls'[engine.session].state = "answered"
  <2>1. ASSUME engine.status = "in-call", engine.session # NoCall
        PROVE  phoneCalls'[engine.session].state = "answered"
    <3>1. phoneCalls[engine.session].state = "answered"
      BY <2>1, CalmFacts DEF ScreenInOrder
    <3>2. engine.session # n /\ engine.session \in CallIds
      BY <1>1, <2>1, <3>1, PhoneTypes
    <3> QED BY <1>4, <3>1, <3>2
  <2> QED BY <1>5, <2>1
<1>8. \A m \in CallIds :
        /\ phoneCalls'[m].party = phoneCalls[m].party /\ phoneCalls'[m].inbound = phoneCalls[m].inbound
        /\ phoneCalls'[m].drawn = phoneCalls[m].drawn
        /\ phoneCalls'[m].state = "none" <=> phoneCalls[m].state = "none"
        /\ m # engine.session => phoneCalls'[m].talked = phoneCalls[m].talked
  BY <1>1, <1>3, <1>4
<1>9. engine' # engine => engine.session # NoCall /\ engine'.status \in {"ringing", "in-call"}
  BY <1>5, NoCallIsNone
<1> QED BY <1>1, <1>5, <1>6, <1>7, <1>8, <1>9, SessionCalm

LEMMA AnsweredCalm ==
  ASSUME PhoneTypeOK, PhoneTypeOK', Calm, NEW n \in CallIds, Answered(n)
  PROVE  Calm'
<1>1. /\ phoneCalls \in [CallIds -> Session] /\ phoneCalls[n] \in Session /\ engine \in Engine
      /\ UNCHANGED <<dials, ringOut, callLogs, retargeted>> /\ n # NoCall
      /\ phoneCalls[n].state \in {"init", "ringing"} /\ CallInOrder(n)
  BY PhoneTypes, CalmFacts DEF Answered
<1>2. CASE n = engine.session
  <2> DEFINE row == [phoneCalls[n] EXCEPT !.state = "answered", !.talked = TRUE]
  <2>1. ~phoneCalls[n].doomed /\ phoneCalls[n].heard /\ ~engine.wasConnected
    BY <1>1, <1>2 DEF CallInOrder, Session, Engine
  <2>2. phoneCalls' = [phoneCalls EXCEPT ![n] = row]
    BY <1>1, <2>1 DEF Answered
  <2>3. engine' = [Quiet(engine) EXCEPT !.wasConnected = TRUE, !.status = "in-call"]
    BY <2>1 DEF Answered, Reported
  <2>4. /\ row.state = "answered" /\ row.heard = phoneCalls[n].heard
        /\ row.voicemail = phoneCalls[n].voicemail
        /\ row.doomed = phoneCalls[n].doomed /\ row.talked
        /\ row.party = phoneCalls[n].party /\ row.inbound = phoneCalls[n].inbound
      /\ row.drawn = phoneCalls[n].drawn
    BY <1>1 DEF Session
  <2> HIDE DEF row
  <2>5. phoneCalls'[n] = row /\ \A m \in CallIds \ {n} : phoneCalls'[m] = phoneCalls[m]
    BY <1>1, <2>2
  <2>6. /\ engine'.session = engine.session /\ engine'.ended = engine.ended
        /\ engine'.mounted = engine.mounted /\ ~engine'.timer
        /\ engine'.contact = engine.contact /\ engine'.wasConnected
        /\ engine'.status = "in-call"
    BY <1>1, <2>3, QuietEngine DEF Engine
  <2>7. ASSUME NEW m \in CallIds PROVE CallInOrder(m)'
    BY <1>1, <1>2, <2>4, <2>5, <2>6, CalmFacts DEF CallInOrder, Alive
  <2>8. \A m \in CallIds :
        /\ phoneCalls'[m].party = phoneCalls[m].party /\ phoneCalls'[m].inbound = phoneCalls[m].inbound
        /\ phoneCalls'[m].drawn = phoneCalls[m].drawn
        /\ phoneCalls'[m].state = "none" <=> phoneCalls[m].state = "none"
        /\ m # engine.session => phoneCalls'[m].talked = phoneCalls[m].talked
    BY <1>1, <1>2, <2>4, <2>5
  <2> QED BY <1>1, <1>2, <2>4, <2>5, <2>6, <2>7, <2>8, SessionCalm
<1>3. CASE n # engine.session
  <2>1. phoneCalls[n].doomed /\ ~phoneCalls[n].heard
    BY <1>1, <1>3 DEF CallInOrder, Alive
  <2>2. phoneCalls' = Over(phoneCalls, n) /\ engine' = engine
    BY <2>1 DEF Answered, Reported
  <2>3. /\ \A m \in CallIds \ {n} : phoneCalls'[m] = phoneCalls[m]
        /\ phoneCalls'[n].state = "over" /\ ~phoneCalls'[n].heard /\ ~phoneCalls'[n].doomed
        /\ ~phoneCalls'[n].voicemail /\ phoneCalls'[n].talked = phoneCalls[n].talked
        /\ phoneCalls'[n].inbound = phoneCalls[n].inbound /\ phoneCalls'[n].party = phoneCalls[n].party
        /\ phoneCalls'[n].drawn = phoneCalls[n].drawn
    BY <1>1, <2>2, OverRow
  <2>4. ASSUME NEW m \in CallIds PROVE CallInOrder(m)'
    BY <1>1, <1>3, <2>2, <2>3, CalmFacts DEF CallInOrder, Alive
  <2>5. engine.status = "in-call" /\ engine.session # NoCall =>
          phoneCalls'[engine.session].state = "answered"
    <3>1. engine.session # NoCall => engine.session \in CallIds \ {n}
      BY <1>3, PhoneTypes
    <3> QED BY <2>3, <3>1, CalmFacts DEF ScreenInOrder
  <2>6. \A m \in CallIds :
        /\ phoneCalls'[m].party = phoneCalls[m].party /\ phoneCalls'[m].inbound = phoneCalls[m].inbound
        /\ phoneCalls'[m].drawn = phoneCalls[m].drawn
        /\ phoneCalls'[m].state = "none" <=> phoneCalls[m].state = "none"
        /\ phoneCalls'[m].talked = phoneCalls[m].talked
    BY <1>1, <2>3
  <2> QED BY <1>1, <2>2, <2>4, <2>5, <2>6, SessionCalm
<1> QED BY <1>2, <1>3

LEMMA CallerMatchedCalm ==
  ASSUME PhoneTypeOK, PhoneTypeOK', Calm, NEW n \in CallIds, CallerMatched(n)
  PROVE  Calm'
<1> DEFINE e == [engine EXCEPT !.contact = phoneCalls[n].party]
<1>1. /\ engine \in Engine /\ n = engine.session /\ phoneCalls[n].party # Stranger /\ n # NoCall
      /\ phoneCalls[n].inbound /\ phoneCalls[n].party \in Targets
      /\ UNCHANGED <<dials, ringOut>> /\ Rendered(e, phoneCalls) /\ Retargets(e)
  BY PhoneTypes, NoCallIsNone DEF CallerMatched, Session
<1>2. engine.contact = Stranger
  BY <1>1, CalmFacts DEF LogInOrder
<1>3. /\ e \in Engine /\ e.session = engine.session /\ e.ended = engine.ended
      /\ e.mounted = engine.mounted /\ e.wasConnected = engine.wasConnected
      /\ e.contact = phoneCalls[n].party /\ e.status = engine.status
  BY <1>1 DEF Engine
<1> HIDE DEF e
<1>4. TearDown(e, phoneCalls) /\ retargeted' = retargeted \union {n}
  BY <1>1, <1>2, <1>3 DEF Rendered, Retargets
<1>5. ScreenInOrder /\ \A i \in DOMAIN dials : DialInOrder(i)
  BY CalmFacts
<1>6. ASSUME NEW i \in DOMAIN dials, Starting(i), ~engine.ended, e.mounted
      PROVE  e.status = "connecting"
  BY <1>3, <1>5, <1>6 DEF DialInOrder
<1>7. e.mounted /\ ringOut => e.status = "connecting"
  BY <1>3, <1>5 DEF ScreenInOrder
<1> QED BY <1>1, <1>2, <1>3, <1>4, <1>6, <1>7, TearDownCalm DEF SameSession

LEMMA EndsCalm ==
  ASSUME PhoneTypeOK, PhoneTypeOK', Calm, NEW n \in CallIds, NEW final \in {"ended", "error"},
         Ends(n, final)
  PROVE  Calm'
<1> DEFINE row == [phoneCalls[n] EXCEPT !.state = "over", !.doomed = FALSE]
           over == [phoneCalls EXCEPT ![n].state = "over", ![n].doomed = FALSE]
<1>1. /\ phoneCalls \in [CallIds -> Session] /\ phoneCalls[n] \in Session /\ engine \in Engine
      /\ UNCHANGED <<dials, ringOut, retargeted>> /\ n # NoCall
      /\ phoneCalls[n].state \in {"init", "ringing", "answered"} /\ CallInOrder(n)
  BY PhoneTypes, CalmFacts DEF Ends
<1>2. /\ row \in Session /\ row.state = "over" /\ ~row.doomed /\ row.heard = phoneCalls[n].heard
      /\ row.voicemail = phoneCalls[n].voicemail /\ row.talked = phoneCalls[n].talked
      /\ row.party = phoneCalls[n].party /\ row.inbound = phoneCalls[n].inbound
      /\ row.drawn = phoneCalls[n].drawn
  BY <1>1 DEF Session
<1>3. over = [phoneCalls EXCEPT ![n] = row]
  BY <1>1
<1>4. IF phoneCalls[n].heard THEN EndCall(engine, over, final, phoneCalls[n].drawn)
      ELSE phoneCalls' = over /\ UNCHANGED <<engine, callLogs>>
  BY DEF Ends
<1> HIDE DEF row, over
<1>5. /\ over \in [CallIds -> Session] /\ over[n] = row
      /\ \A m \in CallIds \ {n} : over[m] = phoneCalls[m]
  BY <1>1, <1>2, <1>3
<1>6. \A m \in CallIds : HungUp(over[m], phoneCalls[m])
  BY <1>1, <1>2, <1>5 DEF HungUp
<1>7. CASE phoneCalls[n].heard
  <2>1. engine.session # NoCall
    BY <1>1, <1>7 DEF CallInOrder
  <2>2. SameCall(engine) /\ ~ringOut
    BY <1>1, <2>1, CalmFacts DEF SameCall, SameSession, ScreenInOrder
  <2>3. /\ phoneCalls[n].drawn \in Targets
        /\ engine.contact = Stranger => phoneCalls[n].drawn = Stranger
    BY <1>1, <1>7, CalmFacts DEF Session, LogInOrder, CallInOrder
  <2> QED BY <1>1, <1>4, <1>5, <1>6, <1>7, <2>2, <2>3, EndCallCalm DEF DialsSettle
<1>8. CASE ~phoneCalls[n].heard
  <2>1. phoneCalls' = over /\ UNCHANGED <<engine, callLogs>> /\ n # engine.session
    BY <1>1, <1>4, <1>8 DEF CallInOrder
  <2>2. ASSUME NEW m \in CallIds PROVE CallInOrder(m)'
    BY <1>1, <1>2, <1>5, <2>1, CalmFacts DEF CallInOrder, Alive
  <2>3. engine.status = "in-call" /\ engine.session # NoCall =>
          phoneCalls'[engine.session].state = "answered"
    <3>1. engine.session # NoCall => engine.session \in CallIds \ {n}
      BY <2>1, PhoneTypes
    <3> QED BY <1>5, <2>1, <3>1, CalmFacts DEF ScreenInOrder
  <2>4. \A m \in CallIds :
        /\ phoneCalls'[m].party = phoneCalls[m].party /\ phoneCalls'[m].inbound = phoneCalls[m].inbound
        /\ phoneCalls'[m].drawn = phoneCalls[m].drawn
        /\ phoneCalls'[m].state = "none" <=> phoneCalls[m].state = "none"
        /\ phoneCalls'[m].talked = phoneCalls[m].talked
    BY <1>1, <1>2, <1>5, <2>1
  <2> QED BY <1>1, <2>1, <2>2, <2>3, <2>4, SessionCalm
<1> QED BY <1>7, <1>8

LEMMA VoicemailTakesCalm ==
  ASSUME PhoneTypeOK, PhoneTypeOK', Calm, NEW n \in CallIds, VoicemailTakes(n)
  PROVE  Calm'
<1>1. /\ phoneCalls \in [CallIds -> Session] /\ phoneCalls[n] \in Session /\ engine \in Engine
      /\ UNCHANGED <<dials, ringOut, retargeted>> /\ phoneCalls[n].voicemail
      /\ EndCall(engine, Over(phoneCalls, n), "ended", phoneCalls[n].drawn) /\ CallInOrder(n)
  BY PhoneTypes, CalmFacts DEF VoicemailTakes
<1>2. \A m \in CallIds : HungUp(Over(phoneCalls, n)[m], phoneCalls[m])
  <2>1. phoneCalls[n].state # "none"
    BY <1>1 DEF CallInOrder
  <2> QED BY <1>1, <2>1, OverRow DEF HungUp
<1>3. ~engine.ended /\ engine.mounted => ~ringOut
  <2>1. ~engine.ended => engine.session # NoCall
    BY <1>1, CalmFacts DEF CallInOrder
  <2> QED BY <2>1, CalmFacts
<1>4. SameCall(engine) /\ Over(phoneCalls, n) \in [CallIds -> Session]
  BY <1>1, OverRow DEF SameCall, SameSession
<1>5. /\ phoneCalls[n].drawn \in Targets
      /\ engine.session # NoCall /\ engine.contact = Stranger => phoneCalls[n].drawn = Stranger
  <2>1. engine.session # NoCall => n = engine.session
    BY <1>1, CalmFacts DEF CallInOrder, ScreenInOrder
  <2> QED BY <1>1, <2>1, CalmFacts DEF Session, LogInOrder
<1> QED BY <1>1, <1>2, <1>3, <1>4, <1>5, EndCallCalm DEF DialsSettle

-----------------------------------------------------------------------------
LEMMA PhoneTypeParts ==
  ASSUME engine' \in Engine, phoneCalls' \in [CallIds -> Session], dials' \in Seq(Dial),
         callLogs' \in [CallIds -> Seq(Log)], ringOut' \in BOOLEAN, revived' \in BOOLEAN,
         retargeted' \subseteq CallIds
  PROVE  PhoneTypeOK'
BY DEF PhoneTypeOK, Dial

LEMMA UserTypes ==
  ASSUME PhoneTypeOK,
         \/ \E c \in Callees : OpenCall(c) \/ OpenCallInline(c)
         \/ StartCall \/ HangUp \/ Reset \/ RingMyPhoneInstead \/ RingOutReturns \/ Unmount \/ ConnectTimeout
  PROVE  PhoneTypeOK'
<1>1. /\ phoneCalls \in [CallIds -> Session] /\ dials \in Seq(Dial) /\ engine \in Engine
      /\ callLogs \in [CallIds -> Seq(Log)] /\ ringOut \in BOOLEAN /\ revived \in BOOLEAN
      /\ engine.session \in CallIds \union {NoCall} /\ engine.status \in Statuses
      /\ retargeted \subseteq CallIds /\ engine.contact \in Targets
  BY PhoneTypes DEF PhoneTypeOK
<1>2. {"error", "ended"} \subseteq Statuses
  BY DEF Statuses
<1>3. ASSUME NEW c \in Callees, OpenCall(c) PROVE PhoneTypeOK'
  <2> DEFINE e == [engine EXCEPT !.contact = c, !.status = IF OnCall THEN @ ELSE "idle"]
  <2>1. e \in Engine /\ e.session = engine.session
    BY <1>1 DEF Engine, Targets
  <2>2. Rendered(e, phoneCalls) /\ Retargets(e)
    BY <1>3 DEF OpenCall
  <2> HIDE DEF e
  <2>3. retargeted' \subseteq CallIds
    BY <1>1, <2>1, <2>2 DEF Retargets
  <2> QED BY <1>1, <1>3, <2>1, <2>2, <2>3, TearDownTypes, PhoneTypeParts DEF OpenCall
<1>4. ASSUME NEW c \in Targets, Dialled(c), Revives(0)
      PROVE  dials' \in Seq(Dial) /\ revived' \in BOOLEAN
  <2> DEFINE dial == [at |-> "asking", to |-> c, drawn |-> engine.contact, call |-> NoCall]
  <2>1. dial \in Dial /\ dials' = Append(dials, dial)
    BY <1>1, <1>4 DEF Dial, Dialled
  <2> HIDE DEF dial
  <2>2. dials' \in Seq(Dial)
    BY <1>1, <2>1
  <2> QED BY <1>1, <1>4, <2>2 DEF Revives
<1>11. CASE StartCall
  <2>1. engine' \in Engine
    BY <1>1, <1>11, ConnectingEngine DEF StartCall
  <2> QED BY <1>1, <1>4, <1>11, <2>1, PhoneTypeParts DEF StartCall
<1>12. ASSUME NEW c \in Callees, OpenCallInline(c) PROVE PhoneTypeOK'
  <2>1. c \in Targets /\ Connecting(c) \in Engine /\ Connecting(c).session = engine.session
    BY <1>1, ConnectingEngine DEF Targets
  <2>2. Rendered(Connecting(c), phoneCalls) /\ Retargets(Connecting(c)) /\ Dialled(c) /\ Revives(0)
        /\ UNCHANGED ringOut
    BY <1>12 DEF OpenCallInline
  <2>3. retargeted' \subseteq CallIds
    BY <1>1, <2>1, <2>2 DEF Retargets
  <2> QED BY <1>1, <1>4, <2>1, <2>2, <2>3, TearDownTypes, PhoneTypeParts
<1>5. CASE HangUp
  <2>1. EndCall(engine, phoneCalls, "ended", engine.contact)
    BY <1>5 DEF HangUp
  <2> QED BY <1>1, <1>5, <2>1, EndCallTypes, PhoneTypeParts DEF HangUp
<1>6. CASE Reset
  <2>1. Quiet(engine) \in Engine
    BY <1>1, QuietEngine
  <2>2. engine' \in Engine
    BY <1>6, <2>1 DEF Reset, Engine
  <2>3. callLogs' \in [CallIds -> Seq(Log)] /\ phoneCalls' \in [CallIds -> Session]
    BY <1>1, <1>6, LogCallType, CleanupType DEF Reset
  <2>4. revived' \in BOOLEAN
    BY <1>1, <1>6 DEF Reset, Revives
  <2> QED BY <1>1, <1>6, <2>2, <2>3, <2>4, PhoneTypeParts DEF Reset
<1>7. CASE RingMyPhoneInstead
  <2>1. engine' \in Engine
    BY <1>1, <1>7 DEF RingMyPhoneInstead, Engine
  <2> QED BY <1>1, <1>7, <2>1, PhoneTypeParts DEF RingMyPhoneInstead
<1>8. CASE RingOutReturns
  <2>1. engine' \in Engine
    BY <1>1, <1>8 DEF RingOutReturns, Engine
  <2> QED BY <1>1, <1>8, <2>1, PhoneTypeParts DEF RingOutReturns
<1>9. CASE Unmount
  <2> DEFINE e == [engine EXCEPT !.mounted = FALSE]
  <2>1. e \in Engine
    BY <1>1 DEF Engine
  <2>2. TearDown(e, phoneCalls) /\ UNCHANGED <<dials, ringOut, revived, retargeted>>
    BY <1>9 DEF Unmount
  <2> HIDE DEF e
  <2> QED BY <1>1, <2>1, <2>2, TearDownTypes, PhoneTypeParts
<1>10. CASE ConnectTimeout
  <2> DEFINE e == [engine EXCEPT !.timer = FALSE]
             drawn == dials[Len(dials)].drawn
  <2>1. e \in Engine /\ drawn \in Targets
    BY <1>1, <1>10, LastDial DEF Engine, ConnectTimeout
  <2>2. \/ Finalize(e, phoneCalls, "error", "error", drawn)
        \/ engine' = e /\ UNCHANGED <<phoneCalls, callLogs>>
    BY <1>10 DEF ConnectTimeout
  <2> HIDE DEF e, drawn
  <2>3. /\ engine' \in Engine /\ phoneCalls' \in [CallIds -> Session]
        /\ callLogs' \in [CallIds -> Seq(Log)]
    <3>1. CASE Finalize(e, phoneCalls, "error", "error", drawn)
      BY <1>1, <1>2, <2>1, <3>1, FinalizeTypes
    <3>2. CASE engine' = e /\ UNCHANGED <<phoneCalls, callLogs>>
      BY <1>1, <2>1, <3>2
    <3> QED BY <2>2, <3>1, <3>2
  <2> QED BY <1>1, <1>10, <2>3, PhoneTypeParts DEF ConnectTimeout
<1> QED BY <1>3, <1>5, <1>6, <1>7, <1>8, <1>9, <1>10, <1>11, <1>12

LEMMA DialTypes ==
  ASSUME PhoneTypeOK, NEW i,
         \/ SetupFails(i) \/ SetupTooLate(i) \/ CallThrows(i) \/ CallReturns(i)
         \/ \E n \in CallIds : Invite(i, n)
  PROVE  PhoneTypeOK'
<1>1. /\ phoneCalls \in [CallIds -> Session] /\ dials \in Seq(Dial) /\ engine \in Engine
      /\ callLogs \in [CallIds -> Seq(Log)] /\ ringOut \in BOOLEAN /\ revived \in BOOLEAN
      /\ retargeted \subseteq CallIds /\ i \in DOMAIN dials /\ dials[i] \in Dial
  BY PhoneTypes DEF PhoneTypeOK, SetupFails, SetupTooLate, CallThrows, CallReturns, Invite
<1>2. Quiet(engine) \in Engine
  BY <1>1, QuietEngine
<1>3. CASE SetupFails(i)
  <2>1. engine' \in Engine
    BY <1>2, <1>3 DEF SetupFails, Engine
  <2> QED BY <1>1, <1>3, <2>1, SettledDials, PhoneTypeParts DEF SetupFails
<1>4. CASE SetupTooLate(i)
  <2>1. engine' \in Engine
    BY <1>1, <1>4 DEF SetupTooLate, Engine
  <2> QED BY <1>1, <1>4, <2>1, SettledDials, PhoneTypeParts DEF SetupTooLate
<1>5. CASE CallThrows(i)
  <2>1. /\ engine' \in Engine /\ phoneCalls' \in [CallIds -> Session]
        /\ callLogs' \in [CallIds -> Seq(Log)]
    <3>1. CASE Abandoned
      BY <1>1, <1>5, <3>1 DEF CallThrows
    <3>2. CASE ~Abandoned
      BY <1>1, <1>2, <1>5, <3>2, EndCallTypes DEF CallThrows, Dial
    <3> QED BY <3>1, <3>2
  <2> QED BY <1>1, <1>5, <2>1, SettledDials, PhoneTypeParts DEF CallThrows
<1>6. CASE CallReturns(i)
  <2> DEFINE e == [engine EXCEPT !.blockClose = FALSE]
  <2>1. e \in Engine
    BY <1>1 DEF Engine
  <2>2. EndCall(e, phoneCalls, "error", dials[i].drawn) \/ UNCHANGED <<engine, phoneCalls, callLogs>>
    BY <1>6 DEF CallReturns
  <2> HIDE DEF e
  <2>3. /\ engine' \in Engine /\ phoneCalls' \in [CallIds -> Session]
        /\ callLogs' \in [CallIds -> Seq(Log)]
    BY <1>1, <2>1, <2>2, EndCallTypes DEF Dial
  <2> QED BY <1>1, <1>6, <2>3, SettledDials, PhoneTypeParts DEF CallReturns
<1>7. ASSUME NEW n \in CallIds, Invite(i, n) PROVE PhoneTypeOK'
  <2> DEFINE row == [dials[i] EXCEPT !.at = "inviting", !.call = n]
  <2>1. engine' \in Engine
    BY <1>1, <1>7, AttachedEngine, QuietEngine DEF Invite
  <2>2. phoneCalls' \in [CallIds -> Session]
    <3>1. dials[i].to \in Targets /\ dials[i].drawn \in Targets /\ FALSE \in BOOLEAN
      BY <1>1 DEF Dial
    <3> QED BY <1>7, <3>1, AttachedRow DEF Invite
  <2>3. row \in Dial
    BY <1>1 DEF Dial
  <2>4. dials' = [dials EXCEPT ![i] = row]
    BY <1>1, <1>7 DEF Invite
  <2> HIDE DEF row
  <2>5. dials' \in Seq(Dial)
    BY <1>1, <2>3, <2>4
  <2>6. retargeted' \subseteq CallIds /\ revived' \in BOOLEAN
    BY <1>1, <1>7 DEF Invite, Revives
  <2> QED BY <1>1, <1>7, <2>1, <2>2, <2>5, <2>6, PhoneTypeParts DEF Invite
<1> QED BY <1>3, <1>4, <1>5, <1>6, <1>7

LEMMA SessionTypes ==
  ASSUME PhoneTypeOK, NEW n \in CallIds,
         \/ Rings(n) \/ Answered(n) \/ Ends(n, "ended") \/ Ends(n, "error")
         \/ SendIncomingCallToVoicemail(n) \/ VoicemailTakes(n) \/ CallerMatched(n)
         \/ \E c \in Targets : InboundCall(n, c)
  PROVE  PhoneTypeOK'
<1>1. /\ phoneCalls \in [CallIds -> Session] /\ dials \in Seq(Dial) /\ engine \in Engine
      /\ callLogs \in [CallIds -> Seq(Log)] /\ ringOut \in BOOLEAN /\ revived \in BOOLEAN
      /\ retargeted \subseteq CallIds /\ phoneCalls[n] \in Session
  BY PhoneTypes DEF PhoneTypeOK
<1>2. Quiet(engine) \in Engine
  BY <1>1, QuietEngine
<1>3. CASE Rings(n)
  <2>1. engine' \in Engine
    BY <1>1, <1>2, <1>3 DEF Rings, Reported, Engine
  <2>2. phoneCalls' \in [CallIds -> Session]
    <3>1. [phoneCalls[n] EXCEPT !.state = "ringing"] \in Session
      BY <1>1 DEF Session
    <3> QED BY <1>1, <1>3, <3>1 DEF Rings
  <2> QED BY <1>1, <1>3, <2>1, <2>2, PhoneTypeParts DEF Rings
<1>4. CASE Answered(n)
  <2>1. engine' \in Engine
    BY <1>1, <1>2, <1>4 DEF Answered, Reported, Engine
  <2>2. phoneCalls' \in [CallIds -> Session]
    <3> DEFINE row == [phoneCalls[n] EXCEPT !.state = "answered", !.talked = TRUE]
    <3>1. row \in Session
      BY <1>1 DEF Session
    <3>2. phoneCalls' = Over(phoneCalls, n) \/ phoneCalls' = [phoneCalls EXCEPT ![n] = row]
      BY <1>1, <1>4 DEF Answered
    <3> HIDE DEF row
    <3> QED BY <1>1, <3>1, <3>2, OverRow
  <2> QED BY <1>1, <1>4, <2>1, <2>2, PhoneTypeParts DEF Answered
<1>5. ASSUME NEW final \in {"ended", "error"}, Ends(n, final) PROVE PhoneTypeOK'
  <2> DEFINE row == [phoneCalls[n] EXCEPT !.state = "over", !.doomed = FALSE]
             over == [phoneCalls EXCEPT ![n].state = "over", ![n].doomed = FALSE]
  <2>1. row \in Session
    BY <1>1 DEF Session
  <2>2. over = [phoneCalls EXCEPT ![n] = row]
    BY <1>1
  <2>3. EndCall(engine, over, final, phoneCalls[n].drawn) \/ (phoneCalls' = over /\ UNCHANGED <<engine, callLogs>>)
    BY <1>5 DEF Ends
  <2> HIDE DEF row, over
  <2>4. over \in [CallIds -> Session]
    BY <1>1, <2>1, <2>2
  <2>5. /\ engine' \in Engine /\ phoneCalls' \in [CallIds -> Session]
        /\ callLogs' \in [CallIds -> Seq(Log)]
    <3>1. phoneCalls[n].drawn \in Targets
      BY <1>1 DEF Session
    <3> QED BY <1>1, <2>3, <2>4, <3>1, EndCallTypes
  <2> QED BY <1>1, <1>5, <2>5, PhoneTypeParts DEF Ends
<1>6. CASE SendIncomingCallToVoicemail(n)
  <2>1. [phoneCalls[n] EXCEPT !.voicemail = TRUE] \in Session
    BY <1>1 DEF Session
  <2>2. phoneCalls' \in [CallIds -> Session]
    BY <1>1, <1>6, <2>1 DEF SendIncomingCallToVoicemail
  <2> QED BY <1>1, <1>6, <2>2, PhoneTypeParts DEF SendIncomingCallToVoicemail
<1>7. CASE VoicemailTakes(n)
  <2>1. Over(phoneCalls, n) \in [CallIds -> Session] /\ EndCall(engine, Over(phoneCalls, n), "ended", phoneCalls[n].drawn)
    BY <1>1, <1>7, OverRow DEF VoicemailTakes
  <2>2. /\ engine' \in Engine /\ phoneCalls' \in [CallIds -> Session]
        /\ callLogs' \in [CallIds -> Seq(Log)]
    BY <1>1, <2>1, EndCallTypes DEF Session
  <2> QED BY <1>1, <1>7, <2>2, PhoneTypeParts DEF VoicemailTakes
<1>8. CASE CallerMatched(n)
  <2> DEFINE e == [engine EXCEPT !.contact = phoneCalls[n].party]
  <2>1. e \in Engine /\ e.session = engine.session
    BY <1>1 DEF Session, Engine
  <2>2. Rendered(e, phoneCalls) /\ Retargets(e) /\ UNCHANGED <<dials, ringOut, revived>>
    BY <1>8 DEF CallerMatched
  <2> HIDE DEF e
  <2>3. retargeted' \subseteq CallIds
    BY <1>1, <2>1, <2>2, PhoneTypes DEF Retargets
  <2> QED BY <1>1, <2>1, <2>2, <2>3, TearDownTypes, PhoneTypeParts
<1>9. ASSUME NEW c \in Targets, InboundCall(n, c) PROVE PhoneTypeOK'
  <2> DEFINE e == [AttachSession(engine, n) EXCEPT !.contact = Stranger]
             cs == Attached(n, TRUE, c, engine.contact)
  <2>1. AttachSession(engine, n) \in Engine /\ AttachSession(engine, n).session = n
    BY <1>1, AttachedEngine
  <2>2. e \in Engine /\ e.session = n
    BY <2>1 DEF Engine, Targets
  <2>3. cs \in [CallIds -> Session]
    BY PhoneTypes, AttachedRow
  <2>4. Rendered(e, cs) /\ Retargets(e) /\ Revives(0) /\ UNCHANGED <<dials, ringOut>>
    BY <1>9 DEF InboundCall
  <2> HIDE DEF e, cs
  <2>5. retargeted' \subseteq CallIds /\ revived' \in BOOLEAN
    BY <1>1, <2>2, <2>4 DEF Retargets, Revives
  <2> QED BY <1>1, <2>2, <2>3, <2>4, <2>5, TearDownTypes, PhoneTypeParts
<1> QED BY <1>3, <1>4, <1>5, <1>6, <1>7, <1>8, <1>9

LEMMA PhoneInitInv == PhoneInit => PhoneInv
<1> SUFFICES ASSUME PhoneInit PROVE PhoneInv
  OBVIOUS
<1> DEFINE row == [state |-> "none", inbound |-> FALSE, party |-> Stranger, drawn |-> Stranger,
                   heard |-> FALSE, doomed |-> FALSE, voicemail |-> FALSE, talked |-> FALSE]
<1>1. /\ phoneCalls = [n \in CallIds |-> row] /\ dials = <<>> /\ callLogs = [n \in CallIds |-> <<>>]
      /\ engine.session = NoCall /\ engine.status = "idle" /\ ~engine.timer
      /\ ringOut = FALSE /\ revived = FALSE /\ retargeted = {}
  BY DEF PhoneInit
<1>2. row \in Session
  BY DEF Session, Targets
<1>3. engine \in Engine
  BY DEF PhoneInit, Engine, Targets
<1>4. PhoneTypeOK
  <2> HIDE DEF row
  <2>1. phoneCalls \in [CallIds -> Session] /\ callLogs \in [CallIds -> Seq(Log)]
    BY <1>1, <1>2
  <2>2. dials \in Seq(Dial)
    BY <1>1
  <2> QED BY <1>1, <1>3, <2>1, <2>2 DEF PhoneTypeOK, Dial
<1>5. \A n \in CallIds : CallInOrder(n) /\ LogInOrder(n)
  BY <1>1, NoCallIsNone DEF CallInOrder, LogInOrder, Alive
<1>6. ScreenInOrder
  BY <1>1 DEF ScreenInOrder
<1> QED BY <1>1, <1>4, <1>5, <1>6 DEF PhoneInv, Calm

LEMMA PhoneTypeStep ==
  ASSUME PhoneTypeOK, [PhoneNext]_phoneVars
  PROVE  PhoneTypeOK'
<1>1. CASE UNCHANGED phoneVars
  BY <1>1 DEF phoneVars, PhoneTypeOK
<1>2. CASE PhoneNext
  BY <1>2, UserTypes, DialTypes, SessionTypes DEF PhoneNext
<1> QED BY <1>1, <1>2

LEMMA PhoneStep ==
  ASSUME PhoneInv, [PhoneNext]_phoneVars
  PROVE  PhoneInv'
<1>1. PhoneTypeOK /\ PhoneTypeOK'
  BY PhoneTypeStep DEF PhoneInv
<1>2. revived => revived'
  BY DEF PhoneNext, OpenCall, OpenCallInline, StartCall, HangUp, Reset, RingMyPhoneInstead, RingOutReturns, Unmount,
         ConnectTimeout, SetupFails, SetupTooLate, CallThrows, CallReturns, Invite, Rings, Answered,
         Ends, SendIncomingCallToVoicemail, VoicemailTakes, CallerMatched, InboundCall, Revives, phoneVars
<1>3. ASSUME ~revived' PROVE Calm'
  <2>1. Calm
    BY <1>2, <1>3 DEF PhoneInv
  <2>2. CASE UNCHANGED phoneVars
    BY <2>1, <2>2 DEF phoneVars, Calm, CallInOrder, LogInOrder, Unlogged, DialInOrder, ScreenInOrder, Alive, Starting
  <2>3. ASSUME NEW c \in Callees, OpenCall(c) \/ OpenCallInline(c) PROVE Calm'
    BY <1>1, <1>3, <2>1, <2>3, OpenCallCalm, OpenCallInlineCalm
  <2>4. CASE StartCall \/ HangUp \/ Reset \/ RingMyPhoneInstead \/ RingOutReturns \/ Unmount \/ ConnectTimeout
    BY <1>1, <1>3, <2>1, <2>4, StartCallCalm, HangUpCalm, ResetCalm, RingMyPhoneInsteadCalm, RingOutReturnsCalm,
       UnmountCalm, ConnectTimeoutCalm
  <2>5. ASSUME NEW i \in 1..MaxDials,
               SetupFails(i) \/ SetupTooLate(i) \/ CallThrows(i) \/ CallReturns(i)
        PROVE  Calm'
    BY <1>1, <2>1, <2>5, SetupCalm, CallThrowsCalm, CallReturnsCalm
  <2>6. ASSUME NEW i \in 1..MaxDials, NEW n \in CallIds, Invite(i, n) PROVE Calm'
    BY <1>1, <1>3, <2>1, <2>6, InviteCalm
  <2>7. ASSUME NEW n \in CallIds, Rings(n) \/ Answered(n) \/ CallerMatched(n)
                                  \/ SendIncomingCallToVoicemail(n) \/ VoicemailTakes(n)
        PROVE  Calm'
    BY <1>1, <2>1, <2>7, RingsCalm, AnsweredCalm, CallerMatchedCalm, SendToVoicemailCalm, VoicemailTakesCalm
  <2>8. ASSUME NEW n \in CallIds, Ends(n, "ended") \/ Ends(n, "error") PROVE Calm'
    BY <1>1, <2>1, <2>8, EndsCalm
  <2>9. ASSUME NEW n \in CallIds, NEW c \in Targets, InboundCall(n, c) PROVE Calm'
    BY <1>1, <1>3, <2>1, <2>9, InboundCallCalm
  <2> QED BY <2>2, <2>3, <2>4, <2>5, <2>6, <2>7, <2>8, <2>9 DEF PhoneNext
<1> QED BY <1>1, <1>3 DEF PhoneInv

LEMMA CalmIsOneLiveCall == PhoneInv => OneLiveCall
<1> SUFFICES ASSUME PhoneTypeOK, Calm PROVE OneLiveCall
  BY DEF PhoneInv, OneLiveCall
<1>1. \A n \in CallIds : phoneCalls[n].state \in {"init", "ringing", "answered"} =>
         n = engine.session \/ phoneCalls[n].doomed
  BY CalmFacts DEF CallInOrder, Alive
<1>2. engine.mounted =>
         /\ engine.session # NoCall => engine.status \in {"ringing", "in-call"}
         /\ engine.status = "in-call" =>
              IF engine.session = NoCall THEN retargeted # {}
              ELSE phoneCalls[engine.session].state = "answered"
  BY CalmFacts DEF ScreenInOrder
<1> QED BY <1>1, <1>2 DEF OneLiveCall

LEMMA CalmIsWellLogged == PhoneInv => LogTellsTheCall
<1> SUFFICES ASSUME PhoneTypeOK, Calm, NEW n \in CallIds
             PROVE  /\ Len(callLogs[n]) <= 1
                    /\ (phoneCalls[n].state # "none" /\ ~phoneCalls[n].inbound
                          /\ phoneCalls[n].party # Stranger /\ n # engine.session) => Len(callLogs[n]) = 1
                    /\ \A k \in DOMAIN callLogs[n] :
                         /\ (callLogs[n][k].outcome = "completed") <=> phoneCalls[n].talked
                         /\ callLogs[n][k].contact = phoneCalls[n].party \/ n \in retargeted
  BY DEF PhoneInv, LogTellsTheCall
<1>1. LogInOrder(n)
  BY CalmFacts
<1>2. CASE callLogs[n] = <<>>
  BY <1>1, <1>2 DEF LogInOrder, Unlogged
<1>3. CASE \E log \in Log : /\ callLogs[n] = <<log>>
                            /\ (log.outcome = "completed") <=> phoneCalls[n].talked
                            /\ log.contact = phoneCalls[n].party \/ n \in retargeted
  BY <1>3
<1> QED BY <1>1, <1>2, <1>3 DEF LogInOrder

\* Whatever the user clicks and the network reports, the engine, the sessions
\* and the logs of the softphone are typed (softphone-button.tsx).
THEOREM PhoneTypeCorrect == PhoneSpec => []PhoneTypeOK
<1>1. PhoneInv => PhoneTypeOK
  BY DEF PhoneInv
<1>2. PhoneInv /\ [PhoneNext]_phoneVars => PhoneInv'
  BY PhoneStep
<1> QED BY <1>1, <1>2, PhoneInitInv, PTL DEF PhoneSpec

\* One live call at a time, and the screen says what it is, but for a call
\* dropped by a change of the contact, for any number of calls, starts and
\* contacts: finalize, cleanupSession and attachSession leave no session that
\* nobody can hang up, the renders under a call included, until an abandoned
\* start comes back.
THEOREM OneLiveCallHolds == PhoneSpec => []OneLiveCall
<1>1. PhoneInv /\ [PhoneNext]_phoneVars => PhoneInv'
  BY PhoneStep
<1> QED BY <1>1, CalmIsOneLiveCall, PhoneInitInv, PTL DEF PhoneSpec

\* A call dialled for a contact is logged exactly once when it is over, every
\* other call at most once; the log tells whether the two sides talked, and is
\* of the contact the call was with unless the one on the screen changed under
\* it, until an abandoned start comes back (logCall, finalize).
THEOREM LogTellsTheCallHolds == PhoneSpec => []LogTellsTheCall
<1>1. PhoneInv /\ [PhoneNext]_phoneVars => PhoneInv'
  BY PhoneStep
<1> QED BY <1>1, CalmIsWellLogged, PhoneInitInv, PTL DEF PhoneSpec

-----------------------------------------------------------------------------
\* The calling queue.  A routing run is a loop, and it never touches a row
\* that is there; a first call is counted; owners are those of the account.

RepRows   == [Leads -> Assignments \union {Unassigned}]
Owners == [Leads -> Reps \union {Nobody}]
Filled == [rows : RepRows, owner : Owners, load : [Reps -> Nat]]

\* The contacts of an account that have rows have one rep.
OneRepIn(as, a) ==
  \A l, m \in Leads :
    (AccountOf[l] = a /\ AccountOf[m] = a /\ as[l] # Unassigned /\ as[m] # Unassigned)
      => as[l].rep = as[m].rep

\* bs is as with fresh rows where there were none.
OnlyFilled(as, bs) ==
  /\ \A l \in Leads : as[l] # Unassigned => bs[l] = as[l]
  /\ \A l \in Leads : as[l] = Unassigned =>
       bs[l] = Unassigned \/ \E rep \in Reps, active \in BOOLEAN : bs[l] = FreshRow(rep, active)
  /\ \A a \in Accounts : OneRepIn(as, a) => OneRepIn(bs, a)

LEMMA FreshRowIsARow ==
  ASSUME NEW rep \in Reps, NEW active \in BOOLEAN
  PROVE  /\ FreshRow(rep, active) \in Assignments /\ FreshRow(rep, active) # Unassigned
         /\ FreshRow(rep, active).rep = rep /\ ~FreshRow(rep, active).first
         /\ ~FreshRow(rep, active).done
<1>1. FreshRow(rep, active) \in Assignments
  BY DEF FreshRow, Assignments
<1>2. FreshRow(rep, active) # Unassigned
  BY <1>1, SdrAssumption
<1>3. FreshRow(rep, active).rep = rep /\ FreshRow(rep, active).first = FALSE
      /\ FreshRow(rep, active).done = FALSE
  BY DEF FreshRow
<1> QED BY <1>1, <1>2, <1>3

LEMMA AssignedRow ==
  ASSUME NEW as \in RepRows, NEW l \in Leads, as[l] # Unassigned
  PROVE  as[l] \in Assignments /\ as[l].rep \in Reps
<1>1. as[l] \in Assignments
  BY DEF RepRows
<1>2. \A row \in Assignments : row.rep \in Reps
  BY DEF Assignments
<1> QED BY <1>1, <1>2

\* A contact is routed to a rep, and to the account's rep where there is one.
LEMMA RouteIsOfTheAccount ==
  ASSUME NEW as \in RepRows, NEW own \in Owners, NEW l \in Leads, NEW pick \in Picks
  PROVE  /\ RouteContact(as, own, l, pick) \in Reps
         /\ AccountReps(as, l) # {} => RouteContact(as, own, l, pick) \in AccountReps(as, l)
<1>1. AccountReps(as, l) \subseteq Reps
  BY AssignedRow DEF AccountReps
<1>2. pick[AccountOf[l]] \in Reps
  BY SdrAssumption DEF Picks
<1>3. own[l] # Nobody => own[l] \in Reps
  BY DEF Owners
<1>4. CASE AccountReps(as, l) # {}
  <2>1. (CHOOSE rep \in AccountReps(as, l) : TRUE) \in AccountReps(as, l)
    BY <1>4
  <2> QED BY <1>1, <1>4, <2>1 DEF RouteContact
<1>5. CASE AccountReps(as, l) = {}
  BY <1>2, <1>3, <1>5 DEF RouteContact
<1> QED BY <1>4, <1>5

\* A fresh row for the rep of the account keeps the account in one pair of hands.
LEMMA FreshRowOfTheAccount ==
  ASSUME NEW as \in RepRows, NEW l \in Leads, as[l] = Unassigned, NEW rep \in Reps, NEW active \in BOOLEAN,
         AccountReps(as, l) # {} => rep \in AccountReps(as, l), NEW a \in Accounts, OneRepIn(as, a)
  PROVE  OneRepIn([as EXCEPT ![l] = FreshRow(rep, active)], a)
<1> DEFINE bs == [as EXCEPT ![l] = FreshRow(rep, active)]
<1>1. bs[l].rep = rep /\ \A m \in Leads \ {l} : bs[m] = as[m]
  BY FreshRowIsARow DEF RepRows
<1>2. ASSUME NEW m \in Leads \ {l}, AccountOf[l] = a, AccountOf[m] = a, as[m] # Unassigned
      PROVE  as[m].rep = rep
  <2>1. as[m].rep \in AccountReps(as, l)
    BY <1>2 DEF AccountReps
  <2>2. PICK k \in Leads \ {l} : as[k] # Unassigned /\ AccountOf[k] = AccountOf[l] /\ rep = as[k].rep
    BY <2>1 DEF AccountReps
  <2> QED BY <1>2, <2>2 DEF OneRepIn
<1> HIDE DEF bs
<1>3. ASSUME NEW m \in Leads, NEW k \in Leads, AccountOf[k] = a, AccountOf[m] = a,
             bs[k] # Unassigned, bs[m] # Unassigned
      PROVE  bs[k].rep = bs[m].rep
  <2>1. CASE k = l /\ m = l
    BY <2>1
  <2>2. CASE k = l /\ m # l
    BY <2>2, <1>1, <1>2, <1>3
  <2>3. CASE k # l /\ m = l
    BY <2>3, <1>1, <1>2, <1>3
  <2>4. CASE k # l /\ m # l
    BY <2>4, <1>1, <1>3 DEF OneRepIn
  <2> QED BY <2>1, <2>2, <2>3, <2>4
<1> QED BY <1>3 DEF OneRepIn, bs

LEMMA OnlyFilledTransitive ==
  ASSUME NEW as \in RepRows, NEW bs \in RepRows, NEW cs \in RepRows, OnlyFilled(as, bs), OnlyFilled(bs, cs)
  PROVE  OnlyFilled(as, cs)
<1>1. ASSUME NEW l \in Leads, as[l] # Unassigned PROVE cs[l] = as[l]
  BY <1>1 DEF OnlyFilled
<1>2. ASSUME NEW l \in Leads, as[l] = Unassigned
      PROVE  cs[l] = Unassigned \/ \E rep \in Reps, active \in BOOLEAN : cs[l] = FreshRow(rep, active)
  <2>1. CASE bs[l] = Unassigned
    BY <2>1 DEF OnlyFilled
  <2>2. CASE bs[l] # Unassigned
    <3>1. cs[l] = bs[l]
      BY <2>2 DEF OnlyFilled
    <3>2. \E rep \in Reps, active \in BOOLEAN : bs[l] = FreshRow(rep, active)
      BY <1>2, <2>2 DEF OnlyFilled
    <3> QED BY <3>1, <3>2
  <2> QED BY <2>1, <2>2
<1>3. ASSUME NEW a \in Accounts, OneRepIn(as, a) PROVE OneRepIn(cs, a)
  BY <1>3 DEF OnlyFilled
<1> QED BY <1>1, <1>2, <1>3 DEF OnlyFilled

\* One contact of a run.
LEMMA AssignLeadFills ==
  ASSUME NEW acc \in Filled, NEW l \in Leads, NEW ok, NEW open, NEW pick \in Picks
  PROVE  /\ AssignLead(acc, l, ok, open, pick) \in Filled
         /\ OnlyFilled(acc.rows, AssignLead(acc, l, ok, open, pick).rows)
<1> DEFINE rep == RouteContact(acc.rows, acc.owner, l, pick)
           row == FreshRow(rep, l \notin Ended)
           skip == acc.rows[l] # Unassigned \/ l \notin ok \/ rep \in open \/ acc.load[rep] >= Target
           bs  == [acc.rows EXCEPT ![l] = row]
           more == [rows |-> bs, owner |-> [acc.owner EXCEPT ![l] = rep],
                    load |-> [acc.load EXCEPT ![rep] = @ + 1]]
<1>1. acc.rows \in RepRows /\ acc.owner \in Owners /\ acc.load \in [Reps -> Nat]
  BY DEF Filled
<1>2. rep \in Reps /\ (AccountReps(acc.rows, l) # {} => rep \in AccountReps(acc.rows, l))
  BY <1>1, RouteIsOfTheAccount
<1>3. AssignLead(acc, l, ok, open, pick) = IF skip THEN acc ELSE more
  BY DEF AssignLead
<1> HIDE DEF rep
<1>4. row \in Assignments /\ (l \notin Ended) \in BOOLEAN
  BY <1>2, FreshRowIsARow
<1> HIDE DEF row
<1>5. bs \in RepRows
  BY <1>1, <1>4 DEF RepRows
<1>6. more \in Filled
  <2>1. [acc.owner EXCEPT ![l] = rep] \in Owners
    BY <1>1, <1>2 DEF Owners
  <2>2. [acc.load EXCEPT ![rep] = @ + 1] \in [Reps -> Nat]
    BY <1>1, <1>2
  <2> QED BY <1>5, <2>1, <2>2 DEF Filled
<1>7. CASE skip
  <2>1. OnlyFilled(acc.rows, acc.rows)
    BY DEF OnlyFilled
  <2> QED BY <1>3, <1>7, <2>1
<1>8. CASE ~skip
  <2>1. acc.rows[l] = Unassigned
    BY <1>8
  <2>2. \A a \in Accounts : OneRepIn(acc.rows, a) => OneRepIn(bs, a)
    BY <1>1, <1>2, <1>4, <2>1, FreshRowOfTheAccount DEF row
  <2>3. \A m \in Leads \ {l} : bs[m] = acc.rows[m]
    BY <1>1 DEF RepRows
  <2>4. bs[l] = FreshRow(rep, l \notin Ended)
    BY <1>1 DEF RepRows, row
  <2> HIDE DEF bs
  <2>5. OnlyFilled(acc.rows, bs)
    BY <1>2, <1>4, <2>1, <2>2, <2>3, <2>4 DEF OnlyFilled
  <2> QED BY <1>3, <1>6, <1>8, <2>5
<1> QED BY <1>7, <1>8

\* A run, by induction over its contacts.
LEMMA RunFills ==
  ASSUME NEW as \in RepRows, NEW own \in Owners, NEW ok, NEW order \in Seq(Leads), NEW pick \in Picks
  PROVE  LET run == AssignWorkspaceLeads(as, own, ok, order, pick) IN
         run.rows \in RepRows /\ run.owner \in Owners /\ OnlyFilled(as, run.rows)
<1> DEFINE n     == Len(order)
           open  == {rep \in Reps : Callables(as, ok, rep) # {}}
           start == [rows |-> as, owner |-> own, load |-> [rep \in Reps |-> 0]]
           round == [p \in (1..n) \X Filled |-> AssignLead(p[2], order[p[1]], ok, open, pick)]
           IsRun(f) == f = [i \in 0..n |-> IF i = 0 THEN start
                                           ELSE AssignLead(f[i - 1], order[i], ok, open, pick)]
           run   == CHOOSE f : IsRun(f)
<1>n. n \in Nat
  OBVIOUS
<1>1. \A i \in 1..n : order[i] \in Leads
  OBVIOUS
<1>2. start \in Filled
  BY DEF Filled
<1>3. AssignWorkspaceLeads(as, own, ok, order, pick) = run[n]
  BY DEF AssignWorkspaceLeads
<1> HIDE DEF n, open, start
<1>4. \A i \in 1..n, acc \in Filled : AssignLead(acc, order[i], ok, open, pick) \in Filled
  BY <1>1, AssignLeadFills
<1>5. round \in RoundsOn(n, Filled)
  <2>1. ASSUME NEW p \in (1..n) \X Filled PROVE AssignLead(p[2], order[p[1]], ok, open, pick) \in Filled
    <3>1. p[1] \in 1..n /\ p[2] \in Filled
      OBVIOUS
    <3> QED BY <1>4, <3>1
  <2> QED BY <2>1 DEF RoundsOn
<1>6. \A i \in 1..n, acc \in Filled : round[<<i, acc>>] = AssignLead(acc, order[i], ok, open, pick)
  <2>1. ASSUME NEW i \in 1..n, NEW acc \in Filled
        PROVE  round[<<i, acc>>] = AssignLead(acc, order[i], ok, open, pick)
    <3>1. <<i, acc>> \in (1..n) \X Filled /\ <<i, acc>>[1] = i /\ <<i, acc>>[2] = acc
      OBVIOUS
    <3> QED BY <3>1
  <2> QED BY <2>1
<1> HIDE DEF round
<1>7. PICK f : IsLoop(f, n, Filled, start, round)
  BY <1>n, <1>2, <1>5, RoundsExist
<1>L. f \in [0..n -> Filled] /\ f[0] = start /\ \A i \in 1..n : f[i] = round[<<i, f[i - 1]>>]
  BY <1>7 DEF IsLoop
<1>8. \A i \in 0..n : f[i] = IF i = 0 THEN start ELSE AssignLead(f[i - 1], order[i], ok, open, pick)
  <2>1. ASSUME NEW i \in 1..n PROVE f[i] = AssignLead(f[i - 1], order[i], ok, open, pick)
    <3>1. i - 1 \in 0..n
      BY <1>n
    <3>2. f[i - 1] \in Filled
      BY <1>L, <3>1
    <3> QED BY <1>6, <1>L, <3>2
  <2>2. \A i \in 0..n : i # 0 => i \in 1..n
    BY <1>n
  <2> QED BY <1>L, <2>1, <2>2
<1>9. IsRun(f)
  BY <1>8, <1>L
<1>10. IsRun(run)
  <2> HIDE DEF IsRun
  <2> QED BY <1>9
<1>11. run[0] = start /\ \A i \in 1..n : run[i] = AssignLead(run[i - 1], order[i], ok, open, pick)
  <2>1. \A i \in 1..n : i \in 0..n /\ i # 0
    BY <1>n
  <2>2. 0 \in 0..n
    BY <1>n
  <2> HIDE DEF run
  <2> QED BY <1>10, <2>1, <2>2
<1> HIDE DEF run
<1> DEFINE T == {i \in 0..n : run[i] \in Filled /\ OnlyFilled(as, run[i].rows)}
<1>12. 0 \in T
  <2>1. start.rows = as
    BY DEF start
  <2>2. OnlyFilled(as, as)
    BY DEF OnlyFilled
  <2>3. run[0] \in Filled /\ OnlyFilled(as, run[0].rows)
    BY <1>2, <1>11, <2>1, <2>2
  <2>4. 0 \in 0..n
    BY <1>n
  <2> QED BY <2>3, <2>4
<1>13. ASSUME NEW i \in 1..n, i - 1 \in T PROVE i \in T
  <2>1. run[i - 1] \in Filled /\ OnlyFilled(as, run[i - 1].rows) /\ i \in 0..n
    <3>1. i - 1 \in T
      BY <1>13
    <3>2. i \in 0..n
      BY <1>n
    <3> QED BY <3>1, <3>2
  <2>2. run[i] \in Filled /\ OnlyFilled(run[i - 1].rows, run[i].rows)
    BY <1>1, <1>11, <2>1, AssignLeadFills
  <2>3. run[i - 1].rows \in RepRows /\ run[i].rows \in RepRows
    BY <2>1, <2>2 DEF Filled
  <2>4. OnlyFilled(as, run[i].rows)
    BY <2>1, <2>2, <2>3, OnlyFilledTransitive
  <2> QED BY <2>1, <2>2, <2>4
<1> HIDE DEF T
<1>14. n \in T
  <2>1. \A i \in 1..n : i - 1 \in T => i \in T
    BY <1>13
  <2>2. \A i \in 0..n : i \in T
    BY <1>n, <1>12, <2>1, EveryRound
  <2> QED BY <2>2, <1>n
<1>15. run[n] \in Filled /\ OnlyFilled(as, run[n].rows)
  BY <1>14 DEF T
<1> QED BY <1>3, <1>15 DEF Filled

\* The open next step of a contact is its rep's.
StepsOf(rs, as) == \A l \in Leads : rs[l] # <<>> => as[l] # Unassigned /\ rs[l] = <<as[l].rep>>

SameHands(as, bs) ==
  \A l \in Leads : (bs[l] # Unassigned <=> as[l] # Unassigned) /\ (as[l] # Unassigned => bs[l].rep = as[l].rep)

\* A wrap-up leaves its receipt, and a call that was counted left one.
CallsAreCounted ==
  \A l \in Leads :
    /\ IsFiniteSet(calls[l]) /\ \A r \in calls[l] : receipts[r] # Nobody
    /\ (rows[l] # Unassigned /\ rows[l].first) => calls[l] # {}

SdrInv == SdrTypeOK /\ CallsAreCounted /\ (\A a \in Accounts \ moved : OneRepIn(rows, a)) /\ StepsOf(reminders, rows)

\* What NobodyIsSkipped says of a step.
NoneSkipped ==
  \A l \in Leads :
    (IsCallable(rows, reachable, l) /\ rows'[l].done /\ rows'[l].active /\ l \in reachable')
      => /\ Cardinality(calls'[l]) >= 2
         /\ \A m \in Callables(rows, reachable, rows[l].rep) \ {l} : rows[m].first

LEMMA SdrTypes == SdrTypeOK => /\ rows \in RepRows /\ owner \in Owners /\ reminders \in [Leads -> Seq(Reps)]
                               /\ reachable \in SUBSET Leads
BY DEF SdrTypeOK, RepRows, Owners

LEMMA SdrInvImpliesOneRepOneStep == SdrInv => OneRepOneStep
<1> SUFFICES ASSUME SdrInv PROVE OneRepPerAccount /\ OneNextStep
  BY DEF OneRepOneStep
<1>1. ASSUME NEW l \in Leads, NEW m \in Leads, AccountOf[l] = AccountOf[m], AccountOf[l] \notin moved,
             rows[l] # Unassigned, rows[m] # Unassigned
      PROVE  rows[l].rep = rows[m].rep
  <2>1. AccountOf[l] \in Accounts \ moved
    BY <1>1, SdrAssumption
  <2>2. OneRepIn(rows, AccountOf[l])
    BY <2>1 DEF SdrInv
  <2> QED BY <1>1, <2>2 DEF OneRepIn
<1> QED BY <1>1 DEF OneRepPerAccount, OneNextStep, SdrInv, StepsOf

LEMMA SdrInitHolds == SdrInit => SdrInv
<1> SUFFICES ASSUME SdrInit PROVE SdrInv
  OBVIOUS
<1>1. <<>> \in Seq(Reps) /\ MaxSdrSteps \in Nat
  BY SdrAssumption
<1>2. SdrTypeOK
  BY <1>1 DEF SdrInit, SdrTypeOK
<1>3. \A l \in Leads : rows[l] = Unassigned /\ reminders[l] = <<>> /\ calls[l] = {}
  BY DEF SdrInit
<1>4. CallsAreCounted
  BY <1>3, FS_EmptySet DEF CallsAreCounted
<1> QED BY <1>2, <1>3, <1>4 DEF SdrInv, OneRepIn, StepsOf

LEMMA SameHandsKeep ==
  ASSUME NEW as, NEW bs, SameHands(as, bs)
  PROVE  /\ \A a : OneRepIn(as, a) => OneRepIn(bs, a)
         /\ \A rs : StepsOf(rs, as) => StepsOf(rs, bs)
<1>1. ASSUME NEW a, OneRepIn(as, a) PROVE OneRepIn(bs, a)
  BY <1>1 DEF OneRepIn, SameHands
<1>2. ASSUME NEW rs, StepsOf(rs, as) PROVE StepsOf(rs, bs)
  BY <1>2 DEF StepsOf, SameHands
<1> QED BY <1>1, <1>2

LEMMA FirstStepsKeep ==
  ASSUME NEW as \in RepRows, NEW bs \in RepRows, OnlyFilled(as, bs), NEW rs \in [Leads -> Seq(Reps)], StepsOf(rs, as)
  PROVE  FirstSteps(rs, as, bs) \in [Leads -> Seq(Reps)] /\ StepsOf(FirstSteps(rs, as, bs), bs)
<1> DEFINE new == FirstSteps(rs, as, bs)
           fresh(l) == as[l] = Unassigned /\ bs[l] # Unassigned /\ bs[l].active /\ l \in Prompted
<1>1. \A l \in Leads : new[l] = IF fresh(l) THEN Append(rs[l], bs[l].rep) ELSE rs[l]
  BY DEF FirstSteps
<1>2. ASSUME NEW l \in Leads, fresh(l) PROVE bs[l].rep \in Reps /\ new[l] = <<bs[l].rep>>
  <2>1. bs[l].rep \in Reps
    BY <1>2, AssignedRow
  <2>2. rs[l] = <<>>
    BY <1>2 DEF StepsOf
  <2>3. Append(<<>>, bs[l].rep) = <<bs[l].rep>>
    OBVIOUS
  <2> QED BY <1>1, <1>2, <2>1, <2>2, <2>3
<1>3. ASSUME NEW l \in Leads PROVE new[l] \in Seq(Reps)
  <2>1. \A rep \in Reps : <<rep>> \in Seq(Reps)
    OBVIOUS
  <2> QED BY <1>1, <1>2, <2>1
<1>4. ASSUME NEW l \in Leads, new[l] # <<>> PROVE bs[l] # Unassigned /\ new[l] = <<bs[l].rep>>
  <2>1. CASE fresh(l)
    BY <1>2, <2>1
  <2>2. CASE ~fresh(l)
    BY <1>1, <1>4, <2>2 DEF StepsOf, OnlyFilled
  <2> QED BY <2>1, <2>2
<1>5. new = [l \in Leads |-> new[l]]
  BY DEF FirstSteps
<1> HIDE DEF new
<1> QED BY <1>3, <1>4, <1>5 DEF StepsOf, new

-----------------------------------------------------------------------------
\* The routing run of a manager.
LEMMA RunKeeps ==
  ASSUME SdrInv, NEW order \in Seq(Leads), NEW pick \in Picks, RunSdrAssignment(order, pick)
  PROVE  SdrInv' /\ NoneSkipped
<1> DEFINE run == AssignWorkspaceLeads(rows, owner, reachable, order, pick)
<1>1. rows \in RepRows /\ owner \in Owners /\ reminders \in [Leads -> Seq(Reps)] /\ StepsOf(reminders, rows)
  BY SdrTypes DEF SdrInv
<1>2. run.rows \in RepRows /\ run.owner \in Owners /\ OnlyFilled(rows, run.rows)
  BY <1>1, RunFills
<1>3. rows' = run.rows /\ owner' = run.owner /\ reminders' = FirstSteps(reminders, rows, run.rows)
      /\ SdrStep /\ UNCHANGED <<reachable, receipts, calls, moved>>
  BY DEF RunSdrAssignment
<1> HIDE DEF run
<1>4. reminders' \in [Leads -> Seq(Reps)] /\ StepsOf(reminders', rows')
  BY <1>1, <1>2, <1>3, FirstStepsKeep
<1>5. SdrTypeOK'
  BY <1>2, <1>3, <1>4, SdrAssumption DEF SdrInv, SdrTypeOK, SdrStep, RepRows, Owners
<1>6. OnlyFilled(rows, rows')
  BY <1>2, <1>3
<1>7. \A l \in Leads : rows[l] = Unassigned => rows'[l] = Unassigned \/ ~rows'[l].first
  BY <1>6, FreshRowIsARow DEF OnlyFilled
<1>8. CallsAreCounted'
  BY <1>3, <1>6, <1>7 DEF SdrInv, CallsAreCounted, OnlyFilled
<1>9. \A a \in Accounts \ moved' : OneRepIn(rows', a)
  BY <1>3, <1>6 DEF SdrInv, OnlyFilled
<1>10. NoneSkipped
  BY <1>6 DEF NoneSkipped, OnlyFilled, IsCallable
<1> QED BY <1>4, <1>5, <1>8, <1>9, <1>10 DEF SdrInv, StepsOf, OneRepIn

-----------------------------------------------------------------------------
\* Touches and wrap-ups.

\* The rows differ at one contact, which keeps its rep.
OneRowMoved(as, bs, l) ==
  /\ as[l] # Unassigned /\ bs[l] # Unassigned /\ bs[l].rep = as[l].rep
  /\ \A m \in Leads \ {l} : bs[m] = as[m]

LEMMA OneRowMovedKeeps ==
  ASSUME NEW as, NEW bs, NEW l \in Leads, OneRowMoved(as, bs, l) PROVE SameHands(as, bs)
BY DEF OneRowMoved, SameHands

LEMMA TouchedRow ==
  ASSUME NEW row \in Assignments, NEW active \in BOOLEAN
  PROVE  LET new == [row EXCEPT !.active = active] IN
         /\ new \in Assignments /\ new.active = active /\ new.rep = row.rep
         /\ new.first = row.first /\ new.second = row.second /\ new.done = row.done
BY DEF Assignments

LEMMA TouchedKeeps ==
  ASSUME SdrInv, NEW l \in Leads, rows[l] # Unassigned, NEW active \in BOOLEAN
  PROVE  /\ Touched(l, active) \in RepRows /\ OneRowMoved(rows, Touched(l, active), l)
         /\ Touched(l, active)[l].first = rows[l].first /\ Touched(l, active)[l].done = rows[l].done
         /\ Touched(l, active)[l].second = rows[l].second /\ Touched(l, active)[l].active = active
         /\ TouchedSteps(l, active) \in [Leads -> Seq(Reps)]
         /\ StepsOf(TouchedSteps(l, active), Touched(l, active))
<1> DEFINE new == [rows[l] EXCEPT !.active = active]
           as == Touched(l, active)
           rs == TouchedSteps(l, active)
<1>1. rows \in RepRows /\ rows[l] \in Assignments /\ rows[l].rep \in Reps /\ StepsOf(reminders, rows)
      /\ reminders \in [Leads -> Seq(Reps)]
  BY SdrTypes, AssignedRow DEF SdrInv
<1>2. /\ new \in Assignments /\ new.active = active /\ new.rep = rows[l].rep
      /\ new.first = rows[l].first /\ new.second = rows[l].second /\ new.done = rows[l].done
  BY <1>1, TouchedRow
<1>3. as = [rows EXCEPT ![l] = new]
  BY DEF Touched
<1> HIDE DEF new, as
<1>4. as \in RepRows /\ as[l] = new /\ \A m \in Leads \ {l} : as[m] = rows[m]
  BY <1>1, <1>2, <1>3 DEF RepRows
<1>5. new # Unassigned
  BY <1>2, SdrAssumption
<1>6. OneRowMoved(rows, as, l)
  BY <1>2, <1>4, <1>5 DEF OneRowMoved
<1>7. rs \in [Leads -> Seq(Reps)] /\ (\A m \in Leads \ {l} : rs[m] = reminders[m])
      /\ (rs[l] = <<>> \/ rs[l] = <<rows[l].rep>>)
  <2>1. <<rows[l].rep>> \in Seq(Reps) /\ <<>> \in Seq(Reps)
    BY <1>1
  <2> QED BY <1>1, <2>1 DEF TouchedSteps
<1> HIDE DEF rs
<1>8. StepsOf(rs, as)
  BY <1>1, <1>2, <1>4, <1>5, <1>7 DEF StepsOf
<1> QED BY <1>2, <1>4, <1>6, <1>7, <1>8 DEF as, rs

\* What counts a call: the row afterwards, and when it leaves the cycle.
LEMMA AttemptKeeps ==
  ASSUME NEW as \in RepRows, NEW ok, NEW l \in Leads, as[l] # Unassigned, ~as[l].done
  PROVE  LET bs == CallCycleAttempt(as, ok, l) IN
         /\ bs \in RepRows /\ OneRowMoved(as, bs, l) /\ bs[l].active = as[l].active
         /\ ~IsCallable(as, ok, l) => bs[l].done
         /\ (IsCallable(as, ok, l) /\ bs[l].done) =>
              as[l].first /\ \A m \in Callables(as, ok, as[l].rep) \ {l} : as[m].first
<1> DEFINE row == as[l]
           one == [row EXCEPT !.first = TRUE]
           mid == [row EXCEPT !.second = TRUE]
           two == [mid EXCEPT !.done = TRUE]
           passed == IF ~CountsAsPass(as, ok, l) THEN row ELSE IF ~row.first THEN one ELSE two
           new == [passed EXCEPT !.done = @ \/ ~IsCallable(as, ok, l)]
           bs == CallCycleAttempt(as, ok, l)
<1>1. row \in Assignments /\ IsCallable(as, ok, l) \in BOOLEAN
  BY AssignedRow DEF IsCallable
<1>2. one \in Assignments /\ one.rep = row.rep /\ one.active = row.active /\ one.done = row.done
  BY <1>1 DEF Assignments
<1>3. two \in Assignments /\ two.rep = row.rep /\ two.active = row.active /\ two.done = TRUE
  <2>1. mid \in Assignments /\ mid.rep = row.rep /\ mid.active = row.active
    BY <1>1 DEF Assignments
  <2> HIDE DEF mid
  <2> QED BY <2>1 DEF Assignments
<1>4. bs = [as EXCEPT ![l] = new]
  BY DEF CallCycleAttempt
<1> HIDE DEF one, mid, two
<1>5. passed \in Assignments /\ passed.rep = row.rep /\ passed.active = row.active
      /\ (passed.done => CountsAsPass(as, ok, l) /\ row.first)
  BY <1>1, <1>2, <1>3
<1> HIDE DEF passed
<1>6. new \in Assignments /\ new.rep = row.rep /\ new.active = row.active
      /\ (new.done <=> (passed.done \/ ~IsCallable(as, ok, l)))
  BY <1>1, <1>5 DEF Assignments
<1> HIDE DEF new, bs
<1>7. bs \in RepRows /\ bs[l] = new /\ \A m \in Leads \ {l} : bs[m] = as[m]
  BY <1>4, <1>6 DEF RepRows
<1>8. OneRowMoved(as, bs, l)
  BY <1>6, <1>7, SdrAssumption DEF OneRowMoved
<1>9. (CountsAsPass(as, ok, l) /\ row.first) => \A m \in Callables(as, ok, as[l].rep) \ {l} : as[m].first
  BY DEF CountsAsPass
<1> QED BY <1>5, <1>6, <1>7, <1>8, <1>9 DEF bs

LEMMA CloseBatchKeeps ==
  ASSUME NEW as \in RepRows, NEW rep
  PROVE  LET bs == CloseBatch(as, rep) IN
         /\ bs \in RepRows /\ SameHands(as, bs)
         /\ \A l \in Leads : as[l] # Unassigned => bs[l].first = as[l].first
         /\ \A l \in Leads : as[l] # Unassigned => bs[l].active = as[l].active
         /\ \A l \in Leads : l \notin RowsOfRep(as, rep) => bs[l] = as[l]
<1> DEFINE bs == CloseBatch(as, rep)
           shut(l) == [as[l] EXCEPT !.done = TRUE]
<1>1. \A l \in Leads : bs[l] = IF l \in RowsOfRep(as, rep) THEN shut(l) ELSE as[l]
  BY DEF CloseBatch
<1>2. bs = [l \in Leads |-> bs[l]]
  BY DEF CloseBatch
<1>3. ASSUME NEW l \in Leads, l \in RowsOfRep(as, rep)
      PROVE  /\ bs[l] \in Assignments /\ bs[l].rep = as[l].rep /\ bs[l].first = as[l].first
             /\ bs[l].active = as[l].active /\ as[l] # Unassigned
  <2>1. as[l] # Unassigned /\ as[l] \in Assignments
    BY <1>3, AssignedRow DEF RowsOfRep
  <2>2. shut(l) \in Assignments /\ shut(l).rep = as[l].rep /\ shut(l).first = as[l].first
        /\ shut(l).active = as[l].active
    BY <2>1 DEF Assignments
  <2>3. bs[l] = shut(l)
    BY <1>1, <1>3
  <2> QED BY <2>1, <2>2, <2>3
<1>4. \A l \in Leads : l \notin RowsOfRep(as, rep) => bs[l] = as[l]
  BY <1>1
<1> HIDE DEF bs
<1>5. bs \in RepRows
  <2>1. \A l \in Leads : bs[l] \in Assignments \union {Unassigned}
    BY <1>3, <1>4 DEF RepRows
  <2> QED BY <1>2, <2>1 DEF RepRows
<1>6. SameHands(as, bs)
  BY <1>3, <1>4, SdrAssumption DEF SameHands
<1> QED BY <1>3, <1>4, <1>5, <1>6 DEF bs

LEMMA StepsOfOpenKeep ==
  ASSUME NEW rs \in [Leads -> Seq(Reps)], NEW as, NEW bs, SameHands(as, bs), StepsOf(rs, as)
  PROVE  StepsOfOpen(rs, as, bs) \in [Leads -> Seq(Reps)] /\ StepsOf(StepsOfOpen(rs, as, bs), bs)
<1> DEFINE new == StepsOfOpen(rs, as, bs)
<1>1. \A l \in Leads : new[l] = <<>> \/ new[l] = rs[l]
  BY DEF StepsOfOpen
<1>2. new = [l \in Leads |-> new[l]]
  BY DEF StepsOfOpen
<1> HIDE DEF new
<1>3. <<>> \in Seq(Reps)
  OBVIOUS
<1>4. new \in [Leads -> Seq(Reps)]
  BY <1>1, <1>2, <1>3
<1>5. StepsOf(new, bs)
  BY <1>1 DEF StepsOf, SameHands
<1> QED BY <1>4, <1>5 DEF new

\* What a wrap-up does to the rows and the steps, in its three outcomes: the
\* row was closed before, others are left to call, or the batch is through.
LEMMA WrapupRows ==
  ASSUME SdrInv, NEW r \in Wrapups, NEW l \in Leads, rows[l] # Unassigned,
         NEW outcome \in {"active", "ended", "suppressed"}, NEW pick \in Picks,
         SaveWrapup(r, l, outcome, pick)
  PROVE  /\ rows' \in RepRows /\ owner' \in Owners
         /\ reminders' \in [Leads -> Seq(Reps)] /\ StepsOf(reminders', rows')
         /\ \A a \in Accounts : OneRepIn(rows, a) => OneRepIn(rows', a)
         /\ \A m \in Leads \ {l} :
              (rows'[m] # Unassigned /\ rows'[m].first) => rows[m] # Unassigned /\ rows[m].first
         /\ \A m \in Leads :
              (IsCallable(rows, reachable, m) /\ rows'[m].done /\ rows'[m].active /\ m \in reachable')
                => /\ m = l /\ rows[l].first
                   /\ \A k \in Callables(rows, reachable, rows[l].rep) \ {l} : rows[k].first
<1> DEFINE active  == outcome = "active"
           touched == Touched(l, active)
           ok      == IF outcome = "suppressed" THEN reachable \ {l} ELSE reachable
           rep     == rows[l].rep
           own     == [owner EXCEPT ![l] = rep]
           after   == CallCycleAttempt(touched, ok, l)
           closed  == CloseBatch(after, rep)
           next    == AssignWorkspaceLeads(closed, own, ok, LeadOrder, pick)
           steps   == TouchedSteps(l, active)
<1>1. rows \in RepRows /\ owner \in Owners /\ StepsOf(reminders, rows) /\ rep \in Reps
  BY SdrTypes, AssignedRow DEF SdrInv
<1>2. active \in BOOLEAN
  OBVIOUS
<1>3. /\ touched \in RepRows /\ OneRowMoved(rows, touched, l)
      /\ touched[l].first = rows[l].first /\ touched[l].done = rows[l].done /\ touched[l].active = active
      /\ steps \in [Leads -> Seq(Reps)] /\ StepsOf(steps, touched)
  BY <1>2, TouchedKeeps
<1>4. SameHands(rows, touched) /\ touched[l] # Unassigned /\ touched[l].rep = rep
      /\ \A m \in Leads \ {l} : touched[m] = rows[m]
  BY <1>3, OneRowMovedKeeps DEF OneRowMoved
<1>5. own \in Owners
  BY <1>1 DEF Owners
<1>6. \A m \in Leads \ {l} : m \in ok <=> m \in reachable
  OBVIOUS
<1>7. (l \in ok => l \in reachable) /\ reachable' = ok
  BY DEF SaveWrapup
<1>8. IF touched[l].done THEN rows' = touched /\ owner' = own /\ reminders' = steps
      ELSE IF Callables(after, ok, rep) # {}
      THEN rows' = after /\ owner' = own /\ reminders' = StepsOfOpen(steps, touched, after)
      ELSE /\ rows' = next.rows /\ owner' = next.owner
           /\ reminders' = FirstSteps(StepsOfOpen(steps, touched, closed), closed, next.rows)
  BY DEF SaveWrapup
<1> HIDE DEF active, touched, ok, own, steps
<1>9. \A a \in Accounts : OneRepIn(rows, a) => OneRepIn(touched, a)
  BY <1>4, SameHandsKeep
<1>10. CASE touched[l].done
  <2>1. rows' = touched /\ owner' = own /\ reminders' = steps
    BY <1>8, <1>10
  <2>2. ~IsCallable(rows, reachable, l)
    BY <1>3, <1>10 DEF IsCallable
  <2>3. \A m \in Leads \ {l} : IsCallable(rows, reachable, m) => ~rows'[m].done
    BY <1>4, <2>1 DEF IsCallable
  <2> QED BY <1>3, <1>4, <1>5, <1>9, <2>1, <2>2, <2>3
<1>11. CASE ~touched[l].done
  <2>1. /\ after \in RepRows /\ OneRowMoved(touched, after, l) /\ after[l].active = touched[l].active
        /\ ~IsCallable(touched, ok, l) => after[l].done
        /\ (IsCallable(touched, ok, l) /\ after[l].done) =>
             touched[l].first /\ \A m \in Callables(touched, ok, touched[l].rep) \ {l} : touched[m].first
    BY <1>3, <1>4, <1>11, AttemptKeeps
  <2> HIDE DEF after
  <2>2. SameHands(touched, after) /\ after[l] # Unassigned /\ after[l].rep = rep
        /\ \A m \in Leads \ {l} : after[m] = rows[m]
    BY <1>4, <2>1, OneRowMovedKeeps DEF OneRowMoved
  <2>3. StepsOf(steps, after) /\ \A a \in Accounts : OneRepIn(rows, a) => OneRepIn(after, a)
    BY <1>3, <1>9, <2>2, SameHandsKeep
  <2>4. ASSUME IsCallable(rows, reachable, l), after[l].done, after[l].active, l \in ok
        PROVE  rows[l].first /\ \A k \in Callables(rows, reachable, rows[l].rep) \ {l} : rows[k].first
    <3>1. IsCallable(touched, ok, l)
      BY <1>4, <1>11, <2>1, <2>4 DEF IsCallable
    <3>2. \A k \in Callables(rows, reachable, rows[l].rep) \ {l} : k \in Callables(touched, ok, rep) \ {l}
      BY <1>4, <1>6 DEF Callables, RowsOfRep, IsCallable
    <3>3. \A k \in Callables(rows, reachable, rows[l].rep) \ {l} : k \in Leads \ {l}
      BY DEF Callables, RowsOfRep
    <3> QED BY <1>3, <1>4, <2>1, <2>4, <3>1, <3>2, <3>3
  <2>5. CASE Callables(after, ok, rep) # {}
    <3>1. rows' = after /\ owner' = own /\ reminders' = StepsOfOpen(steps, touched, after)
      BY <1>8, <1>11, <2>5
    <3>2. reminders' \in [Leads -> Seq(Reps)] /\ StepsOf(reminders', rows')
      BY <1>3, <2>2, <3>1, StepsOfOpenKeep
    <3>3. \A m \in Leads \ {l} : IsCallable(rows, reachable, m) => ~rows'[m].done
      BY <2>2, <3>1 DEF IsCallable
    <3>4. \A m \in Leads \ {l} : rows'[m] = rows[m]
      BY <2>2, <3>1
    <3> QED BY <1>5, <1>7, <2>1, <2>3, <2>4, <3>1, <3>2, <3>3, <3>4
  <2>6. CASE Callables(after, ok, rep) = {}
    <3>1. /\ rows' = next.rows /\ owner' = next.owner
          /\ reminders' = FirstSteps(StepsOfOpen(steps, touched, closed), closed, next.rows)
      BY <1>8, <1>11, <2>6
    <3>2. /\ closed \in RepRows /\ SameHands(after, closed)
          /\ \A m \in Leads : after[m] # Unassigned => closed[m].first = after[m].first
          /\ \A m \in Leads : after[m] # Unassigned => closed[m].active = after[m].active
          /\ \A m \in Leads : m \notin RowsOfRep(after, rep) => closed[m] = after[m]
      BY <2>1, CloseBatchKeeps
    <3> HIDE DEF closed
    <3>3. next.rows \in RepRows /\ next.owner \in Owners /\ OnlyFilled(closed, next.rows)
      BY <1>5, <3>2, RunFills, SdrAssumption
    <3> HIDE DEF next
    <3>4. SameHands(touched, closed)
      BY <2>2, <3>2 DEF SameHands
    <3>5. StepsOfOpen(steps, touched, closed) \in [Leads -> Seq(Reps)]
          /\ StepsOf(StepsOfOpen(steps, touched, closed), closed)
      BY <1>3, <3>4, StepsOfOpenKeep
    <3>6. reminders' \in [Leads -> Seq(Reps)] /\ StepsOf(reminders', rows')
      BY <3>1, <3>2, <3>3, <3>5, FirstStepsKeep
    <3>7. \A a \in Accounts : OneRepIn(rows, a) => OneRepIn(rows', a)
      BY <2>3, <3>1, <3>2, <3>3, SameHandsKeep DEF OnlyFilled
    <3>8. ASSUME NEW m \in Leads \ {l}, rows'[m] # Unassigned, rows'[m].first
          PROVE  rows[m] # Unassigned /\ rows[m].first
      <4>1. closed[m] # Unassigned
        BY <3>1, <3>3, <3>8, FreshRowIsARow DEF OnlyFilled
      <4>2. rows'[m] = closed[m] /\ after[m] # Unassigned
        BY <3>1, <3>2, <3>3, <4>1 DEF OnlyFilled, SameHands
      <4> QED BY <2>2, <3>2, <3>8, <4>2
    <3>9. ASSUME NEW m \in Leads, IsCallable(rows, reachable, m), rows'[m].done, rows'[m].active, m \in ok
          PROVE  /\ m = l /\ rows[l].first
                 /\ \A k \in Callables(rows, reachable, rows[l].rep) \ {l} : rows[k].first
      <4>1. rows[m] # Unassigned /\ ~rows[m].done /\ rows[m].active
        BY <3>9 DEF IsCallable
      <4>2. after[m] # Unassigned /\ closed[m] # Unassigned
        BY <2>2, <3>2, <4>1 DEF SameHands
      <4>3. rows'[m] = closed[m]
        BY <3>1, <3>3, <4>2 DEF OnlyFilled
      <4>4. after[m].active
        BY <3>2, <3>9, <4>2, <4>3
      <4>5. after[m].done
        <5> SUFFICES ASSUME ~after[m].done PROVE FALSE
          OBVIOUS
        <5>1. IsCallable(after, ok, m)
          BY <3>9, <4>2, <4>4 DEF IsCallable
        <5>2. m \notin RowsOfRep(after, rep)
          BY <2>6, <5>1 DEF Callables
        <5> QED BY <3>2, <3>9, <4>3, <5>2
      <4>6. m = l
        BY <2>2, <4>1, <4>5
      <4> QED BY <2>4, <3>9, <4>4, <4>5, <4>6
    <3> QED BY <1>7, <3>1, <3>3, <3>6, <3>7, <3>8, <3>9
  <2> QED BY <2>5, <2>6
<1> QED BY <1>10, <1>11

LEMMA WrapupKeeps ==
  ASSUME SdrInv, NEW r \in Wrapups, NEW l \in Leads,
         NEW outcome \in {"active", "ended", "suppressed"}, NEW pick \in Picks,
         SaveCallWrapup(r, l, outcome, pick)
  PROVE  SdrInv' /\ NoneSkipped
<1>1. CASE receipts[r] # Nobody
  <2>1. SdrStep /\ UNCHANGED <<reachable, owner, rows, reminders, receipts, calls, moved>>
    BY <1>1 DEF SaveCallWrapup
  <2>2. SdrTypeOK'
    BY <2>1, SdrAssumption DEF SdrInv, SdrTypeOK, SdrStep
  <2>3. CallsAreCounted'
    BY <2>1 DEF SdrInv, CallsAreCounted
  <2>4. (\A a \in Accounts \ moved' : OneRepIn(rows', a)) /\ StepsOf(reminders', rows')
    BY <2>1 DEF SdrInv
  <2>5. NoneSkipped
    BY <2>1 DEF NoneSkipped, IsCallable
  <2> QED BY <2>2, <2>3, <2>4, <2>5 DEF SdrInv, OneRepIn, StepsOf
<1>2. CASE receipts[r] = Nobody
  <2>1. SdrStep /\ rows[l] # Unassigned /\ SaveWrapup(r, l, outcome, pick) /\ moved' = moved
    BY <1>2 DEF SaveCallWrapup
  <2>2. /\ rows' \in RepRows /\ owner' \in Owners
        /\ reminders' \in [Leads -> Seq(Reps)] /\ StepsOf(reminders', rows')
        /\ \A a \in Accounts : OneRepIn(rows, a) => OneRepIn(rows', a)
        /\ \A m \in Leads \ {l} :
             (rows'[m] # Unassigned /\ rows'[m].first) => rows[m] # Unassigned /\ rows[m].first
        /\ \A m \in Leads :
             (IsCallable(rows, reachable, m) /\ rows'[m].done /\ rows'[m].active /\ m \in reachable')
               => /\ m = l /\ rows[l].first
                  /\ \A k \in Callables(rows, reachable, rows[l].rep) \ {l} : rows[k].first
    BY <2>1, WrapupRows
  <2>3. /\ receipts' = [receipts EXCEPT ![r] = l] /\ calls' = [calls EXCEPT ![l] = @ \union {r}]
        /\ reachable' \subseteq reachable
    BY <2>1 DEF SaveWrapup, CountOnce
  <2>4. receipts' \in [Wrapups -> Leads \union {Nobody}] /\ calls' \in [Leads -> SUBSET Wrapups]
    BY <2>3 DEF SdrInv, SdrTypeOK
  <2>5. SdrTypeOK'
    BY <2>1, <2>2, <2>3, <2>4, SdrAssumption DEF SdrInv, SdrTypeOK, SdrStep, RepRows, Owners
  <2>6. calls'[l] = calls[l] \union {r} /\ \A m \in Leads \ {l} : calls'[m] = calls[m]
    BY <2>3 DEF SdrInv, SdrTypeOK
  <2>7. \A s \in Wrapups : receipts[s] # Nobody => receipts'[s] # Nobody
    BY <2>3, SdrAssumption DEF SdrInv, SdrTypeOK
  <2>8. receipts'[r] # Nobody
    BY <2>3, SdrAssumption DEF SdrInv, SdrTypeOK
  <2>9. r \notin calls[l] /\ IsFiniteSet(calls[l]) /\ \A m \in Leads : calls[m] \subseteq Wrapups
    BY <1>2 DEF SdrInv, SdrTypeOK, CallsAreCounted
  <2>10. IsFiniteSet(calls'[l]) /\ Cardinality(calls'[l]) = Cardinality(calls[l]) + 1
    BY ZenonT(60), <2>6, <2>9, FS_AddElement
  <2>11. CallsAreCounted'
    <3>1. ASSUME NEW m \in Leads
          PROVE  /\ IsFiniteSet(calls'[m]) /\ \A s \in calls'[m] : receipts'[s] # Nobody
                 /\ (rows'[m] # Unassigned /\ rows'[m].first) => calls'[m] # {}
      <4>1. CASE m = l
        BY <2>6, <2>7, <2>8, <2>9, <2>10, <4>1 DEF SdrInv, CallsAreCounted
      <4>2. CASE m # l
        BY <2>2, <2>6, <2>7, <2>9, <4>2 DEF SdrInv, CallsAreCounted
      <4> QED BY <4>1, <4>2
    <3> QED BY <3>1 DEF CallsAreCounted
  <2>12. rows[l].first => Cardinality(calls'[l]) >= 2
    <3>1. Cardinality(calls[l]) \in Nat /\ (calls[l] # {} => Cardinality(calls[l]) # 0)
      BY <2>9, FS_CardinalityType, FS_EmptySet
    <3>2. rows[l].first => calls[l] # {}
      BY <2>1 DEF SdrInv, CallsAreCounted
    <3> QED BY <2>10, <3>1, <3>2
  <2>13. NoneSkipped
    BY <2>2, <2>12 DEF NoneSkipped
  <2>14. \A a \in Accounts \ moved' : OneRepIn(rows', a)
    BY <2>1, <2>2 DEF SdrInv
  <2> QED BY <2>2, <2>5, <2>11, <2>13, <2>14 DEF SdrInv, OneRepIn, StepsOf
<1> QED BY <1>1, <1>2

-----------------------------------------------------------------------------
\* Everything else: no step but a wrap-up counts a call or closes a row.
QuietRow(m) ==
  /\ (rows'[m] # Unassigned /\ rows'[m].first) => rows[m] # Unassigned /\ rows[m].first /\ calls'[m] = calls[m]
  /\ (rows[m] # Unassigned /\ ~rows[m].done) => ~rows'[m].done
  /\ calls'[m] \in {calls[m], {}}

LEMMA QuietStepKeeps ==
  ASSUME SdrInv, SdrStep, rows' \in RepRows, owner' \in Owners, reachable' \subseteq Leads, receipts' = receipts,
         reminders' \in [Leads -> Seq(Reps)], StepsOf(reminders', rows'), calls' \in [Leads -> SUBSET Wrapups],
         moved' \subseteq Accounts, \A a \in Accounts \ moved' : OneRepIn(rows', a), \A m \in Leads : QuietRow(m)
  PROVE  SdrInv' /\ NoneSkipped
<1>1. SdrTypeOK'
  BY SdrAssumption DEF SdrInv, SdrTypeOK, SdrStep, RepRows, Owners
<1>2. CallsAreCounted'
  <2>1. ASSUME NEW m \in Leads
        PROVE  /\ IsFiniteSet(calls'[m]) /\ \A r \in calls'[m] : receipts'[r] # Nobody
               /\ (rows'[m] # Unassigned /\ rows'[m].first) => calls'[m] # {}
    <3>1. /\ IsFiniteSet(calls[m]) /\ \A r \in calls[m] : receipts[r] # Nobody
          /\ (rows[m] # Unassigned /\ rows[m].first) => calls[m] # {}
      BY DEF SdrInv, CallsAreCounted
    <3>2. QuietRow(m)
      OBVIOUS
    <3> QED BY <3>1, <3>2, FS_EmptySet DEF QuietRow
  <2> QED BY <2>1 DEF CallsAreCounted
<1>3. NoneSkipped
  BY DEF NoneSkipped, IsCallable, QuietRow
<1> QED BY <1>1, <1>2, <1>3 DEF SdrInv, OneRepIn, StepsOf

LEMMA TouchKeeps ==
  ASSUME SdrInv, NEW l \in Leads, NEW active \in BOOLEAN, LogFirstTouch(l, active)
  PROVE  SdrInv' /\ NoneSkipped
<1>1. SdrStep /\ rows[l] # Unassigned /\ rows' = Touched(l, active) /\ reminders' = TouchedSteps(l, active)
      /\ owner' = [owner EXCEPT ![l] = rows[l].rep] /\ UNCHANGED <<reachable, receipts, calls, moved>>
  BY DEF LogFirstTouch
<1>2. rows \in RepRows /\ owner \in Owners /\ reachable \subseteq Leads /\ rows[l].rep \in Reps
  BY <1>1, SdrTypes, AssignedRow DEF SdrInv
<1>3. /\ rows' \in RepRows /\ OneRowMoved(rows, rows', l) /\ rows'[l].first = rows[l].first
      /\ rows'[l].done = rows[l].done /\ reminders' \in [Leads -> Seq(Reps)] /\ StepsOf(reminders', rows')
  BY <1>1, TouchedKeeps
<1>4. \A a \in Accounts \ moved' : OneRepIn(rows', a)
  BY <1>1, <1>3, OneRowMovedKeeps, SameHandsKeep DEF SdrInv
<1>5. \A m \in Leads : QuietRow(m)
  BY <1>1, <1>3 DEF OneRowMoved, QuietRow
<1>6. owner' \in Owners
  BY <1>1, <1>2 DEF Owners
<1>7. calls' \in [Leads -> SUBSET Wrapups] /\ moved' \subseteq Accounts
  BY <1>1 DEF SdrInv, SdrTypeOK
<1> QED BY <1>1, <1>2, <1>3, <1>4, <1>5, <1>6, <1>7, QuietStepKeeps

LEMMA SdrEventKeeps ==
  ASSUME SdrInv, NEW l \in Leads, NEW optOut \in BOOLEAN, ContactEvent(l, optOut)
  PROVE  SdrInv' /\ NoneSkipped
<1>1. /\ SdrStep /\ UNCHANGED <<owner, receipts, calls, moved>>
      /\ rows' = IF rows[l] = Unassigned THEN rows ELSE Touched(l, ~optOut)
      /\ IF optOut THEN reachable' = reachable \ {l} /\ reminders' = [reminders EXCEPT ![l] = <<>>]
                   ELSE UNCHANGED <<reachable, reminders>>
  BY DEF ContactEvent
<1>2. rows \in RepRows /\ owner \in Owners /\ reachable \subseteq Leads
      /\ reminders \in [Leads -> Seq(Reps)] /\ StepsOf(reminders, rows)
  BY SdrTypes DEF SdrInv
<1>3. rows' \in RepRows /\ SameHands(rows, rows') /\ \A m \in Leads : QuietRow(m)
  <2>1. CASE rows[l] = Unassigned
    BY <1>1, <1>2, <2>1 DEF SameHands, QuietRow
  <2>2. CASE rows[l] # Unassigned
    <3>1. (~optOut) \in BOOLEAN
      OBVIOUS
    <3>2. rows' = Touched(l, ~optOut)
      BY <1>1, <2>2
    <3>3. /\ rows' \in RepRows /\ OneRowMoved(rows, rows', l) /\ rows'[l].first = rows[l].first
          /\ rows'[l].done = rows[l].done
      BY <2>2, <3>1, <3>2, TouchedKeeps
    <3> QED BY <1>1, <3>3, OneRowMovedKeeps DEF OneRowMoved, QuietRow
  <2> QED BY <2>1, <2>2
<1>4. reminders' \in [Leads -> Seq(Reps)] /\ StepsOf(reminders', rows')
  <2>1. reminders' \in [Leads -> Seq(Reps)] /\ \A m \in Leads : reminders'[m] = <<>> \/ reminders'[m] = reminders[m]
    <3>1. <<>> \in Seq(Reps)
      OBVIOUS
    <3> QED BY <1>1, <1>2, <3>1
  <2>2. StepsOf(reminders, rows')
    BY <1>2, <1>3, SameHandsKeep
  <2> QED BY <2>1, <2>2 DEF StepsOf
<1>5. \A a \in Accounts \ moved' : OneRepIn(rows', a)
  BY <1>1, <1>3, SameHandsKeep DEF SdrInv
<1>6. calls' \in [Leads -> SUBSET Wrapups] /\ moved' \subseteq Accounts /\ reachable' \subseteq Leads
  BY <1>1 DEF SdrInv, SdrTypeOK
<1> QED BY <1>1, <1>2, <1>3, <1>4, <1>5, <1>6, QuietStepKeeps

LEMMA ChangeKeeps ==
  ASSUME SdrInv, NEW l \in Leads, ContactChanges(l)
  PROVE  SdrInv' /\ NoneSkipped
<1>1. SdrStep /\ UNCHANGED <<owner, rows, reminders, receipts, calls, moved>> /\ reachable' \subseteq Leads
  BY DEF ContactChanges, SdrInv, SdrTypeOK
<1>2. rows' \in RepRows /\ owner' \in Owners /\ reminders' \in [Leads -> Seq(Reps)] /\ StepsOf(reminders', rows')
      /\ calls' \in [Leads -> SUBSET Wrapups] /\ moved' \subseteq Accounts
      /\ \A a \in Accounts \ moved' : OneRepIn(rows', a)
  BY <1>1, SdrTypes DEF SdrInv, SdrTypeOK
<1>3. \A m \in Leads : QuietRow(m)
  BY <1>1 DEF QuietRow
<1> QED BY <1>1, <1>2, <1>3, QuietStepKeeps

LEMMA CompleteKeepsSteps ==
  ASSUME SdrInv, NEW l \in Leads, CompleteReminder(l)
  PROVE  SdrInv' /\ NoneSkipped
<1>1. SdrStep /\ UNCHANGED <<reachable, owner, rows, receipts, calls, moved>>
  BY DEF CompleteReminder
<1>2. PICK i \in DOMAIN reminders[l] : reminders' = [reminders EXCEPT ![l] = RemoveAt(@, i)]
  BY DEF CompleteReminder
<1>3. rows \in RepRows /\ owner \in Owners /\ reminders \in [Leads -> Seq(Reps)] /\ StepsOf(reminders, rows)
      /\ reachable \subseteq Leads
  BY SdrTypes DEF SdrInv
<1>4. reminders[l] # <<>>
  BY <1>2
<1>5. reminders[l] = <<rows[l].rep>> /\ rows[l].rep \in Reps
  BY <1>3, <1>4, AssignedRow DEF StepsOf
<1>6. i = 1 /\ Len(reminders[l]) = 1
  BY <1>2, <1>5
<1>7. RemoveAt(reminders[l], i) = <<>>
  <2>1. SubSeq(reminders[l], 1, 0) = <<>> /\ SubSeq(reminders[l], 2, 1) = <<>>
    BY <1>5
  <2> QED BY <1>6, <2>1 DEF RemoveAt
<1>8. reminders' = [reminders EXCEPT ![l] = <<>>]
  BY <1>2, <1>7
<1>9. reminders' \in [Leads -> Seq(Reps)] /\ StepsOf(reminders', rows')
  <2>1. <<>> \in Seq(Reps)
    OBVIOUS
  <2> QED BY <1>1, <1>3, <1>8, <2>1 DEF StepsOf
<1>10. \A m \in Leads : QuietRow(m)
  BY <1>1 DEF QuietRow
<1>11. calls' \in [Leads -> SUBSET Wrapups] /\ moved' \subseteq Accounts
       /\ \A a \in Accounts \ moved' : OneRepIn(rows', a)
  BY <1>1 DEF SdrInv, SdrTypeOK
<1> QED BY <1>1, <1>3, <1>9, <1>10, <1>11, QuietStepKeeps

LEMMA ResetKeeps ==
  ASSUME SdrInv, NEW l \in Leads, ResetSdrAssignmentToFresh(l)
  PROVE  SdrInv' /\ NoneSkipped
<1> DEFINE row == FreshRow(rows[l].rep, TRUE)
<1>1. /\ SdrStep /\ rows[l] # Unassigned /\ rows' = [rows EXCEPT ![l] = row]
      /\ reminders' = [reminders EXCEPT ![l] = IF l \in Prompted THEN <<rows[l].rep>> ELSE <<>>]
      /\ calls' = [calls EXCEPT ![l] = {}] /\ UNCHANGED <<reachable, owner, receipts, moved>>
  BY DEF ResetSdrAssignmentToFresh
<1>2. rows \in RepRows /\ owner \in Owners /\ reminders \in [Leads -> Seq(Reps)] /\ StepsOf(reminders, rows)
      /\ reachable \subseteq Leads /\ rows[l].rep \in Reps /\ calls \in [Leads -> SUBSET Wrapups]
      /\ moved \subseteq Accounts
  BY <1>1, SdrTypes, AssignedRow DEF SdrInv, SdrTypeOK
<1>3. row \in Assignments /\ row # Unassigned /\ row.rep = rows[l].rep /\ ~row.first /\ ~row.done
  BY <1>2, FreshRowIsARow
<1> HIDE DEF row
<1>4. rows' \in RepRows /\ rows'[l] = row /\ \A m \in Leads \ {l} : rows'[m] = rows[m]
  BY <1>1, <1>2, <1>3 DEF RepRows
<1>5. SameHands(rows, rows')
  BY <1>1, <1>3, <1>4 DEF SameHands
<1>6. <<rows[l].rep>> \in Seq(Reps) /\ <<>> \in Seq(Reps)
  BY <1>2
<1>7. reminders' \in [Leads -> Seq(Reps)] /\ reminders'[l] \in {<<rows[l].rep>>, <<>>}
      /\ \A m \in Leads \ {l} : reminders'[m] = reminders[m]
  BY <1>1, <1>2, <1>6
<1>8. StepsOf(reminders', rows')
  BY <1>2, <1>3, <1>4, <1>7 DEF StepsOf
<1>9. \A m \in Leads : QuietRow(m)
  <2>1. calls'[l] = {} /\ \A m \in Leads \ {l} : calls'[m] = calls[m]
    BY <1>1, <1>2
  <2> QED BY <1>3, <1>4, <2>1 DEF QuietRow
<1>10. \A a \in Accounts \ moved' : OneRepIn(rows', a)
  BY <1>1, <1>5, SameHandsKeep DEF SdrInv
<1>11. calls' \in [Leads -> SUBSET Wrapups]
  BY <1>1, <1>2
<1> QED BY <1>1, <1>2, <1>4, <1>7, <1>8, <1>9, <1>10, <1>11, QuietStepKeeps

\* Contacts change hands, with their next steps.
LEMMA ReassignKeeps ==
  ASSUME SdrInv, NEW ls \in SUBSET Leads, NEW rep \in Reps, SdrStep, Reassign(ls, rep),
         \A l \in ls : rows[l] # Unassigned, UNCHANGED <<reachable, receipts, calls>>
  PROVE  SdrInv' /\ NoneSkipped
<1> DEFINE given(l) == [rows[l] EXCEPT !.rep = rep]
           all(l)   == [i \in DOMAIN reminders[l] |-> rep]
<1>1. /\ rows' = [l \in Leads |-> IF l \in ls THEN given(l) ELSE rows[l]]
      /\ owner' = [l \in Leads |-> IF l \in ls THEN rep ELSE owner[l]]
      /\ reminders' = [l \in Leads |-> IF l \in ls THEN all(l) ELSE reminders[l]]
      /\ moved' = moved \union {AccountOf[l] : l \in ls}
  BY DEF Reassign
<1>2. rows \in RepRows /\ owner \in Owners /\ reminders \in [Leads -> Seq(Reps)] /\ StepsOf(reminders, rows)
      /\ reachable \subseteq Leads /\ calls \in [Leads -> SUBSET Wrapups] /\ moved \subseteq Accounts
  BY SdrTypes DEF SdrInv, SdrTypeOK
<1>3. ASSUME NEW l \in ls
      PROVE  /\ rows'[l] \in Assignments /\ rows'[l].rep = rep
             /\ rows'[l].first = rows[l].first /\ rows'[l].done = rows[l].done
             /\ rows[l] # Unassigned /\ rows'[l] # Unassigned
  <2>1. rows[l] # Unassigned /\ rows[l] \in Assignments
    BY <1>2, AssignedRow
  <2>2. given(l) \in Assignments /\ given(l).rep = rep /\ given(l).first = rows[l].first
        /\ given(l).done = rows[l].done
    BY <2>1 DEF Assignments
  <2>3. rows'[l] = given(l)
    BY <1>1
  <2> QED BY <2>1, <2>2, <2>3, SdrAssumption
<1>4. ASSUME NEW l \in ls, reminders[l] # <<>> PROVE all(l) = <<rep>>
  <2>1. reminders[l] = <<rows[l].rep>>
    BY <1>2, <1>4 DEF StepsOf
  <2>2. DOMAIN reminders[l] = 1..1
    BY <2>1
  <2> QED BY <2>2
<1>5. ASSUME NEW l \in ls, reminders[l] = <<>> PROVE all(l) = <<>>
  <2>1. DOMAIN reminders[l] = {}
    BY <1>5
  <2> QED BY <2>1
<1>6. \A l \in ls : reminders'[l] = all(l)
  BY <1>1
<1> HIDE DEF given, all
<1>7. \A l \in Leads \ ls : rows'[l] = rows[l] /\ reminders'[l] = reminders[l]
  BY <1>1
<1>8. rows' \in RepRows /\ owner' \in Owners
  <2>1. \A l \in Leads : rows'[l] \in Assignments \union {Unassigned}
    BY <1>2, <1>3, <1>7 DEF RepRows
  <2>2. rows' = [l \in Leads |-> rows'[l]]
    BY <1>1
  <2> QED BY <1>1, <1>2, <2>1, <2>2 DEF RepRows, Owners
<1>9. reminders' \in [Leads -> Seq(Reps)]
  <2>1. <<rep>> \in Seq(Reps) /\ <<>> \in Seq(Reps)
    OBVIOUS
  <2>2. \A l \in Leads : reminders'[l] \in Seq(Reps)
    BY <1>2, <1>4, <1>5, <1>6, <1>7, <2>1
  <2>3. reminders' = [l \in Leads |-> reminders'[l]]
    BY <1>1
  <2> QED BY <2>2, <2>3
<1>10. StepsOf(reminders', rows')
  BY <1>2, <1>3, <1>4, <1>5, <1>6, <1>7 DEF StepsOf
<1>11. \A m \in Leads : QuietRow(m)
  BY <1>3, <1>7 DEF QuietRow
<1>12. ASSUME NEW a \in Accounts \ moved' PROVE OneRepIn(rows', a)
  <2>1. a \in Accounts \ moved /\ \A l \in ls : AccountOf[l] # a
    BY <1>1
  <2>2. OneRepIn(rows, a)
    BY <2>1 DEF SdrInv
  <2> QED BY <1>7, <2>1, <2>2 DEF OneRepIn
<1>13. moved' \subseteq Accounts
  BY <1>1, <1>2, SdrAssumption
<1> QED BY <1>2, <1>8, <1>9, <1>10, <1>11, <1>12, <1>13, QuietStepKeeps

LEMMA AssignKeeps ==
  ASSUME SdrInv, NEW l \in Leads, NEW rep \in Reps, AssignContactToSdr(l, rep)
  PROVE  SdrInv' /\ NoneSkipped
<1>1. SdrStep /\ UNCHANGED <<reachable, receipts, calls>>
  BY DEF AssignContactToSdr
<1>2. CASE rows[l] # Unassigned /\ Reassign({l}, rep)
  <2>1. {l} \in SUBSET Leads /\ \A k \in {l} : rows[k] # Unassigned
    BY <1>2
  <2> QED BY <1>1, <1>2, <2>1, ReassignKeeps
<1>3. ASSUME rows[l] = Unassigned,
             NEW to \in IF AccountReps(rows, l) = {} THEN {rep} ELSE AccountReps(rows, l),
             rows' = [rows EXCEPT ![l] = FreshRow(to, l \notin Ended)],
             owner' = [owner EXCEPT ![l] = to],
             reminders' = IF l \in Prompted THEN [reminders EXCEPT ![l] = Append(@, to)] ELSE reminders,
             UNCHANGED moved
      PROVE  SdrInv' /\ NoneSkipped
  <2> DEFINE row == FreshRow(to, l \notin Ended)
  <2>1. rows \in RepRows /\ owner \in Owners /\ reminders \in [Leads -> Seq(Reps)] /\ StepsOf(reminders, rows)
        /\ reachable \subseteq Leads /\ calls \in [Leads -> SUBSET Wrapups] /\ moved \subseteq Accounts
    BY SdrTypes DEF SdrInv, SdrTypeOK
  <2>2. to \in Reps /\ (AccountReps(rows, l) # {} => to \in AccountReps(rows, l))
    <3>1. AccountReps(rows, l) \subseteq Reps
      BY <2>1, AssignedRow DEF AccountReps
    <3> QED BY <3>1
  <2>3. (l \notin Ended) \in BOOLEAN
    OBVIOUS
  <2>4. row \in Assignments /\ row # Unassigned /\ row.rep = to /\ ~row.first /\ ~row.done
    BY <2>2, <2>3, FreshRowIsARow
  <2>5. \A a \in Accounts \ moved' : OneRepIn(rows', a)
    BY <1>3, <2>1, <2>2, <2>3, FreshRowOfTheAccount DEF SdrInv
  <2> HIDE DEF row
  <2>6. rows' \in RepRows /\ rows'[l] = row /\ \A m \in Leads \ {l} : rows'[m] = rows[m]
    BY <1>3, <2>1, <2>4 DEF RepRows, row
  <2>7. reminders[l] = <<>>
    BY <1>3, <2>1 DEF StepsOf
  <2>8. Append(reminders[l], to) = <<to>> /\ <<to>> \in Seq(Reps)
    BY <2>2, <2>7
  <2>9. reminders' \in [Leads -> Seq(Reps)] /\ reminders'[l] \in {<<to>>, <<>>}
        /\ \A m \in Leads \ {l} : reminders'[m] = reminders[m]
    BY <1>3, <2>1, <2>7, <2>8
  <2>10. StepsOf(reminders', rows')
    BY <2>1, <2>4, <2>6, <2>9 DEF StepsOf
  <2>11. \A m \in Leads : QuietRow(m)
    BY <1>1, <1>3, <2>4, <2>6 DEF QuietRow
  <2>12. owner' \in Owners
    BY <1>3, <2>1, <2>2 DEF Owners
  <2> QED BY <1>1, <1>3, <2>1, <2>5, <2>6, <2>9, <2>10, <2>11, <2>12, QuietStepKeeps
<1> QED BY <1>2, <1>3 DEF AssignContactToSdr

LEMMA SdrNextKeeps == SdrInv /\ SdrNext => SdrInv' /\ NoneSkipped
<1> SUFFICES ASSUME SdrInv, SdrNext PROVE SdrInv' /\ NoneSkipped
  OBVIOUS
<1>1. ASSUME NEW pick \in Picks, NEW order \in Runs, RunSdrAssignment(order, pick)
      PROVE  SdrInv' /\ NoneSkipped
  <2>1. order \in Seq(Leads)
    <3>1. PICK n \in 0..Cardinality(Leads) : order \in [1..n -> Leads]
      BY DEF Runs
    <3>2. n \in Nat
      OBVIOUS
    <3> QED BY <3>1, <3>2
  <2> QED BY <1>1, <2>1, RunKeeps
<1>2. ASSUME NEW l \in Leads, NEW rep \in Reps, ReassignSdrAssignment(l, rep) PROVE SdrInv' /\ NoneSkipped
  <2>1. {l} \in SUBSET Leads /\ (\A k \in {l} : rows[k] # Unassigned) /\ SdrStep /\ Reassign({l}, rep)
        /\ UNCHANGED <<reachable, receipts, calls>>
    BY <1>2 DEF ReassignSdrAssignment
  <2> QED BY <2>1, ReassignKeeps
<1>3. ASSUME NEW ls \in (SUBSET Leads) \ {{}}, NEW rep \in Reps, ApplyReassignmentRecommendations(ls, rep)
      PROVE  SdrInv' /\ NoneSkipped
  <2>1. ls \in SUBSET Leads /\ (\A k \in ls : rows[k] # Unassigned) /\ SdrStep /\ Reassign(ls, rep)
        /\ UNCHANGED <<reachable, receipts, calls>>
    BY <1>3 DEF ApplyReassignmentRecommendations
  <2> QED BY <2>1, ReassignKeeps
<1> QED BY <1>1, <1>2, <1>3, WrapupKeeps, TouchKeeps, SdrEventKeeps, ResetKeeps, ChangeKeeps,
           CompleteKeepsSteps, AssignKeeps DEF SdrNext

LEMMA SdrStutters == SdrInv /\ UNCHANGED sdrVars => SdrInv' /\ NoneSkipped
<1> SUFFICES ASSUME SdrInv, UNCHANGED sdrVars PROVE SdrInv' /\ NoneSkipped
  OBVIOUS
<1>1. UNCHANGED <<reachable, owner, rows, reminders, receipts, calls, moved, sdrSteps>>
  BY DEF sdrVars
<1>2. SdrInv'
  BY <1>1 DEF SdrInv, SdrTypeOK, CallsAreCounted, OneRepIn, StepsOf
<1>3. NoneSkipped
  BY <1>1 DEF NoneSkipped, IsCallable
<1> QED BY <1>2, <1>3

LEMMA SdrInvHolds == SdrSpec => []SdrInv
BY SdrInitHolds, SdrNextKeeps, SdrStutters, PTL DEF SdrSpec

\* Contacts, rows, reminders and receipts stay in their spaces.
THEOREM SdrTypeCorrect == SdrSpec => []SdrTypeOK
<1>1. SdrInv => SdrTypeOK
  BY DEF SdrInv
<1> QED BY <1>1, SdrInvHolds, PTL

\* Whatever a touch, a wrap-up, a batch, a manager or a webhook does, an
\* account has one rep until a manager reassigns in it, and a contact one next
\* step, its rep's.
THEOREM OneRepOneStepHolds == SdrSpec => []OneRepOneStep
BY SdrInvHolds, SdrInvImpliesOneRepOneStep, PTL

\* A contact leaves the cycle after two wrap-ups of its own, and after the
\* first call of every other contact its rep can call.
THEOREM NobodyIsSkippedHolds == SdrSpec => NobodyIsSkipped
<1>1. SdrInv /\ [SdrNext]_sdrVars => [NoneSkipped]_sdrVars
  BY SdrNextKeeps
<1>2. SdrSpec => [][NoneSkipped]_sdrVars
  BY <1>1, SdrInvHolds, PTL DEF SdrSpec
<1> QED BY <1>2 DEF NobodyIsSkipped, NoneSkipped

-----------------------------------------------------------------------------
\* The ledger.  A source has one row of a kind, which is what makes the two
\* keys of a retried and of a repeated command meet in one row.

OneRowPerSource ==
  \A j, k \in Recorded :
    (ledger[j].source = ledger[k].source /\ ledger[j].kind = ledger[k].kind) => j = k

AnsweredAsBooked == \A a \in answers : ledger[a.row] = a.event

LInv == LedgerTypeOK /\ OneRowPerSource /\ AnsweredAsBooked

LEMMA BookedRow ==
  ASSUME LedgerTypeOK, NEW k \in Recorded PROVE ledger[k] \in FinancialEvents
BY DEF LedgerTypeOK, Recorded

LEMMA LInvImpliesBookedOnce == LInv => BookedOnce
<1> SUFFICES ASSUME LInv PROVE BookedOnce
  OBVIOUS
<1>1. ASSUME NEW a \in answers PROVE a.row \in Recorded /\ ledger[a.row] = a.event
  <2>1. a.row \in EventKeys /\ a.event \in FinancialEvents
    BY DEF LInv, LedgerTypeOK
  <2>2. ledger[a.row] = a.event
    BY DEF LInv, AnsweredAsBooked
  <2> QED BY <2>1, <2>2, NoRowAssumption DEF Recorded
<1>2. ASSUME NEW a \in answers, NEW b \in answers,
             a.event.source = b.event.source, a.event.kind = b.event.kind
      PROVE  a.row = b.row
  BY <1>1, <1>2 DEF LInv, OneRowPerSource
<1> QED BY <1>1, <1>2 DEF BookedOnce

\* Every command ends in PersistEvent with an event of the ledger's type.
LEMMA PersistKeeps ==
  ASSUME LInv, NEW key \in EventKeys, NEW e \in FinancialEvents, PersistEvent(key, e)
  PROVE  LInv'
<1>1. ASSUME NEW row \in EventKeys, Answer(key, e, row)
      PROVE  answers' \subseteq [key : EventKeys, event : FinancialEvents, row : EventKeys]
  <2>1. [key |-> key, event |-> e, row |-> row] \in [key : EventKeys, event : FinancialEvents, row : EventKeys]
    OBVIOUS
  <2> QED BY <1>1, <2>1 DEF Answer, LInv, LedgerTypeOK
<1>2. CASE FindReplay(key, e) = {} /\ ledger' = [ledger EXCEPT ![key] = e] /\ Answer(key, e, key)
  <2>1. key \notin Recorded /\ \A k \in Recorded : ~(ledger[k].source = e.source /\ ledger[k].kind = e.kind)
    BY <1>2 DEF FindReplay, SameSource
  <2>2. LedgerTypeOK'
    BY <1>1, <1>2 DEF LInv, LedgerTypeOK
  <2>3. ledger'[key] = e /\ \A k \in EventKeys \ {key} : ledger'[k] = ledger[k]
    BY <1>2 DEF LInv, LedgerTypeOK
  <2>4. OneRowPerSource'
    BY <2>1, <2>3 DEF LInv, OneRowPerSource, Recorded
  <2>5. AnsweredAsBooked'
    <3>1. ASSUME NEW a \in answers PROVE ledger'[a.row] = a.event
      <4>1. a.row \in EventKeys /\ a.event \in FinancialEvents /\ ledger[a.row] = a.event
        BY DEF LInv, LedgerTypeOK, AnsweredAsBooked
      <4>2. a.row # key
        BY <2>1, <4>1, NoRowAssumption DEF Recorded
      <4> QED BY <2>3, <4>1, <4>2
    <3> QED BY <1>2, <2>3, <3>1 DEF Answer, AnsweredAsBooked
  <2> QED BY <2>2, <2>4, <2>5 DEF LInv
<1>3. ASSUME NEW row \in EventKeys, ledger[row] = e, Answer(key, e, row), UNCHANGED ledger
      PROVE  LInv'
  <2>1. LedgerTypeOK'
    BY <1>1, <1>3 DEF LInv, LedgerTypeOK
  <2>2. OneRowPerSource'
    BY <1>3 DEF LInv, OneRowPerSource, Recorded
  <2>3. AnsweredAsBooked'
    BY <1>3 DEF LInv, AnsweredAsBooked, Answer
  <2> QED BY <2>1, <2>2, <2>3 DEF LInv
<1> QED BY <1>2, <1>3 DEF PersistEvent

\* normalizeEvent gives an event of the ledger's type.
LEMMA EventTyped ==
  ASSUME LInv, NEW kind \in Kinds, NEW source \in Sources, NEW spender \in Spenders,
         NEW amount \in Int, NEW target \in EventKeys \union {NoRow},
         kind = "REVERSAL" => target \in Recorded
  PROVE  Event(kind, source, spender, amount, target) \in FinancialEvents
<1>1. ActualSpendEffect(kind, amount, target) \in Int
  <2>1. CASE kind = "REVERSAL"
    <3>1. ledger[target].amount \in Int
      BY <2>1, BookedRow DEF LInv, FinancialEvents
    <3> QED BY <2>1, <3>1 DEF ActualSpendEffect, Negative
  <2>2. CASE kind # "REVERSAL"
    BY <2>2 DEF ActualSpendEffect
  <2> QED BY <2>1, <2>2
<1> QED BY <1>1 DEF Event, FinancialEvents

\* The totals.  What a reversal points at is a row of its campaign, no
\* reversal itself and nobody else's target, and the column totalCents of a
\* row is what the row counts into the actual total.

ReversesOnce ==
  \A k \in Recorded : ledger[k].kind = "REVERSAL" =>
    LET target == ledger[k].target IN
    /\ target \in Recorded /\ ledger[target].kind # "REVERSAL"
    /\ ledger[target].campaign = ledger[k].campaign
    /\ \A j \in Recorded : ledger[j].kind = "REVERSAL" /\ ledger[j].target = target => j = k

ColumnIsEffect ==
  \A k \in Recorded :
    ledger[k].totalCents = ActualSpendEffect(ledger[k].kind, ledger[k].amount, ledger[k].target)

TotalsInv == LInv /\ IsFiniteSet(Recorded) /\ ReversesOnce /\ ColumnIsEffect

\* A new row keeps them if they hold of it.
LEMMA PersistKeepsTotals ==
  ASSUME TotalsInv, NEW key \in EventKeys, NEW e \in FinancialEvents, PersistEvent(key, e),
         e.kind = "REVERSAL" =>
           /\ e.target \in Recorded /\ ledger[e.target].kind # "REVERSAL"
           /\ ledger[e.target].campaign = e.campaign,
         e.totalCents = ActualSpendEffect(e.kind, e.amount, e.target)
  PROVE  TotalsInv'
<1>1. LInv'
  BY PersistKeeps DEF TotalsInv
<1>2. CASE UNCHANGED ledger
  BY <1>1, <1>2 DEF TotalsInv, ReversesOnce, ColumnIsEffect, Recorded, ActualSpendEffect
<1>3. CASE /\ FindReplay(key, e) = {} /\ (e.kind = "REVERSAL" => ~Reversed(e.target))
           /\ ledger' = [ledger EXCEPT ![key] = e]
  <2>1. key \notin Recorded
    BY <1>3 DEF FindReplay
  <2>2. ledger'[key] = e /\ e # NoRow /\ \A k \in EventKeys \ {key} : ledger'[k] = ledger[k]
    BY <1>3, NoRowAssumption DEF TotalsInv, LInv, LedgerTypeOK
  <2>3. Recorded' = Recorded \union {key} /\ Recorded \subseteq EventKeys
    BY <2>2 DEF Recorded
  <2>4. \A k \in Recorded : k # key /\ ledger'[k] = ledger[k]
    BY <2>1, <2>2, <2>3
  <2>5. IsFiniteSet(Recorded')
    BY <2>3, FS_AddElement DEF TotalsInv
  <2>6. ReversesOnce'
    <3>1. ASSUME NEW k \in Recorded', ledger'[k].kind = "REVERSAL"
          PROVE  /\ ledger'[k].target \in Recorded
                 /\ ledger[ledger'[k].target].kind # "REVERSAL"
                 /\ ledger[ledger'[k].target].campaign = ledger'[k].campaign
                 /\ \A j \in Recorded' :
                      ledger'[j].kind = "REVERSAL" /\ ledger'[j].target = ledger'[k].target => j = k
      <4>1. CASE k = key
        <5>1. ~Reversed(e.target)
          BY <1>3, <2>2, <3>1, <4>1
        <5>2. ASSUME NEW j \in Recorded', ledger'[j].kind = "REVERSAL", ledger'[j].target = e.target
              PROVE  j = key
          BY <5>1, <5>2, <2>3, <2>4 DEF Reversed
        <5> QED BY <2>2, <3>1, <4>1, <5>2
      <4>2. CASE k # key
        <5>1. k \in Recorded /\ ledger'[k] = ledger[k]
          BY <2>3, <2>4, <4>2
        <5>2. /\ ledger[k].target \in Recorded /\ ledger[ledger[k].target].kind # "REVERSAL"
              /\ ledger[ledger[k].target].campaign = ledger[k].campaign
              /\ \A j \in Recorded :
                   ledger[j].kind = "REVERSAL" /\ ledger[j].target = ledger[k].target => j = k
          BY <3>1, <5>1 DEF TotalsInv, ReversesOnce
        <5>3. e.kind = "REVERSAL" => e.target # ledger[k].target
          BY <1>3, <3>1, <5>1 DEF Reversed
        <5> QED BY <2>2, <2>3, <2>4, <5>1, <5>2, <5>3
      <4> QED BY <4>1, <4>2
    <3> QED BY <2>3, <2>4, <3>1 DEF ReversesOnce
  <2>7. ColumnIsEffect'
    <3>1. ASSUME NEW k \in Recorded'
          PROVE  (ledger[k].totalCents
                    = ActualSpendEffect(ledger[k].kind, ledger[k].amount, ledger[k].target))'
      <4>1. CASE k = key
        <5>1. e.kind = "REVERSAL" => ledger'[e.target] = ledger[e.target]
          BY <2>4
        <5> QED BY <2>2, <4>1, <5>1 DEF ActualSpendEffect
      <4>2. CASE k # key
        <5>1. k \in Recorded /\ ledger'[k] = ledger[k]
          BY <2>3, <2>4, <4>2
        <5>2. ledger[k].totalCents = ActualSpendEffect(ledger[k].kind, ledger[k].amount, ledger[k].target)
          BY <5>1 DEF TotalsInv, ColumnIsEffect
        <5>3. ledger[k].kind = "REVERSAL" => ledger'[ledger[k].target] = ledger[ledger[k].target]
          BY <2>4, <5>1 DEF TotalsInv, ReversesOnce
        <5> QED BY <5>1, <5>2, <5>3 DEF ActualSpendEffect
      <4> QED BY <4>1, <4>2
    <3> QED BY <3>1 DEF ColumnIsEffect
  <2> QED BY <1>1, <2>5, <2>6, <2>7 DEF TotalsInv
<1> QED BY <1>2, <1>3 DEF PersistEvent

LEMMA EventFields ==
  ASSUME NEW kind, NEW source, NEW spender, NEW amount, NEW target
  PROVE  LET e == Event(kind, source, spender, amount, target) IN
         /\ e.kind = kind /\ e.campaign = spender /\ e.target = target /\ e.amount = amount
         /\ e.totalCents = ActualSpendEffect(kind, amount, target)
BY DEF Event

LEMMA CommandsKeepTotals == TotalsInv /\ LedgerNext => TotalsInv'
<1> SUFFICES ASSUME TotalsInv, LedgerNext PROVE TotalsInv'
  OBVIOUS
<1>0. LInv
  BY DEF TotalsInv
<1>1. ASSUME NEW key \in EventKeys, NEW source \in Sources, NEW spender \in Spenders, NEW amount \in Int,
             NEW target \in EventKeys \union {NoRow}, NEW kind \in Kinds,
             PersistEvent(key, Event(kind, source, spender, amount, target)),
             kind = "REVERSAL" => /\ target \in Recorded /\ ledger[target].kind # "REVERSAL"
                                  /\ ledger[target].campaign = spender
      PROVE  TotalsInv'
  <2> DEFINE e == Event(kind, source, spender, amount, target)
  <2>1. e \in FinancialEvents
    BY <1>0, <1>1, EventTyped
  <2>2. /\ e.kind = kind /\ e.campaign = spender /\ e.target = target /\ e.amount = amount
        /\ e.totalCents = ActualSpendEffect(kind, amount, target)
    BY EventFields
  <2>3. PersistEvent(key, e)
    BY <1>1
  <2> HIDE DEF e
  <2> QED BY <1>1, <2>1, <2>2, <2>3, PersistKeepsTotals
<1>2. ASSUME NEW target \in Recorded
      PROVE  target \in EventKeys /\ ledger[target].campaign \in Spenders /\ ledger[target].amount \in Int
  BY <1>0, BookedRow DEF LInv, Recorded, FinancialEvents
<1>3. PICK key \in EventKeys, source \in Sources :
        \/ \E spender \in Spenders, amount \in Amounts :
             \/ RecordEstimate(key, source, spender, amount)
             \/ RecordAuthorization(key, source, spender, amount)
             \/ RecordActual(key, source, spender, amount)
        \/ \E target \in EventKeys :
             \/ \E amount \in Amounts : RecordAdjustment(key, source, target, amount)
             \/ RecordReversal(key, source, target)
  BY DEF LedgerNext
<1>4. ASSUME NEW spender \in Spenders, NEW amount \in Amounts,
             NEW kind \in {"ESTIMATE", "AUTHORIZATION", "ACTUAL"},
             PersistEvent(key, Event(kind, source, spender, amount, NoRow))
      PROVE  TotalsInv'
  BY <1>1, <1>4, LedgerAssumption DEF Kinds
<1>5. ASSUME NEW target \in EventKeys, NEW amount \in Amounts,
             RecordAdjustment(key, source, target, amount)
      PROVE  TotalsInv'
  BY <1>1, <1>2, <1>5, LedgerAssumption DEF Kinds, RecordAdjustment
<1>6. ASSUME NEW target \in EventKeys, RecordReversal(key, source, target)
      PROVE  TotalsInv'
  <2>1. target \in Recorded /\ ledger[target].kind # "REVERSAL"
        /\ PersistEvent(key, Event("REVERSAL", source, ledger[target].campaign,
                                   Abs(ledger[target].amount), target))
    BY <1>6 DEF RecordReversal
  <2>2. Abs(ledger[target].amount) \in Int
    BY <1>2, <2>1 DEF Abs
  <2> QED BY <1>1, <1>2, <2>1, <2>2 DEF Kinds
<1> QED BY <1>3, <1>4, <1>5, <1>6 DEF RecordEstimate, RecordAuthorization, RecordActual

LEMMA TotalsInvHolds == LedgerSpec => []TotalsInv
<1>1. LedgerInit => TotalsInv
  <2> SUFFICES ASSUME LedgerInit PROVE TotalsInv
    OBVIOUS
  <2>1. LInv
    BY NoRowAssumption DEF LedgerInit, LInv, LedgerTypeOK, OneRowPerSource, AnsweredAsBooked, Recorded
  <2>2. Recorded = {}
    BY DEF LedgerInit, Recorded
  <2> QED BY <2>1, <2>2, FS_EmptySet DEF TotalsInv, ReversesOnce, ColumnIsEffect
<1>2. TotalsInv /\ UNCHANGED ledgerVars => TotalsInv'
  BY DEF ledgerVars, TotalsInv, LInv, LedgerTypeOK, OneRowPerSource, AnsweredAsBooked, Recorded,
         ReversesOnce, ColumnIsEffect, ActualSpendEffect
<1> QED BY <1>1, <1>2, CommandsKeepTotals, PTL DEF LedgerSpec

\* RepRows and answers keep their types whatever commands arrive.
THEOREM LedgerTypeCorrect == LedgerSpec => []LedgerTypeOK
<1>1. TotalsInv => LedgerTypeOK
  BY DEF TotalsInv, LInv
<1> QED BY <1>1, TotalsInvHolds, PTL

\* However commands are repeated, and under whatever keys an event of a source
\* comes again, it is booked once and every answer names that row.
THEOREM BookedOnceHolds == LedgerSpec => []BookedOnce
<1>1. TotalsInv => BookedOnce
  BY LInvImpliesBookedOnce DEF TotalsInv
<1> QED BY <1>1, TotalsInvHolds, PTL

-----------------------------------------------------------------------------
\* The three sums, told from Adds.

AmountOf(k) == ledger[k].amount
ColumnOf(k) == ledger[k].totalCents
AmountTotal(S) == MapThenSumSet(LAMBDA k : ledger[k].amount, S)
ColumnTotal(S) == MapThenSumSet(LAMBDA k : ledger[k].totalCents, S)
CountTotal(bucket, S) == MapThenSumSet(LAMBDA k : Counted(ledger[k], bucket), S)

LEMMA AmountsAdded ==
  ASSUME NEW S, IsFiniteSet(S), NEW f, NEW sum, Adds(sum, f, S),
         \A k \in S : f[k] = AmountOf(k)
  PROVE  AmountTotal(S) = sum[S]
<1> DEFINE IsTaken(g) == g = [s \in SUBSET S |-> IF s = {} THEN 0
               ELSE ledger[CHOOSE x \in s : TRUE].amount + g[s \ {CHOOSE x \in s : TRUE}]]
           taken == CHOOSE g : IsTaken(g)
<1>1. AmountTotal(S) = taken[S]
  BY DEF AmountTotal, MapThenSumSet, MapThenFoldSet
<1>2. \A s \in SUBSET S : s # {} => f[CHOOSE x \in s : TRUE] = ledger[CHOOSE x \in s : TRUE].amount
  BY DEF AmountOf
<1>3. ASSUME NEW g PROVE TakesOneByOne(g, f, S) <=> IsTaken(g)
  <2>1. [s \in SUBSET S |-> IF s = {} THEN 0
           ELSE f[CHOOSE x \in s : TRUE] + g[s \ {CHOOSE x \in s : TRUE}]]
        = [s \in SUBSET S |-> IF s = {} THEN 0
           ELSE ledger[CHOOSE x \in s : TRUE].amount + g[s \ {CHOOSE x \in s : TRUE}]]
    BY <1>2
  <2> QED BY <2>1 DEF TakesOneByOne
<1> HIDE DEF IsTaken
<1>4. IsTaken(taken)
  <2>1. IsTaken(sum)
    BY <1>3, SumTakesOneByOne
  <2> QED BY <2>1
<1> HIDE DEF taken
<1>5. taken[S] = sum[S]
  BY <1>3, <1>4, OneByOneIsTheSum
<1> QED BY <1>1, <1>5

LEMMA ColumnAdded ==
  ASSUME NEW S, IsFiniteSet(S), NEW f, NEW sum, Adds(sum, f, S),
         \A k \in S : f[k] = ColumnOf(k)
  PROVE  ColumnTotal(S) = sum[S]
<1> DEFINE IsTaken(g) == g = [s \in SUBSET S |-> IF s = {} THEN 0
               ELSE ledger[CHOOSE x \in s : TRUE].totalCents + g[s \ {CHOOSE x \in s : TRUE}]]
           taken == CHOOSE g : IsTaken(g)
<1>1. ColumnTotal(S) = taken[S]
  BY DEF ColumnTotal, MapThenSumSet, MapThenFoldSet
<1>2. \A s \in SUBSET S : s # {} => f[CHOOSE x \in s : TRUE] = ledger[CHOOSE x \in s : TRUE].totalCents
  BY DEF ColumnOf
<1>3. ASSUME NEW g PROVE TakesOneByOne(g, f, S) <=> IsTaken(g)
  <2>1. [s \in SUBSET S |-> IF s = {} THEN 0
           ELSE f[CHOOSE x \in s : TRUE] + g[s \ {CHOOSE x \in s : TRUE}]]
        = [s \in SUBSET S |-> IF s = {} THEN 0
           ELSE ledger[CHOOSE x \in s : TRUE].totalCents + g[s \ {CHOOSE x \in s : TRUE}]]
    BY <1>2
  <2> QED BY <2>1 DEF TakesOneByOne
<1> HIDE DEF IsTaken
<1>4. IsTaken(taken)
  <2>1. IsTaken(sum)
    BY <1>3, SumTakesOneByOne
  <2> QED BY <2>1
<1> HIDE DEF taken
<1>5. taken[S] = sum[S]
  BY <1>3, <1>4, OneByOneIsTheSum
<1> QED BY <1>1, <1>5

LEMMA CountsAdded ==
  ASSUME NEW bucket, NEW S, IsFiniteSet(S), NEW f, NEW sum, Adds(sum, f, S),
         \A k \in S : f[k] = Counted(ledger[k], bucket)
  PROVE  CountTotal(bucket, S) = sum[S]
<1> DEFINE IsTaken(g) == g = [s \in SUBSET S |-> IF s = {} THEN 0
               ELSE Counted(ledger[CHOOSE x \in s : TRUE], bucket) + g[s \ {CHOOSE x \in s : TRUE}]]
           taken == CHOOSE g : IsTaken(g)
<1>1. CountTotal(bucket, S) = taken[S]
  BY DEF CountTotal, MapThenSumSet, MapThenFoldSet
<1>2. \A s \in SUBSET S : s # {} => f[CHOOSE x \in s : TRUE] = Counted(ledger[CHOOSE x \in s : TRUE], bucket)
  OBVIOUS
<1>3. ASSUME NEW g PROVE TakesOneByOne(g, f, S) <=> IsTaken(g)
  <2>1. [s \in SUBSET S |-> IF s = {} THEN 0
           ELSE f[CHOOSE x \in s : TRUE] + g[s \ {CHOOSE x \in s : TRUE}]]
        = [s \in SUBSET S |-> IF s = {} THEN 0
           ELSE Counted(ledger[CHOOSE x \in s : TRUE], bucket) + g[s \ {CHOOSE x \in s : TRUE}]]
    BY <1>2
  <2> QED BY <2>1 DEF TakesOneByOne
<1> HIDE DEF IsTaken
<1>4. IsTaken(taken)
  <2>1. IsTaken(sum)
    BY <1>3, SumTakesOneByOne
  <2> QED BY <2>1
<1> HIDE DEF taken
<1>5. taken[S] = sum[S]
  BY <1>3, <1>4, OneByOneIsTheSum
<1> QED BY <1>1, <1>5

\* A reversal takes off what it points at, and nothing else does.
LEMMA ReversalsTakeOff ==
  ASSUME TotalsInv, NEW spender \in Spenders, NEW bucket \in SUBSET Kinds, "REVERSAL" \notin bucket
  PROVE  TotalCents(spender, bucket) = AmountTotal(Standing(spender, bucket))
<1> DEFINE R == RowsOf(spender)
           fc == [k \in R |-> Counted(ledger[k], bucket)]
           fa == [k \in R |-> ledger[k].amount]
           V == {k \in R : ledger[k].kind = "REVERSAL"}
           P == R \ V
           Of(s) == {k \in s : ledger[k].kind \in bucket}
           Left(W) == {k \in Of(P) : \A v \in W : ledger[v].target # k}
<1>1. R \subseteq Recorded /\ IsFiniteSet(R) /\ \A k \in Recorded : k \in R <=> ledger[k].campaign = spender
  <2>1. R \subseteq Recorded
    BY DEF RowsOf
  <2> QED BY <2>1, FS_Subset DEF TotalsInv, RowsOf
<1>2. \A k \in R : ledger[k].amount \in Int /\ ledger[k] \in FinancialEvents
  BY <1>1, BookedRow DEF TotalsInv, LInv, FinancialEvents
<1>3. ASSUME NEW w \in V
      PROVE  /\ w \in R /\ ledger[w].target \in P
             /\ \A v \in V : ledger[v].target = ledger[w].target => v = w
  <2>1. /\ w \in Recorded /\ ledger[w].kind = "REVERSAL" /\ ledger[w].campaign = spender
    BY <1>1
  <2>2. /\ ledger[w].target \in Recorded /\ ledger[ledger[w].target].kind # "REVERSAL"
        /\ ledger[ledger[w].target].campaign = spender
        /\ \A j \in Recorded :
             ledger[j].kind = "REVERSAL" /\ ledger[j].target = ledger[w].target => j = w
    BY <2>1 DEF TotalsInv, ReversesOnce
  <2> QED BY <1>1, <2>1, <2>2
<1>4. ASSUME NEW k \in P PROVE k \in R /\ fc[k] = IF ledger[k].kind \in bucket THEN fa[k] ELSE 0
  BY DEF Counted
<1>5. ASSUME NEW w \in V
      PROVE  fc[w] = IF ledger[ledger[w].target].kind \in bucket THEN -fa[ledger[w].target] ELSE 0
  BY <1>3 DEF Counted, Negative
<1>6. fa \in [R -> Int]
  BY <1>2
<1>7. fc \in [R -> Int]
  <2>1. ASSUME NEW k \in R PROVE fc[k] \in Int
    <3>1. CASE k \in P
      BY <1>4, <1>6, <3>1
    <3>2. CASE k \in V
      <4>1. fa[ledger[k].target] \in Int
        BY <1>3, <1>6, <3>2
      <4> HIDE DEF fc, fa
      <4> QED BY <1>5, <3>2, <4>1
    <3> QED BY <3>1, <3>2
  <2> QED BY <2>1
<1> HIDE DEF fc, fa
<1>8. PICK sa : Adds(sa, fa, R)
  BY <1>1, <1>6, SumsExist
<1>9. PICK sc : Adds(sc, fc, R)
  BY <1>1, <1>7, SumsExist
<1>a. /\ sa[{}] = 0 /\ \A s \in SUBSET R : sa[s] \in Int
      /\ \A s \in SUBSET R, x \in R : x \notin s => sa[s \union {x}] = fa[x] + sa[s]
  BY <1>8 DEF Adds
<1>c. /\ sc[{}] = 0 /\ \A s \in SUBSET R : sc[s] \in Int
      /\ \A s \in SUBSET R, x \in R : x \notin s => sc[s \union {x}] = fc[x] + sc[s]
  BY <1>9 DEF Adds
<1>10. sc[P] = sa[Of(P)]
  <2> DEFINE T == {s \in SUBSET P : sc[s] = sa[Of(s)]}
  <2>1. {} \in T
    BY <1>a, <1>c
  <2>2. ASSUME NEW s \in SUBSET P, s # {}, \A x \in s : s \ {x} \in T PROVE s \in T
    <3>1. PICK x \in s : TRUE
      BY <2>2
    <3> DEFINE r == s \ {x}
    <3>2. sc[r] = sa[Of(r)] /\ r \in SUBSET R /\ Of(r) \in SUBSET R /\ x \notin r /\ x \notin Of(r) /\ x \in R
      BY <2>2, <3>1
    <3>3. s = r \union {x}
      BY <3>1
    <3>4. sc[s] = fc[x] + sc[r]
      BY <1>c, <3>2, <3>3
    <3>5. fa[x] \in Int /\ sc[r] \in Int
      BY <1>6, <1>c, <3>2
    <3>6. CASE ledger[x].kind \in bucket
      <4>1. Of(s) = Of(r) \union {x}
        BY <3>1, <3>6
      <4>2. sa[Of(s)] = fa[x] + sa[Of(r)]
        <5> HIDE DEF Of, r
        <5> QED BY <1>a, <3>2, <4>1
      <4> QED BY <1>4, <3>1, <3>2, <3>4, <3>6, <4>2
    <3>7. CASE ledger[x].kind \notin bucket
      <4>1. Of(s) = Of(r)
        BY <3>1, <3>7
      <4>2. fc[x] = 0
        BY <1>4, <3>1, <3>7
      <4> HIDE DEF Of, r
      <4> QED BY <3>2, <3>4, <3>5, <4>1, <4>2
    <3> QED BY <3>6, <3>7
  <2>3. IsFiniteSet(P)
    BY <1>1, FS_Subset
  <2>4. P \in T
    <3> HIDE DEF T, P, Of
    <3>1. \A s \in SUBSET P : (s # {} /\ \A x \in s : s \ {x} \in T) => s \in T
      BY <2>2
    <3>2. \A s \in SUBSET P : s \in T
      BY <2>1, <2>3, <3>1, EverySubset
    <3> QED BY <3>2
  <2> QED BY <2>4
<1>11. sc[R] = sa[Left(V)]
  <2> DEFINE T == {W \in SUBSET V : sc[P \union W] = sa[Left(W)]}
  <2>1. {} \in T
    <3>1. P \union {} = P /\ Left({}) = Of(P)
      OBVIOUS
    <3> QED BY <1>10, <3>1
  <2>2. ASSUME NEW W \in SUBSET V, W # {}, \A w \in W : W \ {w} \in T PROVE W \in T
    <3>1. PICK w \in W : TRUE
      BY <2>2
    <3> DEFINE U == W \ {w}
               t == ledger[w].target
    <3>2. sc[P \union U] = sa[Left(U)] /\ P \union U \in SUBSET R /\ w \notin P \union U /\ w \in R
      BY <2>2, <3>1
    <3>3. sc[P \union W] = fc[w] + sc[P \union U]
      <4>1. P \union W = (P \union U) \union {w}
        BY <3>1
      <4> HIDE DEF P, U
      <4> QED BY <1>c, <3>2, <4>1
    <3>4. t \in P /\ t \in R /\ \A v \in U : ledger[v].target # t
      BY <1>3, <3>1
    <3>5. Left(W) = Left(U) \ {t}
      BY <3>1, <3>4
    <3>6. fa[t] \in Int /\ sa[Left(W)] \in Int /\ Left(W) \in SUBSET R
      <4>1. Left(W) \in SUBSET R
        OBVIOUS
      <4> HIDE DEF Left, t
      <4> QED BY <1>6, <1>a, <3>4, <4>1
    <3>7. CASE ledger[t].kind \in bucket
      <4>1. t \in Left(U)
        BY <3>4, <3>7
      <4>2. Left(U) = Left(W) \union {t} /\ t \notin Left(W)
        BY <3>5, <4>1
      <4>3. fc[w] = -fa[t]
        BY <1>5, <3>1, <3>7
      <4> HIDE DEF Left, t, P, U, V
      <4>4. sa[Left(U)] = fa[t] + sa[Left(W)]
        BY <1>a, <3>4, <3>6, <4>2
      <4>5. sc[P \union W] = sa[Left(W)]
        BY <3>2, <3>3, <3>6, <4>3, <4>4
      <4> QED BY <4>5
    <3>8. CASE ledger[t].kind \notin bucket
      <4>1. Left(U) = Left(W)
        BY <3>5, <3>8
      <4>2. fc[w] = 0
        BY <1>5, <3>1, <3>8
      <4> HIDE DEF Left, t, P, U, V
      <4>3. sc[P \union W] = sa[Left(W)]
        BY <3>2, <3>3, <3>6, <4>1, <4>2
      <4> QED BY <4>3
    <3> QED BY <3>7, <3>8
  <2>3. IsFiniteSet(V)
    BY <1>1, FS_Subset
  <2>4. V \in T
    <3> HIDE DEF T, V, P, Left
    <3>1. \A W \in SUBSET V : (W # {} /\ \A w \in W : W \ {w} \in T) => W \in T
      BY <2>2
    <3>2. \A W \in SUBSET V : W \in T
      BY <2>1, <2>3, <3>1, EverySubset
    <3> QED BY <3>2
  <2>5. P \union V = R
    OBVIOUS
  <2> QED BY <2>4, <2>5
<1>12. Left(V) = Standing(spender, bucket)
  <2>1. ASSUME NEW k \in R PROVE Reversed(k) <=> \E v \in V : ledger[v].target = k
    <3>1. ASSUME NEW v \in Recorded, ledger[v].kind = "REVERSAL", ledger[v].target = k PROVE v \in V
      <4>1. ledger[k].campaign = ledger[v].campaign
        BY <3>1 DEF TotalsInv, ReversesOnce
      <4> QED BY <1>1, <3>1, <4>1
    <3> QED BY <1>1, <3>1 DEF Reversed
  <2> QED BY <2>1 DEF Standing
<1>13. TotalCents(spender, bucket) = sc[R]
  <2>1. \A k \in R : fc[k] = Counted(ledger[k], bucket)
    BY DEF fc
  <2> HIDE DEF R
  <2>2. CountTotal(bucket, R) = sc[R]
    BY <1>1, <1>9, <2>1, CountsAdded
  <2> QED BY <2>2 DEF TotalCents, CountTotal, R
<1>14. AmountTotal(Standing(spender, bucket)) = sa[Standing(spender, bucket)]
  <2> DEFINE S == Standing(spender, bucket)
  <2>1. S \in SUBSET R
    BY DEF Standing
  <2>2. IsFiniteSet(S)
    BY <1>1, <2>1, FS_Subset
  <2>3. \A k \in S : fa[k] = AmountOf(k)
    BY <2>1 DEF fa, AmountOf
  <2> DEFINE share == [s \in SUBSET S |-> sa[s]]
  <2>4. Adds(share, fa, S) /\ share[S] = sa[S]
    <3>1. share[S] = sa[S]
      OBVIOUS
    <3> HIDE DEF S, R
    <3> QED BY <1>8, <2>1, <3>1, SumNarrowed
  <2> HIDE DEF S, R, share
  <2>5. AmountTotal(S) = share[S]
    BY <2>2, <2>3, <2>4, AmountsAdded
  <2> QED BY <2>4, <2>5 DEF S
<1> HIDE DEF R, Left, V
<1> QED BY <1>11, <1>12, <1>13, <1>14

\* The column adds up to the actual total, row by row.
LEMMA ColumnAddsUp ==
  ASSUME TotalsInv, NEW spender \in Spenders
  PROVE  TotalCents(spender, {"ACTUAL", "ADJUSTMENT"})
           = ColumnTotal(RowsOf(spender))
<1> DEFINE R == RowsOf(spender)
           actual == {"ACTUAL", "ADJUSTMENT"}
           f == [k \in R |-> ledger[k].totalCents]
<1>1. R \subseteq Recorded /\ IsFiniteSet(R)
  <2>1. R \subseteq Recorded
    BY DEF RowsOf
  <2> QED BY <2>1, FS_Subset DEF TotalsInv
<1>2. f \in [R -> Int]
  BY <1>1, BookedRow DEF TotalsInv, LInv, FinancialEvents
<1>3. \A k \in R : f[k] = ColumnOf(k)
  BY DEF ColumnOf
<1>4. \A k \in R : f[k] = Counted(ledger[k], actual)
  BY <1>1 DEF TotalsInv, ColumnIsEffect, ActualSpendEffect, Counted
<1> HIDE DEF f, R, actual
<1>5. PICK sum : Adds(sum, f, R)
  BY <1>1, <1>2, SumsExist
<1>6. ColumnTotal(R) = sum[R]
  BY <1>1, <1>3, <1>5, ColumnAdded
<1>7. CountTotal(actual, R) = sum[R]
  BY <1>1, <1>4, <1>5, CountsAdded
<1> QED BY <1>6, <1>7 DEF TotalCents, CountTotal, R, actual

\* However rows are repeated, adjusted and reversed, the totals of a campaign
\* count what stands, each row once, and the column sums to the actual total.
THEOREM TotalsCountWhatStandsHolds == LedgerSpec => []TotalsCountWhatStands
<1>1. TotalsInv => TotalsCountWhatStands
  <2> SUFFICES ASSUME TotalsInv PROVE TotalsCountWhatStands
    OBVIOUS
  <2>1. \A bucket \in {{"ESTIMATE"}, {"AUTHORIZATION"}, {"ACTUAL", "ADJUSTMENT"}} :
          bucket \in SUBSET Kinds /\ "REVERSAL" \notin bucket
    BY DEF Kinds
  <2>2. \A spender \in Spenders :
          /\ \A bucket \in {{"ESTIMATE"}, {"AUTHORIZATION"}, {"ACTUAL", "ADJUSTMENT"}} :
               TotalCents(spender, bucket) = AmountTotal(Standing(spender, bucket))
          /\ TotalCents(spender, {"ACTUAL", "ADJUSTMENT"}) = ColumnTotal(RowsOf(spender))
    BY <2>1, ReversalsTakeOff, ColumnAddsUp
  <2> QED BY <2>2 DEF TotalsCountWhatStands, AmountTotal, ColumnTotal
<1> QED BY <1>1, TotalsInvHolds, PTL
-----------------------------------------------------------------------------
(* The components side by side: what each of them keeps alone, it keeps    *)
(* in MCOperations, whichever of them moves.                               *)

\* A step of the whole is a step of each component, or leaves it alone.
LEMMA OperationsStep ==
  ASSUME [OperationsNext]_operationsVars
  PROVE  /\ [SendsNext]_<<hygieneVars, sendVars>> /\ [LedgerNext]_ledgerVars /\ [SdrNext]_sdrVars
         /\ [JobsNext]_jobsVars /\ [PhoneNext]_phoneVars /\ [WaterfallNext]_waterfallVars
         /\ [SeatsNext]_seatsVars
<1>1. CASE UNCHANGED operationsVars
  BY <1>1 DEF operationsVars
<1>2. CASE SendsNext /\ UNCHANGED <<ledgerVars, sdrVars, jobsVars, phoneVars, waterfallVars, seatsVars>>
  BY <1>2
<1>3. CASE /\ HygieneNext
           /\ UNCHANGED <<sendVars, ledgerVars, sdrVars, jobsVars, phoneVars, waterfallVars, seatsVars>>
  BY <1>3 DEF SendsNext
<1>4. CASE /\ LedgerNext
           /\ UNCHANGED <<hygieneVars, sendVars, sdrVars, jobsVars, phoneVars, waterfallVars, seatsVars>>
  BY <1>4
<1>5. CASE /\ SdrNext
           /\ UNCHANGED <<hygieneVars, sendVars, ledgerVars, jobsVars, phoneVars, waterfallVars, seatsVars>>
  BY <1>5
<1>6. CASE /\ JobsNext
           /\ UNCHANGED <<hygieneVars, sendVars, ledgerVars, sdrVars, phoneVars, waterfallVars, seatsVars>>
  BY <1>6
<1>7. CASE /\ PhoneNext
           /\ UNCHANGED <<hygieneVars, sendVars, ledgerVars, sdrVars, jobsVars, waterfallVars, seatsVars>>
  BY <1>7
<1>8. CASE /\ WaterfallNext
           /\ UNCHANGED <<hygieneVars, sendVars, ledgerVars, sdrVars, jobsVars, phoneVars, seatsVars>>
  BY <1>8
<1>9. CASE /\ SeatsNext
           /\ UNCHANGED <<hygieneVars, sendVars, ledgerVars, sdrVars, jobsVars, phoneVars, waterfallVars>>
  BY <1>9
<1> QED BY <1>1, <1>2, <1>3, <1>4, <1>5, <1>6, <1>7, <1>8, <1>9 DEF OperationsNext

\* Every behaviour of the whole is a behaviour of each component's own
\* specification: sends and contacts, the ledger, the calling queue, the lead
\* jobs, the softphone, the enrichment and the seats.
THEOREM OperationsAreTheirParts ==
  OperationsSpec => /\ SendsSpec /\ LedgerSpec /\ SdrSpec /\ JobsSpec
                    /\ PhoneSpec /\ WaterfallSpec /\ SeatsSpec
<1>1. OperationsInit => /\ HygieneInit /\ SendsInit /\ LedgerInit /\ SdrInit /\ JobsInit
                        /\ PhoneInit /\ WaterfallInit /\ SeatsInit
  BY DEF OperationsInit
<1>2. [OperationsNext]_operationsVars =>
        /\ [SendsNext]_<<hygieneVars, sendVars>> /\ [LedgerNext]_ledgerVars /\ [SdrNext]_sdrVars
        /\ [JobsNext]_jobsVars /\ [PhoneNext]_phoneVars /\ [WaterfallNext]_waterfallVars
        /\ [SeatsNext]_seatsVars
  BY OperationsStep
<1> QED BY <1>1, <1>2, PTL DEF OperationsSpec, SendsSpec, LedgerSpec, SdrSpec, JobsSpec, PhoneSpec,
           WaterfallSpec, SeatsSpec

\* Whichever component moves, its state has its types; among them, no run of a
\* lead job is past its maximum of attempts.
THEOREM OperationsTypeCorrect == OperationsSpec => []OperationsTypeOK
<1>1. /\ HygieneTypeOK /\ SendsTypeOK /\ LedgerTypeOK /\ SdrTypeOK /\ JobsTypeOK /\ PhoneTypeOK
      /\ WaterfallTypeOK /\ SeatsTypeOK
      => OperationsTypeOK
  BY DEF OperationsTypeOK
<1> QED BY <1>1, OperationsAreTheirParts, SendsTypeCorrect, LedgerTypeCorrect, SdrTypeCorrect,
           JobsTypeCorrect, PhoneTypeCorrect, WaterfallTypeCorrect, SeatsTypeCorrect, PTL

\* What the components promise holds of them side by side.
THEOREM OperationsKeepTheirPromises ==
  OperationsSpec =>
    /\ [](AtMostOnce /\ HistoryTellsTheTruth /\ OptOutSticks /\ BookedOnce /\ TotalsCountWhatStands)
    /\ [](OneRepOneStep /\ ImportIsWhole /\ OneLiveCall /\ LogTellsTheCall /\ NoOldWayIn /\ WithinBudget)
    /\ NobodyIsSkipped /\ GradeIsOfTheAddress
BY OperationsAreTheirParts, AtMostOnceHolds, HistoryTellsTheTruthHolds, OptOutSticksBesideSends,
   BookedOnceHolds, TotalsCountWhatStandsHolds, OneRepOneStepHolds, ImportIsWholeHolds, OneLiveCallHolds,
   LogTellsTheCallHolds, NoOldWayInHolds, WithinBudgetHolds, NobodyIsSkippedHolds,
   GradeIsOfTheAddressHolds, PTL
=============================================================================
