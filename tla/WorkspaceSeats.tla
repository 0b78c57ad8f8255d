--------------------------- MODULE WorkspaceSeats ---------------------------
(***************************************************************************)
(* Seats of a workspace and the ways in: lib/phase1/auth-fast-path.ts,     *)
(* auth-service.ts and app/auth/actions.ts, on the prisma driver.          *)
(*                                                                         *)
(* A call reads and checks first and writes later, in one READ COMMITTED   *)
(* transaction or, for the login, with the read before it.  Whoever writes *)
(* updates the row of the account, so the writes of two calls do not mix,  *)
(* but what a call has read may be stale when it writes.  Beside them the  *)
(* store, which does not know of these writes: a self-heal or a write of   *)
(* all tables reads the rows into its copy of the state, and later writes  *)
(* the copy over them, here in one step and one copy at a time.  The       *)
(* admins are others than the users followed.  One workspace; of a         *)
(* password only whether it fits matters; roles and rate limits are left   *)
(* out.                                                                    *)
(***************************************************************************)
EXTENDS Naturals

CONSTANTS Users,
          AuthSessions, Invites, ResetTokens, \* ids; a closed one stands for a new one
          AuthCalls,                          \* requests under way
          LockAfter,                          \* failed logins before the lock
          MaxFailed                           \* bound on the count

ASSUME SeatsAssumption ==
  LockAfter \in Nat \ {0} /\ MaxFailed \in Nat /\ 0 \notin AuthSessions /\ Users # {}

VARIABLES
  seats,        \* AuthAccount, by user
  members,      \* the users with a membership
  authSessions, \* AuthSession; "outdated" is a ghost
  invites, resetTokens,
  authCalls,    \* what each request under way has read
  offboarded,   \* ghost: deactivated and not let in again since
  copy,         \* what the store has read and is going to write
  rewound       \* ghost: an older account was written over theirs
accessVars == <<seats, members, authSessions, invites, resetTokens, authCalls, offboarded>>
storeVars == <<copy, rewound>>
seatsVars == <<accessVars, storeVars>>

Seat == [status : {"none", "Invited", "Active", "Disabled"}, failed : 0..MaxFailed, locked : BOOLEAN]
\* outdated: since it was opened a password was set or the seat taken away.
Row == [user : Users, state : {"closed", "live"}, outdated : BOOLEAN]
\* overtaken: since it read, a password was set or the seat taken away.
Request == [op : {"none", "login", "reset", "change", "admin", "accept"}, user : Users,
            status : {"none", "Invited", "Active", "Disabled"}, failed : 0..MaxFailed, fits : BOOLEAN,
            of : AuthSessions \union Invites \union ResetTokens \union {0}, overtaken : BOOLEAN]
\* sessions: the live ones; invites: those it will write as Pending.  Ghosts:
\* stale: a password was set or the seat taken away since; gone: removed since.
Copy == [taken : BOOLEAN, seats : [Users -> Seat], members : SUBSET Users,
         sessions : SUBSET AuthSessions, invites : SUBSET Invites,
         stale : SUBSET Users, gone : SUBSET Users]

SeatsTypeOK ==
  /\ seats \in [Users -> Seat]
  /\ members \subseteq Users /\ offboarded \subseteq Users
  /\ authSessions \in [AuthSessions -> Row]
  /\ invites \in [Invites -> [user : Users, state : {"closed", "Pending"}]]
  /\ resetTokens \in [ResetTokens -> [user : Users, state : {"closed", "unused"}]]
  /\ authCalls \in [AuthCalls -> Request]
  /\ copy \in Copy /\ rewound \subseteq Users

AnyUser == CHOOSE u \in Users : TRUE
NoSeat == [status |-> "none", failed |-> 0, locked |-> FALSE]
Closed == [user |-> AnyUser, state |-> "closed", outdated |-> FALSE]
NoRequest == [op |-> "none", user |-> AnyUser, status |-> "none", failed |-> 0, fits |-> TRUE,
              of |-> 0, overtaken |-> FALSE]
NoCopy == [taken |-> FALSE, seats |-> [u \in Users |-> NoSeat], members |-> {}, sessions |-> {},
           invites |-> {}, stale |-> {}, gone |-> {}]

\* "Invited": the locked placeholder of a user a script created.
SeatsInit ==
  /\ seats \in [Users -> {[NoSeat EXCEPT !.status = s] : s \in {"none", "Invited", "Active"}}]
  /\ members = {u \in Users : seats[u].status # "none"}
  /\ authSessions = [s \in AuthSessions |-> Closed]
  /\ invites = [i \in Invites |-> [user |-> AnyUser, state |-> "closed"]]
  /\ resetTokens = [t \in ResetTokens |-> [user |-> AnyUser, state |-> "closed"]]
  /\ authCalls = [k \in AuthCalls |-> NoRequest]
  /\ offboarded = {} /\ copy = NoCopy /\ rewound = {}

-----------------------------------------------------------------------------
\* Shared pieces.

\* getPrismaSession: what every request asks of its cookie.
Resolves(s) ==
  /\ authSessions[s].state = "live" /\ authSessions[s].user \in members
  /\ seats[authSessions[s].user].status = "Active"

Exists(u) == seats[u].status # "none"
InUse(id) == \E k \in AuthCalls : authCalls[k].of = id

\* What it read, as far as it asks it again: the count of a login that will
\* fail, the status an admin or an invite found.
Read(k, op, u, fits, of) ==
  /\ authCalls[k].op = "none"
  /\ authCalls' = [authCalls EXCEPT ![k] =
       [op |-> op, user |-> u, fits |-> fits, of |-> of, overtaken |-> FALSE,
        status |-> IF op \in {"admin", "accept"} THEN seats[u].status ELSE "none",
        failed |-> IF fits THEN 0 ELSE seats[u].failed]]
  /\ UNCHANGED <<seats, members, authSessions, invites, resetTokens, offboarded, storeVars>>

Finished(k) == [authCalls EXCEPT ![k] = NoRequest]
Overtaken(calls, u) ==
  [k \in AuthCalls |-> IF calls[k].op \in {"login", "admin"} /\ calls[k].user = u
                       THEN [calls[k] EXCEPT !.overtaken = TRUE] ELSE calls[k]]

\* The rows once a password is set or the seat taken away: the live sessions
\* of u but the kept one are revoked, and what else stays live is outdated.
Revoked(s) == IF s \in copy.sessions THEN [authSessions[s] EXCEPT !.state = "closed"] ELSE Closed
RevokeOthers(u, kept) ==
  [s \in AuthSessions |-> IF authSessions[s].user = u /\ authSessions[s].state = "live" /\ s # kept
                          THEN Revoked(s) ELSE authSessions[s]]
Outdate(rows, u, kept) ==
  [s \in AuthSessions |-> IF rows[s].user = u /\ rows[s].state = "live"
                          THEN [rows[s] EXCEPT !.outdated = s # kept] ELSE rows[s]]
Overwritten(u) == IF copy.seats[u].status = "none" THEN copy ELSE [copy EXCEPT !.stale = @ \union {u}]

Unlocked(seat) == [seat EXCEPT !.failed = 0, !.locked = FALSE]

\* createSessionForAccount, for the account and membership that were read.
OpenSession(u, s) ==
  /\ authSessions[s].state = "closed" /\ ~InUse(s) /\ s \notin copy.sessions
  /\ authSessions' = [authSessions EXCEPT ![s] = [user |-> u, state |-> "live", outdated |-> FALSE]]

-----------------------------------------------------------------------------
\* Logging in and out.

LoginReads(k, u, fits) ==
  /\ seats[u].status = "Active" /\ ~seats[u].locked
  /\ Read(k, "login", u, fits, 0)

\* registerFailedLogin, from the count that was read.
LoginFails(k) ==
  LET call == authCalls[k]  failed == call.failed + 1 IN
  /\ call.op = "login" /\ ~call.fits /\ Exists(call.user) /\ failed <= MaxFailed
  /\ seats' = [seats EXCEPT ![call.user].failed = failed,
                            ![call.user].locked = @ \/ failed >= LockAfter]
  /\ authCalls' = Finished(k)
  /\ UNCHANGED <<members, authSessions, invites, resetTokens, offboarded, storeVars>>

LoginSucceeds(k, s) ==
  LET call == authCalls[k] IN
  /\ call.op = "login" /\ call.fits /\ call.user \in members /\ Exists(call.user)
  /\ OpenSession(call.user, s)
  /\ seats' = [seats EXCEPT ![call.user] = Unlocked(@)]
  /\ authCalls' = Finished(k)
  /\ UNCHANGED <<members, invites, resetTokens, offboarded, storeVars>>

\* The request stops, or its write finds the row gone.
CallDies(k) ==
  /\ authCalls[k].op # "none" /\ authCalls' = Finished(k)
  /\ UNCHANGED <<seats, members, authSessions, invites, resetTokens, offboarded, storeVars>>

Logout(s) ==
  /\ authSessions[s].state = "live"
  /\ authSessions' = [authSessions EXCEPT ![s] = Revoked(s)]
  /\ UNCHANGED <<seats, members, invites, resetTokens, authCalls, offboarded, storeVars>>

LockEnds(u) ==
  /\ seats[u].locked /\ seats' = [seats EXCEPT ![u].locked = FALSE]
  /\ copy' = [copy EXCEPT !.seats[u].locked = FALSE]
  /\ UNCHANGED <<members, authSessions, invites, resetTokens, authCalls, offboarded, rewound>>

-----------------------------------------------------------------------------
\* Passwords.

CreatePasswordResetToken(t, u) ==
  /\ seats[u].status = "Active" /\ u \in members
  /\ resetTokens[t].state = "closed" /\ ~InUse(t)
  /\ resetTokens' = [resetTokens EXCEPT ![t] = [user |-> u, state |-> "unused"]]
  /\ UNCHANGED <<seats, members, authSessions, invites, authCalls, offboarded, storeVars>>

ResetReads(k, t) ==
  LET u == resetTokens[t].user IN
  /\ resetTokens[t].state = "unused" /\ seats[u].status = "Active" /\ u \in members
  /\ Read(k, "reset", u, TRUE, t)

ChangeReads(k, s) == Resolves(s) /\ Read(k, "change", authSessions[s].user, TRUE, s)

AdminReads(k, u) == u \in members /\ Exists(u) /\ Read(k, "admin", u, TRUE, 0)

\* "A Disabled seat stays Disabled": only a seat read as invited is activated.
ActivateInvited(call, status) ==
  IF call.op = "admin" /\ call.status = "Invited" THEN "Active" ELSE status

\* The write of the three: the password, and every other session revoked.
SetPassword(k) ==
  LET call == authCalls[k]  u == call.user
      kept == IF call.op = "change" THEN call.of ELSE 0
      status == ActivateInvited(call, seats[u].status) IN
  /\ call.op \in {"reset", "change", "admin"} /\ Exists(u)
  /\ seats' = [seats EXCEPT ![u] = [Unlocked(@) EXCEPT !.status = status]]
  /\ authSessions' = Outdate(RevokeOthers(u, kept), u, kept)
  /\ resetTokens' = IF call.op = "reset" THEN [resetTokens EXCEPT ![call.of].state = "closed"]
                    ELSE resetTokens
  /\ authCalls' = Overtaken(Finished(k), u)
  \* an admin who read the seat before it was taken away lets its user in again,
  \* as the store may have done
  /\ offboarded' = IF \/ call.overtaken /\ call.status = "Invited"
                      \/ u \in rewound /\ status # "Disabled"
                   THEN offboarded \ {u} ELSE offboarded
  /\ copy' = Overwritten(u) /\ rewound' = rewound \ {u}
  /\ UNCHANGED <<members, invites>>

-----------------------------------------------------------------------------
\* Seats.

CreateUserInvite(i, u) ==
  /\ invites[i].state = "closed" /\ ~InUse(i) /\ i \notin copy.invites
  /\ invites' = [invites EXCEPT ![i] = [user |-> u, state |-> "Pending"]]
  /\ UNCHANGED <<seats, members, authSessions, resetTokens, authCalls, offboarded, storeVars>>

AcceptReads(k, i) == invites[i].state = "Pending" /\ Read(k, "accept", invites[i].user, TRUE, i)

\* An account made since it was read makes the insert fail.
AcceptInvite(k, s) ==
  LET call == authCalls[k]  u == call.user IN
  /\ call.op = "accept" /\ (Exists(u) => call.status # "none")
  /\ seats' = [seats EXCEPT ![u] = [Unlocked(@) EXCEPT !.status = "Active"]]
  /\ members' = members \union {u}
  /\ invites' = [invites EXCEPT ![call.of].state = "closed"]
  /\ OpenSession(u, s)
  /\ offboarded' = offboarded \ {u}
  /\ authCalls' = Finished(k)
  /\ UNCHANGED <<resetTokens, storeVars>>

\* Mutant: deactivating disables the seat and leaves its sessions to it.
DeactivateOnly(u) ==
  /\ Exists(u)
  /\ seats' = [seats EXCEPT ![u].status = "Disabled"]
  /\ authSessions' = Outdate(authSessions, u, 0)
  /\ offboarded' = offboarded \union {u}
  /\ authCalls' = Overtaken(authCalls, u)
  /\ copy' = Overwritten(u) /\ rewound' = rewound \ {u}
  /\ UNCHANGED <<members, invites, resetTokens>>
DeactivateUser(u) ==
  /\ Exists(u)
  /\ seats' = [seats EXCEPT ![u].status = "Disabled"]
  /\ authSessions' = Outdate(RevokeOthers(u, 0), u, 0)
  /\ offboarded' = offboarded \union {u}
  /\ authCalls' = Overtaken(authCalls, u)
  /\ copy' = Overwritten(u) /\ rewound' = rewound \ {u}
  /\ UNCHANGED <<members, invites, resetTokens>>

\* The user goes with all its rows; an acceptance under way fails to update
\* the invite it read.
RemoveWorkspaceMember(u) ==
  /\ u \in members /\ members' = members \ {u}
  /\ seats' = [seats EXCEPT ![u] = NoSeat]
  /\ authSessions' = RevokeOthers(u, 0)
  /\ invites' = [i \in Invites |-> IF invites[i].user = u THEN [invites[i] EXCEPT !.state = "closed"] ELSE invites[i]]
  /\ resetTokens' = [t \in ResetTokens |-> IF resetTokens[t].user = u
                     THEN [resetTokens[t] EXCEPT !.state = "closed"] ELSE resetTokens[t]]
  /\ authCalls' = [k \in AuthCalls |-> IF authCalls[k].user = u THEN NoRequest ELSE authCalls[k]]
  /\ offboarded' = offboarded \ {u}
  /\ copy' = IF copy.seats[u].status = "none" THEN copy
             ELSE [copy EXCEPT !.stale = @ \union {u}, !.gone = @ \union {u}]
  /\ rewound' = rewound \ {u}

LinkExpires ==
  /\ \/ \E t \in ResetTokens : resetTokens[t].state = "unused"
          /\ resetTokens' = [resetTokens EXCEPT ![t].state = "closed"] /\ UNCHANGED <<invites, copy>>
     \/ \E i \in Invites : (invites[i].state = "Pending" \/ i \in copy.invites)
          /\ invites' = [invites EXCEPT ![i].state = "closed"] /\ UNCHANGED resetTokens
          /\ copy' = [copy EXCEPT !.invites = @ \ {i}]
  /\ UNCHANGED <<seats, members, authSessions, authCalls, offboarded, rewound>>

-----------------------------------------------------------------------------
\* The store.

\* mergePrismaIdentityRows: the state has what the tables have; the invite of
\* an active account counts as accepted.
StoreReads ==
  /\ ~copy.taken
  /\ copy' = [taken |-> TRUE, seats |-> seats, members |-> members,
              sessions |-> {s \in AuthSessions : authSessions[s].state = "live"},
              invites |-> {i \in Invites : invites[i].state = "Pending"
                                            /\ seats[invites[i].user].status # "Active"},
              stale |-> {}, gone |-> {}]
  /\ UNCHANGED <<accessVars, rewound>>

\* Nothing changed, or the write was scoped or in conflict.
StoreStops == copy.taken /\ copy' = NoCopy /\ UNCHANGED <<accessVars, rewound>>

\* The full projection.  Accounts are written and never deleted, memberships,
\* sessions and invites the copy lacks are deleted, and what a column lacks in
\* the copy (a lock, a revocation) stays in the table.  The new account of a
\* user who was removed and invited again makes it fail.
StoreProjects ==
  /\ copy.taken /\ \A u \in copy.gone : ~Exists(u)
  /\ seats' = [u \in Users |-> IF copy.seats[u].status = "none" THEN seats[u]
                ELSE [copy.seats[u] EXCEPT !.locked = @ \/ seats[u].locked]]
  /\ members' = copy.members
  /\ authSessions' = [s \in AuthSessions |->
       IF s \notin copy.sessions THEN Closed
       ELSE IF authSessions[s].user \in copy.gone
            THEN [authSessions[s] EXCEPT !.state = "live", !.outdated = TRUE]
            ELSE authSessions[s]]
  /\ invites' = [i \in Invites |->
       [invites[i] EXCEPT !.state = IF i \in copy.invites THEN "Pending" ELSE "closed"]]
  /\ rewound' = rewound \union copy.stale /\ copy' = NoCopy
  /\ UNCHANGED <<resetTokens, authCalls, offboarded>>

SeatsNext ==
  \/ LinkExpires \/ StoreReads \/ StoreStops \/ StoreProjects
  \/ \E u \in Users :
       \/ LockEnds(u) \/ DeactivateUser(u) \/ RemoveWorkspaceMember(u)
       \/ \E t \in ResetTokens : CreatePasswordResetToken(t, u)
       \/ \E i \in Invites : CreateUserInvite(i, u)
  \/ \E s \in AuthSessions : Logout(s)
  \/ \E k \in AuthCalls :
       \/ LoginFails(k) \/ CallDies(k) \/ SetPassword(k)
       \/ \E s \in AuthSessions : LoginSucceeds(k, s) \/ AcceptInvite(k, s) \/ ChangeReads(k, s)
       \/ \E u \in Users : AdminReads(k, u) \/ \E fits \in BOOLEAN : LoginReads(k, u, fits)
       \/ \E t \in ResetTokens : ResetReads(k, t)
       \/ \E i \in Invites : AcceptReads(k, i)

SeatsSpec == SeatsInit /\ [][SeatsNext]_seatsVars

-----------------------------------------------------------------------------
\* "Force the target to re-authenticate everywhere with the new password"
\* (auth-fast-path.ts:550) and "offboarding must not be undone by a password
\* rotation" (:545): whichever calls cross, no session that opens the
\* workspace is older than the last reset, change or deactivation, unless it
\* asked for the change, and a deactivated seat stays Disabled until an
\* invite to it is accepted or an admin who had read it as invited is done.
\* Not so when the store wrote an older copy over the account (its password,
\* its status, a removed user with all sessions) until the next of these
\* calls for the user.
NoOldWayIn ==
  /\ \A s \in AuthSessions :
       Resolves(s) /\ authSessions[s].user \notin rewound => ~authSessions[s].outdated
  /\ \A u \in offboarded \ rewound : seats[u].status = "Disabled"
=============================================================================
