--------------------------- MODULE MobileSessions ---------------------------
(***************************************************************************)
(* Mobile device sessions (src/auth/mobileSession*.ts,                     *)
(* src/routes/mobileAuthRoutes.ts) over PostgreSQL at Read Committed.      *)
(*                                                                         *)
(* A sign-in creates a session and its first pair of an access and a       *)
(* refresh token; a refresh exchanges the refresh token for a new pair;    *)
(* logouts and the reuse of an exchanged token revoke the session with all *)
(* its tokens.  Each request is a transaction of several statements.  A    *)
(* statement waits for the rows it updates to be free, sees what is        *)
(* committed then, and holds the rows until the transaction ends: that is  *)
(* what the database does (external), as is ending one transaction of a    *)
(* cycle of waiting ones.                                                  *)
(*                                                                         *)
(* A session and a pair bear the name of the request that created them.    *)
(* Requests are for one account.                                           *)
(***************************************************************************)
EXTENDS FiniteSets

CONSTANTS
    Requests,   \* HTTP requests, each made at most once
    Devices,    \* device ids of the account
    None

ASSUME NamesAssumption == None \notin Requests /\ None \notin Devices

Kinds == {"signIn", "refresh", "use", "logout"}
Working == {"begin", "revoke", "sweep", "commit", "consume", "extend", "rotate", "touch",
            "route"}
\* "conflict": the database ended the transaction and a 500 goes out.
Answers == {"signedIn", "rotated", "missing", "reused", "expired", "granted", "denied",
            "expelled", "loggedOut", "conflict"}
Stages == {"idle", "lost"} \cup Working \cup Answers

VARIABLES
    stage,     \* where each request is, or how it ended
    req,       \* its kind, token or device, session, and how its revocation goes
    device,    \* the device of each session row
    family,    \* the session of each token row
    active,    \* sessions with revokedAt null
    revoked,   \* sessions with revokedAt set
    lapsed,    \* sessions past their idle or absolute expiry
    access,    \* access tokens with revokedAt null
    fresh,     \* refresh tokens with usedAt and revokedAt null
    spent,     \* refresh tokens with usedAt or revokedAt set
    sessionRows, tokenRows   \* the rows each transaction has updated and holds

rows == <<device, family, active, revoked, lapsed, access, fresh, spent>>
held == <<sessionRows, tokenRows>>
vars == <<stage, req, rows, held>>

Request == [kind : Kinds \cup {None}, token : Requests \cup {None},
            device : Devices \cup {None}, session : Requests \cup {None},
            todo : SUBSET Requests, swept : SUBSET Requests, answer : Answers]

Init ==
    /\ stage = [r \in Requests |-> "idle"]
    /\ req = [r \in Requests |->
                [kind |-> None, token |-> None, device |-> None, session |-> None,
                 todo |-> {}, swept |-> {}, answer |-> "denied"]]
    /\ device = [r \in Requests |-> None]
    /\ family = [r \in Requests |-> None]
    /\ active = {} /\ revoked = {} /\ lapsed = {}
    /\ access = {} /\ fresh = {} /\ spent = {}
    /\ sessionRows = [r \in Requests |-> {}]
    /\ tokenRows = [r \in Requests |-> {}]

SessionFree(r, s) == \A o \in Requests \ {r} : s \notin sessionRows[o]
TokenFree(r, t) == \A o \in Requests \ {r} : t \notin tokenRows[o]
Issued == {r \in Requests : stage[r] \in {"signedIn", "rotated"}}

Goto(r, s) == stage' = [stage EXCEPT ![r] = s]
Hold(r, sessions, tokens) ==
    /\ sessionRows' = [sessionRows EXCEPT ![r] = @ \cup sessions]
    /\ tokenRows' = [tokenRows EXCEPT ![r] = @ \cup tokens]
Drop(r) ==
    /\ sessionRows' = [sessionRows EXCEPT ![r] = {}]
    /\ tokenRows' = [tokenRows EXCEPT ![r] = {}]

\* A client makes a request with a token it was given.
Ask(r) ==
    /\ stage[r] = "idle"
    /\ Goto(r, "begin")
    /\ \/ \E d \in Devices : req' = [req EXCEPT ![r].kind = "signIn", ![r].device = d]
       \/ \E k \in {"refresh", "use", "logout"}, t \in Issued :
            req' = [req EXCEPT ![r].kind = k, ![r].token = t]
    /\ UNCHANGED <<rows, held>>

(***************************************************************************)
(* revokeMobileTokenFamily for each session of a set, then the commit.     *)
(***************************************************************************)
\* The transaction goes on to one of the sessions, or to its end.
Continue(r, sessions, request) ==
    \/ /\ sessions = {}
       /\ Goto(r, "commit")
       /\ req' = [req EXCEPT ![r] = [request EXCEPT !.todo = {}]]
    \/ \E s \in sessions :
         /\ Goto(r, "revoke")
         /\ req' = [req EXCEPT ![r] = [request EXCEPT !.session = s, !.todo = sessions \ {s}]]

Revoke(r, sessions, answer) == Continue(r, sessions, [req[r] EXCEPT !.answer = answer])

\* A session that is already revoked is not updated, so not waited for.
RevokeSession(r) ==
    LET s == req[r].session IN
    /\ stage[r] = "revoke"
    /\ s \in active => SessionFree(r, s)
    /\ Hold(r, {s} \cap active, {})
    /\ Goto(r, "sweep")
    /\ UNCHANGED <<req, rows>>

\* Faulty: the refresh tokens of the session are left alone.
SweepAccessOnly(r) ==
    /\ stage[r] = "sweep"
    /\ Continue(r, req[r].todo, [req[r] EXCEPT !.swept = @ \cup {req[r].session}])
    /\ UNCHANGED <<rows, held>>

\* The updates of the session's access and refresh tokens.
SweepTokens(r) ==
    LET s == req[r].session
        live == {t \in fresh : family[t] = s} IN
    /\ stage[r] = "sweep"
    /\ \A t \in live : TokenFree(r, t)
    /\ Hold(r, {}, live)
    /\ Continue(r, req[r].todo, [req[r] EXCEPT !.swept = @ \cup {s}])
    /\ UNCHANGED rows

\* Faulty: the transaction is never closed.
FinishRevocationUnclosed(r) ==
    /\ stage[r] = "commit"
    /\ req[r].kind # "signIn"
    /\ Goto(r, req[r].answer)
    /\ UNCHANGED <<req, rows, held>>

FinishRevocation(r) ==
    /\ stage[r] = "commit"
    /\ req[r].kind # "signIn"
    /\ active' = active \ sessionRows[r]
    /\ revoked' = revoked \cup sessionRows[r]
    /\ fresh' = fresh \ tokenRows[r]
    /\ spent' = spent \cup tokenRows[r]
    /\ access' = {a \in access : family[a] \notin req[r].swept}
    /\ Drop(r)
    /\ Goto(r, req[r].answer)
    /\ UNCHANGED <<req, device, family, lapsed>>

(***************************************************************************)
(* POST /api/auth/mobile/email/verify, once the code is right:             *)
(* createSession revokes the device's sessions it sees and inserts one.    *)
(***************************************************************************)
BeginSignIn(r) ==
    /\ stage[r] = "begin"
    /\ req[r].kind = "signIn"
    /\ Revoke(r, {s \in active : device[s] = req[r].device}, "signedIn")
    /\ UNCHANGED <<rows, held>>

\* Faulty: the device's previous session stays active.
CreateSessionBeside(r) ==
    /\ stage[r] = "commit"
    /\ req[r].kind = "signIn"
    /\ active' = active \cup {r}
    /\ revoked' = revoked \cup sessionRows[r]
    /\ fresh' = fresh \cup {r}
    /\ access' = access \cup {r}
    /\ device' = [device EXCEPT ![r] = req[r].device]
    /\ family' = [family EXCEPT ![r] = r]
    /\ Drop(r)
    /\ Goto(r, "signedIn")
    /\ UNCHANGED <<req, lapsed, spent>>

CreateSession(r) ==
    /\ stage[r] = "commit"
    /\ req[r].kind = "signIn"
    /\ active' = (active \ sessionRows[r]) \cup {r}
    /\ revoked' = revoked \cup sessionRows[r]
    /\ fresh' = (fresh \ tokenRows[r]) \cup {r}
    /\ spent' = spent \cup tokenRows[r]
    /\ access' = {a \in access : family[a] \notin req[r].swept} \cup {r}
    /\ device' = [device EXCEPT ![r] = req[r].device]
    /\ family' = [family EXCEPT ![r] = r]
    /\ Drop(r)
    /\ Goto(r, "signedIn")
    /\ UNCHANGED <<req, lapsed>>

(***************************************************************************)
(* POST /api/auth/mobile/refresh: rotateMobileRefresh, then the roster.    *)
(***************************************************************************)
ReadRefresh(r) ==
    LET t == req[r].token
        s == family[t] IN
    /\ stage[r] = "begin"
    /\ req[r].kind = "refresh"
    /\ CASE t \notin fresh \cup spent -> Goto(r, "missing") /\ UNCHANGED req
         [] t \in spent -> Revoke(r, {s}, "reused")
         [] t \in fresh /\ (s \notin active \/ s \in lapsed) -> Revoke(r, {s}, "expired")
         [] OTHER -> Goto(r, "consume") /\ req' = [req EXCEPT ![r].session = s]
    /\ UNCHANGED <<rows, held>>

\* Faulty: the update of the token does not require that it is still unused.
ConsumeBlindly(r) ==
    /\ stage[r] = "consume"
    /\ TokenFree(r, req[r].token)
    /\ Hold(r, {}, {req[r].token})
    /\ Goto(r, "extend")
    /\ UNCHANGED <<req, rows>>

Consume(r) ==
    LET t == req[r].token IN
    /\ stage[r] = "consume"
    /\ TokenFree(r, t)
    /\ IF t \in fresh
       THEN Hold(r, {}, {t}) /\ Goto(r, "extend") /\ UNCHANGED req
       ELSE Revoke(r, {req[r].session}, "reused") /\ UNCHANGED held
    /\ UNCHANGED rows

\* The session's row is extended if it is still there to extend.
Extend(r) ==
    LET s == req[r].session IN
    /\ stage[r] = "extend"
    /\ SessionFree(r, s)
    /\ IF s \in active
       THEN Hold(r, {s}, {}) /\ Goto(r, "rotate") /\ UNCHANGED req
       ELSE Revoke(r, {s}, "expired") /\ UNCHANGED held
    /\ UNCHANGED rows

\* The old access token goes, the new pair is inserted, and the transaction commits.
\* A person who left the roster has the session revoked instead of an answer.
Rotate(r) ==
    LET s == req[r].session IN
    /\ stage[r] = "rotate"
    /\ access' = {a \in access : family[a] # s} \cup {r}
    /\ fresh' = (fresh \ tokenRows[r]) \cup {r}
    /\ spent' = spent \cup tokenRows[r]
    /\ family' = [family EXCEPT ![r] = s]
    /\ Drop(r)
    /\ \/ Goto(r, "rotated") /\ UNCHANGED req
       \/ Revoke(r, {s}, "expelled")
    /\ UNCHANGED <<device, active, revoked, lapsed>>

(***************************************************************************)
(* Any request with an access token: findAccess, touchAccess, the roster.  *)
(***************************************************************************)
FindAccess(r) ==
    LET t == req[r].token
        valid == t \in access /\ family[t] \in active \ lapsed IN
    /\ stage[r] = "begin"
    /\ req[r].kind = "use"
    /\ \/ valid /\ Goto(r, "touch")
       \/ Goto(r, "denied")   \* among others, when the token's hour is over
    /\ UNCHANGED <<req, rows, held>>

\* Faulty: the session is touched without asking again whether the token still stands.
TouchSession(r) ==
    /\ stage[r] = "touch"
    /\ SessionFree(r, family[req[r].token])
    /\ Goto(r, IF family[req[r].token] \in active THEN "route" ELSE "denied")
    /\ UNCHANGED <<req, rows, held>>

TouchAccess(r) ==
    LET t == req[r].token IN
    /\ stage[r] = "touch"
    /\ SessionFree(r, family[t])
    /\ Goto(r, IF family[t] \in active /\ t \in access THEN "route" ELSE "denied")
    /\ UNCHANGED <<req, rows, held>>

\* The person left the roster; or the route is a logout, a logout of all sessions, or
\* the removal of one; or any other.  What to revoke is read before the transaction.
Route(r) ==
    LET s == family[req[r].token] IN
    /\ stage[r] = "route"
    /\ \/ Revoke(r, {s} \cap (active \cup revoked), "expelled")
       \/ Revoke(r, {s} \cap (active \cup revoked), "loggedOut")
       \/ Revoke(r, active, "loggedOut")
       \/ \E other \in active : Revoke(r, {other}, "loggedOut")
       \/ Goto(r, "granted") /\ UNCHANGED req
    /\ UNCHANGED <<rows, held>>

\* POST /api/auth/mobile/logout with a refresh token.
Logout(r) ==
    LET t == req[r].token IN
    /\ stage[r] = "begin"
    /\ req[r].kind = "logout"
    /\ Revoke(r, IF t \in fresh \cup spent THEN {family[t]} ELSE {}, "loggedOut")
    /\ UNCHANGED <<rows, held>>

(***************************************************************************)
(* The database, the clock, the hourly cleanup and the process.            *)
(***************************************************************************)
Holders(r, sessions, tokens) ==
    {o \in Requests \ {r} : sessions \cap sessionRows[o] # {} \/ tokens \cap tokenRows[o] # {}}

\* The transactions a request waits for.
WaitsFor(r) ==
    LET s == req[r].session IN
    CASE stage[r] = "revoke" -> Holders(r, {s} \cap active, {})
      [] stage[r] = "sweep" -> Holders(r, {}, {t \in fresh : family[t] = s})
      [] stage[r] = "consume" -> Holders(r, {}, {req[r].token})
      [] stage[r] = "extend" -> Holders(r, {s}, {})
      [] OTHER -> {}

Deadlocked(r) ==
    \A C \in SUBSET Requests :
        WaitsFor(r) \subseteq C /\ (\A o \in C : WaitsFor(o) \subseteq C) => r \in C

\* The database ends one transaction of a cycle; nothing of it stays.
BreakDeadlock(r) ==
    /\ stage[r] \in Working
    /\ WaitsFor(r) # {}
    /\ Deadlocked(r)
    /\ Drop(r)
    /\ Goto(r, "conflict")
    /\ UNCHANGED <<req, rows>>

\* A session passes its idle or absolute expiry.
Lapse(s) ==
    /\ s \in (active \cup revoked) \ lapsed
    /\ lapsed' = lapsed \cup {s}
    /\ UNCHANGED <<stage, req, device, family, active, revoked, access, fresh, spent, held>>

\* cleanupMobileSessionRecords, row by row: tokens dead for 7 days, sessions for 30.  No
\* request lasts so long, so none is at work on the row.
InUse(s) == \E r \in Requests :
    /\ stage[r] \in Working \ {"begin"}
    /\ \/ s = req[r].session
       \/ s \in req[r].todo \cup req[r].swept
       \/ req[r].token # None /\ s = family[req[r].token]
PurgeAccess(t) ==
    /\ t \in access
    /\ ~InUse(family[t])
    /\ access' = access \ {t}
    /\ UNCHANGED <<stage, req, device, family, active, revoked, lapsed, fresh, spent, held>>
PurgeRefresh(t) ==
    /\ t \in spent \/ (t \in fresh /\ family[t] \in lapsed)
    /\ ~InUse(family[t])
    /\ spent' = spent \ {t}
    /\ fresh' = fresh \ {t}
    /\ UNCHANGED <<stage, req, device, family, active, revoked, lapsed, access, held>>
PurgeSession(s) ==
    /\ s \in revoked \cup lapsed
    /\ ~InUse(s)
    /\ active' = active \ {s}
    /\ revoked' = revoked \ {s}
    /\ lapsed' = lapsed \ {s}
    /\ access' = {t \in access : family[t] # s}
    /\ fresh' = {t \in fresh : family[t] # s}
    /\ spent' = {t \in spent : family[t] # s}
    /\ UNCHANGED <<stage, req, device, family, held>>

\* The process dies: open transactions roll back, nobody is answered.
Crash ==
    /\ \E r \in Requests : stage[r] \in Working
    /\ stage' = [r \in Requests |-> IF stage[r] \in Working THEN "lost" ELSE stage[r]]
    /\ sessionRows' = [r \in Requests |-> {}]
    /\ tokenRows' = [r \in Requests |-> {}]
    /\ UNCHANGED <<req, rows>>

Serve(r) ==
    \/ BeginSignIn(r) \/ CreateSession(r)
    \/ RevokeSession(r) \/ SweepTokens(r) \/ FinishRevocation(r)
    \/ ReadRefresh(r) \/ Consume(r) \/ Extend(r) \/ Rotate(r)
    \/ FindAccess(r) \/ TouchAccess(r) \/ Route(r) \/ Logout(r)
    \/ BreakDeadlock(r)

Next ==
    \/ \E r \in Requests :
         Ask(r) \/ Serve(r) \/ Lapse(r) \/ PurgeAccess(r) \/ PurgeRefresh(r) \/ PurgeSession(r)
    \/ Crash

Spec == Init /\ [][Next]_vars

(***************************************************************************)
(* Properties.                                                             *)
(***************************************************************************)
\* The types of the variables.
TypeOK ==
    /\ stage \in [Requests -> Stages]
    /\ req \in [Requests -> Request]
    /\ device \in [Requests -> Devices \cup {None}]
    /\ family \in [Requests -> Requests \cup {None}]
    /\ active \cup revoked \cup lapsed \cup access \cup fresh \cup spent \subseteq Requests
    /\ sessionRows \in [Requests -> SUBSET Requests]
    /\ tokenRows \in [Requests -> SUBSET Requests]
    /\ active \cap revoked = {} /\ fresh \cap spent = {}
    /\ \A p, r \in Requests : p # r =>
          sessionRows[p] \cap sessionRows[r] = {} /\ tokenRows[p] \cap tokenRows[r] = {}

\* Only a session that is not revoked has tokens that work, and only one pair of them:
\* a rotation racing a revocation or another rotation leaves nothing behind.
OneLivePair ==
    \A t \in access \cup fresh :
        /\ family[t] \in active
        /\ \A o \in access \cup fresh : family[o] = family[t] => o = t

\* A request that was answered as a logout, a reuse, an expiry or a dismissal, and a
\* sign-in, ended every session it set out to end; nothing works in them ever again.
RevocationHolds ==
    \A r \in Requests :
        stage[r] \in {"loggedOut", "reused", "expired", "expelled", "signedIn"} =>
            \A s \in req[r].swept :
                s \notin active /\ \A t \in access \cup fresh : family[t] # s

\* Together: at any moment what works is one pair per session nobody ended.
OnlyLiveSessionsWork == OneLivePair /\ RevocationHolds

\* An access token is accepted only while it is the last one issued for a session that
\* nobody has revoked.
GrantsAreCurrent ==
    [][\A r \in Requests : stage[r] = "touch" /\ stage'[r] = "route" =>
         /\ family[req[r].token] \in active
         /\ \A t \in Requests : family[t] = family[req[r].token] /\ t # req[r].token
                => t \notin access \cup fresh]_vars

\* A chain of tokens per session, each exchanged once; revocations are for good.
Exchanged == {req[r].token : r \in {o \in Requests : family[o] # None /\ req[o].kind = "refresh"}}
Current == [s \in Requests |->
              IF s \in active /\ \E t \in fresh : family[t] = s
              THEN CHOOSE t \in fresh : family[t] = s ELSE None]
Credentials == INSTANCE MobileCredentials WITH
    Names <- Requests, current <- Current, exchanged <- Exchanged,
    issued <- {r \in Requests : family[r] # None}
ImplementsCredentials == Credentials!Spec

\* A consumed refresh token that comes back ends the whole session, whatever else the
\* server is doing: README.md:246.
ReuseEndsSession ==
    \A r \in Requests :
        req[r].answer = "reused" /\ stage[r] \in Answers => family[req[r].token] \notin active

\* A request waits only for one that is still at work, so that every wait ends: no
\* transaction is answered, ended by the database or lost with rows still held.
WaitsEnd == \A r \in Requests : \A o \in WaitsFor(r) : stage[o] \in Working
=============================================================================
