---------------------------- MODULE WebSessions ----------------------------
(***************************************************************************)
(* The browser sessions of one account (src/auth/webSession*.ts,           *)
(* src/routes/webAuthRoutes.ts).                                           *)
(*                                                                         *)
(* A sign-in inserts a row and sets a cookie, once an hour after deleting  *)
(* old rows.  The onRequest hook looks the cookie's session up, checks the *)
(* person against the roster, revoking the session of someone who left it, *)
(* and checks the origin and CSRF token of unsafe methods.  Each database  *)
(* statement is awaited: other requests run meanwhile, and it may fail.    *)
(*                                                                         *)
(* A session bears the name of the sign-in that created it.  The person    *)
(* proved who they are before BeginSignIn (EmailCodes, or Google).  That   *)
(* an answer is lost on its way is not told from its receipt.              *)
(***************************************************************************)
EXTENDS FiniteSets

CONSTANTS
    Requests,   \* HTTP requests, each made at most once
    None        \* not a request

Waiting == {"begin", "cleaning", "creating", "lookup", "found", "dismissing", "loggingOut"}
Answers == {"signedIn", "anonymous", "dismissed", "forbidden", "granted", "loggedOut", "failed"}

VARIABLES
    stage,        \* where each request is, or how it ended
    req,          \* its kind, its cookie's session, and whether that had ended by then
    active,       \* rows with revokedAt null
    revoked,      \* rows with revokedAt set
    lapsed,       \* rows past expiresAt
    old,          \* rows whose end is past the retention time
    cleanupDue,   \* an hour is over since lastCleanupAt
    onRoster      \* isAllowedSignInEmail of the account

rows == <<active, revoked, lapsed, old>>
vars == <<stage, req, rows, cleanupDue, onRoster>>

\* An unverified request lacks the allowed origin or the session's CSRF token.
Kinds == {"signIn", "read", "write", "unverifiedWrite", "logout"}
Request == [kind : Kinds \cup {None}, session : Requests \cup {None}, late : BOOLEAN]

Init ==
    /\ stage = [r \in Requests |-> "idle"]
    /\ req = [r \in Requests |-> [kind |-> None, session |-> None, late |-> FALSE]]
    /\ active = {} /\ revoked = {} /\ lapsed = {} /\ old = {}
    /\ cleanupDue = TRUE
    /\ onRoster = TRUE

Goto(r, s) == stage' = [stage EXCEPT ![r] = s]

Ask(r) ==
    /\ stage[r] = "idle"
    /\ \/ /\ req' = [req EXCEPT ![r].kind = "signIn"]
          /\ Goto(r, "begin")
       \/ \E k \in Kinds \ {"signIn"}, s \in {o \in Requests : stage[o] = "signedIn"} :
            /\ req' = [req EXCEPT ![r] = [kind |-> k, session |-> s,
                                          late |-> s \notin active \ lapsed]]
            /\ Goto(r, "lookup")
    /\ UNCHANGED <<rows, cleanupDue, onRoster>>

(***************************************************************************)
(* WebSessionService.create                                                *)
(***************************************************************************)
\* The hour is noted before the rows are deleted.
BeginSignIn(r) ==
    /\ stage[r] = "begin"
    /\ Goto(r, IF cleanupDue THEN "cleaning" ELSE "creating")
    /\ cleanupDue' = FALSE
    /\ UNCHANGED <<req, rows, onRoster>>

\* deleteInactiveBefore
CleanUp(r) ==
    /\ stage[r] = "cleaning"
    /\ active' = active \ old
    /\ revoked' = revoked \ old
    /\ lapsed' = lapsed \ old
    /\ old' = {}
    /\ Goto(r, "creating")
    /\ UNCHANGED <<req, cleanupDue, onRoster>>

Create(r) ==
    /\ stage[r] = "creating"
    /\ active' = active \cup {r}
    /\ Goto(r, "signedIn")
    /\ UNCHANGED <<req, revoked, lapsed, old, cleanupDue, onRoster>>

(***************************************************************************)
(* registerWebSessionSupport, its onRequest hook, and the routes behind it *)
(***************************************************************************)
\* findActiveByTokenHash
Lookup(r) ==
    /\ stage[r] = "lookup"
    /\ Goto(r, IF req[r].session \in active \ lapsed THEN "found" ELSE "anonymous")
    /\ UNCHANGED <<req, rows, cleanupDue, onRoster>>

\* Faulty: an unverified request gets no reply.
AdmitSilently(r) ==
    /\ stage[r] = "found"
    /\ req[r].kind # "unverifiedWrite"
    /\ Goto(r, CASE ~onRoster -> "dismissing"
                 [] onRoster /\ req[r].kind = "logout" -> "loggingOut"
                 [] OTHER -> "granted")
    /\ UNCHANGED <<req, rows, cleanupDue, onRoster>>

\* refreshSessionUser and the check of unsafe methods, when the row has come back.
Admit(r) ==
    /\ stage[r] = "found"
    /\ Goto(r, CASE ~onRoster -> "dismissing"
                 [] onRoster /\ req[r].kind = "unverifiedWrite" -> "forbidden"
                 [] onRoster /\ req[r].kind = "logout" -> "loggingOut"
                 [] OTHER -> "granted")
    /\ UNCHANGED <<req, rows, cleanupDue, onRoster>>

\* Faulty: a revoked copy of the row is inserted beside it.
RevokeAnew(r, answer) ==
    /\ revoked' = revoked \cup {req[r].session}
    /\ Goto(r, answer)
    /\ UNCHANGED <<req, active, lapsed, old, cleanupDue, onRoster>>

\* revoke: updates the row if it is there and not revoked; either way it is done.
Revoke(r, answer) ==
    /\ revoked' = revoked \cup (active \cap {req[r].session})
    /\ active' = active \ {req[r].session}
    /\ Goto(r, answer)
    /\ UNCHANGED <<req, lapsed, old, cleanupDue, onRoster>>

\* Faulty: the request is turned away, its session is kept.
DismissOnce(r) ==
    /\ stage[r] = "dismissing"
    /\ Goto(r, "dismissed")
    /\ UNCHANGED <<req, rows, cleanupDue, onRoster>>

Dismiss(r) == stage[r] = "dismissing" /\ Revoke(r, "dismissed")
LogOut(r) == stage[r] = "loggingOut" /\ Revoke(r, "loggedOut")

(***************************************************************************)
(* The database, the clock, the roster and the process.                    *)
(***************************************************************************)
Statements == {"cleaning", "creating", "lookup", "dismissing", "loggingOut"}

\* The statement's promise rejects: a 500 goes out.
StatementFails(r) ==
    /\ stage[r] \in Statements
    /\ Goto(r, "failed")
    /\ UNCHANGED <<req, rows, cleanupDue, onRoster>>

Lapse(s) ==
    /\ s \in (active \cup revoked) \ lapsed
    /\ lapsed' = lapsed \cup {s}
    /\ UNCHANGED <<stage, req, active, revoked, old, cleanupDue, onRoster>>

\* Seven days after its revocation or its expiry; no request lasts that long.
Age(s) ==
    /\ s \in (revoked \cup lapsed) \ old
    /\ \A r \in Requests : stage[r] \in Waiting => req[r].session # s
    /\ old' = old \cup {s}
    /\ UNCHANGED <<stage, req, active, revoked, lapsed, cleanupDue, onRoster>>

\* No request takes an hour.
HourPasses ==
    /\ ~cleanupDue
    /\ \A r \in Requests : stage[r] \notin Waiting
    /\ cleanupDue' = TRUE
    /\ UNCHANGED <<stage, req, rows, onRoster>>

EditRoster ==
    /\ onRoster' = ~onRoster
    /\ UNCHANGED <<stage, req, rows, cleanupDue>>

Restart ==
    /\ stage' = [r \in Requests |-> IF stage[r] \in Waiting THEN "lost" ELSE stage[r]]
    /\ cleanupDue' = TRUE
    /\ UNCHANGED <<req, rows, onRoster>>

Serve(r) ==
    \/ BeginSignIn(r) \/ CleanUp(r) \/ Create(r)
    \/ Lookup(r) \/ Admit(r) \/ Dismiss(r) \/ LogOut(r) \/ StatementFails(r)

Next ==
    \/ \E r \in Requests : Ask(r) \/ Serve(r) \/ Lapse(r) \/ Age(r)
    \/ HourPasses \/ EditRoster \/ Restart

Spec == Init /\ [][Next]_vars

\* Every statement settles and every continuation runs while the process lives.
FairSpec == Spec /\ \A r \in Requests : WF_vars(Serve(r))

(***************************************************************************)
(* Properties.                                                             *)
(***************************************************************************)
\* The types of the variables.
TypeOK ==
    /\ stage \in [Requests -> {"idle", "lost"} \cup Waiting \cup Answers]
    /\ req \in [Requests -> Request]
    /\ active \cup revoked \cup lapsed \cup old \subseteq Requests
    /\ active \cap revoked = {}
    /\ lapsed \cup old \subseteq active \cup revoked
    /\ cleanupDue \in BOOLEAN /\ onRoster \in BOOLEAN

\* A session that a logout or a dismissal ended is over for good, also for requests that
\* looked it up before and for a person who is back on the roster.
EndedStaysEnded ==
    \A r \in Requests :
        stage[r] \in {"loggedOut", "dismissed"} => req[r].session \notin active

\* A request made after its session ended is never served, whatever was in flight then.
NoServiceAfterTheEnd ==
    \A r \in Requests : req[r].late => stage[r] \notin {"found", "granted", "loggedOut"}

\* The hourly cleanup is done by one sign-in at a time, however many arrive together.
OneCleanupAtATime ==
    \A p, r \in Requests : stage[p] = "cleaning" /\ stage[r] = "cleaning" => p = r

\* Together: the end of a session is one, and what cleans up after it does so alone.
EndsHold == EndedStaysEnded /\ NoServiceAfterTheEnd /\ OneCleanupAtATime

\* Every request is answered, or dies with the process: again and again none waits.
EveryRequestEnds == []<>(\A r \in Requests : stage[r] \notin Waiting)
=============================================================================
