------------------------------- MODULE SignIn -------------------------------
(***************************************************************************)
(* Signing in and being signed in, for one account: the e-mail codes and   *)
(* the browser sessions in the one process that keeps both (src/app.ts).   *)
(* They meet in the roster, which decides for both at once, and in a       *)
(* restart, which forgets the codes, fails the requests in flight and      *)
(* leaves the session rows to the database.  The process also keeps the    *)
(* limits and the preferences.                                             *)
(***************************************************************************)
EXTENDS EmailCodes

CONSTANTS
    WebRequests,     \* requests to sign in or with a session's cookie
    Addresses, Accounts, Uploads, People, Themes,     \* as in ServiceLimits, and so on
    MaxRequests, Window, Quota, Hour, MaxBytes, CleanupInterval, MaxTime

ASSUME WebRequestsAssumption == None \notin WebRequests
ASSUME LimitsAssumption ==
    /\ {MaxRequests, Window, Quota, Hour, MaxBytes, CleanupInterval} \subseteq Nat \ {0}
    /\ MaxTime \in Nat
ASSUME LimitRecordsAssumption ==     \* a missing count is not one
    None \notin [count : Nat, resetAt : Nat] \cup [bytes : Nat, startedAt : Nat]

VARIABLES
    webStage, req, active, revoked, lapsed, old, cleanupDue,     \* as in WebSessions
    now, records, lastCleanup, reservations, upload, preferences, file,
    accepted, granted                                            \* as in ServiceLimits

Web == INSTANCE WebSessions WITH
    Requests <- WebRequests, stage <- webStage, onRoster <- allowed

Limits == INSTANCE ServiceLimits

codes == <<record, stage, smtp, inbox, verdict>>
web == <<webStage, req, active, revoked, lapsed, old, cleanupDue>>
services == <<now, records, lastCleanup, reservations, upload, preferences, file, accepted, granted>>

SignInInit == Init /\ Web!Init /\ Limits!Init

SignInNext ==
    \/ \E r \in Starts : RefuseStart(r) /\ UNCHANGED <<web, services>>
    \/ \E r \in Starts : Start(r) /\ UNCHANGED <<web, services>>
    \/ \E r \in Starts : Sent(r) /\ UNCHANGED <<web, services>>
    \/ \E r \in Starts : NotSent(r) /\ UNCHANGED <<web, services>>
    \/ \E r \in Starts : TimeOut(r) /\ UNCHANGED <<web, services>>
    \/ \E r \in Starts : Arrive(r) /\ UNCHANGED <<web, services>>
    \/ \E v \in Verifies : RefuseVerify(v) /\ UNCHANGED <<web, services>>
    \/ \E v \in Verifies : SignIn(v) /\ UNCHANGED <<web, services>>
    \/ \E v \in Verifies : GuessWrongly(v) /\ UNCHANGED <<web, services>>
    \/ Expire /\ UNCHANGED <<web, services>>
    \/ CoolDown /\ UNCHANGED <<web, services>>
    \/ Sweep /\ UNCHANGED <<web, services>>
    \/ \E q \in WebRequests : Web!Ask(q) /\ UNCHANGED <<codes, services>>
    \/ \E q \in WebRequests : Web!BeginSignIn(q) /\ UNCHANGED <<codes, services>>
    \/ \E q \in WebRequests : Web!CleanUp(q) /\ UNCHANGED <<codes, services>>
    \/ \E q \in WebRequests : Web!Create(q) /\ UNCHANGED <<codes, services>>
    \/ \E q \in WebRequests : Web!Lookup(q) /\ UNCHANGED <<codes, services>>
    \/ \E q \in WebRequests : Web!Admit(q) /\ UNCHANGED <<codes, services>>
    \/ \E q \in WebRequests : Web!Dismiss(q) /\ UNCHANGED <<codes, services>>
    \/ \E q \in WebRequests : Web!LogOut(q) /\ UNCHANGED <<codes, services>>
    \/ \E q \in WebRequests : Web!StatementFails(q) /\ UNCHANGED <<codes, services>>
    \/ \E q \in WebRequests : Web!Lapse(q) /\ UNCHANGED <<codes, services>>
    \/ \E q \in WebRequests : Web!Age(q) /\ UNCHANGED <<codes, services>>
    \/ Web!HourPasses /\ UNCHANGED <<codes, services>>
    \/ EditRoster /\ UNCHANGED <<web, services>>
    \/ Restart /\ Web!Restart /\ Limits!Restart

ServiceNext ==
    \/ \E x \in Addresses : Limits!Serve(x) /\ UNCHANGED <<vars, web>>
    \/ \E u \in Uploads, x \in Addresses, a \in Accounts, size \in Limits!Sizes :
          Limits!BeginUpload(u, x, a, size) /\ UNCHANGED <<vars, web>>
    \/ \E u \in Uploads : Limits!Sign(u) /\ UNCHANGED <<vars, web>>
    \/ \E p \in People, theme \in Themes : Limits!Update(p, theme) /\ UNCHANGED <<vars, web>>
    \/ Limits!Tick /\ UNCHANGED <<vars, web>>

SignInFairness ==
    /\ \A r \in Starts : WF_vars(TimeOut(r))
    /\ \A q \in WebRequests : WF_(Web!vars)(Web!Serve(q))
    /\ \A u \in Uploads : WF_(Limits!vars)(Limits!Sign(u))

FairSignIn ==
    SignInInit /\ [][SignInNext \/ ServiceNext]_<<vars, web, services>> /\ SignInFairness

-----------------------------------------------------------------------------
\* The types of the variables of all three.
TypesOK == TypeOK /\ Web!TypeOK /\ Limits!TypeOK

\* WebSessions!EndsHold: a session that was ended is over for good, no later request is
\* served on it, and one sign-in at a time deletes old rows.
EndsHold == Web!EndsHold

\* ServiceLimits!LimitsHold: no address and no account gets more than its share.
LimitsHold == Limits!LimitsHold

\* Whatever a person asks, they get an answer, or the process dies.
EveryRequestEnds == EveryStartEnds /\ Web!EveryRequestEnds /\ Limits!EveryUploadEnds
=============================================================================
