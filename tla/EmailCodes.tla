----------------------------- MODULE EmailCodes -----------------------------
(***************************************************************************)
(* The sign-in codes of one e-mail address (src/auth/authService.ts).      *)
(*                                                                         *)
(* A request for a code replaces the address's record, hands the mail to   *)
(* the SMTP transport and waits at most 12 s for it; verifying the right   *)
(* code consumes the record.  Between the hand-over and the transport's    *)
(* answer every other request may run.  The records of two addresses never *)
(* meet, except that a request for any address sweeps expired records.     *)
(*                                                                         *)
(* A code bears the name of the request that generated it.  A code of the  *)
(* wrong length, refused before the record is read, is left out.           *)
(***************************************************************************)
EXTENDS Naturals, FiniteSets

CONSTANTS
    Starts,        \* requests for a code, each made at most once
    Verifies,      \* attempts to sign in, each made at most once
    MaxAttempts,   \* emailMaxVerifyAttempts
    QuickResend,   \* the resend cooldown is set shorter than the wait for the mail
    None           \* no record; a guess that is nobody's code

ASSUME NamesAssumption == None \notin Starts
ASSUME AttemptsAssumption == MaxAttempts \in Nat \ {0}
ASSUME ResendAssumption == QuickResend \in BOOLEAN

VARIABLES
    record,    \* pendingEmailCodes of the address
    stage,     \* how far each request for a code got
    smtp,      \* what the transport made of its mail so far
    inbox,     \* the codes that reached the person
    verdict,   \* how each attempt ended, and on which code
    allowed    \* isAllowedSignInEmail of the address: its domain, or the roster

vars == <<record, stage, smtp, inbox, verdict, allowed>>

Record == [code : Starts, attempts : 0..(MaxAttempts - 1), expired : BOOLEAN, cooling : BOOLEAN]

Init ==
    /\ record = None
    /\ stage = [r \in Starts |-> "idle"]
    /\ smtp = [r \in Starts |-> "none"]
    /\ inbox = {}
    /\ verdict = [v \in Verifies |-> [as |-> "idle", code |-> None]]
    /\ allowed \in BOOLEAN

\* getPendingEmailCode: an expired record counts as none, and is deleted.
Live == record # None /\ ~record.expired

Goto(r, s) == stage' = [stage EXCEPT ![r] = s]

(***************************************************************************)
(* requestEmailSignInCode                                                  *)
(***************************************************************************)
RefuseStart(r) ==
    /\ stage[r] = "idle"
    /\ \/ ~allowed
       \/ Live /\ record.cooling
    /\ Goto(r, "refused")
    /\ UNCHANGED <<record, smtp, inbox, verdict, allowed>>

Start(r) ==
    /\ stage[r] = "idle"
    /\ allowed
    /\ ~(Live /\ record.cooling)
    /\ record' = [code |-> r, attempts |-> 0, expired |-> FALSE, cooling |-> TRUE]
    /\ smtp' = [smtp EXCEPT ![r] = "pending"]
    /\ Goto(r, "sending")
    /\ UNCHANGED <<inbox, verdict, allowed>>

\* The transport is done with the mail.  After the bounded wait nobody listens.
Sent(r) ==
    /\ smtp[r] = "pending"
    /\ smtp' = [smtp EXCEPT ![r] = "ok"]
    /\ stage' = [stage EXCEPT ![r] = IF @ = "sending" THEN "sent" ELSE @]
    /\ UNCHANGED <<record, inbox, verdict, allowed>>

\* Whatever record the address has by then is deleted.
NotSent(r) ==
    /\ smtp[r] = "pending"
    /\ smtp' = [smtp EXCEPT ![r] = "error"]
    /\ IF stage[r] = "sending"
       THEN Goto(r, "failed") /\ record' = None
       ELSE UNCHANGED <<stage, record>>
    /\ UNCHANGED <<inbox, verdict, allowed>>

\* awaitEmailDelivery gives up and answers all the same.
TimeOut(r) ==
    /\ stage[r] = "sending"
    /\ Goto(r, "sent")
    /\ UNCHANGED <<record, smtp, inbox, verdict, allowed>>

(***************************************************************************)
(* verifyEmailSignInCode, with a code from the inbox or a wrong one.       *)
(***************************************************************************)
Answer(v, as, code) == verdict' = [verdict EXCEPT ![v] = [as |-> as, code |-> code]]

RefuseVerify(v) ==
    /\ verdict[v].as = "idle"
    /\ \/ ~allowed /\ UNCHANGED record
       \/ allowed /\ ~Live /\ record' = None
    /\ Answer(v, "refused", None)
    /\ UNCHANGED <<stage, smtp, inbox, allowed>>

SignIn(v) ==
    /\ verdict[v].as = "idle"
    /\ allowed /\ Live
    /\ record.code \in inbox
    /\ record' = None
    /\ Answer(v, "signedIn", record.code)
    /\ UNCHANGED <<stage, smtp, inbox, allowed>>

\* Faulty: the limit is compared before this attempt is counted.
GuessWronglyUncounted(v) ==
    /\ verdict[v].as = "idle"
    /\ allowed /\ Live
    /\ record' = IF record.attempts >= MaxAttempts THEN None
                 ELSE [record EXCEPT !.attempts = @ + 1]
    /\ Answer(v, "wrong", record.code)
    /\ UNCHANGED <<stage, smtp, inbox, allowed>>

\* The last attempt takes the record with it, and the cooldown with the record.
GuessWrongly(v) ==
    /\ verdict[v].as = "idle"
    /\ allowed /\ Live
    /\ record' = IF record.attempts + 1 >= MaxAttempts THEN None
                 ELSE [record EXCEPT !.attempts = @ + 1]
    /\ Answer(v, "wrong", record.code)
    /\ UNCHANGED <<stage, smtp, inbox, allowed>>

(***************************************************************************)
(* The mail, the clock, the roster, other addresses and the process.       *)
(***************************************************************************)
Arrive(r) ==
    /\ smtp[r] # "none" /\ r \notin inbox
    /\ inbox' = inbox \cup {r}
    /\ UNCHANGED <<record, stage, smtp, verdict, allowed>>

\* A code lives for minutes, the wait for its mail is 12 s.
Expire ==
    /\ Live
    /\ stage[record.code] # "sending"
    /\ record' = [record EXCEPT !.expired = TRUE]
    /\ UNCHANGED <<stage, smtp, inbox, verdict, allowed>>

CoolDown ==
    /\ Live /\ record.cooling
    /\ QuickResend \/ stage[record.code] # "sending"
    /\ record' = [record EXCEPT !.cooling = FALSE]
    /\ UNCHANGED <<stage, smtp, inbox, verdict, allowed>>

\* cleanupExpiredPendingEmailCodes, on a request for any address.
Sweep ==
    /\ record # None /\ record.expired
    /\ record' = None
    /\ UNCHANGED <<stage, smtp, inbox, verdict, allowed>>

EditRoster ==
    /\ allowed' = ~allowed
    /\ UNCHANGED <<record, stage, smtp, inbox, verdict>>

Restart ==
    /\ record' = None
    /\ stage' = [r \in Starts |-> IF stage[r] = "sending" THEN "lost" ELSE stage[r]]
    /\ smtp' = [r \in Starts |-> IF smtp[r] = "pending" THEN "error" ELSE smtp[r]]
    /\ UNCHANGED <<inbox, verdict, allowed>>

Next ==
    \/ \E r \in Starts : RefuseStart(r) \/ Start(r) \/ Sent(r) \/ NotSent(r) \/ TimeOut(r) \/ Arrive(r)
    \/ \E v \in Verifies : RefuseVerify(v) \/ SignIn(v) \/ GuessWrongly(v)
    \/ Expire \/ CoolDown \/ Sweep \/ EditRoster \/ Restart

Spec == Init /\ [][Next]_vars

\* The timer of the bounded wait fires; nothing makes the transport answer.
FairSpec == Spec /\ \A r \in Starts : WF_vars(TimeOut(r))

(***************************************************************************)
(* Properties.                                                             *)
(***************************************************************************)
\* The types of the variables.
TypeOK ==
    /\ record \in Record \cup {None}
    /\ stage \in [Starts -> {"idle", "refused", "sending", "sent", "failed", "lost"}]
    /\ smtp \in [Starts -> {"none", "pending", "ok", "error"}]
    /\ inbox \subseteq {r \in Starts : smtp[r] # "none"}
    /\ verdict \in [Verifies -> [as : {"idle", "refused", "wrong", "signedIn"},
                                 code : Starts \cup {None}]]
    /\ allowed \in BOOLEAN

\* A code signs in at most one request, however many present it while its mail is still
\* being delivered or a new code is being asked for.
SignsInOnce ==
    \A v, w \in Verifies :
        verdict[v].as = "signedIn" /\ verdict[w].as = "signedIn"
            /\ verdict[v].code = verdict[w].code => v = w

\* However attempts interleave with resends, expiry and failed mails, a code stands
\* MaxAttempts wrong guesses at most, and none after it was used.
Wrong(r) == {v \in Verifies : verdict[v] = [as |-> "wrong", code |-> r]}
GuessesBounded ==
    \A r \in Starts :
        /\ Cardinality(Wrong(r)) <= MaxAttempts
        /\ Cardinality(Wrong(r)) = MaxAttempts => ~(record # None /\ record.code = r)

\* Once a request was told that its mail could not be sent, its code is good for nothing.
FailedCodeIsDead ==
    \A r \in Starts : stage[r] = "failed" => ~(record # None /\ record.code = r)

\* Together: a code is good for one sign-in, for a bounded number of guesses, and only
\* while its request has not failed.
CodesHold == SignsInOnce /\ GuessesBounded /\ FailedCodeIsDead

\* "The request remains accepted while SMTP is pending, so clients can enter a code that
\* arrives after this bounded wait" (authService.ts:448): the failure of one request's
\* mail does not take the code of another.
AcceptedCodeStays ==
    [][\A r \in Starts :
         stage[r] = "sending" /\ stage'[r] = "failed" /\ record # None /\ record.code # r
             => record' = record]_vars

\* Every request for a code is answered within the bounded wait, or dies with the process:
\* again and again none is waiting.
EveryStartEnds == []<>(\A r \in Starts : stage[r] # "sending")
=============================================================================
