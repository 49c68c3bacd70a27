----------------------------- MODULE SignInProofs -----------------------------
(***************************************************************************)
(* What the process that signs people in promises, for any number of       *)
(* requests, addresses, accounts and uploads and any limits.  A step of    *)
(* the process is a step of the codes, of the browser sessions and of the  *)
(* services, or leaves them alone (ProcessSteps), so each has an invariant *)
(* of its own.                                                             *)
(*                                                                         *)
(* Codes: a record names a request that was made and did not fail, and a   *)
(* code that was tried is that of a request that was made: since no        *)
(* request is made twice, a code whose record is gone never comes back.    *)
(* And the record's counter is the number of wrong attempts on its code,   *)
(* which is what bounds them.                                              *)
(* Sessions: a row bears the name of a request that was answered, so no    *)
(* sign-in brings back a session another request has seen the end of.      *)
(* Limits: of all that was granted, the part of the current window (or     *)
(* hour) is what the record counts, and what came before the window before *)
(* it is at least that long ago (Books).                                   *)
(***************************************************************************)
EXTENDS SignIn, FiniteSetTheorems, SequenceTheorems, TLAPS

\* A step of the process, or none.
Steps == [SignInNext \/ ServiceNext]_<<vars, web, services>>

-----------------------------------------------------------------------------
(* Codes, on their own: Spec is that of EmailCodes.                         *)

Dead == {"idle", "refused", "failed"}
RecordInv == record # None => stage[record.code] \notin Dead
TriedInv == \A v \in Verifies :
    verdict[v].as \in {"wrong", "signedIn"} =>
        verdict[v].code \in Starts /\ stage[verdict[v].code] # "idle"
UsedInv == \A v \in Verifies :
    verdict[v].as = "signedIn" /\ record # None => record.code # verdict[v].code
CountInv ==
    /\ \A r \in Starts : IsFiniteSet(Wrong(r)) /\ Cardinality(Wrong(r)) <= MaxAttempts
    /\ record # None => Cardinality(Wrong(record.code)) = record.attempts

CodesInv == TypeOK /\ RecordInv /\ TriedInv /\ UsedInv /\ SignsInOnce /\ CountInv

LEMMA CodesInit == Init => CodesInv
  <1> SUFFICES ASSUME Init PROVE CodesInv
    OBVIOUS
  <1>1. TypeOK
    BY DEF Init, TypeOK
  <1>2. RecordInv /\ TriedInv /\ UsedInv /\ SignsInOnce
    BY DEF Init, RecordInv, TriedInv, UsedInv, SignsInOnce
  <1>3. \A r \in Starts : Wrong(r) = {}
    BY DEF Init, Wrong
  <1>4. CountInv
    BY <1>3, FS_EmptySet, AttemptsAssumption DEF CountInv, Init
  <1> QED
    BY <1>1, <1>2, <1>4 DEF CodesInv

\* A step that tries no code, and leaves no request idle again, keeps what is known of
\* the attempts.
LEMMA Untried ==
    ASSUME CodesInv, UNCHANGED verdict,
           \A r \in Starts : stage[r] # "idle" => stage'[r] # "idle"
    PROVE  TriedInv' /\ SignsInOnce' /\ \A r : Wrong(r)' = Wrong(r)
  BY DEF CodesInv, TriedInv, SignsInOnce, Wrong

\* Such a step that keeps the record's code and counter, or drops the record, and fails
\* no request but those without a record, keeps the invariant.
LEMMA SameCode ==
    ASSUME CodesInv, TypeOK', UNCHANGED verdict,
           \A r \in Starts : stage[r] # "idle" => stage'[r] # "idle",
           record' # None =>
             /\ record # None
             /\ record'.code = record.code
             /\ record'.attempts = record.attempts
             /\ stage'[record.code] \notin Dead
    PROVE  CodesInv'
  <1>1. TriedInv' /\ SignsInOnce' /\ \A r : Wrong(r)' = Wrong(r)
    BY Untried
  <1>2. RecordInv' /\ UsedInv'
    BY DEF CodesInv, RecordInv, UsedInv
  <1>3. CountInv'
    BY <1>1 DEF CodesInv, CountInv
  <1> QED
    BY <1>1, <1>2, <1>3 DEF CodesInv

LEMMA CodesStep == CodesInv /\ [Next]_vars => CodesInv'
  <1> SUFFICES ASSUME CodesInv, [Next]_vars PROVE CodesInv'
    OBVIOUS
  <1>0. TypeOK /\ RecordInv
    BY DEF CodesInv
  <1>1. ASSUME NEW r \in Starts, RefuseStart(r) PROVE CodesInv'
    <2>1. TypeOK' /\ \A s \in Starts : stage[s] # "idle" => stage'[s] = stage[s]
      BY <1>0, <1>1 DEF RefuseStart, Goto, TypeOK
    <2>2. record' = record /\ verdict' = verdict /\ stage[r] = "idle"
      BY <1>1 DEF RefuseStart
    <2>3. record # None => record.code \in Starts /\ stage[record.code] # "idle"
      BY <1>0 DEF TypeOK, Record, RecordInv, Dead
    <2>4. record # None => stage'[record.code] \notin Dead
      BY <1>0, <2>1, <2>3 DEF RecordInv
    <2> QED
      BY <2>1, <2>2, <2>4, SameCode
  <1>2. ASSUME NEW r \in Starts, Start(r) PROVE CodesInv'
    <2>1. /\ stage[r] = "idle"
          /\ record' = [code |-> r, attempts |-> 0, expired |-> FALSE, cooling |-> TRUE]
          /\ stage' = [stage EXCEPT ![r] = "sending"]
          /\ verdict' = verdict
      BY <1>2 DEF Start, Goto
    <2>2. TypeOK'
      BY <1>0, <1>2, <2>1, AttemptsAssumption DEF Start, TypeOK, Record
    <2>3. /\ \A s \in Starts : stage[s] # "idle" => stage'[s] # "idle"
          /\ stage'[r] = "sending"
      BY <1>0, <2>1 DEF TypeOK
    <2>4. TriedInv' /\ SignsInOnce' /\ \A s : Wrong(s)' = Wrong(s)
      BY <2>1, <2>3, Untried
    <2>5. RecordInv'
      BY <2>1, <2>3 DEF RecordInv, Dead
    <2>6. \A v \in Verifies : verdict[v].as \in {"wrong", "signedIn"} => verdict[v].code # r
      BY <2>1 DEF CodesInv, TriedInv
    <2>7. UsedInv'
      BY <2>1, <2>6 DEF UsedInv
    <2>8. Wrong(r) = {}
      BY <2>6 DEF Wrong
    <2>9. CountInv'
      BY <2>1, <2>4, <2>8, FS_EmptySet DEF CodesInv, CountInv
    <2> QED
      BY <2>2, <2>4, <2>5, <2>7, <2>9 DEF CodesInv
  <1>3. ASSUME NEW r \in Starts, Sent(r) PROVE CodesInv'
    <2>1. /\ stage' = [stage EXCEPT ![r] = IF @ = "sending" THEN "sent" ELSE @]
          /\ record' = record /\ verdict' = verdict
      BY <1>3 DEF Sent
    <2>2. /\ TypeOK'
          /\ \A s \in Starts : stage[s] # "idle" => stage'[s] # "idle"
          /\ \A s \in Starts : stage[s] \notin Dead => stage'[s] \notin Dead
      BY <1>0, <1>3, <2>1 DEF Sent, TypeOK, Dead
    <2>3. record # None => stage'[record.code] \notin Dead
      BY <1>0, <2>2 DEF TypeOK, Record, RecordInv
    <2> QED
      BY <2>1, <2>2, <2>3, SameCode
  <1>4. ASSUME NEW r \in Starts, NotSent(r) PROVE CodesInv'
    <2>1. /\ TypeOK' /\ verdict' = verdict
          /\ \A s \in Starts : stage[s] # "idle" => stage'[s] # "idle"
      BY <1>0, <1>4 DEF NotSent, Goto, TypeOK
    <2>2. record' # None => record' = record /\ stage' = stage
      BY <1>4 DEF NotSent
    <2>3. record # None => stage[record.code] \notin Dead
      BY <1>0 DEF RecordInv
    <2> QED
      BY <2>1, <2>2, <2>3, SameCode
  <1>5. ASSUME NEW r \in Starts, TimeOut(r) PROVE CodesInv'
    <2>1. /\ stage' = [stage EXCEPT ![r] = "sent"] /\ stage[r] = "sending"
          /\ record' = record /\ verdict' = verdict
      BY <1>5 DEF TimeOut, Goto
    <2>2. /\ TypeOK'
          /\ \A s \in Starts : stage[s] # "idle" => stage'[s] # "idle"
          /\ \A s \in Starts : stage[s] \notin Dead => stage'[s] \notin Dead
      BY <1>0, <1>5, <2>1 DEF TimeOut, TypeOK, Dead
    <2>3. record # None => stage'[record.code] \notin Dead
      BY <1>0, <2>2 DEF TypeOK, Record, RecordInv
    <2> QED
      BY <2>1, <2>2, <2>3, SameCode
  <1>6. ASSUME NEW r \in Starts, Arrive(r) PROVE CodesInv'
    <2>1. TypeOK' /\ record' = record /\ verdict' = verdict /\ stage' = stage
      BY <1>0, <1>6 DEF Arrive, TypeOK
    <2> QED
      BY <1>0, <2>1, SameCode DEF RecordInv
  <1>7. ASSUME NEW v \in Verifies, RefuseVerify(v) PROVE CodesInv'
    <2>1. /\ verdict[v].as = "idle"
          /\ verdict' = [verdict EXCEPT ![v] = [as |-> "refused", code |-> None]]
          /\ record' \in {record, None}
          /\ stage' = stage
      BY <1>7 DEF RefuseVerify, Answer
    <2>2. TypeOK'
      BY <1>0, <1>7, <2>1 DEF RefuseVerify, TypeOK
    <2>3. \A w \in Verifies :
            \/ verdict'[w] = verdict[w]
            \/ verdict'[w].as = "refused" /\ verdict[w].as = "idle"
      BY <1>0, <2>1 DEF TypeOK
    <2>4. TriedInv' /\ SignsInOnce' /\ UsedInv' /\ RecordInv'
      BY <2>1, <2>3 DEF CodesInv, TriedInv, SignsInOnce, UsedInv, RecordInv
    <2>5. \A r : Wrong(r)' = Wrong(r)
      BY <2>3 DEF Wrong
    <2>6. CountInv'
      BY <2>1, <2>5 DEF CodesInv, CountInv
    <2> QED
      BY <2>2, <2>4, <2>6 DEF CodesInv
  <1>8. ASSUME NEW v \in Verifies, SignIn(v) PROVE CodesInv'
    <2>1. /\ verdict[v].as = "idle" /\ record # None
          /\ verdict' = [verdict EXCEPT ![v] = [as |-> "signedIn", code |-> record.code]]
          /\ record' = None
          /\ stage' = stage
      BY <1>8 DEF SignIn, Answer, Live
    <2>2. record.code \in Starts /\ stage[record.code] # "idle"
      BY <1>0, <2>1 DEF TypeOK, Record, RecordInv, Dead
    <2>3. TypeOK'
      BY <1>0, <1>8, <2>1, <2>2 DEF SignIn, TypeOK
    <2>4. \A w \in Verifies : IF w = v THEN /\ verdict'[w].as = "signedIn"
                                            /\ verdict'[w].code = record.code
                                       ELSE verdict'[w] = verdict[w]
      BY <1>0, <2>1 DEF TypeOK
    <2>5. TriedInv'
      BY <2>1, <2>2, <2>4 DEF CodesInv, TriedInv
    <2>6. SignsInOnce'
      BY <2>1, <2>4 DEF CodesInv, SignsInOnce, UsedInv
    <2>7. \A r : Wrong(r)' = Wrong(r)
      BY <2>1, <2>4 DEF Wrong
    <2>8. CountInv' /\ RecordInv' /\ UsedInv'
      BY <2>1, <2>7 DEF CodesInv, CountInv, RecordInv, UsedInv
    <2> QED
      BY <2>3, <2>5, <2>6, <2>8 DEF CodesInv
  <1>9. ASSUME NEW v \in Verifies, GuessWrongly(v) PROVE CodesInv'
    <2>1. /\ verdict[v].as = "idle" /\ record # None
          /\ verdict' = [verdict EXCEPT ![v] = [as |-> "wrong", code |-> record.code]]
          /\ record' = IF record.attempts + 1 >= MaxAttempts THEN None
                       ELSE [record EXCEPT !.attempts = @ + 1]
          /\ stage' = stage
      BY <1>9 DEF GuessWrongly, Answer, Live
    <2>2. PICK c \in Starts : c = record.code
      BY <1>0, <2>1 DEF TypeOK, Record
    <2>3. /\ stage[c] # "idle"
          /\ record \in Record /\ record.attempts \in 0..(MaxAttempts - 1)
          /\ record' # None => record'.code = c /\ record'.attempts = record.attempts + 1
      BY <1>0, <2>1, <2>2 DEF TypeOK, Record, RecordInv, Dead
    <2>4. TypeOK'
      <3>1. record' \in Record \cup {None}
        BY <2>1, <2>3, AttemptsAssumption DEF Record
      <3>2. verdict' \in [Verifies -> [as : {"idle", "refused", "wrong", "signedIn"},
                                       code : Starts \cup {None}]]
        BY <1>0, <2>1, <2>2 DEF TypeOK
      <3> QED
        BY <1>0, <1>9, <3>1, <3>2 DEF GuessWrongly, TypeOK
    <2>5. \A w \in Verifies : IF w = v THEN verdict'[w] = [as |-> "wrong", code |-> c]
                                       ELSE verdict'[w] = verdict[w]
      BY <1>0, <2>1, <2>2 DEF TypeOK
    <2>6. TriedInv' /\ SignsInOnce'
      BY <2>1, <2>3, <2>5 DEF CodesInv, TriedInv, SignsInOnce
    <2>7. RecordInv' /\ UsedInv'
      BY <2>1, <2>2, <2>3, <2>5 DEF CodesInv, RecordInv, UsedInv
    <2>8. /\ Wrong(c)' = Wrong(c) \cup {v} /\ v \notin Wrong(c)
          /\ \A r \in Starts \ {c} : Wrong(r)' = Wrong(r)
      BY <2>1, <2>5 DEF Wrong
    <2>9. /\ IsFiniteSet(Wrong(c)')
          /\ Cardinality(Wrong(c)') = record.attempts + 1
      BY <2>1, <2>2, <2>8, FS_AddElement DEF CodesInv, CountInv
    <2>10. CountInv'
      <3>1. ASSUME NEW r \in Starts
            PROVE  IsFiniteSet(Wrong(r)') /\ Cardinality(Wrong(r)') <= MaxAttempts
        <4>1. CASE r = c
          BY <2>3, <2>9, <4>1, AttemptsAssumption
        <4>2. CASE r # c
          BY <2>8, <4>2 DEF CodesInv, CountInv
        <4> QED
          BY <4>1, <4>2
      <3>2. (record # None => Cardinality(Wrong(record.code)) = record.attempts)'
        <4> SUFFICES ASSUME record' # None
                     PROVE  (Cardinality(Wrong(record.code)) = record.attempts)'
          OBVIOUS
        <4>1. (Wrong(record.code))' = Wrong(c)'
          BY <2>3 DEF Wrong
        <4> QED
          BY <2>3, <2>9, <4>1
      <3> QED
        BY <3>1, <3>2 DEF CountInv
    <2> QED
      BY <2>4, <2>6, <2>7, <2>10 DEF CodesInv
  <1>10. ASSUME Expire PROVE CodesInv'
    <2>1. /\ record # None /\ record' = [record EXCEPT !.expired = TRUE]
          /\ verdict' = verdict /\ stage' = stage
      BY <1>10 DEF Expire, Live
    <2>2. record \in Record
      BY <1>0, <2>1 DEF TypeOK
    <2>3. TypeOK' /\ record'.code = record.code /\ record'.attempts = record.attempts
      BY <1>0, <1>10, <2>1, <2>2 DEF Expire, TypeOK, Record
    <2> QED
      BY <1>0, <2>1, <2>3, SameCode DEF RecordInv
  <1>11. ASSUME CoolDown PROVE CodesInv'
    <2>1. /\ record # None /\ record' = [record EXCEPT !.cooling = FALSE]
          /\ verdict' = verdict /\ stage' = stage
      BY <1>11 DEF CoolDown, Live
    <2>2. record \in Record
      BY <1>0, <2>1 DEF TypeOK
    <2>3. TypeOK' /\ record'.code = record.code /\ record'.attempts = record.attempts
      BY <1>0, <1>11, <2>1, <2>2 DEF CoolDown, TypeOK, Record
    <2> QED
      BY <1>0, <2>1, <2>3, SameCode DEF RecordInv
  <1>12. ASSUME Sweep PROVE CodesInv'
    <2>1. TypeOK' /\ record' = None /\ verdict' = verdict /\ stage' = stage
      BY <1>0, <1>12 DEF Sweep, TypeOK
    <2> QED
      BY <2>1, SameCode
  <1>13. ASSUME EditRoster PROVE CodesInv'
    <2>1. TypeOK' /\ record' = record /\ verdict' = verdict /\ stage' = stage
      BY <1>0, <1>13 DEF EditRoster, TypeOK
    <2> QED
      BY <1>0, <2>1, SameCode DEF RecordInv
  <1>14. ASSUME Restart PROVE CodesInv'
    <2>1. /\ TypeOK' /\ record' = None /\ verdict' = verdict
          /\ \A s \in Starts : stage[s] # "idle" => stage'[s] # "idle"
      BY <1>0, <1>14 DEF Restart, TypeOK
    <2> QED
      BY <2>1, SameCode
  <1>15. CASE UNCHANGED vars
    <2>1. TypeOK' /\ record' = record /\ verdict' = verdict /\ stage' = stage
      BY <1>0, <1>15 DEF vars, TypeOK
    <2> QED
      BY <1>0, <2>1, SameCode DEF RecordInv
  <1> QED
    BY <1>1, <1>2, <1>3, <1>4, <1>5, <1>6, <1>7, <1>8, <1>9, <1>10, <1>11, <1>12, <1>13,
       <1>14, <1>15 DEF Next

\* The invariant holds in every state of every behaviour.
THEOREM CodesInvariant == Spec => []CodesInv
  BY CodesInit, CodesStep, PTL DEF Spec

\* The types of the variables.
THEOREM CodesTyped == Spec => []TypeOK
  <1>1. CodesInv => TypeOK
    BY DEF CodesInv
  <1> QED
    BY <1>1, CodesInvariant, PTL

\* No two attempts sign in with the same code (verifyEmailSignInCode).
THEOREM CodesSignInOnce == Spec => []SignsInOnce
  <1>1. CodesInv => SignsInOnce
    BY DEF CodesInv
  <1> QED
    BY <1>1, CodesInvariant, PTL

\* A code stands no more wrong attempts than the limit, and is gone after the last one
\* (verifyEmailSignInCode, pruneFailedAttempts).
THEOREM AttemptsBounded == Spec => []GuessesBounded
  <1>1. CodesInv => GuessesBounded
    <2> SUFFICES ASSUME CodesInv, NEW r \in Starts
                 PROVE  /\ Cardinality(Wrong(r)) <= MaxAttempts
                        /\ Cardinality(Wrong(r)) = MaxAttempts
                             => ~(record # None /\ record.code = r)
      BY DEF GuessesBounded
    <2>1. record # None => record.attempts \in 0..(MaxAttempts - 1)
      BY DEF CodesInv, TypeOK, Record
    <2> QED
      BY <2>1, AttemptsAssumption DEF CodesInv, CountInv
  <1> QED
    BY <1>1, CodesInvariant, PTL

\* The code of a request that was told it failed is good for nothing
\* (requestEmailSignInCode, its catch).
THEOREM FailuresAreFinal == Spec => []FailedCodeIsDead
  <1>1. CodesInv => FailedCodeIsDead
    BY DEF CodesInv, RecordInv, Dead, FailedCodeIsDead
  <1> QED
    BY <1>1, CodesInvariant, PTL

\* The three together (verifyEmailSignInCode and requestEmailSignInCode).
THEOREM CodesSound == Spec => []CodesHold
  <1>1. SignsInOnce /\ GuessesBounded /\ FailedCodeIsDead => CodesHold
    BY DEF CodesHold
  <1> QED
    BY <1>1, CodesSignInOnce, AttemptsBounded, FailuresAreFinal, PTL

-----------------------------------------------------------------------------
(* Sessions.                                                                *)

\* A row, and the session of a cookie, is that of a sign-in that was answered.
SignedIn == {s \in WebRequests : webStage[s] = "signedIn"}
RowsInv == active \cup revoked \subseteq SignedIn
CookiesInv == \A q \in WebRequests : req[q].session # None => req[q].session \in SignedIn

\* A request made after the end of its session does not get past the lookup.
LateInv == \A q \in WebRequests : req[q].late =>
    /\ req[q].session \notin active \ lapsed
    /\ webStage[q] \in {"lookup", "anonymous", "failed", "lost"}

\* While one cleans up, the hour is not over.
CleaningInv == \A q \in WebRequests : webStage[q] = "cleaning" => ~cleanupDue

WebInv ==
    /\ Web!TypeOK /\ RowsInv /\ CookiesInv /\ LateInv /\ CleaningInv
    /\ Web!EndedStaysEnded /\ Web!OneCleanupAtATime

LEMMA WebInit == Init /\ Web!Init => WebInv
  <1> SUFFICES ASSUME Init, Web!Init PROVE WebInv
    OBVIOUS
  <1>1. Web!TypeOK
    BY DEF Web!Init, Web!TypeOK, Web!Request, Web!Kinds, Init
  <1> QED
    BY <1>1, WebRequestsAssumption DEF WebInv, Web!Init, RowsInv, CookiesInv, LateInv,
       CleaningInv, SignedIn, Web!EndedStaysEnded, Web!OneCleanupAtATime

LEMMA WebStep == WebInv /\ [Web!Next]_(Web!vars) => WebInv'
  <1> SUFFICES ASSUME WebInv, [Web!Next]_(Web!vars) PROVE WebInv'
    OBVIOUS
  <1> USE DEF WebInv, Web!TypeOK, RowsInv, CookiesInv, LateInv, CleaningInv, SignedIn,
              Web!EndedStaysEnded, Web!OneCleanupAtATime, Web!Request, Web!Kinds,
              Web!Waiting, Web!Answers, Web!rows, Web!Goto
  <1>1. ASSUME NEW q \in WebRequests, Web!Ask(q) PROVE WebInv'
    <2>1. CASE /\ req' = [req EXCEPT ![q].kind = "signIn"]
               /\ webStage' = [webStage EXCEPT ![q] = "begin"]
      <3>1. \A r \in WebRequests : /\ req'[r].session = req[r].session
                                   /\ req'[r].late = req[r].late
                                   /\ req'[r].kind \in {req[r].kind, "signIn"}
        BY <2>1
      <3>2. ~req[q].late
        BY <1>1 DEF Web!Ask
      <3> QED
        BY <1>1, <2>1, <3>1, <3>2, WebRequestsAssumption DEF Web!Ask
    <2>2. ASSUME NEW k \in Web!Kinds \ {"signIn"},
                 NEW s \in SignedIn,
                 req' = [req EXCEPT ![q] = [kind |-> k, session |-> s,
                                            late |-> s \notin active \ lapsed]],
                 webStage' = [webStage EXCEPT ![q] = "lookup"]
          PROVE  WebInv'
      BY <1>1, <2>2, WebRequestsAssumption DEF Web!Ask
    <2>3. ASSUME NEW k \in Web!Kinds \ {"signIn"},
                 NEW s \in {o \in WebRequests : webStage[o] = "signedIn"},
                 req' = [req EXCEPT ![q] = [kind |-> k, session |-> s,
                                            late |-> s \notin active \ lapsed]],
                 webStage' = [webStage EXCEPT ![q] = "lookup"]
          PROVE  WebInv'
      <3>1. s \in SignedIn
        BY <2>3
      <3> HIDE DEF WebInv, SignedIn
      <3> QED
        BY <2>2, <2>3, <3>1
    <2>4. \/ /\ req' = [req EXCEPT ![q].kind = "signIn"]
             /\ webStage' = [webStage EXCEPT ![q] = "begin"]
          \/ \E k \in Web!Kinds \ {"signIn"}, s \in {o \in WebRequests : webStage[o] = "signedIn"} :
               /\ req' = [req EXCEPT ![q] = [kind |-> k, session |-> s,
                                             late |-> s \notin active \ lapsed]]
               /\ webStage' = [webStage EXCEPT ![q] = "lookup"]
      BY <1>1, Zenon DEF Web!Ask
    <2> HIDE DEF WebInv, Web!Kinds
    <2> QED
      BY <2>1, <2>3, <2>4, Zenon
  <1>2. ASSUME NEW q \in WebRequests, Web!BeginSignIn(q) PROVE WebInv'
    <2>1. /\ webStage' = [webStage EXCEPT ![q] = IF cleanupDue THEN "cleaning" ELSE "creating"]
          /\ webStage[q] = "begin" /\ ~cleanupDue' /\ UNCHANGED <<req, Web!rows, allowed>>
          /\ cleanupDue => \A p \in WebRequests : webStage[p] # "cleaning"
      BY <1>2 DEF Web!BeginSignIn
    <2>2. Web!TypeOK'
      BY <1>2, <2>1 DEF Web!BeginSignIn
    <2>3. RowsInv' /\ CookiesInv'
      BY <2>1
    <2>4. LateInv'
      BY <2>1
    <2>5. CleaningInv' /\ Web!OneCleanupAtATime'
      BY <2>1
    <2>6. Web!EndedStaysEnded'
      BY <2>1
    <2> QED
      BY <2>2, <2>3, <2>4, <2>5, <2>6
  <1>3. ASSUME NEW q \in WebRequests, Web!CleanUp(q) PROVE WebInv'
    BY <1>3 DEF Web!CleanUp
  <1>4. ASSUME NEW q \in WebRequests, Web!Create(q) PROVE WebInv'
    BY <1>4, WebRequestsAssumption DEF Web!Create
  <1>5. ASSUME NEW q \in WebRequests, Web!Lookup(q) PROVE WebInv'
    BY <1>5 DEF Web!Lookup
  <1>6. ASSUME NEW q \in WebRequests, Web!Admit(q) PROVE WebInv'
    BY <1>6 DEF Web!Admit
  <1>7. ASSUME NEW q \in WebRequests, Web!Dismiss(q) PROVE WebInv'
    BY <1>7 DEF Web!Dismiss, Web!Revoke
  <1>8. ASSUME NEW q \in WebRequests, Web!LogOut(q) PROVE WebInv'
    BY <1>8 DEF Web!LogOut, Web!Revoke
  <1>9. ASSUME NEW q \in WebRequests, Web!StatementFails(q) PROVE WebInv'
    BY <1>9 DEF Web!StatementFails, Web!Statements
  <1>10. ASSUME NEW q \in WebRequests, Web!Lapse(q) PROVE WebInv'
    BY <1>10 DEF Web!Lapse
  <1>11. ASSUME NEW q \in WebRequests, Web!Age(q) PROVE WebInv'
    BY <1>11 DEF Web!Age
  <1>12. ASSUME Web!HourPasses PROVE WebInv'
    BY <1>12 DEF Web!HourPasses
  <1>13. ASSUME Web!EditRoster PROVE WebInv'
    BY <1>13 DEF Web!EditRoster
  <1>14. ASSUME Web!Restart PROVE WebInv'
    BY <1>14 DEF Web!Restart
  <1>15. ASSUME UNCHANGED Web!vars PROVE WebInv'
    BY <1>15 DEF Web!vars
  <1> QED
    BY <1>1, <1>2, <1>3, <1>4, <1>5, <1>6, <1>7, <1>8, <1>9, <1>10, <1>11, <1>12, <1>13,
       <1>14, <1>15 DEF Web!Next, Web!Serve

-----------------------------------------------------------------------------
(* Limits: what was granted, by the time it was granted at.                 *)

\* Of those times the last c are in the current span, which began at start; at most cap
\* are in the span before it, which ended by then.
Books(times, start, c, cap, span) ==
    /\ c \in 0..Len(times)
    /\ \A i \in DOMAIN times : times[i] < start + span
    /\ \A i \in DOMAIN times : i > Len(times) - c => times[i] >= start
    /\ \A i \in DOMAIN times : i <= Len(times) - c => times[i] < start
    /\ \A i \in DOMAIN times : i <= Len(times) - c - cap => times[i] + span <= start

\* When a span is over, or there was none, the next may begin.
LEMMA Renewed ==
    ASSUME NEW times \in Seq(Nat), NEW start \in Nat, NEW cap \in Nat, NEW c \in 0..cap,
           NEW span \in Nat \ {0}, NEW t \in Nat,
           Books(times, start, c, cap, span), start + span <= t
    PROVE  Books(times, t, 0, cap, span)
  BY DEF Books

\* A span in which nothing was granted may as well begin later.
LEMMA Later ==
    ASSUME NEW times \in Seq(Nat), NEW start \in Nat, NEW t \in Nat, NEW cap \in Nat,
           NEW span \in Nat \ {0}, Books(times, start, 0, cap, span), start <= t
    PROVE  Books(times, t, 0, cap, span)
  BY DEF Books

\* Three facts of arithmetic for the next lemma.
LEMMA TwoSpansBack ==
    ASSUME NEW n \in Nat, NEW k \in Nat, NEW c \in Nat, NEW cap \in Nat, c + k <= cap,
           NEW i \in n + 1..n + k, i > 2 * cap
    PROVE  i - 2 * cap \in 1..n /\ i - 2 * cap <= n - c - cap
  OBVIOUS

LEMMA SameBefore ==
    ASSUME NEW n \in Nat, NEW k \in Nat, NEW c \in Nat, NEW cap \in Nat
    PROVE  n + k - (c + k) = n - c /\ n + k - (c + k) - cap = n - c - cap
  OBVIOUS

LEMMA SpanApart ==
    ASSUME NEW before \in Nat, NEW span \in Nat, NEW start \in Nat, NEW t \in Nat,
           before + span <= start, start <= t
    PROVE  t - before >= span
  OBVIOUS

\* Granting k more within the cap keeps the books, and no more than two spans' worth is
\* granted in the time of one.
LEMMA Extended ==
    ASSUME NEW times \in Seq(Nat), NEW start \in Nat, NEW c \in Nat, NEW cap \in Nat,
           NEW span \in Nat \ {0}, NEW t \in Nat, NEW k \in Nat, NEW more \in Seq(Nat),
           Books(times, start, c, cap, span), Limits!AtMost(2 * cap, times, span),
           start <= t, t < start + span, c + k <= cap,
           Len(more) = Len(times) + k,
           \A i \in 1..Len(times) : more[i] = times[i],
           \A i \in Len(times) + 1..Len(times) + k : more[i] = t
    PROVE  Books(more, start, c + k, cap, span) /\ Limits!AtMost(2 * cap, more, span)
  <1> DEFINE n == Len(times)
  <1>1. /\ n \in Nat /\ n = Len(times) /\ n + k = Len(more)
        /\ DOMAIN times = 1..n /\ DOMAIN more = 1..n + k
        /\ \A i \in 1..n : times[i] \in Nat /\ more[i] = times[i]
        /\ \A i \in n + 1..n + k : more[i] = t
    OBVIOUS
  <1>2. /\ c \in 0..n
        /\ \A i \in 1..n : times[i] < start + span
        /\ \A i \in 1..n : i > n - c => times[i] >= start
        /\ \A i \in 1..n : i <= n - c => times[i] < start
        /\ \A i \in 1..n : i <= n - c - cap => times[i] + span <= start
    BY <1>1 DEF Books
  <1>3. \A i \in 1..n : i > 2 * cap => times[i] - times[i - 2 * cap] >= span
    BY <1>1 DEF Limits!AtMost
  <1> HIDE DEF n
  <1>4. \A i \in 1..n + k : i \in 1..n \/ i \in n + 1..n + k
    BY <1>1
  <1>5. Books(more, start, c + k, cap, span)
    <2>1. /\ c + k \in 0..n + k
          /\ \A i \in 1..n + k : more[i] < start + span
          /\ \A i \in 1..n + k : i > n + k - (c + k) => more[i] >= start
          /\ \A i \in 1..n + k : i <= n + k - (c + k) => more[i] < start
          /\ \A i \in 1..n + k : i <= n + k - (c + k) - cap => more[i] + span <= start
      <3>0. n + k - (c + k) = n - c /\ n + k - (c + k) - cap = n - c - cap
        BY <1>1, SameBefore
      <3>1. c + k \in 0..n + k
        BY <1>1, <1>2
      <3>2. \A i \in 1..n + k : more[i] < start + span
        BY <1>1, <1>2, <1>4
      <3>3. \A i \in 1..n + k : i > n - c => more[i] >= start
        BY <1>1, <1>2, <1>4
      <3>4. \A i \in 1..n + k : i <= n - c => i \in 1..n
        BY <1>1, <1>2
      <3>5. \A i \in 1..n + k : i <= n - c - cap => i <= n - c
        BY <1>1, <1>2
      <3>6. \A i \in 1..n + k : i <= n - c => more[i] < start
        BY <1>1, <1>2, <3>4
      <3>7. \A i \in 1..n + k : i <= n - c - cap => more[i] + span <= start
        BY <1>1, <1>2, <3>4, <3>5
      <3> QED
        BY ONLY <3>0, <3>1, <3>2, <3>3, <3>6, <3>7
    <2> QED
      BY <1>1, <2>1 DEF Books
  <1>6. ASSUME NEW i \in 1..n + k, i > 2 * cap PROVE more[i] - more[i - 2 * cap] >= span
    <2>1. CASE i \in 1..n
      <3>1. i - 2 * cap \in 1..n
        BY <1>1, <1>6, <2>1
      <3> QED
        BY <1>1, <1>3, <1>6, <2>1, <3>1
    <2>2. CASE i \in n + 1..n + k
      <3>1. i - 2 * cap \in 1..n /\ i - 2 * cap <= n - c - cap
        BY <1>1, <1>6, <2>2, TwoSpansBack
      <3>2. PICK j \in 1..n : j = i - 2 * cap
        BY <3>1
      <3>3. times[j] + span <= start /\ times[j] \in Nat /\ more[j] = times[j]
        BY <1>1, <1>2, <3>1, <3>2
      <3>4. more[i] = t
        BY <1>1, <2>2
      <3>5. t - times[j] >= span
        BY <3>3, SpanApart
      <3> QED
        BY <3>2, <3>3, <3>4, <3>5
    <2> QED
      BY <1>4, <2>1, <2>2
  <1> QED
    BY <1>1, <1>5, <1>6 DEF Limits!AtMost

\* What the record counts is what the current span granted.
LEMMA Counts ==
    ASSUME NEW times \in Seq(Nat), NEW start \in Nat, NEW c \in Nat, NEW cap \in Nat,
           NEW span \in Nat \ {0}, Books(times, start, c, cap, span)
    PROVE  Cardinality({i \in DOMAIN times : times[i] >= start}) = c
  <1>1. {i \in DOMAIN times : times[i] >= start} = Len(times) - c + 1..Len(times)
    BY DEF Books
  <1>2. Len(times) \in Nat /\ c \in 0..Len(times)
    BY DEF Books
  <1>3. /\ Len(times) - c + 1 \in Int
        /\ (IF Len(times) - c + 1 > Len(times) THEN 0
            ELSE Len(times) - (Len(times) - c + 1) + 1) = c
    BY <1>2
  <1>4. Cardinality(Len(times) - c + 1..Len(times)) = c
    BY <1>2, <1>3, FS_Interval
  <1> QED
    BY <1>1, <1>4

\* An upload that is being signed has an account and a size.
Upload == [at : {"idle", "limited", "too big", "signing", "granted", "over quota", "failed"},
           by : Accounts \cup {None}, size : Nat]
UploadsInv ==
    /\ upload \in [Uploads -> Upload]
    /\ \A u \in Uploads : upload[u].at = "signing" => upload[u].by \in Accounts /\ upload[u].size > 0

AddressInv(x) ==
    /\ Limits!AtMost(2 * MaxRequests, accepted[x], Window)
    /\ records[x] = None => Books(accepted[x], now, 0, MaxRequests, Window)
    /\ records[x] # None =>
         /\ records[x].resetAt \in Window..now + Window
         /\ Books(accepted[x], records[x].resetAt - Window, records[x].count, MaxRequests, Window)

AccountInv(a) ==
    /\ Limits!AtMost(2 * Quota, granted[a], Hour)
    /\ reservations[a] = None => Books(granted[a], now, 0, Quota, Hour)
    /\ reservations[a] # None =>
         Books(granted[a], reservations[a].startedAt, reservations[a].bytes, Quota, Hour)

TimesInv == accepted \in [Addresses -> Seq(Nat)] /\ granted \in [Accounts -> Seq(Nat)]
AddressesInv == \A x \in Addresses : AddressInv(x)
AccountsInv == \A a \in Accounts : AccountInv(a)

LimitsInv ==
    /\ Limits!TypeOK /\ TimesInv /\ UploadsInv /\ AddressesInv /\ AccountsInv
    /\ preferences = file

LEMMA Natural ==
    /\ MaxRequests \in Nat \ {0} /\ Window \in Nat \ {0} /\ Quota \in Nat \ {0}
    /\ Hour \in Nat \ {0} /\ MaxBytes \in Nat \ {0} /\ CleanupInterval \in Nat \ {0}
    /\ MaxTime \in Nat
  BY LimitsAssumption

\* A missing count is not one.
LEMMA RecordsExist ==
    /\ None \notin [count : 1..MaxRequests, resetAt : Nat]
    /\ None \notin [bytes : 1..Quota, startedAt : 0..now]
  <1>1. [count : 1..MaxRequests, resetAt : Nat] \subseteq [count : Nat, resetAt : Nat]
    BY Natural
  <1>2. [bytes : 1..Quota, startedAt : 0..now] \subseteq [bytes : Nat, startedAt : Nat]
    BY Natural
  <1> QED
    BY <1>1, <1>2, LimitRecordsAssumption

\* A process that has granted nothing has nothing on its books.
LEMMA NoBooks ==
    ASSUME NEW t \in Nat, NEW cap \in Nat, NEW span \in Nat \ {0}
    PROVE  Books(<<>>, t, 0, cap, span) /\ Limits!AtMost(2 * cap, <<>>, span)
  BY DEF Books, Limits!AtMost

LEMMA LimitsInit == Limits!Init => LimitsInv
  <1> SUFFICES ASSUME Limits!Init PROVE LimitsInv
    OBVIOUS
  <1> USE DEF Limits!Init, Limits!Unlimited, Limits!Unreserved, Limits!Never, Limits!Idle
  <1>1. Limits!TypeOK
    <2>1. preferences \in [People -> Themes] /\ now \in Limits!Times /\ lastCleanup = None
      BY Natural DEF Limits!Times
    <2>2. \A u \in Uploads : upload[u].at = "idle"
      OBVIOUS
    <2> QED
      BY <2>1, <2>2 DEF Limits!TypeOK
  <1>2. TimesInv
    BY DEF TimesInv
  <1>3. UploadsInv
    BY DEF UploadsInv, Upload
  <1>4. ASSUME NEW x \in Addresses PROVE AddressInv(x)
    <2>1. accepted[x] = <<>> /\ records[x] = None /\ now = 0
      BY DEF Limits!Init
    <2> QED
      BY <2>1, Natural, NoBooks DEF AddressInv
  <1>5. ASSUME NEW a \in Accounts PROVE AccountInv(a)
    <2>1. granted[a] = <<>> /\ reservations[a] = None /\ now = 0
      BY DEF Limits!Init
    <2> QED
      BY <2>1, Natural, NoBooks DEF AccountInv
  <1> QED
    BY <1>1, <1>2, <1>3, <1>4, <1>5 DEF LimitsInv, AddressesInv, AccountsInv

\* What was granted, with one more, or a block of k more.
LEMMA AppendedOnce ==
    ASSUME NEW times \in Seq(Nat), NEW t \in Nat
    PROVE  /\ Append(times, t) \in Seq(Nat)
           /\ Len(Append(times, t)) = Len(times) + 1
           /\ \A i \in 1..Len(times) : Append(times, t)[i] = times[i]
           /\ \A i \in Len(times) + 1..Len(times) + 1 : Append(times, t)[i] = t
  <1>1. \A i \in Len(times) + 1..Len(times) + 1 : i = Len(times) + 1
    OBVIOUS
  <1> QED
    BY <1>1, AppendProperties

LEMMA Concatenated ==
    ASSUME NEW times \in Seq(Nat), NEW t \in Nat, NEW k \in Nat
    PROVE  /\ times \o [i \in 1..k |-> t] \in Seq(Nat)
           /\ Len(times \o [i \in 1..k |-> t]) = Len(times) + k
           /\ \A i \in 1..Len(times) : (times \o [i_1 \in 1..k |-> t])[i] = times[i]
           /\ \A i \in Len(times) + 1..Len(times) + k : (times \o [i_1 \in 1..k |-> t])[i] = t
  <1> DEFINE block == [i \in 1..k |-> t]
  <1>1. block \in Seq(Nat) /\ Len(block) = k /\ \A i \in 1..k : block[i] = t
    OBVIOUS
  <1>2. Len(times) \in Nat
    OBVIOUS
  <1> HIDE DEF block
  <1>3. /\ times \o block \in Seq(Nat)
        /\ Len(times \o block) = Len(times) + k
        /\ \A i \in 1..Len(times) + k :
             (times \o block)[i] = IF i <= Len(times) THEN times[i] ELSE block[i - Len(times)]
    BY <1>1, ConcatProperties
  <1>4. \A i \in 1..Len(times) : i \in 1..Len(times) + k /\ i <= Len(times)
    BY <1>2
  <1>5. \A i \in Len(times) + 1..Len(times) + k :
          i \in 1..Len(times) + k /\ ~(i <= Len(times)) /\ i - Len(times) \in 1..k
    BY <1>2
  <1>6. /\ \A i \in 1..Len(times) : (times \o block)[i] = times[i]
        /\ \A i \in Len(times) + 1..Len(times) + k : (times \o block)[i] = t
    BY <1>1, <1>3, <1>4, <1>5
  <1> QED
    BY <1>3, <1>6 DEF block

\* What the invariant says of the variables, one by one.
LEMMA StateFacts ==
    ASSUME LimitsInv
    PROVE  /\ now \in Nat /\ now \in 0..MaxTime
           /\ records \in [Addresses -> [count : 1..MaxRequests, resetAt : Nat] \cup {None}]
           /\ lastCleanup \in 0..now \cup {None}
           /\ accepted \in [Addresses -> Seq(Nat)]
           /\ \A x \in Addresses : AddressInv(x)
           /\ reservations \in [Accounts -> [bytes : 1..Quota, startedAt : 0..now] \cup {None}]
           /\ granted \in [Accounts -> Seq(Nat)]
           /\ \A a \in Accounts : AccountInv(a)
           /\ upload \in [Uploads -> Upload]
           /\ \A u \in Uploads :
                upload[u].at = "signing" => upload[u].by \in Accounts /\ upload[u].size > 0
  <1>1. now \in 0..MaxTime
    BY DEF LimitsInv, Limits!TypeOK, Limits!Times
  <1>2. now \in Nat
    BY <1>1, Natural
  <1>3. /\ records \in [Addresses -> [count : 1..MaxRequests, resetAt : Nat] \cup {None}]
        /\ lastCleanup \in 0..now \cup {None}
        /\ reservations \in [Accounts -> [bytes : 1..Quota, startedAt : 0..now] \cup {None}]
    BY Zenon DEF LimitsInv, Limits!TypeOK
  <1> QED
    BY <1>1, <1>2, <1>3, Zenon DEF LimitsInv, TimesInv, AddressesInv, AccountsInv, UploadsInv

\* A record that is not live may be dropped: no request was accepted since.
LEMMA Dropped ==
    ASSUME LimitsInv, NEW x \in Addresses, ~Limits!Live(records[x])
    PROVE  Books(accepted[x], now, 0, MaxRequests, Window)
  <1>1. CASE records[x] = None
    BY <1>1 DEF LimitsInv, AddressesInv, AddressInv
  <1>2. CASE records[x] # None
    <2>1. /\ records[x] \in [count : 1..MaxRequests, resetAt : Nat] /\ accepted[x] \in Seq(Nat)
          /\ now \in Nat
      BY <1>2, StateFacts
    <2>2. records[x].resetAt \in Nat /\ records[x].count \in 1..MaxRequests
          /\ records[x].resetAt <= now
      BY <1>2, <2>1 DEF Limits!Live
    <2>3. /\ records[x].resetAt - Window \in Nat
          /\ Books(accepted[x], records[x].resetAt - Window, records[x].count, MaxRequests, Window)
      BY <1>2, <2>2, Natural DEF LimitsInv, AddressesInv, AddressInv
    <2>4. records[x].count \in 0..MaxRequests /\ records[x].resetAt - Window + Window <= now
      BY <2>2, Natural
    <2> QED
      BY <2>1, <2>3, <2>4, Natural, Renewed
  <1> QED
    BY <1>1, <1>2

\* enforceRequestLimit keeps the books of every address.
LEMMA EnforceStep ==
    ASSUME LimitsInv, NEW x \in Addresses, Limits!Enforce(x), now' = now
    PROVE  /\ records' \in [Addresses -> [count : 1..MaxRequests, resetAt : Nat] \cup {None}]
           /\ lastCleanup' \in 0..now \cup {None}
           /\ accepted' \in [Addresses -> Seq(Nat)]
           /\ AddressesInv'
  <1>1. /\ now \in Nat /\ accepted \in [Addresses -> Seq(Nat)]
        /\ records \in [Addresses -> [count : 1..MaxRequests, resetAt : Nat] \cup {None}]
        /\ lastCleanup \in 0..now \cup {None}
        /\ \A y \in Addresses : AddressInv(y)
    BY StateFacts
  <1>2. lastCleanup' \in 0..now \cup {None}
    BY <1>1 DEF Limits!Enforce
  <1>3. /\ Limits!CleanedUp \in [Addresses -> [count : 1..MaxRequests, resetAt : Nat] \cup {None}]
        /\ \A y \in Addresses : \/ Limits!CleanedUp[y] = records[y]
                                \/ Limits!CleanedUp[y] = None /\ ~Limits!Live(records[y])
    BY <1>1 DEF Limits!CleanedUp
  <1>4. ASSUME NEW y \in Addresses, accepted'[y] = accepted[y], records'[y] = Limits!CleanedUp[y]
        PROVE  AddressInv(y)'
    <2>1. CASE records'[y] = records[y]
      BY <1>1, <1>4, <2>1 DEF AddressInv
    <2>2. CASE records'[y] = None /\ ~Limits!Live(records[y])
      BY <1>1, <1>4, <2>2, Dropped DEF AddressInv
    <2> QED
      BY <1>3, <1>4, <2>1, <2>2
  <1>5. CASE Limits!Full(x)
    <2>1. records' = Limits!CleanedUp /\ accepted' = accepted
      BY <1>5 DEF Limits!Enforce
    <2> QED
      BY <1>1, <1>2, <1>3, <1>4, <2>1 DEF AddressesInv
  <1>6. CASE ~Limits!Full(x)
    <2> DEFINE live == Limits!Live(Limits!CleanedUp[x])
               prior == IF live THEN Limits!CleanedUp[x] ELSE [count |-> 0, resetAt |-> now + Window]
               counted == [prior EXCEPT !.count = @ + 1]
    <2>1. /\ records' = [Limits!CleanedUp EXCEPT ![x] = counted]
          /\ accepted' = [accepted EXCEPT ![x] = Append(@, now)]
      BY <1>6 DEF Limits!Enforce, Limits!Counted
    <2>2. /\ prior \in [count : 0..MaxRequests - 1, resetAt : Nat]
          /\ prior.resetAt \in Window..now + Window /\ prior.resetAt > now
          /\ Books(accepted[x], prior.resetAt - Window, prior.count, MaxRequests, Window)
      <3>1. CASE live
        <4>1. prior = records[x] /\ records[x] # None /\ Limits!Live(records[x])
          BY <1>3, <3>1 DEF Limits!Live
        <4>2. records[x] \in [count : 1..MaxRequests, resetAt : Nat]
              /\ ~(records[x].count >= MaxRequests) /\ records[x].resetAt > now
          BY <1>1, <1>6, <4>1 DEF Limits!Full, Limits!Live
        <4>3. records[x] \in [count : 0..MaxRequests - 1, resetAt : Nat]
          BY <4>2, Natural
        <4> QED
          BY <1>1, <4>1, <4>2, <4>3 DEF AddressInv
      <3>2. CASE ~live
        <4>1. prior = [count |-> 0, resetAt |-> now + Window] /\ ~Limits!Live(records[x])
          BY <1>3, <3>2 DEF Limits!Live
        <4>2. prior.count = 0 /\ prior.resetAt = now + Window /\ now + Window - Window = now
          BY <1>1, <4>1, Natural
        <4>3. Books(accepted[x], now, 0, MaxRequests, Window)
          BY <4>1, Dropped
        <4> QED
          BY <1>1, <4>1, <4>2, <4>3, Natural
      <3> QED
        BY <3>1, <3>2
    <2> HIDE DEF prior
    <2>3. /\ counted \in [count : 1..MaxRequests, resetAt : Nat]
          /\ counted.count = prior.count + 1 /\ counted.resetAt = prior.resetAt
      BY <2>2, Natural
    <2> HIDE DEF counted
    <2>4. /\ records' \in [Addresses -> [count : 1..MaxRequests, resetAt : Nat] \cup {None}]
          /\ accepted' \in [Addresses -> Seq(Nat)]
          /\ records'[x] = counted /\ accepted'[x] = Append(accepted[x], now)
          /\ \A y \in Addresses \ {x} : /\ records'[y] = Limits!CleanedUp[y]
                                        /\ accepted'[y] = accepted[y]
      BY <1>1, <1>3, <2>1, <2>3, AppendedOnce
    <2>5. AddressInv(x)'
      <3>1. /\ prior.count \in Nat /\ prior.count + 1 <= MaxRequests
            /\ prior.resetAt - Window \in Nat /\ prior.resetAt - Window <= now
            /\ now < prior.resetAt - Window + Window
        BY <1>1, <2>2, Natural
      <3>2. Limits!AtMost(2 * MaxRequests, accepted[x], Window)
        BY <1>1 DEF AddressInv
      <3>3. /\ Books(Append(accepted[x], now), prior.resetAt - Window, prior.count + 1,
                     MaxRequests, Window)
            /\ Limits!AtMost(2 * MaxRequests, Append(accepted[x], now), Window)
        <4> DEFINE times == accepted[x]
                   more == Append(times, now)
                   start == prior.resetAt - Window
                   c == prior.count
        <4>1. /\ times \in Seq(Nat) /\ more \in Seq(Nat) /\ Len(more) = Len(times) + 1
              /\ \A i \in 1..Len(times) : more[i] = times[i]
              /\ \A i \in Len(times) + 1..Len(times) + 1 : more[i] = now
          BY <1>1, AppendedOnce
        <4>2. /\ now \in Nat /\ MaxRequests \in Nat /\ Window \in Nat \ {0} /\ 1 \in Nat
              /\ start \in Nat /\ c \in Nat /\ start <= now /\ now < start + Window
              /\ c + 1 <= MaxRequests
              /\ Books(times, start, c, MaxRequests, Window)
              /\ Limits!AtMost(2 * MaxRequests, times, Window)
          BY <1>1, <2>2, <3>1, <3>2, Natural
        <4> HIDE DEF times, more, start, c
        <4>3. /\ Books(more, start, c + 1, MaxRequests, Window)
              /\ Limits!AtMost(2 * MaxRequests, more, Window)
          BY ONLY <4>1, <4>2, Extended
        <4> QED
          BY <4>3 DEF times, more, start, c
      <3>4. counted # None
        BY <2>3, RecordsExist
      <3> QED
        BY <2>2, <2>3, <2>4, <3>3, <3>4 DEF AddressInv
    <2> QED
      BY <1>2, <1>4, <2>4, <2>5 DEF AddressesInv
  <1> QED
    BY <1>5, <1>6

\* The reservation that counts for an account at this time.
LEMMA CurrentBooks ==
    ASSUME LimitsInv, NEW a \in Accounts
    PROVE  /\ Limits!Current(a) \in [bytes : 0..Quota, startedAt : 0..now]
           /\ now < Limits!Current(a).startedAt + Hour
           /\ Books(granted[a], Limits!Current(a).startedAt, Limits!Current(a).bytes, Quota, Hour)
  <1> DEFINE r == reservations[a]
  <1>1. /\ now \in Nat /\ granted[a] \in Seq(Nat)
        /\ r \in [bytes : 1..Quota, startedAt : 0..now] \cup {None} /\ AccountInv(a)
    BY StateFacts
  <1>2. CASE r # None /\ now - r.startedAt < Hour
    <2>1. Limits!Current(a) = r
      BY <1>2 DEF Limits!Current
    <2>2. r \in [bytes : 1..Quota, startedAt : 0..now]
      BY <1>1, <1>2
    <2>3. r \in [bytes : 0..Quota, startedAt : 0..now] /\ r.startedAt \in 0..now
      BY <2>2, Natural
    <2>4. now < r.startedAt + Hour
      BY <1>1, <1>2, <2>3, Natural
    <2>5. Books(granted[a], r.startedAt, r.bytes, Quota, Hour)
      BY <1>1, <1>2 DEF AccountInv
    <2> QED
      BY <2>1, <2>3, <2>4, <2>5
  <1>3. CASE ~(r # None /\ now - r.startedAt < Hour)
    <2>1. Limits!Current(a) = [bytes |-> 0, startedAt |-> now]
      BY <1>3 DEF Limits!Current
    <2>2. Books(granted[a], now, 0, Quota, Hour)
      <3>1. CASE r = None
        BY <1>1, <3>1 DEF AccountInv
      <3>2. CASE r # None
        <4>1. r \in [bytes : 1..Quota, startedAt : 0..now]
          BY <1>1, <3>2
        <4>2. r.bytes \in 0..Quota /\ r.startedAt \in Nat /\ r.startedAt + Hour <= now
          BY <1>1, <1>3, <3>2, <4>1, Natural
        <4>3. Books(granted[a], r.startedAt, r.bytes, Quota, Hour)
          BY <1>1, <3>2 DEF AccountInv
        <4> QED
          BY <1>1, <4>2, <4>3, Natural, Renewed
      <3> QED
        BY <3>1, <3>2
    <2>3. 0 \in 0..Quota /\ now \in 0..now /\ now < now + Hour
      BY <1>1, Natural
    <2> QED
      BY <2>1, <2>2, <2>3
  <1> QED
    BY <1>2, <1>3

\* reserveUploadQuota keeps the books of the account.
LEMMA SignStep ==
    ASSUME LimitsInv, NEW u \in Uploads, Limits!Sign(u)
    PROVE  LimitsInv'
  <1> DEFINE a == upload[u].by
             k == upload[u].size
             current == Limits!Current(a)
  <1>1. /\ now \in Nat /\ a \in Accounts /\ k \in Nat \ {0} /\ upload \in [Uploads -> Upload]
        /\ upload[u].at = "signing"
        /\ reservations \in [Accounts -> [bytes : 1..Quota, startedAt : 0..now] \cup {None}]
        /\ granted \in [Accounts -> Seq(Nat)]
        /\ \A b \in Accounts : AccountInv(b)
    <2>1. upload[u].at = "signing" /\ upload[u] \in Upload
      BY StateFacts DEF Limits!Sign
    <2>2. upload[u].by \in Accounts /\ upload[u].size > 0 /\ upload[u].size \in Nat
      BY <2>1, StateFacts DEF Upload
    <2>3. a \in Accounts /\ k \in Nat \ {0}
      BY <2>2
    <2> HIDE DEF a, k
    <2> QED
      BY <2>1, <2>3, StateFacts
  <1>2. /\ UNCHANGED <<now, records, lastCleanup, accepted, preferences, file>>
        /\ upload'[u].at \in {"granted", "over quota", "failed"}
        /\ upload' \in [Uploads -> Upload]
        /\ \A w \in Uploads \ {u} : upload'[w] = upload[w]
        /\ upload'[u].size = upload[u].size
    <2>1. UNCHANGED <<now, records, lastCleanup, accepted, preferences, file>>
      BY DEF Limits!Sign, Limits!limits, Limits!settings
    <2>2. \E s \in {"granted", "over quota", "failed"} : upload' = [upload EXCEPT ![u].at = s]
      BY Zenon DEF Limits!Sign
    <2>3. PICK s \in {"granted", "over quota", "failed"} : upload' = [upload EXCEPT ![u].at = s]
      BY <2>2
    <2> QED
      BY <1>1, <2>1, <2>3 DEF Upload
  <1>3. UploadsInv'
    BY <1>1, <1>2 DEF LimitsInv, UploadsInv
  <1>4. AddressesInv'
    BY <1>2 DEF LimitsInv, AddressesInv, AddressInv
  <1>5. /\ reservations' \in [Accounts -> [bytes : 1..Quota, startedAt : 0..now] \cup {None}]
        /\ granted' \in [Accounts -> Seq(Nat)]
        /\ AccountsInv'
    <2>1. CASE UNCHANGED <<reservations, granted>>
      BY <1>1, <1>2, <2>1 DEF AccountsInv, AccountInv
    <2>2. CASE /\ Limits!Fits(u)
               /\ reservations' = [reservations EXCEPT ![a] = [current EXCEPT !.bytes = @ + k]]
               /\ granted' = [granted EXCEPT ![a] = @ \o [i \in 1..k |-> now]]
      <3>1. /\ current \in [bytes : 0..Quota, startedAt : 0..now]
            /\ now < current.startedAt + Hour
            /\ Books(granted[a], current.startedAt, current.bytes, Quota, Hour)
        BY <1>1, CurrentBooks
      <3>2. current.bytes + k <= Quota
        BY <2>2 DEF Limits!Fits
      <3> DEFINE taken == [current EXCEPT !.bytes = @ + k]
                 more == granted[a] \o [i \in 1..k |-> now]
      <3>3. /\ taken \in [bytes : 1..Quota, startedAt : 0..now]
            /\ taken.bytes = current.bytes + k /\ taken.startedAt = current.startedAt
        <4>1. current.bytes \in 0..Quota /\ k \in Nat \ {0} /\ current.startedAt \in 0..now
          BY <1>1, <3>1
        <4> HIDE DEF current, k, a
        <4>2. current.bytes + k \in 1..Quota
          BY <3>2, <4>1, Natural
        <4> QED
          BY <3>1, <4>2
      <3> HIDE DEF current, k, a
      <3>4. /\ more \in Seq(Nat) /\ Len(more) = Len(granted[a]) + k
            /\ \A i \in 1..Len(granted[a]) : more[i] = granted[a][i]
            /\ \A i \in Len(granted[a]) + 1..Len(granted[a]) + k : more[i] = now
        BY <1>1, Concatenated
      <3> HIDE DEF taken, more
      <3>5. /\ reservations' \in [Accounts -> [bytes : 1..Quota, startedAt : 0..now] \cup {None}]
            /\ granted' \in [Accounts -> Seq(Nat)]
            /\ reservations'[a] = taken /\ granted'[a] = more
            /\ \A b \in Accounts \ {a} : reservations'[b] = reservations[b] /\ granted'[b] = granted[b]
        BY <1>1, <2>2, <3>3, <3>4 DEF taken, more
      <3>6. /\ Books(more, taken.startedAt, taken.bytes, Quota, Hour)
            /\ Limits!AtMost(2 * Quota, more, Hour)
        <4> DEFINE times == granted[a]
                   start == current.startedAt
                   c == current.bytes
        <4>1. /\ times \in Seq(Nat) /\ now \in Nat /\ Quota \in Nat /\ Hour \in Nat \ {0}
              /\ k \in Nat /\ start \in Nat /\ c \in Nat /\ start <= now /\ now < start + Hour
              /\ c + k <= Quota /\ Books(times, start, c, Quota, Hour)
              /\ Limits!AtMost(2 * Quota, times, Hour)
          BY <1>1, <3>1, <3>2, Natural DEF AccountInv
        <4>2. /\ more \in Seq(Nat) /\ Len(more) = Len(times) + k
              /\ \A i \in 1..Len(times) : more[i] = times[i]
              /\ \A i \in Len(times) + 1..Len(times) + k : more[i] = now
          BY <3>4
        <4> HIDE DEF times, start, c
        <4>3. Books(more, start, c + k, Quota, Hour) /\ Limits!AtMost(2 * Quota, more, Hour)
          BY ONLY <4>1, <4>2, Extended
        <4> QED
          BY <3>3, <4>3 DEF start, c
      <3>7. taken # None
        BY <3>3, RecordsExist
      <3>8. ASSUME NEW b \in Accounts PROVE AccountInv(b)'
        <4>1. CASE b = a
          BY <1>2, <3>5, <3>6, <3>7, <4>1 DEF AccountInv
        <4>2. CASE b # a
          BY <1>1, <1>2, <3>5, <4>2 DEF AccountInv
        <4> QED
          BY <4>1, <4>2
      <3> QED
        BY <3>5, <3>8 DEF AccountsInv
    <2> QED
      BY <2>1, <2>2 DEF Limits!Sign, Limits!quotas
  <1>6. Limits!TypeOK'
    <2>1. \A w \in Uploads : upload'[w].at \in {"signing", "granted"} => upload'[w].size <= MaxBytes
      BY <1>1, <1>2 DEF LimitsInv, Limits!TypeOK
    <2>2. \A w \in Uploads : upload'[w].at \in {"idle", "limited", "too big", "signing", "granted",
                                               "over quota", "failed"}
      BY <1>2 DEF Upload
    <2> QED
      BY <1>2, <1>5, <2>1, <2>2 DEF LimitsInv, Limits!TypeOK, Limits!Times
  <1> QED
    BY <1>2, <1>3, <1>4, <1>5, <1>6 DEF LimitsInv, TimesInv

\* A step that neither asks for more nor lets time pass keeps the books.
LEMMA SameBooks ==
    ASSUME LimitsInv, UNCHANGED <<now, records, lastCleanup, accepted, reservations, granted>>
    PROVE  TimesInv' /\ AddressesInv' /\ AccountsInv'
  BY DEF LimitsInv, TimesInv, AddressesInv, AddressInv, AccountsInv, AccountInv

\* The other parts of the type, for the steps below.
LEMMA Typed ==
    ASSUME LimitsInv, preferences' \in [People -> Themes],
           now' \in 0..MaxTime, now' >= now,
           records' \in [Addresses -> [count : 1..MaxRequests, resetAt : Nat] \cup {None}],
           lastCleanup' \in 0..now' \cup {None},
           reservations' \in [Accounts -> [bytes : 1..Quota, startedAt : 0..now'] \cup {None}],
           upload' \in [Uploads -> Upload],
           \A u \in Uploads : upload'[u].at \in {"signing", "granted"} => upload'[u].size <= MaxBytes
    PROVE  Limits!TypeOK'
  <1>1. \A u \in Uploads : upload'[u].at \in {"idle", "limited", "too big", "signing", "granted",
                                             "over quota", "failed"}
    BY DEF Upload
  <1> QED
    BY <1>1, Zenon DEF Limits!TypeOK, Limits!Times

LEMMA LimitsStep == LimitsInv /\ [Limits!Next]_(Limits!vars) => LimitsInv'
  <1> SUFFICES ASSUME LimitsInv, [Limits!Next]_(Limits!vars) PROVE LimitsInv'
    OBVIOUS
  <1>0. /\ now \in Nat /\ now \in 0..MaxTime /\ now >= now /\ upload \in [Uploads -> Upload]
        /\ preferences \in [People -> Themes] /\ preferences = file
        /\ \A u \in Uploads : upload[u].at \in {"signing", "granted"} => upload[u].size <= MaxBytes
    <2>1. /\ preferences \in [People -> Themes] /\ preferences = file
          /\ \A u \in Uploads : upload[u].at \in {"signing", "granted"} => upload[u].size <= MaxBytes
      BY Zenon DEF LimitsInv, Limits!TypeOK
    <2>2. now \in Nat /\ now \in 0..MaxTime /\ upload \in [Uploads -> Upload]
      BY StateFacts
    <2> QED
      BY <2>1, <2>2
  <1>1. ASSUME NEW x \in Addresses, Limits!Serve(x) PROVE LimitsInv'
    <2>1. /\ Limits!Enforce(x)
          /\ UNCHANGED <<now, reservations, granted, upload, preferences, file>>
      BY <1>1 DEF Limits!Serve, Limits!quotas, Limits!settings
    <2>2. Limits!TypeOK' /\ TimesInv' /\ AddressesInv'
      BY <1>0, <2>1, StateFacts, EnforceStep, Typed DEF TimesInv
    <2>3. AccountsInv' /\ UploadsInv'
      BY <2>1 DEF LimitsInv, AccountsInv, AccountInv, UploadsInv
    <2> QED
      BY <1>0, <2>1, <2>2, <2>3 DEF LimitsInv
  <1>2. ASSUME NEW u \in Uploads, NEW x \in Addresses, NEW a \in Accounts, NEW size \in Limits!Sizes,
               Limits!BeginUpload(u, x, a, size)
        PROVE  LimitsInv'
    <2>1. /\ Limits!Enforce(x)
          /\ UNCHANGED <<now, reservations, granted, preferences, file>>
      BY <1>2 DEF Limits!BeginUpload, Limits!quotas, Limits!settings
    <2>2. size \in Nat /\ size > 0
      BY Natural DEF Limits!Sizes
    <2>3. PICK s \in {"limited", "too big", "signing"} :
            /\ upload' = [upload EXCEPT ![u] = [at |-> s, by |-> a, size |-> size]]
            /\ s = "signing" => size <= MaxBytes
      <3>1. \/ /\ size > MaxBytes
               /\ upload' = [upload EXCEPT ![u] = [at |-> "too big", by |-> a, size |-> size]]
            \/ upload' = [upload EXCEPT ![u] = [at |-> "limited", by |-> a, size |-> size]]
            \/ /\ ~(size > MaxBytes)
               /\ upload' = [upload EXCEPT ![u] = [at |-> "signing", by |-> a, size |-> size]]
        BY <1>2, Zenon DEF Limits!BeginUpload
      <3>2. ~(size > MaxBytes) => size <= MaxBytes
        BY <2>2, Natural
      <3> QED
        BY <3>1, <3>2
    <2>4. /\ upload' \in [Uploads -> Upload]
          /\ upload'[u] = [at |-> s, by |-> a, size |-> size]
          /\ \A w \in Uploads \ {u} : upload'[w] = upload[w]
      BY <1>0, <2>2, <2>3 DEF Upload
    <2>5. /\ \A w \in Uploads : upload'[w].at \in {"signing", "granted"} => upload'[w].size <= MaxBytes
          /\ \A w \in Uploads : upload'[w].at = "signing" => upload'[w].by \in Accounts /\ upload'[w].size > 0
      BY <1>0, <2>2, <2>3, <2>4, StateFacts
    <2>6. Limits!TypeOK' /\ TimesInv' /\ AddressesInv'
      BY <1>0, <2>1, <2>4, <2>5, StateFacts, EnforceStep, Typed DEF TimesInv
    <2>7. AccountsInv'
      BY <2>1 DEF LimitsInv, AccountsInv, AccountInv
    <2> QED
      BY <1>0, <2>1, <2>4, <2>5, <2>6, <2>7 DEF LimitsInv, UploadsInv
  <1>3. ASSUME NEW u \in Uploads, Limits!Sign(u) PROVE LimitsInv'
    BY <1>3, SignStep
  <1>4. ASSUME NEW p \in People, NEW theme \in Themes, Limits!Update(p, theme) PROVE LimitsInv'
    <2>1. /\ UNCHANGED <<now, records, lastCleanup, accepted, reservations, granted, upload>>
          /\ file' = [preferences EXCEPT ![p] = theme] /\ preferences' = file'
      BY <1>4 DEF Limits!Update, Limits!limits, Limits!quotas
    <2>2. Limits!TypeOK'
      BY <1>0, <2>1, StateFacts, Typed
    <2>3. UploadsInv'
      BY <2>1 DEF LimitsInv, UploadsInv
    <2> QED
      BY <2>1, <2>2, <2>3, SameBooks DEF LimitsInv
  <1>5. ASSUME Limits!Tick PROVE LimitsInv'
    <2>1. /\ now < MaxTime /\ now' = now + 1
          /\ UNCHANGED <<records, lastCleanup, accepted, reservations, granted, upload, preferences, file>>
      BY <1>5 DEF Limits!Tick, Limits!limits, Limits!quotas, Limits!settings
    <2>2. now' \in 0..MaxTime /\ now' \in Nat /\ now' >= now /\ now <= now'
      BY <1>0, <2>1, Natural
    <2>3. 0..now \subseteq 0..now'
      BY <1>0, <2>2
    <2>4. reservations \in [Accounts -> [bytes : 1..Quota, startedAt : 0..now'] \cup {None}]
      <3>1. [bytes : 1..Quota, startedAt : 0..now] \subseteq [bytes : 1..Quota, startedAt : 0..now']
        BY <2>3
      <3> QED
        BY <3>1, StateFacts
    <2>5. Limits!TypeOK'
      <3>1. lastCleanup' \in 0..now' \cup {None}
        BY <2>1, <2>3, StateFacts
      <3> QED
        BY <1>0, <2>1, <2>2, <2>4, <3>1, StateFacts, Typed
    <2>6. ASSUME NEW x \in Addresses PROVE AddressInv(x)'
      <3>1. AddressInv(x) /\ accepted[x] \in Seq(Nat)
        BY StateFacts
      <3>2. CASE records[x] = None
        <4>1. Books(accepted[x], now, 0, MaxRequests, Window)
          BY <3>1, <3>2 DEF AddressInv
        <4>2. Books(accepted[x], now', 0, MaxRequests, Window)
          BY <1>0, <2>2, <3>1, <4>1, Natural, Later
        <4> QED
          BY <2>1, <3>1, <3>2, <4>2 DEF AddressInv
      <3>3. CASE records[x] # None
        <4>1. records[x].resetAt \in Window..now + Window => records[x].resetAt \in Window..now' + Window
          BY <1>0, <2>2, Natural
        <4> QED
          BY <2>1, <3>1, <3>3, <4>1 DEF AddressInv
      <3> QED
        BY <3>2, <3>3
    <2>7. ASSUME NEW a \in Accounts PROVE AccountInv(a)'
      <3>1. AccountInv(a) /\ granted[a] \in Seq(Nat)
        BY StateFacts
      <3>2. reservations[a] = None => Books(granted[a], now', 0, Quota, Hour)
        BY <1>0, <2>2, <3>1, Natural, Later DEF AccountInv
      <3> QED
        BY <2>1, <3>1, <3>2 DEF AccountInv
    <2> QED
      BY <2>1, <2>5, <2>6, <2>7 DEF LimitsInv, TimesInv, UploadsInv, AddressesInv, AccountsInv
  <1>6. ASSUME Limits!Restart PROVE LimitsInv'
    <2>1. /\ now' = now /\ records' = [x \in Addresses |-> None] /\ lastCleanup' = None
          /\ accepted' = [x \in Addresses |-> <<>>]
          /\ reservations' = [a \in Accounts |-> None] /\ granted' = [a \in Accounts |-> <<>>]
          /\ preferences' = file'
          /\ \/ file' = file
             \/ \E p \in People, theme \in Themes : file' = [file EXCEPT ![p] = theme]
          /\ upload' = [u \in Uploads |-> IF upload[u].at = "signing"
                                          THEN [upload[u] EXCEPT !.at = "failed"] ELSE upload[u]]
      BY <1>6 DEF Limits!Restart, Limits!Unlimited, Limits!Unreserved, Limits!Never
    <2>2. file' \in [People -> Themes]
      BY <1>0, <2>1
    <2>3. /\ upload' \in [Uploads -> Upload]
          /\ \A u \in Uploads : upload'[u].at # "signing"
          /\ \A u \in Uploads : upload'[u].at = "granted" => upload'[u].size <= MaxBytes
      BY <1>0, <2>1 DEF Upload
    <2>4. Limits!TypeOK'
      BY <1>0, <2>1, <2>2, <2>3, Typed
    <2>5. TimesInv'
      BY <2>1 DEF TimesInv
    <2>6. ASSUME NEW x \in Addresses PROVE AddressInv(x)'
      <3>1. accepted'[x] = <<>> /\ records'[x] = None /\ now' = now
        BY <2>1
      <3> QED
        BY <1>0, <3>1, Natural, NoBooks DEF AddressInv
    <2>7. ASSUME NEW a \in Accounts PROVE AccountInv(a)'
      <3>1. granted'[a] = <<>> /\ reservations'[a] = None /\ now' = now
        BY <2>1
      <3> QED
        BY <1>0, <3>1, Natural, NoBooks DEF AccountInv
    <2> QED
      BY <2>1, <2>3, <2>4, <2>5, <2>6, <2>7 DEF LimitsInv, UploadsInv, AddressesInv, AccountsInv
  <1>7. ASSUME UNCHANGED Limits!vars PROVE LimitsInv'
    <2>1. UNCHANGED <<now, records, lastCleanup, accepted, reservations, granted, upload, preferences, file>>
      BY <1>7 DEF Limits!vars, Limits!limits, Limits!quotas, Limits!settings
    <2>2. Limits!TypeOK'
      BY <1>0, <2>1, StateFacts, Typed
    <2>3. UploadsInv'
      BY <2>1 DEF LimitsInv, UploadsInv
    <2> QED
      BY <1>0, <2>1, <2>2, <2>3, SameBooks DEF LimitsInv
  <1> QED
    BY <1>1, <1>2, <1>3, <1>4, <1>5, <1>6, <1>7 DEF Limits!Next

LEMMA LimitsSafe == LimitsInv => LimitsHold
  <1> SUFFICES ASSUME LimitsInv PROVE LimitsHold
    OBVIOUS
  <1>1. ASSUME NEW x \in Addresses
        PROVE  /\ Limits!AtMost(2 * MaxRequests, accepted[x], Window)
               /\ Limits!Live(records[x]) =>
                    records[x].count =
                      Cardinality({i \in DOMAIN accepted[x] : accepted[x][i] + Window >= records[x].resetAt})
    <2>1. AddressInv(x) /\ accepted[x] \in Seq(Nat) /\ now \in Nat
      BY StateFacts
    <2>2. ASSUME Limits!Live(records[x])
          PROVE  records[x].count =
                   Cardinality({i \in DOMAIN accepted[x] : accepted[x][i] + Window >= records[x].resetAt})
      <3> DEFINE start == records[x].resetAt - Window
      <3>1. records[x] \in [count : 1..MaxRequests, resetAt : Nat] /\ records[x] # None
        BY <2>2, StateFacts DEF Limits!Live
      <3>2. /\ records[x].resetAt \in Window..now + Window
            /\ Books(accepted[x], start, records[x].count, MaxRequests, Window)
        BY <2>1, <3>1 DEF AddressInv
      <3>3. start \in Nat /\ records[x].count \in Nat /\ start + Window = records[x].resetAt
        BY <2>1, <3>1, <3>2, Natural
      <3>4. Cardinality({i \in DOMAIN accepted[x] : accepted[x][i] >= start}) = records[x].count
        BY <2>1, <3>2, <3>3, Natural, Counts
      <3>5. \A i \in DOMAIN accepted[x] : accepted[x][i] \in Nat
        BY <2>1
      <3>6. \A i \in DOMAIN accepted[x] :
              accepted[x][i] >= start <=> accepted[x][i] + Window >= records[x].resetAt
        BY <3>3, <3>5, Natural
      <3>7. {i \in DOMAIN accepted[x] : accepted[x][i] >= start}
              = {i \in DOMAIN accepted[x] : accepted[x][i] + Window >= records[x].resetAt}
        BY <3>6
      <3> QED
        BY <3>4, <3>7
    <2> QED
      BY <2>1, <2>2 DEF AddressInv
  <1>2. ASSUME NEW a \in Accounts
        PROVE  Limits!AtMost(2 * Quota, granted[a], Hour) /\ Limits!Current(a).bytes <= Quota
    <2>1. Limits!Current(a).bytes \in 0..Quota
      BY CurrentBooks
    <2> QED
      BY <2>1, StateFacts, Natural DEF AccountInv
  <1>3. preferences = file
    BY DEF LimitsInv
  <1>4. /\ \A x \in Addresses :
             /\ Limits!AtMost(2 * MaxRequests, accepted[x], Window)
             /\ Limits!Live(records[x]) =>
                  records[x].count =
                    Cardinality({i \in DOMAIN accepted[x] : accepted[x][i] + Window >= records[x].resetAt})
        /\ \A a \in Accounts : Limits!AtMost(2 * Quota, granted[a], Hour) /\ Limits!Current(a).bytes <= Quota
        /\ preferences = file
    BY <1>1, <1>2, <1>3
  <1>5. \A S : Limits!Cardinality(S) = Cardinality(S)
    BY DEF Limits!Cardinality, Cardinality
  <1> QED
    BY ONLY <1>4, <1>5 DEF LimitsHold, Limits!LimitsHold

-----------------------------------------------------------------------------
\* A step of the process is a step of each of its parts, or leaves the part alone.
LEMMA ProcessSteps ==
    ASSUME Steps
    PROVE  [Next]_vars /\ [Web!Next]_(Web!vars) /\ [Limits!Next]_(Limits!vars)
  <1> USE DEF codes, web, services, vars, Web!vars, Web!rows,
              Limits!vars, Limits!limits, Limits!quotas, Limits!settings
  <1>1. CASE UNCHANGED <<vars, web, services>>
    BY <1>1
  <1>2. ASSUME NEW r \in Starts,
               RefuseStart(r) \/ Start(r) \/ Sent(r) \/ NotSent(r) \/ TimeOut(r) \/ Arrive(r),
               UNCHANGED <<web, services>>
        PROVE  [Next]_vars /\ [Web!Next]_(Web!vars) /\ [Limits!Next]_(Limits!vars)
    <2>1. UNCHANGED allowed
      BY <1>2 DEF RefuseStart, Start, Sent, NotSent, TimeOut, Arrive
    <2> QED
      BY <1>2, <2>1 DEF Next
  <1>3. ASSUME NEW v \in Verifies, RefuseVerify(v) \/ SignIn(v) \/ GuessWrongly(v),
               UNCHANGED <<web, services>>
        PROVE  [Next]_vars /\ [Web!Next]_(Web!vars) /\ [Limits!Next]_(Limits!vars)
    <2>1. UNCHANGED allowed
      BY <1>3 DEF RefuseVerify, SignIn, GuessWrongly
    <2> QED
      BY <1>3, <2>1 DEF Next
  <1>4. ASSUME Expire \/ CoolDown \/ Sweep, UNCHANGED <<web, services>>
        PROVE  [Next]_vars /\ [Web!Next]_(Web!vars) /\ [Limits!Next]_(Limits!vars)
    <2>1. UNCHANGED allowed
      BY <1>4 DEF Expire, CoolDown, Sweep
    <2> QED
      BY <1>4, <2>1 DEF Next
  <1>5. ASSUME NEW q \in WebRequests, Web!Ask(q) \/ Web!Serve(q) \/ Web!Lapse(q) \/ Web!Age(q),
               UNCHANGED <<codes, services>>
        PROVE  [Next]_vars /\ [Web!Next]_(Web!vars) /\ [Limits!Next]_(Limits!vars)
    <2>1. UNCHANGED allowed
      BY <1>5 DEF Web!Ask, Web!Serve, Web!BeginSignIn, Web!CleanUp, Web!Create, Web!Lookup,
         Web!Admit, Web!Dismiss, Web!LogOut, Web!Revoke, Web!StatementFails, Web!Lapse, Web!Age
    <2> QED
      BY <1>5, <2>1 DEF Web!Next
  <1>6. ASSUME Web!HourPasses, UNCHANGED <<codes, services>>
        PROVE  [Next]_vars /\ [Web!Next]_(Web!vars) /\ [Limits!Next]_(Limits!vars)
    <2>1. UNCHANGED allowed
      BY <1>6 DEF Web!HourPasses
    <2> QED
      BY <1>6, <2>1 DEF Web!Next
  <1>7. ASSUME EditRoster, UNCHANGED <<web, services>>
        PROVE  [Next]_vars /\ [Web!Next]_(Web!vars) /\ [Limits!Next]_(Limits!vars)
    BY <1>7 DEF EditRoster, Web!EditRoster, Next, Web!Next
  <1>8. ASSUME Restart, Web!Restart, Limits!Restart
        PROVE  [Next]_vars /\ [Web!Next]_(Web!vars) /\ [Limits!Next]_(Limits!vars)
    BY <1>8 DEF Next, Web!Next, Limits!Next
  <1>9. ASSUME Limits!Next, UNCHANGED <<vars, web>>
        PROVE  [Next]_vars /\ [Web!Next]_(Web!vars) /\ [Limits!Next]_(Limits!vars)
    BY <1>9
  <1>10. ServiceNext => Limits!Next /\ UNCHANGED <<vars, web>>
    BY DEF ServiceNext, Limits!Next
  <1>11. CASE SignInNext
    <2> HIDE DEF codes, web, services, vars, Web!vars, Web!rows,
                 Limits!vars, Limits!limits, Limits!quotas, Limits!settings
    <2> QED
      BY <1>2, <1>3, <1>4, <1>5, <1>6, <1>7, <1>8, <1>11, Zenon DEF SignInNext, Web!Serve
  <1> QED
    BY <1>1, <1>9, <1>10, <1>11 DEF Steps

\* The invariant of the process.
ProcessInv == CodesInv /\ WebInv /\ LimitsInv

THEOREM ProcessInvariant == FairSignIn => []ProcessInv
  <1>1. SignInInit => ProcessInv
    BY CodesInit, WebInit, LimitsInit DEF SignInInit, ProcessInv
  <1>2. ProcessInv /\ Steps => ProcessInv'
    BY ProcessSteps, CodesStep, WebStep, LimitsStep DEF ProcessInv
  <1> QED
    BY <1>1, <1>2, PTL DEF FairSignIn, Steps

\* The types of the variables of all three.
THEOREM ProcessTyped == FairSignIn => []TypesOK
  <1>1. ProcessInv => TypesOK
    BY DEF ProcessInv, CodesInv, WebInv, LimitsInv, TypesOK
  <1> QED
    BY <1>1, ProcessInvariant, PTL

\* What holds of the codes on their own holds in the process, whatever
\* the roster does between the requests of both (verifyEmailSignInCode).
THEOREM ProcessCodesHold == FairSignIn => []CodesHold
  <1>1. SignInInit => Init
    BY DEF SignInInit
  <1>2. Steps => [Next]_vars
    BY ProcessSteps
  <1>3. FairSignIn => Spec
    BY <1>1, <1>2, PTL DEF FairSignIn, Spec, Steps
  <1> QED
    BY <1>3, CodesSound, PTL

\* A session that ended is over for good, also for requests in flight, and one sign-in at
\* a time deletes old rows (WebSessionService, registerWebSessionSupport).
THEOREM ProcessEndsHold == FairSignIn => []EndsHold
  <1>1. WebInv => EndsHold
    <2>1. LateInv => Web!NoServiceAfterTheEnd
      BY DEF LateInv, Web!NoServiceAfterTheEnd
    <2> QED
      BY <2>1 DEF WebInv, EndsHold, Web!EndsHold
  <1> QED
    BY <1>1, ProcessInvariant, PTL DEF ProcessInv

\* No address gets more than two windows' worth of requests in the time of one and no
\* account more than two hours' worth of bytes in an hour, however the windows, the
\* cleanups and the uploads being signed fall (enforceRequestLimit, reserveUploadQuota).
THEOREM ProcessLimitsHold == FairSignIn => []LimitsHold
  BY LimitsSafe, ProcessInvariant, PTL DEF ProcessInv
=============================================================================
