------------------------ MODULE MobileSessionsProofs ------------------------
(***************************************************************************)
(* What MobileSessions guarantees for any requests and devices.  The       *)
(* safety properties are not inductive: they hold because names are fresh  *)
(* (NameInv), because of the rows a transaction holds at each of its       *)
(* statements (RowInv), and because a revocation that has passed a session *)
(* holds its row, if there is one to revoke, and all its refresh tokens    *)
(* (SweptInv).                                                             *)
(***************************************************************************)
EXTENDS MobileSessions, TLAPS

Named == {x \in Requests : family[x] # None}
Revoking == {"revoke", "sweep", "commit"}
Rotating == {"consume", "extend", "rotate"}
Closings == {"loggedOut", "reused", "expired", "expelled"}
Ended == Closings \cup {"signedIn"}


\* Whatever a row or a request refers to was created, a request's own name not before the
\* transaction that gives it away.
NamesOf(r) ==
    /\ family[r] \in Named \cup {None}
    /\ req[r].token \in Named \cup {None}
    /\ req[r].session \in Named \cup {None}
    /\ req[r].todo \cup req[r].swept \subseteq Named
    /\ sessionRows[r] \cup tokenRows[r] \subseteq Named
    /\ stage[r] \in {"idle", "begin"} \cup Rotating => r \notin Named
    /\ stage[r] \in Revoking /\ req[r].kind = "signIn" => r \notin Named
    /\ stage[r] \in {"signedIn", "rotated"} => r \in Named
NameInv ==
    /\ active \cup revoked \cup lapsed \cup access \cup fresh \cup spent \subseteq Named
    /\ \A r \in Requests : NamesOf(r)

\* The rows a transaction holds at each statement, and that nobody takes away meanwhile.
RowsOf(r) ==
    /\ stage[r] \notin Revoking \cup {"extend", "rotate"} =>
          sessionRows[r] = {} /\ tokenRows[r] = {}
    /\ stage[r] = "sweep" => sessionRows[r] \subseteq req[r].swept \cup {req[r].session}
    /\ stage[r] \in {"revoke", "commit"} => sessionRows[r] \subseteq req[r].swept
    /\ stage[r] \in {"revoke", "sweep"} => req[r].session \in Named
    /\ stage[r] \in Revoking /\ req[r].kind # "signIn" => req[r].answer \in Closings
    /\ stage[r] \in Rotating =>
          /\ req[r].kind = "refresh"
          /\ req[r].token \in Named
          /\ req[r].session = family[req[r].token]
    /\ stage[r] = "extend" => sessionRows[r] = {}
    /\ stage[r] \in {"extend", "rotate"} =>
          tokenRows[r] = {req[r].token} /\ req[r].token \in fresh
    /\ stage[r] = "rotate" =>
          sessionRows[r] = {req[r].session} /\ req[r].session \in active
    /\ stage[r] \in {"touch", "route"} => req[r].kind = "use"
RowInv == \A r \in Requests : RowsOf(r)

\* What a revocation has dealt with stays dealt with until it commits.
SweptOf(r) ==
    /\ stage[r] \in {"idle", "begin", "touch", "route"} \cup Rotating => req[r].swept = {}
    /\ stage[r] = "sweep" /\ req[r].session \in active => req[r].session \in sessionRows[r]
    /\ stage[r] \in Revoking =>
          \A s \in req[r].swept :
              /\ s \in active => s \in sessionRows[r]
              /\ \A t \in fresh : family[t] = s => t \in tokenRows[r]
SweptInv == \A r \in Requests : SweptOf(r)

\* A token that was exchanged is spent.
ExchangeInv ==
    \A r \in Named : req[r].kind = "refresh" => req[r].token \notin fresh

IInv ==
    /\ TypeOK /\ NameInv /\ RowInv /\ SweptInv
    /\ OneLivePair /\ RevocationHolds /\ ExchangeInv

LEMMA IInvInit == Init => IInv
<1> SUFFICES ASSUME Init PROVE IInv
  OBVIOUS
<1> USE NamesAssumption DEF Init
<1>1. TypeOK
  BY DEF TypeOK, Stages, Request, Kinds, Answers
<1>2. NameInv /\ ExchangeInv
  BY DEF NameInv, NamesOf, Named, Revoking, ExchangeInv
<1>3. RowInv /\ SweptInv
  BY DEF RowInv, RowsOf, SweptInv, SweptOf, Revoking, Rotating
<1>4. OneLivePair /\ RevocationHolds
  BY DEF OneLivePair, RevocationHolds
<1> QED
  BY <1>1, <1>2, <1>3, <1>4 DEF IInv

-----------------------------------------------------------------------------
(***************************************************************************)
(* Steps of one request between commits: the database's committed rows are *)
(* as they were, and so is everything of the other requests.               *)
(***************************************************************************)
\* Only request r moves.
Moves(r) ==
    /\ stage' = [stage EXCEPT ![r] = stage'[r]]
    /\ req' = [req EXCEPT ![r] = req'[r]]
    /\ sessionRows' = [sessionRows EXCEPT ![r] = sessionRows'[r]]
    /\ tokenRows' = [tokenRows EXCEPT ![r] = tokenRows'[r]]

\* What moves keeps its types, and rows stay held by one.
Typed(r) ==
    /\ stage'[r] \in Stages /\ req'[r] \in Request
    /\ sessionRows'[r] \subseteq Requests /\ tokenRows'[r] \subseteq Requests
    /\ \A o \in Requests \ {r} : /\ sessionRows'[r] \cap sessionRows[o] = {}
                                 /\ tokenRows'[r] \cap tokenRows[o] = {}

LEMMA TypeMoves ==
    ASSUME TypeOK, NEW r \in Requests, UNCHANGED rows, Moves(r), Typed(r)
    PROVE  TypeOK'
<1>1. /\ stage' \in [Requests -> Stages] /\ req' \in [Requests -> Request]
      /\ sessionRows' \in [Requests -> SUBSET Requests]
      /\ tokenRows' \in [Requests -> SUBSET Requests]
  BY DEF TypeOK, Moves, Typed
<1>2. \A p, q \in Requests : p # q =>
         sessionRows'[p] \cap sessionRows'[q] = {} /\ tokenRows'[p] \cap tokenRows'[q] = {}
  BY DEF TypeOK, Moves, Typed
<1> QED
  BY <1>1, <1>2 DEF TypeOK, rows

\* A step of one request keeps the invariant if it does for that request.
LEMMA LocalStep ==
    ASSUME IInv, NEW r \in Requests, UNCHANGED rows, Moves(r), Typed(r),
           NamesOf(r)', RowsOf(r)', SweptOf(r)',
           stage'[r] \notin Ended,
           r \in Named => req'[r].kind = req[r].kind /\ req'[r].token = req[r].token
    PROVE  IInv'
<1>1. TypeOK'
  BY TypeMoves DEF IInv
<1>2. \A o \in Requests \ {r} : /\ stage'[o] = stage[o] /\ req'[o] = req[o]
                                /\ sessionRows'[o] = sessionRows[o]
                                /\ tokenRows'[o] = tokenRows[o]
  BY DEF IInv, TypeOK, Moves
<1>3. Named' = Named /\ Named \subseteq Requests
  BY DEF Named, rows
<1>4. NameInv'
  <2>1. ASSUME NEW o \in Requests \ {r} PROVE NamesOf(o)'
    BY <1>2, <1>3 DEF IInv, NameInv, NamesOf, rows
  <2> QED
    BY <1>3, <2>1 DEF IInv, NameInv, rows
<1>5. RowInv'
  <2>1. ASSUME NEW o \in Requests \ {r} PROVE RowsOf(o)'
    BY <1>2, <1>3 DEF IInv, RowInv, RowsOf, rows
  <2> QED
    BY <2>1 DEF RowInv
<1>6. SweptInv'
  <2>1. ASSUME NEW o \in Requests \ {r} PROVE SweptOf(o)'
    BY <1>2, <1>3 DEF IInv, SweptInv, SweptOf, rows
  <2> QED
    BY <2>1 DEF SweptInv
<1>7. OneLivePair'
  BY DEF IInv, OneLivePair, rows
<1>8. RevocationHolds'
  BY <1>2 DEF IInv, RevocationHolds, Ended, Closings, rows
<1>9. ExchangeInv'
  BY <1>2, <1>3 DEF IInv, ExchangeInv, rows
<1> QED
  BY <1>1, <1>4, <1>5, <1>6, <1>7, <1>8, <1>9 DEF IInv

\* What a request does at the end of one session's revocation, and at the start of all.
LEMMA ContinueEffect ==
    ASSUME TypeOK, NEW r \in Requests, NEW sessions \in SUBSET Requests,
           NEW request \in Request, Continue(r, sessions, request)
    PROVE  /\ stage' = [stage EXCEPT ![r] = stage'[r]] /\ req' = [req EXCEPT ![r] = req'[r]]
           /\ req'[r] \in Request
           /\ \/ stage'[r] = "commit" /\ req'[r].session = request.session
              \/ stage'[r] = "revoke" /\ req'[r].session \in sessions
           /\ req'[r].kind = request.kind /\ req'[r].token = request.token
           /\ req'[r].swept = request.swept /\ req'[r].answer = request.answer
           /\ req'[r].todo \subseteq sessions
<1>1. CASE /\ sessions = {} /\ Goto(r, "commit")
           /\ req' = [req EXCEPT ![r] = [request EXCEPT !.todo = {}]]
  BY <1>1 DEF TypeOK, Goto, Request
<1>2. ASSUME NEW s \in sessions, Goto(r, "revoke"),
             req' = [req EXCEPT ![r] = [request EXCEPT !.session = s, !.todo = sessions \ {s}]]
      PROVE  /\ stage' = [stage EXCEPT ![r] = stage'[r]] /\ req' = [req EXCEPT ![r] = req'[r]]
             /\ req'[r] \in Request
             /\ stage'[r] = "revoke" /\ req'[r].session \in sessions
             /\ req'[r].kind = request.kind /\ req'[r].token = request.token
             /\ req'[r].swept = request.swept /\ req'[r].answer = request.answer
             /\ req'[r].todo \subseteq sessions
  <2>1. stage' = [stage EXCEPT ![r] = "revoke"] /\ stage'[r] = "revoke"
    BY <1>2 DEF TypeOK, Goto
  <2>2. /\ req'[r] = [request EXCEPT !.session = s, !.todo = sessions \ {s}]
        /\ req' = [req EXCEPT ![r] = req'[r]]
    BY <1>2 DEF TypeOK
  <2> QED
    BY <2>1, <2>2 DEF Request
<1>3. CASE \E s \in sessions :
             /\ Goto(r, "revoke")
             /\ req' = [req EXCEPT ![r] = [request EXCEPT !.session = s, !.todo = sessions \ {s}]]
  BY <1>2, <1>3
<1> QED
  BY <1>1, <1>3 DEF Continue

\* A request that has revoked nothing yet starts to, keeping the rows it holds: none of
\* sessions, and of tokens none that the database would still have to wait for.
LEMMA StartRevocation ==
    ASSUME IInv, NEW r \in Requests, NEW sessions \in SUBSET Named,
           NEW answer \in Answers, Revoke(r, sessions, answer), UNCHANGED <<rows, held>>,
           stage[r] \in {"begin", "consume", "extend", "route"},
           stage[r] # "begin" => req[r].kind # "signIn",
           req[r].kind = "signIn" \/ answer \in Closings
    PROVE  IInv'
<1> DEFINE request == [req[r] EXCEPT !.answer = answer]
<1>a. TypeOK /\ req[r] \in Request /\ sessions \in SUBSET Requests
  BY DEF IInv, TypeOK, Named
<1>b. /\ request \in Request /\ request.kind = req[r].kind /\ request.token = req[r].token
      /\ request.session = req[r].session /\ request.swept = req[r].swept
      /\ request.answer = answer
  BY <1>a DEF Request
<1>1. /\ stage' = [stage EXCEPT ![r] = stage'[r]] /\ req' = [req EXCEPT ![r] = req'[r]]
      /\ req'[r] \in Request
      /\ \/ stage'[r] = "commit" /\ req'[r].session = req[r].session
         \/ stage'[r] = "revoke" /\ req'[r].session \in sessions
      /\ req'[r].kind = req[r].kind /\ req'[r].token = req[r].token
      /\ req'[r].swept = req[r].swept /\ req'[r].answer = answer
      /\ req'[r].todo \subseteq sessions
  <2> HIDE DEF request
  <2>1. Continue(r, sessions, request)
    BY DEF Revoke, request
  <2> QED
    BY <1>a, <1>b, <2>1, ContinueEffect
<1>2. NamesOf(r) /\ RowsOf(r) /\ SweptOf(r)
  BY DEF IInv, NameInv, RowInv, SweptInv
<1>3. /\ sessionRows' = sessionRows /\ tokenRows' = tokenRows
      /\ sessionRows[r] = {} /\ req[r].swept = {}
  BY <1>2 DEF held, RowsOf, SweptOf, Revoking, Rotating
<1>4. Named' = Named
  BY DEF Named, rows
<1>5. Moves(r) /\ Typed(r)
  BY <1>1, <1>3, <1>a DEF Moves, Typed, Stages, Working, TypeOK
<1>6. NamesOf(r)'
  BY <1>1, <1>2, <1>3, <1>4 DEF NamesOf, Rotating, Revoking, rows
<1>7. RowsOf(r)'
  BY <1>1, <1>2, <1>3, <1>4 DEF RowsOf, Rotating, Revoking, rows
<1>8. SweptOf(r)'
  BY <1>1, <1>3 DEF SweptOf, Revoking, Rotating
<1> QED
  BY <1>1, <1>5, <1>6, <1>7, <1>8, LocalStep DEF Ended, Closings

LEMMA BeginSignInStep == ASSUME IInv, NEW r \in Requests, BeginSignIn(r) PROVE IInv'
<1> DEFINE sessions == {s \in active : device[s] = req[r].device}
<1>1. sessions \in SUBSET Named
  BY DEF IInv, NameInv
<1>2. /\ Revoke(r, sessions, "signedIn") /\ UNCHANGED <<rows, held>>
      /\ stage[r] = "begin" /\ req[r].kind = "signIn" /\ "signedIn" \in Answers
  BY DEF BeginSignIn, Answers
<1> HIDE DEF sessions
<1> QED
  BY <1>1, <1>2, StartRevocation

LEMMA AskStep == ASSUME IInv, NEW r \in Requests, Ask(r) PROVE IInv'
<1>1. Named' = Named /\ r \notin Named /\ TypeOK /\ Named \subseteq Requests
  BY DEF Named, rows, Ask, IInv, NameInv, NamesOf
<1>2. Issued \subseteq Named
  BY DEF Issued, IInv, NameInv, NamesOf
<1>3. /\ stage' = [stage EXCEPT ![r] = "begin"] /\ stage'[r] = "begin" /\ stage[r] = "idle"
      /\ sessionRows' = sessionRows /\ tokenRows' = tokenRows
  BY <1>1 DEF Ask, Goto, held, TypeOK
<1>4. /\ req' = [req EXCEPT ![r] = req'[r]] /\ req'[r] \in Request
      /\ req'[r].token \in Named \cup {None} /\ req'[r].session = req[r].session
      /\ req'[r].todo = req[r].todo /\ req'[r].swept = req[r].swept
  <2>1. NamesOf(r) /\ req[r] \in Request
    BY <1>1 DEF IInv, NameInv, TypeOK
  <2>2. ASSUME NEW d \in Devices,
               req' = [req EXCEPT ![r].kind = "signIn", ![r].device = d]
        PROVE  <1>4
    BY <1>1, <2>1, <2>2 DEF NamesOf, TypeOK, Request, Kinds
  <2>3. ASSUME NEW k \in {"refresh", "use", "logout"}, NEW t \in Issued,
               req' = [req EXCEPT ![r].kind = k, ![r].token = t]
        PROVE  <1>4
    BY <1>1, <1>2, <2>1, <2>3 DEF NamesOf, TypeOK, Request, Kinds
  <2> QED
    BY <2>2, <2>3 DEF Ask
<1>5. NamesOf(r) /\ RowsOf(r) /\ SweptOf(r)
  BY DEF IInv, NameInv, RowInv, SweptInv
<1>6. Moves(r) /\ Typed(r)
  BY <1>1, <1>3, <1>4 DEF Moves, Typed, Stages, Working, TypeOK
<1>7. NamesOf(r)' /\ RowsOf(r)' /\ SweptOf(r)'
  BY <1>1, <1>3, <1>4, <1>5 DEF NamesOf, RowsOf, SweptOf, Rotating, Revoking, Ask, rows
<1> QED
  BY <1>1, <1>3, <1>6, <1>7, LocalStep DEF Ended, Closings, Ask

LEMMA RevokeSessionStep == ASSUME IInv, NEW r \in Requests, RevokeSession(r) PROVE IInv'
<1> DEFINE s == req[r].session
<1>1. Named' = Named /\ TypeOK /\ s \in Named /\ Named \subseteq Requests
  BY DEF Named, rows, RevokeSession, IInv, RowInv, RowsOf
<1>2. /\ stage' = [stage EXCEPT ![r] = "sweep"] /\ stage'[r] = "sweep" /\ req' = req
      /\ sessionRows' = [sessionRows EXCEPT ![r] = sessionRows[r] \cup ({s} \cap active)]
      /\ sessionRows'[r] = sessionRows[r] \cup ({s} \cap active)
      /\ tokenRows' = [tokenRows EXCEPT ![r] = tokenRows[r]]
      /\ tokenRows'[r] = tokenRows[r]
      /\ stage[r] = "revoke"
  BY <1>1 DEF RevokeSession, Hold, Goto, TypeOK
<1>3. NamesOf(r) /\ RowsOf(r) /\ SweptOf(r)
  BY DEF IInv, NameInv, RowInv, SweptInv
<1>4. Moves(r) /\ Typed(r)
  <2>1. \A o \in Requests \ {r} : sessionRows'[r] \cap sessionRows[o] = {}
    BY <1>1, <1>2 DEF RevokeSession, SessionFree, TypeOK
  <2> QED
    BY <1>1, <1>2, <2>1 DEF Moves, Typed, Stages, Working, TypeOK
<1>5. NamesOf(r)' /\ RowsOf(r)'
  BY <1>1, <1>2, <1>3 DEF NamesOf, RowsOf, Rotating, Revoking, RevokeSession, rows
<1>6. SweptOf(r)'
  BY <1>2, <1>3 DEF SweptOf, Rotating, Revoking, RevokeSession, rows
<1> QED
  BY <1>2, <1>4, <1>5, <1>6, LocalStep DEF Ended, Closings, RevokeSession

LEMMA SweepTokensStep == ASSUME IInv, NEW r \in Requests, SweepTokens(r) PROVE IInv'
<1> DEFINE s == req[r].session
           live == {t \in fresh : family[t] = s}
           request == [req[r] EXCEPT !.swept = req[r].swept \cup {s}]
<1>1. /\ Named' = Named /\ TypeOK /\ s \in Named /\ Named \subseteq Requests
      /\ req[r] \in Request /\ stage[r] = "sweep"
  BY DEF Named, rows, SweepTokens, IInv, RowInv, RowsOf, TypeOK
<1>2. NamesOf(r) /\ RowsOf(r) /\ SweptOf(r)
  BY DEF IInv, NameInv, RowInv, SweptInv
<1>3. /\ request \in Request /\ request.kind = req[r].kind /\ request.token = req[r].token
      /\ request.session = s /\ request.swept = req[r].swept \cup {s}
      /\ request.answer = req[r].answer
  BY <1>1 DEF Request
<1>4. /\ stage' = [stage EXCEPT ![r] = stage'[r]] /\ req' = [req EXCEPT ![r] = req'[r]]
      /\ req'[r] \in Request
      /\ \/ stage'[r] = "commit" /\ req'[r].session = s
         \/ stage'[r] = "revoke" /\ req'[r].session \in req[r].todo
      /\ req'[r].kind = req[r].kind /\ req'[r].token = req[r].token
      /\ req'[r].swept = req[r].swept \cup {s} /\ req'[r].answer = req[r].answer
      /\ req'[r].todo \subseteq req[r].todo
  <2> DEFINE todo == req[r].todo
  <2>1. Continue(r, todo, request) /\ todo \in SUBSET Requests
    BY <1>1 DEF SweepTokens, Request
  <2> HIDE DEF request, todo
  <2>2. /\ stage' = [stage EXCEPT ![r] = stage'[r]] /\ req' = [req EXCEPT ![r] = req'[r]]
        /\ req'[r] \in Request
        /\ \/ stage'[r] = "commit" /\ req'[r].session = request.session
           \/ stage'[r] = "revoke" /\ req'[r].session \in todo
        /\ req'[r].kind = request.kind /\ req'[r].token = request.token
        /\ req'[r].swept = request.swept /\ req'[r].answer = request.answer
        /\ req'[r].todo \subseteq todo
    BY <1>1, <1>3, <2>1, ContinueEffect
  <2> QED
    BY <1>3, <2>2 DEF todo
<1>5. /\ sessionRows' = [sessionRows EXCEPT ![r] = sessionRows[r]]
      /\ sessionRows'[r] = sessionRows[r]
      /\ tokenRows' = [tokenRows EXCEPT ![r] = tokenRows[r] \cup live]
      /\ tokenRows'[r] = tokenRows[r] \cup live
  BY <1>1 DEF SweepTokens, Hold, TypeOK
<1>6. Moves(r) /\ Typed(r)
  <2>1. \A o \in Requests \ {r} : tokenRows'[r] \cap tokenRows[o] = {}
    BY <1>1, <1>5 DEF SweepTokens, TokenFree, TypeOK
  <2> QED
    BY <1>1, <1>4, <1>5, <2>1 DEF Moves, Typed, Stages, Working, TypeOK
<1>7. NamesOf(r)'
  <2>1. live \subseteq Named
    BY DEF IInv, NameInv
  <2> HIDE DEF live
  <2> QED
    BY <1>1, <1>2, <1>4, <1>5, <2>1 DEF NamesOf, Rotating, Revoking, SweepTokens, rows
<1>8. RowsOf(r)'
  BY <1>1, <1>2, <1>4, <1>5 DEF NamesOf, RowsOf, Rotating, Revoking, SweepTokens, rows
<1>9. SweptOf(r)'
  BY <1>1, <1>2, <1>4, <1>5 DEF SweptOf, Rotating, Revoking, SweepTokens, rows
<1> QED
  BY <1>4, <1>6, <1>7, <1>8, <1>9, LocalStep DEF Ended, Closings, SweepTokens

LEMMA ReadRefreshStep == ASSUME IInv, NEW r \in Requests, ReadRefresh(r) PROVE IInv'
<1> DEFINE t == req[r].token
           s == family[t]
           sessions == {s}
<1>1. /\ Named' = Named /\ TypeOK /\ Named \subseteq Requests /\ NamesOf(r) /\ RowsOf(r) /\ SweptOf(r)
      /\ stage[r] = "begin" /\ req[r].kind = "refresh" /\ req[r] \in Request
      /\ UNCHANGED <<rows, held>>
  BY DEF Named, rows, ReadRefresh, IInv, NameInv, RowInv, SweptInv, TypeOK
<1>2. t \in fresh \cup spent => t \in Named /\ s \in Named
  BY DEF IInv, NameInv, NamesOf, Named
<1>3. CASE t \notin fresh \cup spent
  <2>1. Goto(r, "missing") /\ req' = req
    BY <1>3 DEF ReadRefresh
  <2>2. /\ stage' = [stage EXCEPT ![r] = "missing"] /\ stage'[r] = "missing"
        /\ sessionRows' = sessionRows /\ tokenRows' = tokenRows
    BY <1>1, <2>1 DEF Goto, TypeOK, held
  <2>3. Moves(r) /\ Typed(r)
    BY <1>1, <2>1, <2>2 DEF Moves, Typed, Stages, Answers, TypeOK
  <2>4. NamesOf(r)' /\ RowsOf(r)' /\ SweptOf(r)'
    BY <1>1, <2>1, <2>2 DEF NamesOf, RowsOf, SweptOf, Rotating, Revoking, rows
  <2> QED
    BY <1>1, <2>1, <2>2, <2>3, <2>4, LocalStep DEF Ended, Closings
<1>4. ASSUME NEW answer \in Closings, Revoke(r, sessions, answer), t \in fresh \cup spent
      PROVE  IInv'
  <2>1. sessions \in SUBSET Named
    BY <1>2, <1>4
  <2> HIDE DEF sessions
  <2> QED
    BY <1>1, <1>4, <2>1, StartRevocation DEF Closings, Answers
<1>5. CASE t \in spent
  BY <1>4, <1>5 DEF ReadRefresh, Closings, IInv, TypeOK
<1>6. CASE t \in fresh /\ (s \notin active \/ s \in lapsed)
  <2>1. t \notin spent
    BY <1>6 DEF IInv, TypeOK
  <2> QED
    BY <1>4, <1>6, <2>1 DEF ReadRefresh, Closings
<1>7. CASE t \in fresh /\ ~(s \notin active \/ s \in lapsed)
  <2>1. t \notin spent
    BY <1>7 DEF IInv, TypeOK
  <2>2. Goto(r, "consume") /\ req' = [req EXCEPT ![r].session = s]
    BY <1>7, <2>1 DEF ReadRefresh
  <2>3. /\ stage' = [stage EXCEPT ![r] = "consume"] /\ stage'[r] = "consume"
        /\ req' = [req EXCEPT ![r] = [req[r] EXCEPT !.session = s]]
        /\ req'[r] = [req[r] EXCEPT !.session = s]
        /\ sessionRows' = sessionRows /\ tokenRows' = tokenRows
    BY <1>1, <2>2 DEF Goto, TypeOK, held
  <2>4. /\ req'[r] \in Request
        /\ req'[r].kind = req[r].kind /\ req'[r].token = t /\ req'[r].session = s
        /\ req'[r].todo = req[r].todo /\ req'[r].swept = req[r].swept
    BY <1>1, <1>2, <1>7, <2>3 DEF Request
  <2>5. Moves(r) /\ Typed(r)
    BY <1>1, <2>3, <2>4 DEF Moves, Typed, Stages, Working, TypeOK
  <2>6. NamesOf(r)' /\ RowsOf(r)' /\ SweptOf(r)'
    BY <1>1, <1>2, <1>7, <2>3, <2>4 DEF NamesOf, RowsOf, SweptOf, Rotating, Revoking, rows
  <2> QED
    BY <1>1, <2>3, <2>4, <2>5, <2>6, LocalStep DEF Ended, Closings
<1> QED
  BY <1>3, <1>5, <1>6, <1>7

LEMMA ConsumeStep == ASSUME IInv, NEW r \in Requests, Consume(r) PROVE IInv'
<1> DEFINE t == req[r].token
           sessions == {req[r].session}
<1>1. /\ Named' = Named /\ TypeOK /\ Named \subseteq Requests /\ NamesOf(r) /\ RowsOf(r) /\ SweptOf(r)
      /\ stage[r] = "consume" /\ TokenFree(r, t) /\ UNCHANGED rows
  BY DEF Named, rows, Consume, IInv, NameInv, RowInv, SweptInv
<1>2. /\ t \in Named /\ req[r].session = family[t] /\ req[r].kind = "refresh"
      /\ sessionRows[r] = {} /\ tokenRows[r] = {} /\ req[r].session \in Named
  BY <1>1 DEF RowsOf, NamesOf, Rotating, Revoking, Named
<1>3. CASE t \in fresh
  <2>1. Hold(r, {}, {t}) /\ Goto(r, "extend") /\ req' = req
    BY <1>3 DEF Consume
  <2>2. /\ stage' = [stage EXCEPT ![r] = "extend"] /\ stage'[r] = "extend"
        /\ sessionRows' = [sessionRows EXCEPT ![r] = {}] /\ sessionRows'[r] = {}
        /\ tokenRows' = [tokenRows EXCEPT ![r] = {t}] /\ tokenRows'[r] = {t}
    BY <1>1, <1>2, <2>1 DEF Goto, Hold, TypeOK
  <2>3. Moves(r) /\ Typed(r)
    BY <1>1, <1>2, <2>1, <2>2 DEF Moves, Typed, Stages, Working, TypeOK, TokenFree
  <2>4. NamesOf(r)' /\ RowsOf(r)' /\ SweptOf(r)'
    BY <1>1, <1>2, <1>3, <2>1, <2>2 DEF NamesOf, RowsOf, SweptOf, Rotating, Revoking, rows
  <2> QED
    BY <1>1, <2>1, <2>2, <2>3, <2>4, LocalStep DEF Ended, Closings
<1>4. CASE t \notin fresh
  <2>1. /\ Revoke(r, sessions, "reused") /\ UNCHANGED <<rows, held>> /\ sessions \in SUBSET Named
        /\ "reused" \in Answers /\ "reused" \in Closings
    BY <1>2, <1>4 DEF Consume, Answers, Closings
  <2> HIDE DEF sessions
  <2> QED
    BY <1>1, <1>2, <2>1, StartRevocation
<1> QED
  BY <1>3, <1>4

LEMMA ExtendStep == ASSUME IInv, NEW r \in Requests, Extend(r) PROVE IInv'
<1> DEFINE t == req[r].token
           s == req[r].session
           sessions == {s}
<1>1. /\ Named' = Named /\ TypeOK /\ Named \subseteq Requests /\ NamesOf(r) /\ RowsOf(r) /\ SweptOf(r)
      /\ stage[r] = "extend" /\ SessionFree(r, s) /\ UNCHANGED rows
  BY DEF Named, rows, Extend, IInv, NameInv, RowInv, SweptInv
<1>2. /\ t \in Named /\ s = family[t] /\ req[r].kind = "refresh" /\ s \in Named
      /\ sessionRows[r] = {} /\ tokenRows[r] = {t} /\ t \in fresh
  BY <1>1 DEF RowsOf, NamesOf, Rotating, Named, IInv, NameInv
<1>3. CASE s \in active
  <2>1. Hold(r, {s}, {}) /\ Goto(r, "rotate") /\ req' = req
    BY <1>3 DEF Extend
  <2>2. /\ stage' = [stage EXCEPT ![r] = "rotate"] /\ stage'[r] = "rotate"
        /\ sessionRows' = [sessionRows EXCEPT ![r] = {s}] /\ sessionRows'[r] = {s}
        /\ tokenRows' = [tokenRows EXCEPT ![r] = {t}] /\ tokenRows'[r] = {t}
    BY <1>1, <1>2, <2>1 DEF Goto, Hold, TypeOK
  <2>3. Moves(r) /\ Typed(r)
    <3>1. \A o \in Requests \ {r} : {t} \cap tokenRows[o] = {}
      BY <1>1, <1>2 DEF TypeOK
    <3> QED
      BY <1>1, <1>2, <2>1, <2>2, <3>1 DEF Moves, Typed, Stages, Working, TypeOK, SessionFree
  <2>4. NamesOf(r)' /\ RowsOf(r)' /\ SweptOf(r)'
    BY <1>1, <1>2, <1>3, <2>1, <2>2 DEF NamesOf, RowsOf, SweptOf, Rotating, Revoking, rows
  <2> QED
    BY <1>1, <2>1, <2>2, <2>3, <2>4, LocalStep DEF Ended, Closings
<1>4. CASE s \notin active
  <2>1. /\ Revoke(r, sessions, "expired") /\ UNCHANGED <<rows, held>> /\ sessions \in SUBSET Named
        /\ "expired" \in Answers /\ "expired" \in Closings
    BY <1>2, <1>4 DEF Extend, Answers, Closings
  <2> HIDE DEF sessions
  <2> QED
    BY <1>1, <1>2, <2>1, StartRevocation
<1> QED
  BY <1>3, <1>4

\* A request that only goes to another stage, without anything held before or after.
LEMMA PlainStep ==
    ASSUME IInv, NEW r \in Requests, NEW s \in {"denied", "touch", "route", "granted"}, Goto(r, s),
           stage[r] \in {"begin", "touch", "route"}, req[r].kind = "use",
           UNCHANGED <<req, rows, held>>
    PROVE  IInv'
<1>1. Named' = Named /\ TypeOK /\ NamesOf(r) /\ RowsOf(r) /\ SweptOf(r)
  BY DEF Named, rows, IInv, NameInv, RowInv, SweptInv
<1>2. /\ stage' = [stage EXCEPT ![r] = s] /\ stage'[r] = s
      /\ req' = req /\ sessionRows' = sessionRows /\ tokenRows' = tokenRows
  BY <1>1 DEF Goto, TypeOK, held
<1>3. Moves(r) /\ Typed(r)
  BY <1>1, <1>2 DEF Moves, Typed, Stages, Working, Answers, TypeOK
<1>4. NamesOf(r)' /\ RowsOf(r)' /\ SweptOf(r)'
  BY <1>1, <1>2 DEF NamesOf, RowsOf, SweptOf, Rotating, Revoking, rows
<1> QED
  BY <1>2, <1>3, <1>4, LocalStep DEF Ended, Closings

LEMMA FindAccessStep == ASSUME IInv, NEW r \in Requests, FindAccess(r) PROVE IInv'
  BY PlainStep DEF FindAccess

LEMMA TouchAccessStep == ASSUME IInv, NEW r \in Requests, TouchAccess(r) PROVE IInv'
<1> DEFINE s == IF family[req[r].token] \in active /\ req[r].token \in access
                THEN "route" ELSE "denied"
<1>1. Goto(r, s) /\ UNCHANGED <<req, rows, held>> /\ stage[r] = "touch" /\ s \in {"denied", "route"}
  BY DEF TouchAccess
<1>2. req[r].kind = "use"
  BY <1>1 DEF IInv, RowInv, RowsOf
<1> HIDE DEF s
<1> QED
  BY <1>1, <1>2, PlainStep

LEMMA RouteStep == ASSUME IInv, NEW r \in Requests, Route(r) PROVE IInv'
<1> DEFINE own == {family[req[r].token]} \cap (active \cup revoked)
<1>1. stage[r] = "route" /\ req[r].kind = "use" /\ UNCHANGED <<rows, held>>
  BY DEF Route, IInv, RowInv, RowsOf
<1>2. own \in SUBSET Named /\ active \in SUBSET Named
  BY DEF IInv, NameInv
<1>3. ASSUME NEW sessions \in SUBSET Named, NEW answer \in {"expelled", "loggedOut"},
             Revoke(r, sessions, answer)
      PROVE  IInv'
  BY <1>1, <1>3, StartRevocation DEF Answers, Closings
<1>4. CASE Goto(r, "granted") /\ UNCHANGED req
  BY <1>1, <1>4, PlainStep
<1>5. CASE \E other \in active : Revoke(r, {other}, "loggedOut")
  <2> PICK other \in active : Revoke(r, {other}, "loggedOut")
    BY <1>5
  <2> DEFINE sessions == {other}
  <2>1. sessions \in SUBSET Named /\ Revoke(r, sessions, "loggedOut")
    BY <1>2
  <2> HIDE DEF sessions
  <2> QED
    BY <1>3, <2>1
<1>6. CASE Revoke(r, own, "expelled") \/ Revoke(r, own, "loggedOut")
  <2> HIDE DEF own
  <2> QED
    BY <1>2, <1>3, <1>6
<1> QED
  BY <1>2, <1>3, <1>4, <1>5, <1>6 DEF Route

LEMMA LogoutStep == ASSUME IInv, NEW r \in Requests, Logout(r) PROVE IInv'
<1> DEFINE t == req[r].token
           sessions == IF t \in fresh \cup spent THEN {family[t]} ELSE {}
<1>1. sessions \in SUBSET Named
  BY DEF IInv, NameInv, NamesOf, Named
<1>2. /\ Revoke(r, sessions, "loggedOut") /\ UNCHANGED <<rows, held>> /\ stage[r] = "begin"
      /\ "loggedOut" \in Answers /\ "loggedOut" \in Closings
  BY DEF Logout, Answers, Closings
<1> HIDE DEF sessions
<1> QED
  BY <1>1, <1>2, StartRevocation

LEMMA BreakDeadlockStep == ASSUME IInv, NEW r \in Requests, BreakDeadlock(r) PROVE IInv'
<1>1. Named' = Named /\ TypeOK /\ NamesOf(r) /\ RowsOf(r) /\ SweptOf(r) /\ UNCHANGED <<req, rows>>
  BY DEF Named, rows, BreakDeadlock, IInv, NameInv, RowInv, SweptInv
<1>2. /\ stage' = [stage EXCEPT ![r] = "conflict"] /\ stage'[r] = "conflict"
      /\ sessionRows' = [sessionRows EXCEPT ![r] = {}] /\ sessionRows'[r] = {}
      /\ tokenRows' = [tokenRows EXCEPT ![r] = {}] /\ tokenRows'[r] = {}
  BY <1>1 DEF BreakDeadlock, Goto, Drop, TypeOK
<1>3. Moves(r) /\ Typed(r)
  BY <1>1, <1>2 DEF Moves, Typed, Stages, Answers, TypeOK
<1>4. NamesOf(r)' /\ RowsOf(r)' /\ SweptOf(r)'
  BY <1>1, <1>2 DEF NamesOf, RowsOf, SweptOf, Rotating, Revoking, rows
<1> QED
  BY <1>1, <1>2, <1>3, <1>4, LocalStep DEF Ended, Closings

-----------------------------------------------------------------------------
(***************************************************************************)
(* Commits: what the transaction held becomes visible to the others.       *)
(***************************************************************************)
\* What the revocation of a set of sessions leaves: of the sessions r swept nothing works.
LEMMA SweptGone ==
    ASSUME IInv, NEW r \in Requests, stage[r] = "commit"
    PROVE  /\ sessionRows[r] \subseteq req[r].swept
           /\ \A s \in req[r].swept : s \notin active \ sessionRows[r]
           /\ \A t \in fresh \ tokenRows[r] : family[t] \notin req[r].swept
           /\ \A t \in (fresh \ tokenRows[r]) \cup {a \in access : family[a] \notin req[r].swept} :
                 family[t] \in active \ sessionRows[r]
<1>1. /\ sessionRows[r] \subseteq req[r].swept
      /\ \A s \in req[r].swept : s \in active => s \in sessionRows[r]
      /\ \A t \in fresh \ tokenRows[r] : family[t] \notin req[r].swept
  BY DEF IInv, RowInv, RowsOf, SweptInv, SweptOf, Revoking
<1> QED
  BY <1>1 DEF IInv, OneLivePair

\* A commit that closes r's transaction, with the answer or towards the revocation of the
\* session it has just extended, keeps the invariant of the other requests: what it took
\* away is not what they hold, and what it adds is new.
LEMMA OthersKept ==
    ASSUME IInv, NEW r \in Requests, NEW o \in Requests \ {r},
           stage'[o] = stage[o], req'[o] = req[o],
           sessionRows'[o] = sessionRows[o], tokenRows'[o] = tokenRows[o],
           family' = family \/ (/\ r \notin Named /\ \E s \in Named \cup {r} : family' = [family EXCEPT ![r] = s]),
           active \ sessionRows[r] \subseteq active',
           active' \subseteq active \cup ({r} \ Named),
           fresh \ tokenRows[r] \subseteq fresh',
           fresh' \subseteq fresh \cup ({r} \ Named),
           stage[o] \in Revoking /\ r \in fresh' \ fresh => family'[r] \notin req[o].swept
    PROVE  NamesOf(o)' /\ RowsOf(o)' /\ SweptOf(o)'
<1>1. /\ TypeOK /\ NamesOf(o) /\ RowsOf(o) /\ SweptOf(o)
      /\ sessionRows[o] \cap sessionRows[r] = {} /\ tokenRows[o] \cap tokenRows[r] = {}
      /\ active \subseteq Named /\ fresh \subseteq Named
  BY DEF IInv, NameInv, RowInv, SweptInv, TypeOK
<1>2. /\ \A x \in Named : family'[x] = family[x]
      /\ Named \subseteq Named' /\ Named' \subseteq Named \cup {r}
      /\ family'[o] = family[o]
  BY <1>1 DEF Named, TypeOK
<1>3. NamesOf(o)'
  BY <1>1, <1>2 DEF NamesOf
<1>4. RowsOf(o)'
  BY <1>1, <1>2 DEF RowsOf
<1>5. SweptOf(o)'
  <2>1. req[o].swept \subseteq Named /\ req[o].session \in Named \cup {None}
    BY <1>1 DEF NamesOf
  <2>2. stage[o] = "sweep" /\ req[o].session \in active' => req[o].session \in active
    <3>1. stage[o] = "sweep" => req[o].session \in Named
      BY <1>1 DEF RowsOf
    <3> QED
      BY <3>1
  <2>3. \A s \in req[o].swept : s \in active' => s \in active
    BY <2>1
  <2>4. stage[o] \in Revoking =>
          \A s \in req[o].swept, t \in fresh' : family'[t] = s => t \in fresh /\ family[t] = s
    BY <1>1, <1>2
  <2> QED
    BY <1>1, <2>2, <2>3, <2>4 DEF SweptOf
<1> QED
  BY <1>3, <1>4, <1>5

LEMMA FinishRevocationStep == ASSUME IInv, NEW r \in Requests, FinishRevocation(r) PROVE IInv'
<1> DEFINE kept == {a \in access : family[a] \notin req[r].swept}
<1>1. /\ TypeOK /\ NameInv /\ NamesOf(r) /\ stage[r] = "commit" /\ req[r].kind # "signIn"
      /\ Named' = Named /\ Named \subseteq Requests
      /\ req' = req /\ family' = family /\ device' = device /\ lapsed' = lapsed
      /\ active' = active \ sessionRows[r] /\ revoked' = revoked \cup sessionRows[r]
      /\ fresh' = fresh \ tokenRows[r] /\ spent' = spent \cup tokenRows[r] /\ access' = kept
  BY DEF Named, FinishRevocation, IInv, NameInv
<1>2. /\ stage' = [stage EXCEPT ![r] = req[r].answer] /\ stage'[r] = req[r].answer
      /\ req[r].answer \in Answers \cap Closings
      /\ sessionRows' = [sessionRows EXCEPT ![r] = {}] /\ tokenRows' = [tokenRows EXCEPT ![r] = {}]
      /\ sessionRows'[r] = {} /\ tokenRows'[r] = {}
      /\ sessionRows[r] \subseteq Named /\ tokenRows[r] \subseteq Named
  <2>1. req[r].answer \in Answers \cap Closings
    BY <1>1 DEF IInv, RowInv, RowsOf, Revoking, TypeOK, Request
  <2> QED
    BY <1>1, <2>1 DEF FinishRevocation, Goto, Drop, TypeOK, NamesOf
<1>3. kept \subseteq access /\ \A t \in kept : family[t] \notin req[r].swept
  OBVIOUS
<1>4. \A t \in fresh' \cup kept : family[t] \in active'
  BY <1>1, SweptGone
<1> HIDE DEF kept
<1>5. TypeOK'
  BY <1>1, <1>2, <1>3 DEF TypeOK, Stages
<1>6. ASSUME NEW o \in Requests \ {r} PROVE NamesOf(o)' /\ RowsOf(o)' /\ SweptOf(o)'
  BY <1>1, <1>2, OthersKept DEF TypeOK
<1>7. NamesOf(r)' /\ RowsOf(r)' /\ SweptOf(r)'
  BY <1>1, <1>2 DEF NamesOf, RowsOf, SweptOf, Rotating, Revoking, Closings
<1>8. NameInv' /\ RowInv' /\ SweptInv'
  BY <1>1, <1>2, <1>3, <1>6, <1>7 DEF NameInv, RowInv, SweptInv
<1>9. OneLivePair'
  BY <1>1, <1>3, <1>4 DEF IInv, OneLivePair
<1>10. RevocationHolds'
  <2>1. \A s \in req[r].swept : s \notin active' /\ \A t \in access' \cup fresh' : family[t] # s
    BY <1>1, <1>3, SweptGone
  <2> QED
    BY <1>1, <1>2, <1>3, <2>1 DEF IInv, RevocationHolds, TypeOK
<1>11. ExchangeInv'
  BY <1>1 DEF IInv, ExchangeInv
<1> QED
  BY <1>5, <1>8, <1>9, <1>10, <1>11 DEF IInv

LEMMA CreateSessionStep == ASSUME IInv, NEW r \in Requests, CreateSession(r) PROVE IInv'
<1> DEFINE kept == {a \in access : family[a] \notin req[r].swept}
<1>1. /\ TypeOK /\ NameInv /\ NamesOf(r) /\ stage[r] = "commit" /\ req[r].kind = "signIn"
      /\ r \notin Named /\ Named \subseteq Requests
      /\ req' = req /\ lapsed' = lapsed /\ family' = [family EXCEPT ![r] = r]
      /\ device' = [device EXCEPT ![r] = req[r].device]
      /\ active' = (active \ sessionRows[r]) \cup {r}
      /\ revoked' = revoked \cup sessionRows[r]
      /\ fresh' = (fresh \ tokenRows[r]) \cup {r} /\ spent' = spent \cup tokenRows[r]
      /\ access' = kept \cup {r}
  BY DEF Named, CreateSession, IInv, NameInv, NamesOf, Revoking
<1>2. /\ stage' = [stage EXCEPT ![r] = "signedIn"] /\ stage'[r] = "signedIn"
      /\ sessionRows' = [sessionRows EXCEPT ![r] = {}] /\ tokenRows' = [tokenRows EXCEPT ![r] = {}]
      /\ sessionRows'[r] = {} /\ tokenRows'[r] = {}
      /\ sessionRows[r] \subseteq Named /\ tokenRows[r] \subseteq Named
  BY <1>1 DEF CreateSession, Goto, Drop, TypeOK, NamesOf
<1>3. kept \subseteq access /\ \A t \in kept : family[t] \notin req[r].swept
  OBVIOUS
<1>4. \A t \in (fresh \ tokenRows[r]) \cup kept : family[t] \in active \ sessionRows[r]
  BY <1>1, SweptGone
<1> HIDE DEF kept
<1>5. /\ family'[r] = r /\ \A x \in Named : family'[x] = family[x]
      /\ Named' = Named \cup {r} /\ r \notin active \cup revoked \cup access \cup fresh \cup spent
      /\ access \cup fresh \cup active \subseteq Named
  BY <1>1, NamesAssumption DEF Named, TypeOK, NameInv
<1>6. TypeOK'
  <2>1. req[r].device \in Devices \cup {None}
    BY <1>1 DEF TypeOK, Request
  <2> QED
    BY <1>1, <1>2, <1>3, <1>5, <2>1 DEF TypeOK, Stages, Answers
<1>7. ASSUME NEW o \in Requests \ {r} PROVE NamesOf(o)' /\ RowsOf(o)' /\ SweptOf(o)'
  <2>1. r \notin req[o].swept
    BY <1>1 DEF NameInv, NamesOf
  <2>2. /\ stage'[o] = stage[o] /\ req'[o] = req[o]
        /\ sessionRows'[o] = sessionRows[o] /\ tokenRows'[o] = tokenRows[o]
    BY <1>1, <1>2 DEF TypeOK
  <2>3. \E s \in Named \cup {r} : family' = [family EXCEPT ![r] = s]
    BY <1>1
  <2>4. /\ active \ sessionRows[r] \subseteq active' /\ active' \subseteq active \cup ({r} \ Named)
        /\ fresh \ tokenRows[r] \subseteq fresh' /\ fresh' \subseteq fresh \cup ({r} \ Named)
    BY <1>1
  <2>5. r \notin Named /\ (stage[o] \in Revoking /\ r \in fresh' \ fresh => family'[r] \notin req[o].swept)
    BY <1>1, <1>5, <2>1
  <2> QED
    BY <2>2, <2>3, <2>4, <2>5, OthersKept
<1>8. NamesOf(r)' /\ RowsOf(r)' /\ SweptOf(r)'
  BY <1>1, <1>2, <1>5 DEF NamesOf, RowsOf, SweptOf, Rotating, Revoking
<1>9. NameInv' /\ RowInv' /\ SweptInv'
  BY <1>1, <1>2, <1>3, <1>5, <1>7, <1>8 DEF NameInv, RowInv, SweptInv
<1>10. OneLivePair'
  <2>1. \A t \in (fresh \ tokenRows[r]) \cup kept : t \in Named /\ family'[t] = family[t] /\ family[t] # r
    BY <1>1, <1>3, <1>4, <1>5
  <2> QED
    BY <1>1, <1>3, <1>4, <1>5, <2>1 DEF IInv, OneLivePair
<1>11. RevocationHolds'
  <2>1. \A o \in Requests : r \notin req[o].swept
    BY <1>1 DEF NameInv, NamesOf
  <2>2. \A s \in req[r].swept : s \notin active' /\ \A t \in access' \cup fresh' : family'[t] # s
    BY <1>1, <1>3, <1>5, <2>1, SweptGone
  <2>3. ASSUME NEW o \in Requests \ {r}, stage[o] \in Ended, NEW s \in req[o].swept
        PROVE  s \notin active' /\ \A t \in access' \cup fresh' : family'[t] # s
    BY <1>1, <1>3, <1>5, <2>1, <2>3 DEF IInv, RevocationHolds, Ended, Closings
  <2> QED
    BY <1>1, <1>2, <2>2, <2>3 DEF RevocationHolds, TypeOK, Ended, Closings
<1>12. ExchangeInv'
  <2>1. ASSUME NEW o \in Named, req[o].kind = "refresh" PROVE req[o].token # r
    BY <1>1, NamesAssumption DEF NameInv, NamesOf
  <2> QED
    BY <1>1, <1>5, <2>1 DEF IInv, ExchangeInv
<1> QED
  BY <1>6, <1>9, <1>10, <1>11, <1>12 DEF IInv

LEMMA RotateStep == ASSUME IInv, NEW r \in Requests, Rotate(r) PROVE IInv'
<1> DEFINE t == req[r].token
           s == req[r].session
           kept == {a \in access : family[a] # s}
<1>1. /\ TypeOK /\ NameInv /\ NamesOf(r) /\ stage[r] = "rotate" /\ req[r].kind = "refresh"
      /\ r \notin Named /\ Named \subseteq Requests /\ req[r] \in Request
      /\ t \in fresh /\ t \in Named /\ s \in active /\ s \in Named /\ family[t] = s
      /\ sessionRows[r] = {s} /\ tokenRows[r] = {t} /\ req[r].swept = {}
  BY DEF Named, Rotate, IInv, NameInv, NamesOf, Revoking, Rotating, RowInv, RowsOf, SweptInv, SweptOf,
         TypeOK
<1>2. /\ UNCHANGED <<device, active, revoked, lapsed>> /\ family' = [family EXCEPT ![r] = s]
      /\ fresh' = (fresh \ {t}) \cup {r} /\ spent' = spent \cup {t}
      /\ access' = kept \cup {r}
      /\ sessionRows' = [sessionRows EXCEPT ![r] = {}] /\ tokenRows' = [tokenRows EXCEPT ![r] = {}]
      /\ sessionRows'[r] = {} /\ tokenRows'[r] = {}
  BY <1>1 DEF Rotate, Drop, TypeOK
<1>3. /\ stage' = [stage EXCEPT ![r] = stage'[r]] /\ req' = [req EXCEPT ![r] = req'[r]]
      /\ stage'[r] \in {"rotated", "revoke", "commit"} /\ req'[r] \in Request
      /\ req'[r].kind = "refresh" /\ req'[r].token = t /\ req'[r].session = s
      /\ req'[r].swept = {} /\ req'[r].todo \subseteq Named
      /\ stage'[r] # "rotated" => req'[r].answer \in Closings
  <2>1. CASE Goto(r, "rotated") /\ UNCHANGED req
    BY <1>1, <2>1 DEF Goto, TypeOK, NamesOf
  <2>2. CASE Revoke(r, {s}, "expelled")
    <3> DEFINE sessions == {s}
               request == [req[r] EXCEPT !.answer = "expelled"]
    <3>1. /\ request \in Request /\ request.kind = "refresh" /\ request.token = t
          /\ request.session = s /\ request.swept = {} /\ request.answer = "expelled"
      BY <1>1 DEF Request, Answers
    <3>2. Continue(r, sessions, request) /\ sessions \in SUBSET Requests
      BY <1>1, <2>2 DEF Revoke
    <3>3. \A x \in sessions : x = s
      OBVIOUS
    <3>4. sessions \subseteq Named
      BY <1>1
    <3> HIDE DEF sessions, request
    <3>5. /\ stage' = [stage EXCEPT ![r] = stage'[r]] /\ req' = [req EXCEPT ![r] = req'[r]]
          /\ req'[r] \in Request
          /\ \/ stage'[r] = "commit" /\ req'[r].session = request.session
             \/ stage'[r] = "revoke" /\ req'[r].session \in sessions
          /\ req'[r].kind = request.kind /\ req'[r].token = request.token
          /\ req'[r].swept = request.swept /\ req'[r].answer = request.answer
          /\ req'[r].todo \subseteq sessions
      BY <1>1, <3>1, <3>2, ContinueEffect
    <3> QED
      BY <3>1, <3>3, <3>4, <3>5 DEF Closings
  <2> QED
    BY <2>1, <2>2 DEF Rotate
<1>4. kept \subseteq access /\ \A a \in kept : family[a] # s
  OBVIOUS
<1> HIDE DEF kept
<1>5. /\ family'[r] = s /\ \A x \in Named : family'[x] = family[x]
      /\ Named' = Named \cup {r} /\ r \notin active \cup revoked \cup access \cup fresh \cup spent
      /\ access \cup fresh \cup active \subseteq Named
  BY <1>1, <1>2, NamesAssumption DEF Named, TypeOK, NameInv
<1>6. TypeOK'
  <2>1. /\ stage' \in [Requests -> Stages] /\ req' \in [Requests -> Request]
        /\ family' \in [Requests -> Requests \cup {None}]
        /\ sessionRows' \in [Requests -> SUBSET Requests]
        /\ tokenRows' \in [Requests -> SUBSET Requests]
    BY <1>1, <1>2, <1>3 DEF TypeOK, Stages, Answers, Working
  <2>2. /\ fresh' \cap spent' = {}
        /\ access' \cup fresh' \cup spent' \subseteq Requests
    BY <1>1, <1>2, <1>4, <1>5 DEF TypeOK
  <2>3. \A p, q \in Requests : p # q =>
           sessionRows'[p] \cap sessionRows'[q] = {} /\ tokenRows'[p] \cap tokenRows'[q] = {}
    BY <1>1, <1>2 DEF TypeOK
  <2> QED
    BY <1>1, <1>2, <2>1, <2>2, <2>3 DEF TypeOK
<1>7. ASSUME NEW o \in Requests \ {r} PROVE NamesOf(o)' /\ RowsOf(o)' /\ SweptOf(o)'
  <2>1. s \notin req[o].swept \/ stage[o] \notin Revoking
    <3> SUFFICES ASSUME s \in req[o].swept, stage[o] \in Revoking PROVE FALSE
      OBVIOUS
    <3>1. s \in sessionRows[o]
      BY <1>1 DEF IInv, SweptInv, SweptOf
    <3> QED
      BY <1>1, <3>1 DEF TypeOK
  <2>2. /\ stage'[o] = stage[o] /\ req'[o] = req[o]
        /\ sessionRows'[o] = sessionRows[o] /\ tokenRows'[o] = tokenRows[o]
    BY <1>1, <1>2, <1>3 DEF TypeOK
  <2>3. \E x \in Named \cup {r} : family' = [family EXCEPT ![r] = x]
    BY <1>1, <1>2
  <2>4. /\ active \ sessionRows[r] \subseteq active' /\ active' \subseteq active \cup ({r} \ Named)
        /\ fresh \ tokenRows[r] \subseteq fresh' /\ fresh' \subseteq fresh \cup ({r} \ Named)
    BY <1>1, <1>2
  <2> QED
    BY <1>1, <1>5, <2>1, <2>2, <2>3, <2>4, OthersKept
<1>8. NamesOf(r)' /\ RowsOf(r)' /\ SweptOf(r)'
  BY <1>1, <1>2, <1>3, <1>5 DEF NamesOf, RowsOf, SweptOf, Rotating, Revoking
<1>9. NameInv' /\ RowInv' /\ SweptInv'
  BY <1>1, <1>2, <1>4, <1>5, <1>7, <1>8 DEF NameInv, RowInv, SweptInv
<1>10. OneLivePair'
  <2>1. \A x \in (fresh \ {t}) \cup kept : x \in Named /\ family'[x] = family[x] /\ family[x] # s
    BY <1>1, <1>4, <1>5 DEF IInv, OneLivePair
  <2> QED
    BY <1>1, <1>2, <1>4, <1>5, <2>1 DEF IInv, OneLivePair
<1>11. RevocationHolds'
  <2>1. ASSUME NEW o \in Requests \ {r}, stage[o] \in Ended, NEW e \in req[o].swept
        PROVE  e \notin active' /\ \A x \in access' \cup fresh' : family'[x] # e
    BY <1>1, <1>2, <1>4, <1>5, <2>1 DEF IInv, RevocationHolds, Ended, Closings
  <2> QED
    BY <1>1, <1>2, <1>3, <2>1 DEF RevocationHolds, TypeOK, Ended, Closings
<1>12. ExchangeInv'
  <2>1. ASSUME NEW o \in Named, req[o].kind = "refresh" PROVE req[o].token # r
    BY <1>1, NamesAssumption DEF NameInv, NamesOf
  <2>2. \A o \in Named : req'[o] = req[o]
    BY <1>1, <1>3 DEF TypeOK
  <2> QED
    BY <1>1, <1>2, <1>3, <1>5, <2>1, <2>2 DEF IInv, ExchangeInv
<1> QED
  BY <1>6, <1>9, <1>10, <1>11, <1>12 DEF IInv

-----------------------------------------------------------------------------
(***************************************************************************)
(* The clock, the cleanup and the process.                                 *)
(***************************************************************************)
\* Rows may go as long as no token outlives its session and no request is at work on them.
LEMMA RowsGo ==
    ASSUME IInv, UNCHANGED <<stage, req, device, family, held>>,
           active' \subseteq active, revoked' \subseteq revoked,
           lapsed' \subseteq active \cup revoked \cup lapsed,
           access' \subseteq access, fresh' \subseteq fresh, spent' \subseteq spent,
           \A t \in access' \cup fresh' : family[t] \in active',
           \A r \in Requests :
               /\ stage[r] \in {"extend", "rotate"} => req[r].token \in fresh'
               /\ stage[r] = "rotate" => req[r].session \in active'
    PROVE  IInv'
<1>1. Named' = Named
  BY DEF Named
<1>2. TypeOK'
  BY DEF IInv, TypeOK, held
<1>3. NameInv'
  BY <1>1 DEF IInv, NameInv, NamesOf, held
<1>4. RowInv'
  BY <1>1 DEF IInv, RowInv, RowsOf, held
<1>5. SweptInv'
  BY DEF IInv, SweptInv, SweptOf, held
<1>6. OneLivePair' /\ RevocationHolds'
  BY DEF IInv, OneLivePair, RevocationHolds
<1>7. ExchangeInv'
  BY <1>1 DEF IInv, ExchangeInv
<1> QED
  BY <1>2, <1>3, <1>4, <1>5, <1>6, <1>7 DEF IInv

\* A request that rotates a token is at work on it and on its session.
LEMMA RotatingInUse ==
    ASSUME IInv, NEW r \in Requests, stage[r] \in {"extend", "rotate"}
    PROVE  /\ req[r].token \in fresh /\ InUse(family[req[r].token])
           /\ stage[r] = "rotate" => req[r].session \in active /\ InUse(req[r].session)
<1>1. /\ stage[r] \in Working \ {"begin"}
      /\ req[r].token \in Named /\ req[r].token # None /\ req[r].token \in fresh
      /\ stage[r] = "rotate" => req[r].session \in active
  BY NamesAssumption DEF IInv, RowInv, RowsOf, Rotating, Working, Named
<1> QED
  BY <1>1 DEF InUse

LEMMA CleanupStep ==
    ASSUME IInv, NEW x \in Requests,
           Lapse(x) \/ PurgeAccess(x) \/ PurgeRefresh(x) \/ PurgeSession(x)
    PROVE  IInv'
<1>1. \A t \in access \cup fresh : family[t] \in active
  BY DEF IInv, OneLivePair
<1>2. \A r \in Requests : stage[r] \in {"extend", "rotate"} =>
        /\ req[r].token \in fresh /\ InUse(family[req[r].token])
        /\ stage[r] = "rotate" => req[r].session \in active /\ InUse(req[r].session)
  BY RotatingInUse
<1>3. CASE Lapse(x)
  BY <1>1, <1>2, <1>3, RowsGo DEF Lapse, held
<1>4. CASE PurgeAccess(x)
  BY <1>1, <1>2, <1>4, RowsGo DEF PurgeAccess, held
<1>5. CASE PurgeRefresh(x)
  <2>1. fresh' = fresh \ {x} /\ ~InUse(family[x])
    BY <1>5 DEF PurgeRefresh
  <2>2. \A r \in Requests : stage[r] \in {"extend", "rotate"} => req[r].token \in fresh'
    BY <1>2, <2>1
  <2> QED
    BY <1>1, <1>2, <1>5, <2>2, RowsGo DEF PurgeRefresh, held
<1>6. CASE PurgeSession(x)
  <2>1. /\ active' = active \ {x} /\ fresh' = {t \in fresh : family[t] # x}
        /\ access' = {t \in access : family[t] # x} /\ spent' = {t \in spent : family[t] # x}
        /\ ~InUse(x)
    BY <1>6 DEF PurgeSession
  <2>2. \A r \in Requests : stage[r] \in {"extend", "rotate"} =>
          /\ req[r].token \in fresh'
          /\ stage[r] = "rotate" => req[r].session \in active'
    BY <1>2, <2>1
  <2>3. \A t \in access' \cup fresh' : family[t] \in active'
    BY <1>1, <2>1
  <2> QED
    BY <1>6, <2>1, <2>2, <2>3, RowsGo DEF PurgeSession, held
<1> QED
  BY <1>3, <1>4, <1>5, <1>6

LEMMA CrashStep == ASSUME IInv, Crash PROVE IInv'
<1>1. /\ Named' = Named /\ TypeOK /\ UNCHANGED <<req, rows>>
      /\ \A r \in Requests : /\ sessionRows'[r] = {} /\ tokenRows'[r] = {}
                             /\ stage'[r] = IF stage[r] \in Working THEN "lost" ELSE stage[r]
  BY DEF Named, Crash, IInv, rows
<1>2. \A r \in Requests : stage'[r] \notin Revoking \cup Rotating \cup {"begin", "touch", "route"}
  BY <1>1 DEF Working, Revoking, Rotating
<1>3. TypeOK'
  BY <1>1 DEF Crash, TypeOK, Stages, rows
<1>4. NameInv'
  BY <1>1, <1>2 DEF IInv, NameInv, NamesOf, Working, rows
<1>5. RowInv' /\ SweptInv'
  BY <1>1, <1>2 DEF IInv, RowInv, RowsOf, SweptInv, SweptOf, Revoking, Rotating, Working
<1>6. OneLivePair' /\ RevocationHolds' /\ ExchangeInv'
  BY <1>1 DEF IInv, OneLivePair, RevocationHolds, ExchangeInv, Working, rows
<1> QED
  BY <1>3, <1>4, <1>5, <1>6 DEF IInv

LEMMA StutterStep == ASSUME IInv, UNCHANGED vars PROVE IInv'
  BY DEF IInv, TypeOK, NameInv, NamesOf, Named, RowInv, RowsOf, SweptInv, SweptOf, OneLivePair,
         RevocationHolds, ExchangeInv, vars, rows, held

LEMMA IInvStep == IInv /\ [Next]_vars => IInv'
<1> SUFFICES ASSUME IInv, [Next]_vars PROVE IInv'
  OBVIOUS
<1>1. ASSUME NEW r \in Requests, Serve(r) PROVE IInv'
  BY <1>1, BeginSignInStep, CreateSessionStep, RevokeSessionStep, SweepTokensStep,
     FinishRevocationStep, ReadRefreshStep, ConsumeStep, ExtendStep, RotateStep,
     FindAccessStep, TouchAccessStep, RouteStep, LogoutStep, BreakDeadlockStep DEF Serve
<1> QED
  BY <1>1, AskStep, CleanupStep, CrashStep, StutterStep DEF Next

-----------------------------------------------------------------------------
\* The invariant of every state that can be reached.
THEOREM Inductive == Spec => []IInv
  BY IInvInit, IInvStep, PTL DEF Spec

\* Every variable keeps its type: in particular no row is ever held by two transactions.
THEOREM TypeCorrect == Spec => []TypeOK
<1>1. IInv => TypeOK
  BY DEF IInv
<1> QED
  BY <1>1, Inductive, PTL

\* Whatever races, one pair of tokens works per session nobody has ended, and a logout, a
\* reuse, an expiry, a dismissal or a sign-in that was answered ended what it set out to end.
THEOREM LiveSessions == Spec => []OnlyLiveSessionsWork
<1>1. IInv => OnlyLiveSessionsWork
  BY DEF IInv, OnlyLiveSessionsWork
<1> QED
  BY <1>1, Inductive, PTL

\* A transaction waits only for one that is still at work: no row outlives the request
\* that holds it.
THEOREM WaitsForTheWorking == Spec => []WaitsEnd
<1>1. IInv => WaitsEnd
  <2> SUFFICES ASSUME IInv, NEW r \in Requests, NEW o \in WaitsFor(r)
               PROVE  stage[o] \in Working
    BY DEF WaitsEnd
  <2>1. o \in Requests /\ (sessionRows[o] # {} \/ tokenRows[o] # {})
    BY DEF WaitsFor, Holders
  <2> QED
    BY <2>1 DEF IInv, RowInv, RowsOf, Revoking, Working
<1> QED
  BY <1>1, Inductive, PTL

\* An access token that is accepted is the last one issued for a session nobody revoked.
THEOREM GrantsCurrent == Spec => GrantsAreCurrent
<1> DEFINE LastIssued ==
      \A r \in Requests : stage[r] = "touch" /\ stage'[r] = "route" =>
         /\ family[req[r].token] \in active
         /\ \A t \in Requests : family[t] = family[req[r].token] /\ t # req[r].token
                => t \notin access \cup fresh
<1>1. ASSUME IInv, [Next]_vars PROVE [LastIssued]_vars
  <2> SUFFICES ASSUME NEW r \in Requests, stage[r] = "touch", stage'[r] = "route"
               PROVE  /\ family[req[r].token] \in active
                      /\ \A t \in Requests : family[t] = family[req[r].token] /\ t # req[r].token
                              => t \notin access \cup fresh
    OBVIOUS
  <2>1. stage \in [Requests -> Stages]
    BY <1>1 DEF IInv, TypeOK
  <2>2. PICK o \in Requests : Ask(o) \/ Serve(o)
    BY <1>1, <2>1 DEF Next, vars, Crash, Lapse, PurgeAccess, PurgeRefresh, PurgeSession
  <2>3. \/ TouchAccess(o) /\ o = r
        \/ \E s \in Stages \ {"route"} : Goto(o, s)
    BY <1>1, <2>1, <2>2 DEF Serve, Ask, BeginSignIn, CreateSession, RevokeSession, SweepTokens,
         FinishRevocation, ReadRefresh, Consume, Extend, Rotate, FindAccess, TouchAccess, Route,
         Logout, BreakDeadlock, Revoke, Continue, Goto, Stages, Working, Answers
  <2>4. TouchAccess(r)
    BY <2>1, <2>3 DEF Goto
  <2>5. family[req[r].token] \in active /\ req[r].token \in access
    BY <2>1, <2>4 DEF TouchAccess, Goto
  <2> QED
    BY <1>1, <2>5 DEF IInv, OneLivePair
<1> QED
  BY <1>1, Inductive, PTL DEF Spec, GrantsAreCurrent

-----------------------------------------------------------------------------
(***************************************************************************)
(* The sessions implement MobileCredentials: creating a session is its     *)
(* SignIn, rotating a token its Exchange, and a commit or a cleanup that   *)
(* takes tokens away its End.                                              *)
(***************************************************************************)
Works(s, t) == s \in active /\ t \in fresh /\ family[t] = s

\* The token that works in a session is the only one that does.
TokenFact ==
    /\ Current \in [Requests -> Requests \cup {None}]
    /\ \A s, t \in Requests : Works(s, t) <=> Current[s] = t
    /\ \A s \in Requests : (\A t \in Requests : ~Works(s, t)) => Current[s] = None

LEMMA CurrentToken == IInv => TokenFact
<1> SUFFICES ASSUME IInv, NEW s \in Requests
             PROVE  /\ Current[s] \in Requests \cup {None}
                    /\ \A t \in Requests : Works(s, t) <=> Current[s] = t
                    /\ (\A t \in Requests : ~Works(s, t)) => Current[s] = None
  BY DEF Current, TokenFact
<1>1. fresh \subseteq Requests
  BY DEF IInv, TypeOK
<1>2. CASE s \in active /\ \E t \in fresh : family[t] = s
  <2>1. Current[s] = CHOOSE t \in fresh : family[t] = s
    BY <1>2 DEF Current
  <2>2. Current[s] \in fresh /\ family[Current[s]] = s
    BY <1>2, <2>1
  <2> QED
    BY <1>1, <1>2, <2>2 DEF IInv, OneLivePair, Works
<1>3. CASE ~(s \in active /\ \E t \in fresh : family[t] = s)
  BY <1>3, NamesAssumption DEF Current, Works
<1> QED
  BY <1>2, <1>3

LEMMA CurrentTokenNext == IInv' => TokenFact'
  BY CurrentToken, PTL

LEMMA SameWorks ==
    ASSUME IInv, IInv', \A s, t \in Requests : Works(s, t)' <=> Works(s, t)
    PROVE  Current' = Current
<1>1. /\ Current \in [Requests -> Requests \cup {None}]
      /\ \A s, t \in Requests : Works(s, t) <=> Current[s] = t
      /\ \A s \in Requests : (\A t \in Requests : ~Works(s, t)) => Current[s] = None
  BY CurrentToken DEF TokenFact
<1>2. /\ Current' \in [Requests -> Requests \cup {None}]
      /\ \A s, t \in Requests : Works(s, t)' <=> Current'[s] = t
      /\ \A s \in Requests : (\A t \in Requests : ~Works(s, t)') => Current'[s] = None
  BY CurrentTokenNext DEF TokenFact
<1>3. ASSUME NEW s \in Requests PROVE Current'[s] = Current[s]
  BY <1>1, <1>2
<1> QED
  BY <1>1, <1>2, <1>3

\* Tokens that stop to work end their sessions.
LEMMA Ending ==
    ASSUME IInv, IInv', \A s, t \in Requests : Works(s, t)' => Works(s, t),
           Exchanged' = Exchanged, Named' = Named
    PROVE  Credentials!Next
<1> DEFINE sessions == {s \in Requests : Current'[s] = None}
<1>1. /\ Current \in [Requests -> Requests \cup {None}]
      /\ \A s, t \in Requests : Works(s, t) <=> Current[s] = t
  BY CurrentToken DEF TokenFact
<1>2. /\ Current' \in [Requests -> Requests \cup {None}]
      /\ \A s, t \in Requests : Works(s, t)' <=> Current'[s] = t
  BY CurrentTokenNext DEF TokenFact
<1>3. Current' = [s \in Requests |-> IF s \in sessions THEN None ELSE Current[s]]
  BY <1>1, <1>2
<1>4. Credentials!End(sessions)
  BY <1>3 DEF Credentials!End, Credentials!Ended, Named
<1>5. sessions \in SUBSET Requests
  OBVIOUS
<1> HIDE DEF sessions
<1> QED
  BY <1>4, <1>5 DEF Credentials!Next

LEMMA CreateImplements ==
    ASSUME IInv, IInv', NEW r \in Requests, CreateSession(r) PROVE Credentials!Next
<1> DEFINE ended == {s \in Requests \ {r} : Current'[s] = None}
<1>1. /\ Current \in [Requests -> Requests \cup {None}]
      /\ \A s, t \in Requests : Works(s, t) <=> Current[s] = t
  BY CurrentToken DEF TokenFact
<1>2. /\ Current' \in [Requests -> Requests \cup {None}]
      /\ \A s, t \in Requests : Works(s, t)' <=> Current'[s] = t
  BY CurrentTokenNext DEF TokenFact
<1>3. /\ stage[r] = "commit" /\ req[r].kind = "signIn" /\ req' = req /\ r \notin Named
      /\ family' = [family EXCEPT ![r] = r] /\ family \in [Requests -> Requests \cup {None}]
      /\ active' = (active \ sessionRows[r]) \cup {r} /\ fresh' = (fresh \ tokenRows[r]) \cup {r}
  BY DEF CreateSession, IInv, TypeOK, NameInv, NamesOf, Revoking
<1>4. Works(r, r)'
  BY <1>3 DEF Works
<1>5. \A s \in Requests \ {r}, t \in Requests : Works(s, t)' => Works(s, t)
  BY <1>3 DEF Works
<1>6. Current' = [[s \in Requests |-> IF s \in ended THEN None ELSE Current[s]] EXCEPT ![r] = r]
  BY <1>1, <1>2, <1>4, <1>5
<1>7. Exchanged' = Exchanged
  BY <1>3, NamesAssumption DEF Exchanged, Named
<1>8. {x \in Requests : family'[x] # None} = Named \cup {r}
  BY <1>3, NamesAssumption DEF Named
<1>9. Credentials!SignIn(r, ended)
  BY <1>3, <1>6, <1>7, <1>8 DEF Credentials!SignIn, Credentials!Ended, Named
<1>10. ended \in SUBSET Requests
  OBVIOUS
<1> HIDE DEF ended
<1>11. \E e \in SUBSET Requests : Credentials!SignIn(r, e)
  BY <1>9, <1>10 DEF Credentials!SignIn, Credentials!Ended
<1> QED
  BY <1>11 DEF Credentials!Next

\* What a request is and what token it came with stay as they were.
SameTokens == \A o \in Requests : req'[o].kind = req[o].kind /\ req'[o].token = req[o].token

LEMMA ContinueKeeps ==
    ASSUME TypeOK, NEW r \in Requests, NEW sessions, NEW request \in Request,
           request.kind = req[r].kind, request.token = req[r].token, Continue(r, sessions, request)
    PROVE  SameTokens
<1>1. ASSUME NEW new, req' = [req EXCEPT ![r] = new], new.kind = req[r].kind, new.token = req[r].token
      PROVE  SameTokens
  BY <1>1 DEF SameTokens, TypeOK
<1>2. CASE req' = [req EXCEPT ![r] = [request EXCEPT !.todo = {}]]
  BY <1>1, <1>2 DEF Request
<1>3. ASSUME NEW s, req' = [req EXCEPT ![r] = [request EXCEPT !.session = s, !.todo = sessions \ {s}]]
      PROVE  SameTokens
  BY <1>1, <1>3 DEF Request
<1> QED
  BY <1>2, <1>3 DEF Continue

LEMMA RevokeKeeps ==
    ASSUME TypeOK, NEW r \in Requests, NEW sessions, NEW answer \in Answers,
           Revoke(r, sessions, answer)
    PROVE  SameTokens
<1> DEFINE request == [req[r] EXCEPT !.answer = answer]
<1>0. req[r] \in Request
  BY DEF TypeOK
<1>1. request \in Request /\ request.kind = req[r].kind /\ request.token = req[r].token
  BY <1>0 DEF Request
<1>2. Continue(r, sessions, request)
  BY DEF Revoke
<1> HIDE DEF request
<1> QED
  BY <1>1, <1>2, ContinueKeeps

LEMMA RotateImplements ==
    ASSUME IInv, IInv', NEW r \in Requests, Rotate(r) PROVE Credentials!Next
<1>a. req[r].session \in Requests /\ req[r].token \in Requests
  BY DEF Rotate, IInv, RowInv, RowsOf, Rotating, TypeOK
<1>b. PICK s \in Requests, t \in Requests : s = req[r].session /\ t = req[r].token
  BY <1>a
<1>1. /\ Current \in [Requests -> Requests \cup {None}]
      /\ \A x, y \in Requests : Works(x, y) <=> Current[x] = y
      /\ \A x \in Requests : (\A y \in Requests : ~Works(x, y)) => Current[x] = None
  BY CurrentToken DEF TokenFact
<1>2. /\ Current' \in [Requests -> Requests \cup {None}]
      /\ \A x, y \in Requests : Works(x, y)' <=> Current'[x] = y
      /\ \A x \in Requests : (\A y \in Requests : ~Works(x, y)') => Current'[x] = None
  BY CurrentTokenNext DEF TokenFact
<1>3. /\ stage[r] = "rotate" /\ req[r].kind = "refresh" /\ r \notin Named /\ TypeOK
      /\ t \in fresh /\ s \in active /\ family[t] = s /\ tokenRows[r] = {t}
      /\ fresh \subseteq Named
  BY <1>b DEF Rotate, IInv, TypeOK, NameInv, NamesOf, RowInv, RowsOf, Rotating
<1>4. /\ active' = active /\ family' = [family EXCEPT ![r] = s] /\ fresh' = (fresh \ {t}) \cup {r}
  BY <1>3, <1>b DEF Rotate
<1>5. SameTokens
  BY <1>3, RevokeKeeps DEF Rotate, SameTokens, Answers
<1>0. family \in [Requests -> Requests \cup {None}]
  BY <1>3 DEF TypeOK
<1>6. Works(s, t) /\ Works(s, r)'
  BY <1>0, <1>3, <1>4 DEF Works
<1>7. \A x \in Requests \ {s}, y \in Requests : Works(x, y)' <=> Works(x, y)
  BY <1>3, <1>4 DEF Works, TypeOK
<1>8. Current[s] = t /\ Current' = [Current EXCEPT ![s] = r]
  <2>1. Current[s] = t /\ Current'[s] = r
    BY <1>1, <1>2, <1>3, <1>6
  <2>2. ASSUME NEW x \in Requests \ {s} PROVE Current'[x] = Current[x]
    BY <1>1, <1>2, <1>7
  <2> QED
    BY <1>1, <1>2, <2>1, <2>2
<1>9. {x \in Requests : family'[x] # None} = Named \cup {r}
  BY <1>3, <1>4, NamesAssumption DEF Named, TypeOK
<1>10. Exchanged' = Exchanged \cup {t}
  <2>1. Exchanged' = {req'[o].token : o \in {x \in Named \cup {r} : req'[x].kind = "refresh"}}
    BY <1>9 DEF Exchanged, Named
  <2>2. Exchanged = {req[o].token : o \in {x \in Named : req[x].kind = "refresh"}}
    BY DEF Exchanged, Named
  <2>3. Named \subseteq Requests
    BY DEF Named
  <2> QED
    BY <1>3, <1>5, <1>b, <2>1, <2>2, <2>3 DEF SameTokens
<1>11. t \notin Exchanged
  BY <1>3 DEF IInv, ExchangeInv, Exchanged, Named
<1>12. Credentials!Exchange(s, r)
  BY <1>3, <1>8, <1>9, <1>10, <1>11, NamesAssumption DEF Credentials!Exchange, Named
<1> QED
  BY <1>3, <1>12 DEF Credentials!Next

LEMMA StepImplements ==
    IInv /\ IInv' /\ [Next]_vars => [Credentials!Next]_(Credentials!vars)
<1> SUFFICES ASSUME IInv, IInv', [Next]_vars PROVE Credentials!Next
  BY DEF Credentials!vars
<1>1. TypeOK
  BY DEF IInv
<1>2. ASSUME family' = family, active' \subseteq active, fresh' \subseteq fresh,
             \A o \in Named : req'[o].kind = req[o].kind /\ req'[o].token = req[o].token
      PROVE  Credentials!Next
  <2>1. Exchanged' = Exchanged /\ Named' = Named
    BY <1>2 DEF Exchanged, Named
  <2>2. \A s, t \in Requests : Works(s, t)' => Works(s, t)
    BY <1>2 DEF Works
  <2> QED
    BY <2>1, <2>2, Ending
<1>3. ASSUME SameTokens, family' = family, active' \subseteq active, fresh' \subseteq fresh
      PROVE  Credentials!Next
  BY <1>2, <1>3 DEF SameTokens, Named
<1>4. ASSUME NEW r \in Requests, Ask(r) PROVE Credentials!Next
  <2>1. r \notin Named
    BY <1>4 DEF Ask, IInv, NameInv, NamesOf
  <2> QED
    BY <1>1, <1>2, <1>4, <2>1 DEF Ask, rows, Named, TypeOK
<1>5. ASSUME NEW r \in Requests,
             BeginSignIn(r) \/ ReadRefresh(r) \/ Consume(r) \/ Extend(r) \/ Route(r) \/ Logout(r)
      PROVE  Credentials!Next
  <2>1. SameTokens
    <3>1. CASE ReadRefresh(r)
      <4>1. ASSUME NEW s, req' = [req EXCEPT ![r].session = s] PROVE SameTokens
        BY <1>1, <4>1 DEF SameTokens, TypeOK, Request
      <4> QED
        BY <1>1, <3>1, <4>1, RevokeKeeps DEF ReadRefresh, SameTokens, Answers
    <3>2. CASE BeginSignIn(r)
      <4> DEFINE sessions == {s \in active : device[s] = req[r].device}
      <4>1. Revoke(r, sessions, "signedIn") /\ "signedIn" \in Answers
        BY <3>2 DEF BeginSignIn, Answers
      <4> HIDE DEF sessions
      <4> QED
        BY <1>1, <4>1, RevokeKeeps
    <3>3. CASE Logout(r)
      <4> DEFINE sessions == IF req[r].token \in fresh \cup spent THEN {family[req[r].token]} ELSE {}
      <4>1. Revoke(r, sessions, "loggedOut") /\ "loggedOut" \in Answers
        BY <3>3 DEF Logout, Answers
      <4> HIDE DEF sessions
      <4> QED
        BY <1>1, <4>1, RevokeKeeps
    <3>4. CASE Consume(r) \/ Extend(r)
      BY <1>1, <3>4, RevokeKeeps DEF Consume, Extend, SameTokens, Answers
    <3>5. CASE Route(r)
      BY <1>1, <3>5, RevokeKeeps DEF Route, SameTokens, Answers
    <3> QED
      BY <1>5, <3>1, <3>2, <3>3, <3>4, <3>5
  <2> QED
    BY <1>3, <1>5, <2>1
       DEF BeginSignIn, ReadRefresh, Consume, Extend, Route, Logout, rows
<1>6. ASSUME NEW r \in Requests, SweepTokens(r) PROVE Credentials!Next
  <2> DEFINE request == [req[r] EXCEPT !.swept = req[r].swept \cup {req[r].session}]
             todo == req[r].todo
  <2>1. stage[r] = "sweep" /\ Continue(r, todo, request)
    BY <1>6 DEF SweepTokens
  <2>2. request \in Request /\ request.kind = req[r].kind /\ request.token = req[r].token
    <3>1. req[r].session \in Requests
      BY <2>1 DEF IInv, RowInv, RowsOf, Named
    <3>2. req[r] \in Request
      BY <1>1 DEF TypeOK
    <3> QED
      BY <3>1, <3>2 DEF Request
  <2> HIDE DEF request, todo
  <2>3. SameTokens
    BY <1>1, <2>1, <2>2, ContinueKeeps
  <2> QED
    BY <1>3, <1>6, <2>3 DEF SweepTokens, rows
<1>7. ASSUME NEW r \in Requests,
             RevokeSession(r) \/ FindAccess(r) \/ TouchAccess(r) \/ BreakDeadlock(r)
                \/ FinishRevocation(r)
      PROVE  Credentials!Next
  BY <1>3, <1>7 DEF RevokeSession, FindAccess, TouchAccess, BreakDeadlock, FinishRevocation,
                    SameTokens, rows
<1>8. ASSUME NEW x \in Requests,
             Lapse(x) \/ PurgeAccess(x) \/ PurgeRefresh(x) \/ PurgeSession(x)
      PROVE  Credentials!Next
  BY <1>3, <1>8 DEF Lapse, PurgeAccess, PurgeRefresh, PurgeSession, SameTokens
<1>9. CASE Crash \/ UNCHANGED vars
  BY <1>3, <1>9 DEF Crash, vars, rows, SameTokens
<1> QED
  BY <1>4, <1>5, <1>6, <1>7, <1>8, <1>9, CreateImplements, RotateImplements DEF Next, Serve

\* Every behaviour of the mobile sessions, for any requests and devices, is one of chains of
\* tokens that are each exchanged once, in sessions that end for good.
THEOREM Refinement == Spec => ImplementsCredentials
<1>1. Init => Credentials!Init
  BY DEF Init, Credentials!Init, Current, Exchanged
<1> QED
  BY <1>1, StepImplements, Inductive, PTL DEF Spec, ImplementsCredentials, Credentials!Spec
=============================================================================
