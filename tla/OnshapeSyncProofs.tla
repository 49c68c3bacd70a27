-------------------------- MODULE OnshapeSyncProofs --------------------------
(***************************************************************************)
(* What the Onshape connection and its imports promise, for any number of  *)
(* imports, renewals, callbacks and documents.                             *)
(*                                                                         *)
(* The connection: of the refreshes under way only the one in flight is of *)
(* the current generation, and it was started from the current token set   *)
(* (FlightInv); an overtaken one presents a refresh token that is gone     *)
(* (OvertakenInv).  The records: a request that still reads has a running  *)
(* run and has made nothing (WorkInv).                                     *)
(***************************************************************************)
EXTENDS OnshapeSync, SequenceTheorems, TLAPS

Stages == {"idle", "refreshing", "asking", "calling", "recording", "exchanging", "answered"}
Tokens == Nat \cup {Env, Null}
RefreshRecords == [generation : Nat, presents : Tokens, over : Nat \cup {Null}]

TokenSets == [id : Nat \cup {Null}, refresh : Tokens, due : BOOLEAN]

ConnectionTypes ==
    /\ tokenSet \in TokenSets
    /\ generation \in Nat
    /\ refreshInFlight \in Refreshers \cup {Null}
    /\ begun \in [Refreshers -> RefreshRecords]
    /\ awaits \in [Refreshers -> Refreshers \cup {Null}]
    /\ progress \in [Requests -> Stages]
    /\ bearer \in [Imports -> Tokens]

\* Who awaits a refresh is refreshing.
AwaitsInv == \A r \in Refreshers : awaits[r] # Null => progress[r] = "refreshing"

\* The refresh in flight is of the current generation, and of the current token set; no
\* other refresh under way is.
FlightInv ==
    /\ refreshInFlight # Null =>
         /\ refreshInFlight \in Pending
         /\ begun[refreshInFlight].presents = RefreshToken
         /\ begun[refreshInFlight].over = tokenSet.id
    /\ \A p \in Pending :
         /\ begun[p].generation <= generation
         /\ begun[p].generation = generation => p = refreshInFlight

\* A refresh token is not newer than the refresh that presents it, and one that was
\* presented by an overtaken refresh is not stored any more.
OvertakenInv ==
    /\ tokenSet.refresh \in Nat => tokenSet.refresh <= generation
    /\ \A p \in Pending :
         /\ begun[p].presents # Null
         /\ begun[p].presents \in Nat => begun[p].presents <= begun[p].generation
         /\ p # refreshInFlight /\ begun[p].presents # Env => begun[p].presents # tokenSet.refresh

ConnectionInv ==
    ConnectionTypes /\ AwaitsInv /\ FlightInv /\ OvertakenInv /\ OneRefreshPerToken

Levels == {"link_only", "shallow", "bom"}
Statuses == {"none", "running", "completed", "failed", "partial"}

RecordTypes ==
    /\ asked \in [Imports -> [ref : Refs, level : Levels] \cup {Null}]
    /\ phase \in [Imports -> Phases]
    /\ run \in [Imports -> Statuses] /\ job \in [Imports -> Statuses]
    /\ made \in [Imports -> Nat]
    /\ synced \in Seq([ref : Refs, by : Imports, graph : BOOLEAN])

\* Before its token an import has no run; while it reads it has a running one that has
\* made nothing, and it has asked for something to read.
Working(i) == progress[i] \in {"asking", "calling"}
WorkOf(i) ==
    /\ progress[i] \in {"idle", "refreshing"} => run[i] = "none" /\ made[i] = 0
    /\ Working(i) => run[i] = "running" /\ made[i] = 0
    /\ Working(i) \/ progress[i] = "refreshing" =>
           asked[i] \in [ref : Refs, level : {"shallow", "bom"}]

WorkInv == \A i \in Imports : WorkOf(i)

RecordsInv == RecordTypes /\ WorkInv /\ SnapshotsMatchRuns

OnshapeInv == ConnectionInv /\ RecordsInv

-----------------------------------------------------------------------------
(***************************************************************************)
(* The connection.                                                         *)
(***************************************************************************)
LEMMA ConnectionInit ==
    ASSUME CredentialsInit
    PROVE  ConnectionInv
<1>1. Pending = {}
  BY CallersAssumption DEF Pending, CredentialsInit, Refreshers
<1>2. ConnectionTypes
  <2>1. NoRefresh \in RefreshRecords /\ tokenSet \in TokenSets
    BY DEF NoRefresh, RefreshRecords, TokenSets, Tokens, CredentialsInit
  <2> QED
    BY <2>1 DEF ConnectionTypes, CredentialsInit, Tokens, Stages
<1>3. AwaitsInv /\ refreshInFlight = Null /\ tokenSet.refresh = Null
  BY DEF AwaitsInv, CredentialsInit
<1>4. FlightInv /\ OvertakenInv /\ OneRefreshPerToken
  BY <1>1, <1>3, TokensAssumption DEF FlightInv, OvertakenInv, OneRefreshPerToken
<1> QED
  BY <1>2, <1>3, <1>4 DEF ConnectionInv

\* A step that leaves tokens and refreshes alone, and whoever awaits one where it is.
Calm ==
    /\ tokenSet' = [tokenSet EXCEPT !.due = tokenSet'.due] /\ tokenSet'.due \in BOOLEAN
    /\ UNCHANGED <<env, generation, refreshInFlight, begun, awaits>>
    /\ progress' \in [Requests -> Stages]
    /\ \A r \in Refreshers : progress[r] = "refreshing" => progress'[r] = "refreshing"
    /\ bearer' \in [Imports -> Tokens]

LEMMA CalmKeeps ==
    ASSUME ConnectionInv, Calm
    PROVE  ConnectionInv' /\ CurrentToken' = CurrentToken
<1> USE DEF ConnectionInv, Calm
<1>1. /\ tokenSet'.id = tokenSet.id /\ tokenSet'.refresh = tokenSet.refresh
      /\ tokenSet' \in TokenSets
  BY DEF ConnectionTypes, TokenSets
<1>2. ConnectionTypes'
  BY <1>1 DEF ConnectionTypes, Tokens, RefreshRecords
<1>3. Pending' = Pending /\ RefreshToken' = RefreshToken /\ CurrentToken' = CurrentToken
  BY <1>1 DEF Pending, RefreshToken, CurrentToken
<1>4. AwaitsInv'
  BY DEF AwaitsInv
<1>5. FlightInv' /\ OvertakenInv' /\ OneRefreshPerToken'
  BY <1>1, <1>3 DEF FlightInv, OvertakenInv, OneRefreshPerToken
<1> QED
  BY <1>2, <1>3, <1>4, <1>5

\* A request that needs a refresh joins the one in flight, or starts one.
LEMMA JoinKeeps ==
    ASSUME ConnectionInv, NEW r \in Refreshers, progress[r] = "idle", RefreshToken # Null,
           JoinRefresh(r), UNCHANGED <<env, tokens, bearer>>
    PROVE  ConnectionInv'
<1> USE DEF ConnectionInv
<1>0. r # Null /\ Null \notin Refreshers
  BY CallersAssumption DEF Refreshers
<1>1. /\ tokenSet' = tokenSet /\ generation' = generation /\ RefreshToken' = RefreshToken
      /\ awaits[r] = Null /\ r \in Requests
      /\ progress' = [progress EXCEPT ![r] = "refreshing"]
  <2>1. "idle" # "refreshing"
    OBVIOUS
  <2> QED
    BY <2>1 DEF tokens, RefreshToken, AwaitsInv, Requests, JoinRefresh, Proceed
<1>2. progress' \in [Requests -> Stages] /\ progress'[r] = "refreshing"
  BY <1>1 DEF ConnectionTypes, Stages
<1>3. CASE refreshInFlight # Null
  <2>1. /\ awaits' = [awaits EXCEPT ![r] = refreshInFlight]
        /\ begun' = begun /\ refreshInFlight' = refreshInFlight
    BY <1>3 DEF JoinRefresh
  <2>2. refreshInFlight \in Pending /\ refreshInFlight # r
    BY <1>0, <1>1, <1>3 DEF FlightInv, Pending
  <2>3. ConnectionTypes'
    BY <1>1, <1>2, <2>1, <2>2 DEF ConnectionTypes, Pending, Tokens, RefreshRecords
  <2>4. Pending' = Pending
    BY <1>0, <1>1, <2>1, <2>2 DEF Pending, ConnectionTypes
  <2>5. AwaitsInv'
    BY <1>1, <2>1 DEF AwaitsInv, ConnectionTypes, Requests
  <2>6. FlightInv' /\ OvertakenInv' /\ OneRefreshPerToken'
    BY <1>1, <2>1, <2>4 DEF FlightInv, OvertakenInv, OneRefreshPerToken
  <2> QED
    BY <2>3, <2>5, <2>6
<1>4. CASE refreshInFlight = Null
  <2> DEFINE new == [generation |-> generation, presents |-> RefreshToken, over |-> tokenSet.id]
  <2>1. /\ awaits' = [awaits EXCEPT ![r] = r] /\ refreshInFlight' = r
        /\ begun' = [begun EXCEPT ![r] = new]
    BY <1>4 DEF JoinRefresh, StartRefresh
  <2>2. new \in RefreshRecords
    BY DEF ConnectionTypes, TokenSets, RefreshRecords, RefreshToken, Tokens
  <2>3. ConnectionTypes'
    BY <1>1, <1>2, <2>1, <2>2 DEF ConnectionTypes, Tokens, RefreshRecords
  <2>4. /\ \A p \in Pending' : p = r \/ p \in Pending
        /\ \A p \in Pending : p # r /\ begun'[p] = begun[p]
        /\ r \in Pending' /\ begun'[r] = new
    BY <1>0, <1>1, <2>1 DEF Pending, ConnectionTypes
  <2>5. AwaitsInv'
    BY <1>1, <2>1 DEF AwaitsInv, ConnectionTypes, Requests
  <2>6. /\ begun'[r].generation = generation /\ begun'[r].presents = RefreshToken
        /\ begun'[r].over = tokenSet.id
    BY <2>4
  <2> HIDE DEF new
  <2>7. FlightInv'
    <3>1. \A p \in Pending : begun[p].generation <= generation /\ begun[p].generation # generation
      BY <1>0, <1>4 DEF FlightInv, Pending
    <3>2. generation \in Nat
      BY DEF ConnectionTypes
    <3> QED
      BY <1>1, <2>1, <2>4, <2>6, <3>1, <3>2 DEF FlightInv
  <2>8. RefreshToken \in Nat => RefreshToken <= generation
    BY TokensAssumption DEF RefreshToken, OvertakenInv
  <2>9. OvertakenInv'
    <3>1. \A p \in Pending : p # refreshInFlight
      BY <1>0, <1>4 DEF Pending
    <3> QED
      BY <1>1, <2>1, <2>4, <2>6, <2>8, <3>1 DEF OvertakenInv
  <2>10. OneRefreshPerToken'
    <3>1. ASSUME NEW p \in Pending, begun[p].presents = RefreshToken
          PROVE  begun[p].presents = Env
      <4>1. p # refreshInFlight
        BY <1>0, <1>4 DEF Pending
      <4>2. begun[p].presents # Env => begun[p].presents # tokenSet.refresh
        BY <4>1 DEF OvertakenInv
      <4> QED
        BY <3>1, <4>2 DEF RefreshToken
    <3> QED
      BY <2>4, <2>6, <3>1 DEF OneRefreshPerToken
  <2> QED
    BY <2>3, <2>5, <2>7, <2>9, <2>10
<1> QED
  BY <1>3, <1>4

LEMMA NewTokens ==
    ASSUME NEW n \in Nat, NEW t \in Tokens
    PROVE  [id |-> n, due |-> FALSE, refresh |-> t] \in TokenSets
  BY DEF TokenSets

\* What a refresh that settles does to those that are not over.
LEMMA Settling ==
    ASSUME ConnectionInv, NEW p \in Refreshers, RefreshSettles(p)
    PROVE  /\ p \in Pending /\ p \notin Pending'
           /\ \A q \in Pending' : q \in Pending /\ q # p /\ begun'[q] = begun[q]
           /\ \A q \in Refreshers : awaits'[q] # Null => progress'[q] = progress[q] /\ awaits[q] # Null
           /\ \A q \in Released(p) : progress[q] = "refreshing" /\ awaits'[q] = Null
           /\ refreshInFlight' # Null => refreshInFlight' = refreshInFlight /\ refreshInFlight \in Pending'
           /\ env' = env
<1> USE DEF ConnectionInv
<1>1. PICK ok, rotated \in BOOLEAN :
        /\ p \in Pending
        /\ refreshInFlight' = IF refreshInFlight = p THEN Null ELSE refreshInFlight
        /\ progress' = [r \in Requests |->
                      IF r \notin Released(p) THEN progress[r]
                      ELSE IF r \in Imports /\ Served(p, ok) THEN "asking" ELSE "answered"]
        /\ begun' = [begun EXCEPT ![p] = NoRefresh]
        /\ awaits' = [r \in Refreshers |-> IF r \in Released(p) THEN Null ELSE awaits[r]]
        /\ env' = env
  BY Zenon DEF RefreshSettles
<1>2. Null \notin Refreshers
  BY CallersAssumption DEF Refreshers
<1>3. p \notin Pending' /\ \A q \in Pending' : q \in Pending /\ q # p /\ q \notin Released(p)
  BY <1>1, <1>2 DEF Pending, Released
<1>4. \A q \in Pending' : begun'[q] = begun[q]
  BY <1>1, <1>3 DEF ConnectionTypes, Pending
<1>5. \A q \in Refreshers : awaits'[q] # Null =>
          q \notin Released(p) /\ progress'[q] = progress[q] /\ awaits[q] # Null
  BY <1>1 DEF Requests
<1>6. \A q \in Released(p) : progress[q] = "refreshing" /\ awaits'[q] = Null
  BY <1>1, <1>2 DEF Released, AwaitsInv, Pending
<1>7. ASSUME refreshInFlight' # Null
      PROVE  refreshInFlight' = refreshInFlight /\ refreshInFlight \in Pending'
  <2>1. refreshInFlight' = refreshInFlight /\ refreshInFlight # p
    BY <1>1, <1>7
  <2>2. refreshInFlight \in Pending
    BY <1>7, <2>1 DEF FlightInv
  <2> QED
    BY <1>1, <2>1, <2>2 DEF Pending, Released
<1> QED
  BY <1>1, <1>3, <1>4, <1>5, <1>6, <1>7

\* A refresh lands, or it fails or is too late; whoever goes on has the current token.
LEMMA SettleKeeps ==
    ASSUME ConnectionInv, NEW p \in Refreshers, RefreshSettles(p)
    PROVE  /\ ConnectionInv'
           /\ tokens' # tokens => tokenSet.id = begun[p].over
           /\ \A i \in Imports : progress[i] # "asking" /\ progress'[i] = "asking" => bearer'[i] = CurrentToken'
<1> USE DEF ConnectionInv
<1> DEFINE id == generation + 1
<1>1. PICK ok, rotated \in BOOLEAN :
        /\ IF ok /\ Lands(p)
           THEN /\ tokenSet' = [id |-> id, due |-> FALSE,
                                refresh |-> IF rotated THEN id ELSE begun[p].presents]
                /\ generation' = id
           ELSE UNCHANGED tokens
        /\ refreshInFlight' = IF refreshInFlight = p THEN Null ELSE refreshInFlight
        /\ progress' = [r \in Requests |->
                      IF r \notin Released(p) THEN progress[r]
                      ELSE IF r \in Imports /\ Served(p, ok) THEN "asking" ELSE "answered"]
        /\ bearer' = [i \in Imports |->
                       IF i \in Released(p) /\ Served(p, ok) THEN id ELSE bearer[i]]
        /\ begun' = [begun EXCEPT ![p] = NoRefresh]
        /\ awaits' = [r \in Refreshers |-> IF r \in Released(p) THEN Null ELSE awaits[r]]
  BY Zenon DEF RefreshSettles
<1>2. /\ p \in Pending /\ p \notin Pending'
      /\ \A q \in Pending' : q \in Pending /\ q # p /\ begun'[q] = begun[q]
      /\ \A q \in Refreshers : awaits'[q] # Null => progress'[q] = progress[q] /\ awaits[q] # Null
      /\ refreshInFlight' # Null => refreshInFlight' = refreshInFlight /\ refreshInFlight \in Pending'
      /\ env' = env
  BY Settling
<1>3. generation \in Nat /\ id \in Nat /\ begun[p] \in RefreshRecords /\ begun[p].presents \in Tokens
  BY DEF ConnectionTypes, RefreshRecords
<1>4. ConnectionTypes'
  <2>1. tokenSet' \in TokenSets /\ generation' \in Nat
    <3>1. CASE ok /\ Lands(p)
      <4>1. (IF rotated THEN id ELSE begun[p].presents) \in Tokens
        BY <1>3 DEF Tokens
      <4> QED
        BY <1>1, <1>3, <3>1, <4>1, NewTokens
    <3>2. CASE ~(ok /\ Lands(p))
      BY <1>1, <3>2 DEF ConnectionTypes, tokens
    <3> QED
      BY <3>1, <3>2
  <2>2. refreshInFlight' \in Refreshers \cup {Null} /\ awaits' \in [Refreshers -> Refreshers \cup {Null}]
    BY <1>1 DEF ConnectionTypes
  <2>3. begun' \in [Refreshers -> RefreshRecords]
    BY <1>1 DEF ConnectionTypes, NoRefresh, RefreshRecords, Tokens
  <2>4. progress' \in [Requests -> Stages]
    BY <1>1 DEF ConnectionTypes, Stages
  <2>5. bearer' \in [Imports -> Tokens]
    BY <1>1, <1>3 DEF ConnectionTypes, Tokens
  <2> QED
    BY <2>1, <2>2, <2>3, <2>4, <2>5 DEF ConnectionTypes
<1>5. AwaitsInv'
  BY <1>2 DEF AwaitsInv
<1>6. OneRefreshPerToken'
  BY <1>2 DEF OneRefreshPerToken
<1>7. CASE ok /\ Lands(p)
  <2>1. /\ tokenSet'.id = id /\ generation' = id
        /\ tokenSet'.refresh = IF rotated THEN id ELSE begun[p].presents
    BY <1>1, <1>7
  <2>2. p = refreshInFlight /\ refreshInFlight' = Null
    BY <1>1, <1>2, <1>7 DEF Lands, FlightInv
  <2>3. tokenSet.id = begun[p].over
    BY <1>2, <2>2, CallersAssumption DEF FlightInv, Refreshers
  <2>4. \A q \in Pending : begun[q].generation \in Nat /\ begun[q].generation <= generation
    BY DEF FlightInv, ConnectionTypes, RefreshRecords, Pending
  <2>5. FlightInv'
    BY <1>2, <1>3, <2>1, <2>2, <2>4 DEF FlightInv
  <2>6. ASSUME NEW q \in Pending', begun[q].presents # Env
        PROVE  begun[q].presents # tokenSet'.refresh
    <3>1. q \in Pending /\ q # p
      BY <1>2
    <3>2. begun[q].presents # begun[p].presents
      BY <1>2, <2>6, <3>1 DEF OneRefreshPerToken
    <3>3. begun[q].presents # id
      BY <1>3, <2>4, <3>1 DEF OvertakenInv
    <3> QED
      BY <2>1, <3>2, <3>3
  <2>7. tokenSet'.refresh \in Nat => tokenSet'.refresh <= generation'
    <3>1. begun[p].presents \in Nat => begun[p].presents <= generation
      BY <1>2, <1>3, <2>4 DEF OvertakenInv
    <3> QED
      BY <1>3, <2>1, <3>1
  <2>8. OvertakenInv'
    BY <1>2, <2>6, <2>7 DEF OvertakenInv
  <2>9. CurrentToken' = id
    BY <1>3, <2>1, TokensAssumption DEF CurrentToken
  <2>10. ASSUME NEW i \in Imports, progress[i] # "asking", progress'[i] = "asking"
         PROVE  bearer'[i] = id
    BY <1>1, <1>7, <2>10 DEF Served, Requests, Refreshers
  <2> QED
    BY <1>4, <1>5, <1>6, <2>3, <2>5, <2>8, <2>9, <2>10
<1>8. CASE ~(ok /\ Lands(p))
  <2>1. tokenSet' = tokenSet /\ generation' = generation /\ RefreshToken' = RefreshToken
    BY <1>1, <1>2, <1>8 DEF tokens, RefreshToken
  <2>2. \A q \in Pending' : q = refreshInFlight => q = refreshInFlight'
    BY <1>1, <1>2
  <2>3. FlightInv'
    BY <1>2, <2>1, <2>2 DEF FlightInv
  <2>4. OvertakenInv'
    BY <1>2, <2>1, <2>2 DEF OvertakenInv
  <2>5. ASSUME NEW i \in Imports, progress[i] # "asking"
        PROVE  progress'[i] # "asking"
    BY <1>1, <1>8, <2>5 DEF Served, Requests, Refreshers
  <2> QED
    BY <1>4, <1>5, <1>6, <2>1, <2>3, <2>4, <2>5 DEF tokens
<1> QED
  BY <1>7, <1>8

\* A callback that brings new tokens overtakes the refresh in flight.
LEMMA ExchangeKeeps ==
    ASSUME ConnectionInv, NEW c \in Callbacks, ExchangeSettles(c)
    PROVE  ConnectionInv'
<1> USE DEF ConnectionInv
<1>1. PICK ok, refreshable \in BOOLEAN :
        /\ progress' = [progress EXCEPT ![c] = "answered"]
        /\ IF ok
           THEN /\ generation' = generation + 1
                /\ refreshInFlight' = Null
                /\ tokenSet' = [id |-> generation', due |-> FALSE,
                                refresh |-> IF refreshable THEN generation' ELSE Null]
           ELSE UNCHANGED <<tokens, refreshInFlight>>
        /\ UNCHANGED <<env, envDue, begun, awaits, oauthStates, bearer>>
  BY Zenon DEF ExchangeSettles, Proceed
<1>2. c \notin Refreshers /\ c \in Requests
  BY CallersAssumption DEF Refreshers, Requests
<1>3. generation \in Nat /\ generation + 1 \in Nat
  BY DEF ConnectionTypes
<1>4. ConnectionTypes'
  <2>1. tokenSet' \in TokenSets /\ generation' \in Nat
        /\ refreshInFlight' \in Refreshers \cup {Null}
    <3>1. CASE ok
      <4>1. (IF refreshable THEN generation' ELSE Null) \in Tokens
        BY <1>1, <1>3, <3>1 DEF Tokens
      <4> QED
        BY <1>1, <1>3, <3>1, <4>1, NewTokens
    <3>2. CASE ~ok
      BY <1>1, <3>2 DEF ConnectionTypes, tokens
    <3> QED
      BY <3>1, <3>2
  <2>2. progress' \in [Requests -> Stages]
    BY <1>1 DEF ConnectionTypes, Stages
  <2> QED
    BY <1>1, <2>1, <2>2 DEF ConnectionTypes, Tokens, RefreshRecords
<1>5. Pending' = Pending /\ AwaitsInv' /\ OneRefreshPerToken'
  BY <1>1, <1>2 DEF Pending, AwaitsInv, OneRefreshPerToken, ConnectionTypes, Requests
<1>6. CASE ok
  <2>1. /\ generation' = generation + 1 /\ refreshInFlight' = Null
        /\ tokenSet'.refresh \in {generation + 1, Null}
    BY <1>1, <1>6
  <2>2. \A q \in Pending : begun[q].generation \in Nat /\ begun[q].generation <= generation
    BY DEF FlightInv, ConnectionTypes, RefreshRecords, Pending
  <2>3. FlightInv'
    BY <1>1, <1>3, <1>5, <2>1, <2>2 DEF FlightInv
  <2>4. OvertakenInv'
    BY <1>1, <1>3, <1>5, <2>1, <2>2, TokensAssumption DEF OvertakenInv
  <2> QED
    BY <1>4, <1>5, <2>3, <2>4
<1>7. CASE ~ok
  <2>1. tokenSet' = tokenSet /\ generation' = generation /\ refreshInFlight' = refreshInFlight
        /\ RefreshToken' = RefreshToken
    BY <1>1, <1>7 DEF tokens, RefreshToken
  <2>2. FlightInv' /\ OvertakenInv'
    BY <1>1, <1>5, <2>1 DEF FlightInv, OvertakenInv
  <2> QED
    BY <1>4, <1>5, <2>2
<1> QED
  BY <1>6, <1>7

\* A request that awaits no refresh goes on.
LEMMA Moved ==
    ASSUME ConnectionInv, NEW r \in Requests, NEW s \in Stages, progress[r] # "refreshing", Proceed(r, s),
           UNCHANGED connection, bearer' \in [Imports -> Tokens]
    PROVE  Calm
<1>1. progress' = [progress EXCEPT ![r] = s] /\ progress \in [Requests -> Stages] /\ tokenSet \in TokenSets
  BY DEF ConnectionInv, ConnectionTypes, Proceed
<1>2. tokenSet = [tokenSet EXCEPT !.due = tokenSet.due] /\ tokenSet.due \in BOOLEAN
  BY <1>1 DEF TokenSets
<1>3. /\ tokenSet' = tokenSet
      /\ UNCHANGED <<env, generation, refreshInFlight, begun, awaits>>
  BY DEF connection, tokens
<1>4. progress' \in [Requests -> Stages] /\ \A q \in Requests \ {r} : progress'[q] = progress[q]
  BY <1>1
<1>5. \A q \in Refreshers : progress[q] = "refreshing" => progress'[q] = "refreshing"
  BY <1>4 DEF Requests
<1>6. tokenSet' = [tokenSet EXCEPT !.due = tokenSet'.due] /\ tokenSet'.due \in BOOLEAN
  BY <1>2, <1>3
<1> QED
  BY <1>3, <1>4, <1>5, <1>6 DEF Calm

LEMMA BearerDropped ==
    ASSUME ConnectionInv, NEW i \in Imports, bearer' = [bearer EXCEPT ![i] = Null]
    PROVE  bearer' \in [Imports -> Tokens]
  BY DEF ConnectionInv, ConnectionTypes, Tokens

\* What came of a read: it is on to the next, or writes.
LEMMA Digested ==
    ASSUME ConnectionInv, NEW i \in Imports, NEW payload, Digest(i, payload)
    PROVE  (Proceed(i, "asking") \/ Proceed(i, "recording")) /\ bearer' \in [Imports -> Tokens]
<1>1. CASE Stop(i, "failed") \/ Conclude(i)
  <2>1. bearer' = [bearer EXCEPT ![i] = Null] /\ Proceed(i, "recording")
    BY <1>1, Zenon DEF Stop, Conclude
  <2> QED
    BY <2>1, BearerDropped
<1>2. CASE UNCHANGED <<records, bearer>> /\ Proceed(i, "asking")
  BY <1>2 DEF ConnectionInv, ConnectionTypes
<1> QED
  BY <1>1, <1>2, Zenon DEF Digest

\* Where an import is before a step and after.
LEMMA ImportMoves ==
    ASSUME ConnectionInv, NEW i \in Imports, ImportStep(i), ~AwaitToken(i)
    PROVE  Calm
<1>1. i \in Requests /\ {"asking", "calling", "recording", "answered"} \subseteq Stages
  BY DEF Requests, Refreshers, Stages
<1>2. bearer \in [Imports -> Tokens] /\ CurrentToken \in Tokens
  BY DEF ConnectionInv, ConnectionTypes, TokenSets, CurrentToken, Tokens
<1>3. CASE LinkOnly(i) \/ AskOnshape(i) \/ Answered(i)
  <2>1. UNCHANGED <<connection, bearer>> /\ progress[i] # "refreshing"
    BY <1>3 DEF LinkOnly, AskOnshape, Answered, Receive
  <2>2. PICK s \in {"recording", "calling", "answered"} : Proceed(i, s)
    BY <1>3, Zenon DEF LinkOnly, AskOnshape, Answered
  <2> QED
    BY <1>1, <1>2, <2>1, <2>2, Moved
<1>4. CASE Begin(i)
  <2>1. /\ UNCHANGED connection /\ progress[i] # "refreshing" /\ Proceed(i, "asking")
        /\ bearer' = [bearer EXCEPT ![i] = CurrentToken]
    BY <1>4 DEF Begin, Receive
  <2> QED
    BY <1>1, <1>2, <2>1, Moved
<1>5. CASE AskUnnamed(i) \/ AskInVain(i) \/ CallFails(i)
  <2>1. UNCHANGED connection /\ progress[i] # "refreshing"
    BY <1>5 DEF AskUnnamed, AskInVain, CallFails
  <2>2. Proceed(i, "recording") /\ bearer' = [bearer EXCEPT ![i] = Null]
    BY <1>5, Zenon DEF AskUnnamed, AskInVain, CallFails, Stop
  <2> QED
    BY <1>1, <2>1, <2>2, BearerDropped, Moved
<1>6. CASE AskCache(i) \/ Answer(i)
  <2>1. UNCHANGED connection /\ progress[i] # "refreshing" /\ \E payload : Digest(i, payload)
    BY <1>6 DEF AskCache, Answer
  <2> QED
    BY <1>1, <2>1, Digested, Moved
<1> QED
  BY <1>3, <1>4, <1>5, <1>6 DEF ImportStep

LEMMA RenewalKeeps ==
    ASSUME ConnectionInv, NEW r \in Renewals, Renew(r)
    PROVE  ConnectionInv'
<1>1. r \in Refreshers /\ r \in Requests /\ progress[r] = "idle"
  BY DEF Renew, Refreshers, Requests
<1>2. CASE RefreshToken = Null
  <2>1. Proceed(r, "answered") /\ UNCHANGED connection /\ UNCHANGED bearer
    BY <1>2 DEF Renew, connection
  <2>2. bearer' \in [Imports -> Tokens] /\ "answered" \in Stages
    BY <2>1 DEF ConnectionInv, ConnectionTypes, Stages
  <2> QED
    BY <1>1, <2>1, <2>2, Moved, CalmKeeps
<1>3. CASE RefreshToken # Null
  BY <1>1, <1>3, JoinKeeps DEF Renew
<1> QED
  BY <1>2, <1>3

LEMMA ConnectionStep ==
    ASSUME ConnectionInv, [OnshapeNext]_onshapeVars
    PROVE  ConnectionInv'
<1>0. progress \in [Requests -> Stages] /\ bearer \in [Imports -> Tokens] /\ tokenSet \in TokenSets
  BY DEF ConnectionInv, ConnectionTypes
<1>1. ASSUME UNCHANGED <<connection, progress, bearer>>
      PROVE  ConnectionInv'
  <2>1. tokenSet = [tokenSet EXCEPT !.due = tokenSet.due] /\ tokenSet.due \in BOOLEAN
    BY <1>0 DEF TokenSets
  <2>2. Calm
    BY <1>0, <1>1, <2>1 DEF Calm, connection, tokens
  <2> QED
    BY <2>2, CalmKeeps
<1>2. ASSUME NEW i \in Imports, AwaitToken(i)
      PROVE  ConnectionInv'
  <2>1. /\ i \in Refreshers /\ progress[i] = "idle" /\ RefreshToken # Null
        /\ JoinRefresh(i) /\ UNCHANGED <<env, tokens, bearer>>
    BY <1>2 DEF AwaitToken, Receive, Refreshers
  <2> QED
    BY <2>1, JoinKeeps
<1>3. ASSUME Age
      PROVE  ConnectionInv'
  <2>1. UNCHANGED <<env, generation, refreshInFlight, begun, awaits, progress, bearer>>
    BY <1>3 DEF Age
  <2>2. tokenSet' = [tokenSet EXCEPT !.due = TRUE] \/ tokenSet' = tokenSet
    BY <1>3 DEF Age
  <2>3. tokenSet' = [tokenSet EXCEPT !.due = tokenSet'.due] /\ tokenSet'.due \in BOOLEAN
    BY <1>0, <2>2 DEF TokenSets
  <2>4. Calm
    BY <1>0, <2>1, <2>3 DEF Calm
  <2> QED
    BY <2>4, CalmKeeps
<1>4. ASSUME NEW c \in Callbacks, CallBack(c)
      PROVE  ConnectionInv'
  <2>1. /\ progress[c] = "idle" /\ c \in Requests
        /\ UNCHANGED <<env, tokens, refreshInFlight, begun, awaits, bearer>>
    BY <1>4 DEF CallBack, Requests
  <2>2. PICK s \in {"exchanging", "answered"} : progress' = [progress EXCEPT ![c] = s]
    BY <1>4 DEF CallBack, Proceed
  <2>3. progress' \in [Requests -> Stages] /\ \A q \in Requests : progress[q] = "refreshing" => progress'[q] = progress[q]
    BY <1>0, <2>1, <2>2 DEF Stages
  <2>4. tokenSet' = [tokenSet EXCEPT !.due = tokenSet'.due] /\ tokenSet'.due \in BOOLEAN
    BY <1>0, <2>1 DEF TokenSets, tokens
  <2>5. Calm
    BY <1>0, <2>1, <2>3, <2>4 DEF Calm, tokens, Requests
  <2> QED
    BY <2>5, CalmKeeps
<1>5. ASSUME NEW a \in Attempts, Authorize(a) \/ Expire(a)
      PROVE  ConnectionInv'
  <2>1. UNCHANGED <<env, tokens, refreshInFlight, begun, awaits, progress, bearer>>
    BY <1>5 DEF Authorize, Expire
  <2>2. tokenSet' = [tokenSet EXCEPT !.due = tokenSet'.due] /\ tokenSet'.due \in BOOLEAN
    BY <1>0, <2>1 DEF TokenSets, tokens
  <2>3. Calm
    BY <1>0, <2>1, <2>2 DEF Calm, tokens
  <2> QED
    BY <2>3, CalmKeeps
<1>6. ASSUME NEW p \in Refreshers, TokenSettles(p)
      PROVE  ConnectionInv'
  BY <1>6, SettleKeeps DEF TokenSettles
<1>7. CASE UNCHANGED onshapeVars
  BY <1>1, <1>7 DEF onshapeVars
<1>8. ASSUME NEW ref \in Refs, NEW p \in Phases, CacheExpires(ref, p)
      PROVE  ConnectionInv'
  BY <1>1, <1>8 DEF CacheExpires
<1>9. ASSUME NEW i \in Imports, ImportStep(i)
      PROVE  ConnectionInv'
  BY <1>2, <1>9, ImportMoves, CalmKeeps
<1> QED
  BY <1>3, <1>4, <1>5, <1>6, <1>7, <1>8, <1>9, RenewalKeeps, ExchangeKeeps, Zenon DEF OnshapeNext

-----------------------------------------------------------------------------
(***************************************************************************)
(* The records.                                                            *)
(***************************************************************************)
\* What RunsTellTheTruth says of an import, and of a snapshot.
RunTells(i) ==
    /\ job[i] = run[i]
    /\ made[i] # 0 <=> run[i] = "completed" /\ asked[i].level # "link_only"
    /\ made[i] # 0 =>
         /\ made[i] \in DOMAIN synced
         /\ synced[made[i]].ref = asked[i].ref
         /\ asked[i].level = "bom" => synced[made[i]].graph

\* An import that a step leaves where it was, or for an answer, with its records.
Left(i) ==
    /\ progress'[i] = progress[i] \/ progress'[i] \in {"recording", "answered"}
    /\ asked'[i] = asked[i] /\ run'[i] = run[i] /\ job'[i] = job[i] /\ made'[i] = made[i]

\* Snapshots only gain: one at the end, or a graph.
Gaining ==
    /\ Len(synced) <= Len(synced')
    /\ \A n \in DOMAIN synced :
         /\ synced'[n].ref = synced[n].ref /\ synced'[n].by = synced[n].by
         /\ synced[n].graph => synced'[n].graph

LEMMA SnapshotFields ==
    ASSUME RecordTypes, NEW n \in DOMAIN synced
    PROVE  /\ synced[n] \in [ref : Refs, by : Imports, graph : BOOLEAN]
           /\ synced[n].by \in Imports /\ n \in Nat /\ n # 0
<1>1. synced \in Seq([ref : Refs, by : Imports, graph : BOOLEAN])
  BY DEF RecordTypes
<1>2. DOMAIN synced = 1..Len(synced) /\ Len(synced) \in Nat
  BY <1>1, LenProperties
<1>3. synced[n] \in [ref : Refs, by : Imports, graph : BOOLEAN]
  BY <1>1, <1>2, ElementOfSeq
<1> QED
  BY <1>2, <1>3

LEMMA LeftAlone ==
    ASSUME RecordTypes, RecordTypes', Gaining, NEW i \in Imports, Left(i), WorkOf(i), RunTells(i)
    PROVE  WorkOf(i)' /\ RunTells(i)'
<1>1. WorkOf(i)'
  BY DEF WorkOf, Left, Working
<1>2. ASSUME made[i] # 0
      PROVE  /\ made[i] \in DOMAIN synced'
             /\ synced'[made[i]].ref = asked[i].ref
             /\ asked[i].level = "bom" => synced'[made[i]].graph
  <2>1. made[i] \in DOMAIN synced /\ made[i] \in DOMAIN synced'
    BY <1>2 DEF RunTells, RecordTypes, Gaining
  <2> QED
    BY <1>2, <2>1 DEF RunTells, Gaining
<1>3. RunTells(i)'
  BY <1>2 DEF RunTells, Left
<1> QED
  BY <1>1, <1>3

LEMMA RecordsSplit ==
    RecordsInv <=> /\ RecordTypes /\ OneSnapshotPerVersion
                   /\ \A i \in Imports : WorkOf(i) /\ RunTells(i)
                   /\ \A n \in DOMAIN synced : made[synced[n].by] = n
  BY DEF RecordsInv, WorkInv, SnapshotsMatchRuns, RunsTellTheTruth, RunTells

\* A step that writes no snapshot.
LEMMA RecordsLeft ==
    ASSUME RecordsInv, RecordTypes', synced' = synced,
           \A i \in Imports : \/ Left(i)
                              \/ WorkOf(i)' /\ RunTells(i)' /\ made'[i] = made[i]
    PROVE  RecordsInv'
<1>1. Gaining
  BY DEF Gaining, RecordsInv, RecordTypes
<1>2. \A i \in Imports : WorkOf(i)' /\ RunTells(i)'
  BY <1>1, RecordsSplit, LeftAlone
<1>3. \A n \in DOMAIN synced' : made'[synced'[n].by] = n
  <2> SUFFICES ASSUME NEW n \in DOMAIN synced PROVE made'[synced[n].by] = n
    OBVIOUS
  <2>1. synced[n].by \in Imports
    BY SnapshotFields DEF RecordsInv
  <2>2. made[synced[n].by] = n
    BY RecordsSplit
  <2> QED
    BY <2>1, <2>2 DEF Left
<1>4. OneSnapshotPerVersion'
  BY RecordsSplit DEF OneSnapshotPerVersion
<1> QED
  BY <1>2, <1>3, <1>4
     DEF RecordsInv, WorkInv, SnapshotsMatchRuns, RunsTellTheTruth, RunTells

LEMMA RecordsInit == OnshapeInit => RecordsInv
<1> SUFFICES ASSUME OnshapeInit PROVE RecordsInv
  OBVIOUS
<1>1. \A i \in Imports : /\ asked[i] = Null /\ run[i] = "none" /\ job[i] = "none" /\ made[i] = 0
                         /\ progress[i] = "idle"
  BY DEF OnshapeInit, CredentialsInit, Requests, Refreshers
<1>2. synced = <<>> /\ DOMAIN synced = {}
  BY DEF OnshapeInit
<1>3. RecordTypes
  BY <1>2 DEF OnshapeInit, RecordTypes, Phases, Statuses
<1> QED
  BY <1>1, <1>2, <1>3 DEF RecordsInv, WorkInv, WorkOf, Working, SnapshotsMatchRuns, RunsTellTheTruth,
                          OneSnapshotPerVersion

\* An import that ends with nothing to show.
LEMMA StoppedRecords ==
    ASSUME RecordsInv, progress \in [Requests -> Stages], NEW i \in Imports, Working(i), asked' = asked,
           NEW status \in {"failed", "partial"}, Stop(i, status)
    PROVE  RecordsInv'
<1>1. /\ progress'[i] = "recording" /\ run'[i] = status /\ job'[i] = status
      /\ \A o \in Imports \ {i} : progress'[o] = progress[o] /\ run'[o] = run[o] /\ job'[o] = job[o]
      /\ made' = made /\ synced' = synced
  BY DEF Stop, Proceed, RecordsInv, RecordTypes, Requests, Refreshers
<1>2. RecordTypes'
  BY <1>1 DEF RecordsInv, RecordTypes, Stop, Statuses
<1>3. made[i] = 0 /\ WorkOf(i)' /\ RunTells(i)'
  BY <1>1, RecordsSplit DEF WorkOf, RunTells, Working
<1>4. \A o \in Imports \ {i} : Left(o)
  BY <1>1 DEF Left
<1> QED
  BY <1>1, <1>2, <1>3, <1>4, RecordsLeft

\* An import that has read everything: it makes a snapshot, or finds that of its version.
LEMMA ConcludedRecords ==
    ASSUME RecordsInv, progress \in [Requests -> Stages], NEW i \in Imports, Working(i), asked' = asked,
           Conclude(i)
    PROVE  RecordsInv'
<1> DEFINE ref == asked[i].ref
           graph == asked[i].level = "bom"
           new == [ref |-> ref, by |-> i, graph |-> graph]
<1>1. /\ progress'[i] = "recording" /\ run'[i] = "completed" /\ job'[i] = "completed"
      /\ \A o \in Imports \ {i} : progress'[o] = progress[o] /\ run'[o] = run[o] /\ job'[o] = job[o]
      /\ run' \in [Imports -> Statuses] /\ job' \in [Imports -> Statuses] /\ phase' = phase
  BY DEF Conclude, Proceed, RecordsInv, RecordTypes, Requests, Refreshers, Statuses
<1>2. /\ RecordTypes /\ made[i] = 0 /\ made \in [Imports -> Nat]
      /\ asked[i] \in [ref : Refs, level : {"shallow", "bom"}]
      /\ ref \in Refs /\ graph \in BOOLEAN /\ asked[i].level # "link_only"
  <2>1. WorkOf(i) /\ RecordTypes
    BY RecordsSplit
  <2> QED
    BY <2>1 DEF WorkOf, RecordTypes
<1>3. /\ synced \in Seq([ref : Refs, by : Imports, graph : BOOLEAN])
      /\ DOMAIN synced = 1..Len(synced) /\ Len(synced) \in Nat
  BY <1>2, LenProperties DEF RecordTypes
<1>4. \A n \in DOMAIN synced : made[synced[n].by] = n /\ synced[n].by # i
  BY <1>2, SnapshotFields, RecordsSplit
<1>5. ASSUME synced' \in Seq([ref : Refs, by : Imports, graph : BOOLEAN]), Gaining,
             NEW n \in DOMAIN synced', made' = [made EXCEPT ![i] = n],
             synced'[n].ref = ref, graph => synced'[n].graph
      PROVE  RecordTypes' /\ \A o \in Imports : WorkOf(o)' /\ RunTells(o)'
  <2>1. n \in Nat /\ n # 0
    BY <1>5, LenProperties
  <2>2. RecordTypes'
    BY <1>1, <1>2, <1>5, <2>1 DEF RecordTypes
  <2>3. made'[i] = n /\ \A o \in Imports \ {i} : made'[o] = made[o]
    BY <1>2, <1>5
  <2>4. WorkOf(i)' /\ RunTells(i)'
    BY <1>1, <1>2, <1>5, <2>1, <2>3 DEF WorkOf, RunTells, Working
  <2>5. \A o \in Imports \ {i} : Left(o)
    BY <1>1, <2>3 DEF Left
  <2> QED
    BY <1>2, <1>5, <2>2, <2>4, <2>5, LeftAlone, RecordsSplit
<1>6. CASE Existing(ref) = {}
  <2>1. synced' = Append(synced, new) /\ made' = [made EXCEPT ![i] = Len(synced) + 1]
    BY <1>6 DEF Conclude
  <2>2. new \in [ref : Refs, by : Imports, graph : BOOLEAN]
    BY <1>2
  <2>3. /\ synced' \in Seq([ref : Refs, by : Imports, graph : BOOLEAN])
        /\ Len(synced') = Len(synced) + 1
        /\ \A n \in DOMAIN synced : synced'[n] = synced[n]
        /\ synced'[Len(synced) + 1] = new
    BY <1>3, <2>1, <2>2, AppendProperties
  <2>4. DOMAIN synced' = DOMAIN synced \cup {Len(synced) + 1}
    BY <1>3, <2>3, LenProperties
  <2>5. new.ref = ref /\ new.by = i /\ new.graph = graph
    OBVIOUS
  <2> HIDE DEF new
  <2>6. Gaining
    BY <1>3, <2>3 DEF Gaining
  <2>7. RecordTypes' /\ \A o \in Imports : WorkOf(o)' /\ RunTells(o)'
    BY <1>5, <2>1, <2>3, <2>4, <2>5, <2>6
  <2>8. OneSnapshotPerVersion'
    <3>1. \A n \in DOMAIN synced : synced[n].ref # ref \/ ref \notin Versions
      BY <1>6 DEF Existing
    <3>2. OneSnapshotPerVersion
      BY RecordsSplit
    <3> QED
      BY <2>3, <2>4, <2>5, <3>1, <3>2 DEF OneSnapshotPerVersion
  <2>9. \A n \in DOMAIN synced' : made'[synced'[n].by] = n
    BY <1>2, <1>4, <2>1, <2>3, <2>4, <2>5, SnapshotFields
  <2> QED
    BY <2>7, <2>8, <2>9
       DEF RecordsInv, WorkInv, SnapshotsMatchRuns, RunsTellTheTruth, RunTells
<1>7. CASE Existing(ref) # {}
  <2>1. PICK n \in Existing(ref) : /\ synced' = [synced EXCEPT ![n].graph = @ \/ graph]
                                   /\ made' = [made EXCEPT ![i] = n]
    BY <1>7 DEF Conclude
  <2>2. n \in DOMAIN synced /\ synced[n].ref = ref
    BY DEF Existing
  <2> DEFINE more == [synced[n] EXCEPT !.graph = @ \/ graph]
  <2>3. more \in [ref : Refs, by : Imports, graph : BOOLEAN]
        /\ more.ref = synced[n].ref /\ more.by = synced[n].by
        /\ more.graph = (synced[n].graph \/ graph)
    BY <1>2, <2>2, SnapshotFields
  <2>4. synced' = [synced EXCEPT ![n] = more]
    BY <2>1
  <2> HIDE DEF more
  <2>5. /\ synced' \in Seq([ref : Refs, by : Imports, graph : BOOLEAN])
        /\ Len(synced') = Len(synced)
        /\ synced'[n] = more
        /\ \A k \in DOMAIN synced \ {n} : synced'[k] = synced[k]
    BY <1>3, <2>2, <2>3, <2>4, ExceptSeq
  <2>6. DOMAIN synced' = DOMAIN synced
    BY <2>4
  <2>7. \A k \in DOMAIN synced : /\ synced'[k].ref = synced[k].ref
                                 /\ synced'[k].by = synced[k].by
                                 /\ synced[k].graph => synced'[k].graph
    BY <2>3, <2>5
  <2>8. Gaining
    BY <1>3, <2>5, <2>7 DEF Gaining
  <2>9. RecordTypes' /\ \A o \in Imports : WorkOf(o)' /\ RunTells(o)'
    BY <1>5, <2>1, <2>2, <2>3, <2>5, <2>6, <2>8
  <2>10. OneSnapshotPerVersion'
    BY <2>6, <2>7, RecordsSplit DEF OneSnapshotPerVersion
  <2>11. \A k \in DOMAIN synced' : made'[synced'[k].by] = k
    BY <1>2, <1>4, <2>1, <2>6, <2>7, SnapshotFields
  <2> QED
    BY <2>9, <2>10, <2>11
       DEF RecordsInv, WorkInv, SnapshotsMatchRuns, RunsTellTheTruth, RunTells
<1> QED
  BY <1>6, <1>7

\* What a read brought.
LEMMA DigestedRecords ==
    ASSUME RecordsInv, progress \in [Requests -> Stages], NEW i \in Imports, Working(i), asked' = asked,
           NEW payload, Digest(i, payload)
    PROVE  RecordsInv'
<1>1. CASE Stop(i, "failed")
  BY <1>1, StoppedRecords
<1>2. CASE Conclude(i)
  BY <1>2, ConcludedRecords
<1>3. CASE /\ phase' = [phase EXCEPT ![i] = "bom"] /\ Proceed(i, "asking")
           /\ UNCHANGED <<records, bearer>>
  <2>1. /\ progress'[i] = "asking" /\ \A o \in Imports \ {i} : progress'[o] = progress[o]
        /\ UNCHANGED <<run, job, made, synced>>
    BY <1>3 DEF Proceed, records, Requests, Refreshers
  <2>2. RecordTypes'
    BY <1>3, <2>1 DEF RecordsInv, RecordTypes, Phases
  <2>3. WorkOf(i)' /\ RunTells(i)'
    BY <2>1, RecordsSplit DEF WorkOf, RunTells, Working
  <2>4. \A o \in Imports \ {i} : Left(o)
    BY <2>1 DEF Left
  <2> QED
    BY <2>1, <2>2, <2>3, <2>4, RecordsLeft
<1> QED
  BY <1>1, <1>2, <1>3, Zenon DEF Digest

\* A step that touches no record, and no import but those that are done reading.
LEMMA RecordsCalm ==
    ASSUME RecordsInv, UNCHANGED <<asked, phase, records>>,
           \A i \in Imports : progress'[i] = progress[i] \/ progress'[i] \in {"recording", "answered"}
    PROVE  RecordsInv'
<1>1. UNCHANGED <<asked, phase, run, job, made, synced>>
  BY DEF records
<1>2. RecordTypes' /\ \A i \in Imports : Left(i)
  BY <1>1 DEF RecordsInv, RecordTypes, Left
<1> QED
  BY <1>1, <1>2, RecordsLeft

\* A request arrives: only a link is wanted, or something to read.
LEMMA ReceivedRecords ==
    ASSUME RecordsInv, progress \in [Requests -> Stages], NEW i \in Imports,
           NEW levels \in {{"link_only"}, {"shallow", "bom"}}, Receive(i, levels), phase' = phase,
           UNCHANGED <<made, synced>>,
           NEW to \in {"recording", "asking", "refreshing"}, Proceed(i, to),
           NEW status \in {"none", "completed", "running"}, run' = [run EXCEPT ![i] = status],
           job' = [job EXCEPT ![i] = status],
           \/ to = "recording" /\ status = "completed" /\ levels = {"link_only"}
           \/ to = "asking" /\ status = "running" /\ levels = {"shallow", "bom"}
           \/ to = "refreshing" /\ status = "none" /\ levels = {"shallow", "bom"}
    PROVE  RecordsInv'
<1>1. PICK ref \in Refs, level \in levels :
          progress[i] = "idle" /\ asked' = [asked EXCEPT ![i] = [ref |-> ref, level |-> level]]
  BY DEF Receive
<1>2. /\ RecordTypes /\ made[i] = 0
  BY <1>1, RecordsSplit DEF WorkOf
<1>3. /\ progress'[i] = to /\ run'[i] = status /\ job'[i] = status
      /\ \A o \in Imports \ {i} : progress'[o] = progress[o] /\ run'[o] = run[o] /\ job'[o] = job[o]
      /\ asked'[i] = [ref |-> ref, level |-> level]
      /\ \A o \in Imports \ {i} : asked'[o] = asked[o]
  BY <1>1, <1>2 DEF Proceed, RecordTypes, Requests, Refreshers
<1>4. level \in Levels
  BY DEF Levels
<1>5. RecordTypes'
  <2>1. asked' \in [Imports -> [ref : Refs, level : Levels] \cup {Null}]
    BY <1>1, <1>2, <1>4 DEF RecordTypes
  <2>2. run' \in [Imports -> Statuses] /\ job' \in [Imports -> Statuses]
    BY <1>2 DEF RecordTypes, Statuses
  <2> QED
    BY <1>2, <2>1, <2>2 DEF RecordTypes
<1>6. asked'[i].level = level /\ (level = "link_only" <=> to = "recording")
  BY <1>3
<1>7. to # "recording" => asked'[i] \in [ref : Refs, level : {"shallow", "bom"}]
  BY <1>3
<1>8. WorkOf(i)'
  BY <1>2, <1>3, <1>7 DEF WorkOf, Working
<1>9. RunTells(i)'
  BY <1>2, <1>3, <1>6 DEF RunTells
<1>10. \A o \in Imports \ {i} : Left(o)
  BY <1>3 DEF Left
<1> QED
  BY <1>5, <1>8, <1>9, <1>10, RecordsLeft

LEMMA ImportRecords ==
    ASSUME ConnectionInv, RecordsInv, NEW i \in Imports, ImportStep(i)
    PROVE  RecordsInv'
<1>0. /\ progress \in [Requests -> Stages] /\ run \in [Imports -> Statuses] /\ job = run
      /\ i \in Requests /\ job \in [Imports -> Statuses]
  <2>1. \A o \in Imports : job[o] = run[o]
    BY RecordsSplit DEF RunTells
  <2> QED
    BY <2>1 DEF ConnectionInv, ConnectionTypes, RecordsInv, RecordTypes, Requests, Refreshers
<1>1. CASE LinkOnly(i)
  <2>1. /\ Receive(i, {"link_only"}) /\ phase' = phase /\ UNCHANGED <<made, synced>>
        /\ Proceed(i, "recording")
        /\ run' = [run EXCEPT ![i] = "completed"] /\ job' = [job EXCEPT ![i] = "completed"]
    BY <1>1 DEF LinkOnly
  <2> QED
    BY <1>0, <2>1, ReceivedRecords
<1>2. CASE Begin(i)
  <2>1. /\ Receive(i, {"shallow", "bom"}) /\ phase' = phase /\ UNCHANGED <<made, synced>>
        /\ Proceed(i, "asking")
        /\ run' = [run EXCEPT ![i] = "running"] /\ job' = [job EXCEPT ![i] = "running"]
    BY <1>2 DEF Begin
  <2> QED
    BY <1>0, <2>1, ReceivedRecords
<1>3. CASE AwaitToken(i)
  <2>1. /\ Receive(i, {"shallow", "bom"}) /\ phase' = phase /\ UNCHANGED <<made, synced>>
        /\ Proceed(i, "refreshing") /\ run' = run /\ job' = job
    BY <1>3 DEF AwaitToken, JoinRefresh, records
  <2>2. run[i] = "none" /\ job[i] = "none"
    BY <1>0, <2>1, RecordsSplit DEF Receive, WorkOf
  <2>3. run' = [run EXCEPT ![i] = "none"] /\ job' = [job EXCEPT ![i] = "none"]
    BY <1>0, <2>1, <2>2
  <2> QED
    BY <1>0, <2>1, <2>3, ReceivedRecords
<1>4. CASE AskUnnamed(i) \/ AskInVain(i) \/ CallFails(i)
  <2>1. Working(i) /\ asked' = asked /\ \E status \in {"failed", "partial"} : Stop(i, status)
    BY <1>4 DEF AskUnnamed, AskInVain, CallFails, Working
  <2> QED
    BY <1>0, <2>1, StoppedRecords
<1>5. CASE AskCache(i) \/ Answer(i)
  <2>1. Working(i) /\ asked' = asked /\ \E payload : Digest(i, payload)
    BY <1>5 DEF AskCache, Answer, Working
  <2> QED
    BY <1>0, <2>1, DigestedRecords
<1>6. CASE AskOnshape(i)
  <2>1. /\ progress[i] = "asking" /\ progress'[i] = "calling" /\ \A o \in Imports \ {i} : progress'[o] = progress[o]
        /\ UNCHANGED <<asked, phase, run, job, made, synced>>
    BY <1>0, <1>6 DEF AskOnshape, Proceed, records, Requests, Refreshers
  <2>2. RecordTypes'
    BY <2>1 DEF RecordsInv, RecordTypes
  <2>3. WorkOf(i)' /\ RunTells(i)'
    BY <2>1, RecordsSplit DEF WorkOf, RunTells, Working
  <2>4. \A o \in Imports \ {i} : Left(o)
    BY <2>1 DEF Left
  <2> QED
    BY <2>1, <2>2, <2>3, <2>4, RecordsLeft
<1>7. CASE Answered(i)
  <2>1. progress' = [progress EXCEPT ![i] = "answered"] /\ UNCHANGED <<asked, phase, records>>
    BY <1>7 DEF Answered, Proceed
  <2> QED
    BY <1>0, <2>1, RecordsCalm DEF Requests, Refreshers
<1> QED
  BY <1>1, <1>2, <1>3, <1>4, <1>5, <1>6, <1>7 DEF ImportStep

\* The imports that awaited a refresh start reading, or are answered without a run.
LEMMA SettledRecords ==
    ASSUME ConnectionInv, RecordsInv, NEW p \in Refreshers, TokenSettles(p)
    PROVE  RecordsInv'
<1> DEFINE started == {i \in Imports : progress[i] = "refreshing" /\ progress'[i] = "asking"}
<1>1. /\ RefreshSettles(p)
      /\ run' = [i \in Imports |-> IF i \in started THEN "running" ELSE run[i]]
      /\ job' = [i \in Imports |-> IF i \in started THEN "running" ELSE job[i]]
      /\ UNCHANGED <<asked, phase, made, synced>>
  BY Zenon DEF TokenSettles
<1>2. \A i \in Imports : \/ progress'[i] = progress[i]
                         \/ progress[i] = "refreshing" /\ progress'[i] \in {"asking", "answered"}
  <2>1. PICK ok \in BOOLEAN :
          progress' = [r \in Requests |->
                      IF r \notin Released(p) THEN progress[r]
                      ELSE IF r \in Imports /\ Served(p, ok) THEN "asking" ELSE "answered"]
    BY <1>1, Zenon DEF RefreshSettles
  <2>2. \A q \in Released(p) : progress[q] = "refreshing"
    BY <1>1, Settling
  <2> QED
    BY <2>1, <2>2 DEF Requests, Refreshers
<1>3. RecordTypes'
  BY <1>1 DEF RecordsInv, RecordTypes, Statuses
<1>4. ASSUME NEW i \in Imports
      PROVE  \/ Left(i)
             \/ WorkOf(i)' /\ RunTells(i)' /\ made'[i] = made[i]
  <2>1. WorkOf(i) /\ RunTells(i)
    BY RecordsSplit
  <2>2. CASE i \in started
    <3>1. /\ progress[i] = "refreshing" /\ progress'[i] = "asking" /\ run'[i] = "running" /\ job'[i] = "running"
          /\ UNCHANGED <<asked, made, synced>>
      BY <1>1, <2>2
    <3> HIDE DEF started
    <3> QED
      BY <2>1, <3>1 DEF WorkOf, RunTells, Working
  <2>3. CASE i \notin started
    <3>1. run'[i] = run[i] /\ job'[i] = job[i] /\ UNCHANGED <<asked, made, synced>>
      BY <1>1, <2>3
    <3>2. progress'[i] = progress[i] \/ progress'[i] = "answered"
      BY <1>2, <2>3
    <3> QED
      BY <3>1, <3>2 DEF Left
  <2> QED
    BY <2>2, <2>3
<1> QED
  BY <1>1, <1>3, <1>4, RecordsLeft

LEMMA RecordsStep ==
    ASSUME ConnectionInv, RecordsInv, [OnshapeNext]_onshapeVars
    PROVE  RecordsInv'
<1>0. progress \in [Requests -> Stages] /\ \A i \in Imports : i \in Requests
  BY DEF ConnectionInv, ConnectionTypes, Requests, Refreshers
<1>1. ASSUME progress' = progress, UNCHANGED <<asked, phase, records>>
      PROVE  RecordsInv'
  BY <1>1, RecordsCalm
<1>2. CASE UNCHANGED onshapeVars
  BY <1>1, <1>2 DEF onshapeVars
<1>3. ASSUME NEW ref \in Refs, NEW p \in Phases, CacheExpires(ref, p)
      PROVE  RecordsInv'
  BY <1>1, <1>3 DEF CacheExpires
<1>4. CASE Age /\ UNCHANGED unread
  BY <1>1, <1>4 DEF Age, unread
<1>5. ASSUME NEW a \in Attempts, Authorize(a) \/ Expire(a), UNCHANGED unread
      PROVE  RecordsInv'
  BY <1>1, <1>5 DEF Authorize, Expire, unread
<1>6. ASSUME NEW r \in Renewals \cup Callbacks, NEW s, Proceed(r, s), UNCHANGED unread
      PROVE  RecordsInv'
  <2>1. r \notin Imports
    BY CallersAssumption
  <2>2. \A i \in Imports : progress'[i] = progress[i]
    BY <1>0, <1>6, <2>1 DEF Proceed
  <2> QED
    BY <1>6, <2>2, RecordsCalm DEF unread
<1>7. ASSUME NEW r \in Renewals, Renew(r), UNCHANGED unread
      PROVE  RecordsInv'
  BY <1>6, <1>7 DEF Renew, JoinRefresh
<1>8. ASSUME NEW c \in Callbacks, CallBack(c) \/ ExchangeSettles(c), UNCHANGED unread
      PROVE  RecordsInv'
  BY <1>6, <1>8 DEF CallBack, ExchangeSettles
<1> QED
  BY <1>2, <1>3, <1>4, <1>5, <1>7, <1>8, ImportRecords, SettledRecords, Zenon DEF OnshapeNext

-----------------------------------------------------------------------------
(***************************************************************************)
(* The theorems.                                                           *)
(***************************************************************************)
\* The invariant holds, for any imports, renewals, callbacks and documents.
THEOREM OnshapeInvariant == OnshapeSpec => []OnshapeInv
<1>1. OnshapeInit => OnshapeInv
  BY ConnectionInit, RecordsInit DEF OnshapeInit, OnshapeInv
<1>2. OnshapeInv /\ [OnshapeNext]_onshapeVars => OnshapeInv'
  BY ConnectionStep, RecordsStep DEF OnshapeInv
<1> QED
  BY <1>1, <1>2, PTL DEF OnshapeSpec

\* Of refreshes that overlap (refreshOAuthTokenSet) no two present one refresh token, and
\* runs, jobs and snapshots agree (upsertSnapshot, completeRun), for any imports, renewals,
\* callbacks and documents.
THEOREM OnshapeSound == OnshapeSpec => []OnshapeHolds
<1>1. OnshapeInv => OnshapeHolds
  BY DEF OnshapeInv, ConnectionInv, RecordsInv, OnshapeHolds
<1> QED
  BY <1>1, OnshapeInvariant, PTL

LEMMA ReplacesItsOwn ==
    ASSUME OnshapeInv, [OnshapeNext]_onshapeVars, NEW p \in Refreshers,
           p \in Pending, p \notin Pending', tokens' # tokens
    PROVE  tokenSet.id = begun[p].over
<1>1. ASSUME awaits' = awaits
      PROVE  FALSE
  BY <1>1 DEF Pending
<1>2. ASSUME NEW i \in Imports, ImportStep(i)
      PROVE  FALSE
  BY <1>1, <1>2 DEF ImportStep, LinkOnly, AwaitToken, Begin, AskUnnamed, AskCache, AskInVain, AskOnshape,
                    Answer, CallFails, Answered, connection
<1>3. ASSUME NEW r \in Renewals, Renew(r)
      PROVE  FALSE
  BY <1>3 DEF Renew
<1>4. ASSUME NEW q \in Refreshers, TokenSettles(q)
      PROVE  tokenSet.id = begun[p].over
  <2>1. RefreshSettles(q) /\ ConnectionInv
    BY <1>4 DEF TokenSettles, OnshapeInv
  <2>2. p = q
    <3>1. PICK ok \in BOOLEAN :
            awaits' = [r \in Refreshers |-> IF r \in Released(q) THEN Null ELSE awaits[r]]
      BY <2>1, Zenon DEF RefreshSettles
    <3> QED
      BY <3>1 DEF Pending, Released
  <2> QED
    BY <2>1, <2>2, SettleKeeps
<1>5. CASE UNCHANGED onshapeVars
  BY <1>1, <1>5 DEF onshapeVars, connection
<1>6. ASSUME NEW ref \in Refs, NEW k \in Phases, CacheExpires(ref, k)
      PROVE  FALSE
  BY <1>1, <1>6 DEF CacheExpires, connection
<1>7. ASSUME Age
      PROVE  FALSE
  BY <1>1, <1>7 DEF Age
<1>8. ASSUME NEW a \in Attempts, Authorize(a) \/ Expire(a)
      PROVE  FALSE
  BY <1>1, <1>8 DEF Authorize, Expire
<1>9. ASSUME NEW c \in Callbacks, CallBack(c) \/ ExchangeSettles(c)
      PROVE  FALSE
  BY <1>1, <1>9 DEF CallBack, ExchangeSettles
<1> QED
  BY <1>2, <1>3, <1>4, <1>5, <1>6, <1>7, <1>8, <1>9, Zenon DEF OnshapeNext

\* Stopping, concluding and going on start no run.
LEMMA BeginsOnCurrent ==
    ASSUME OnshapeInv, [OnshapeNext]_onshapeVars, NEW i \in Imports,
           run[i] = "none", run'[i] = "running"
    PROVE  bearer'[i] = CurrentToken'
<1>0. run \in [Imports -> Statuses] /\ bearer \in [Imports -> Tokens]
  BY DEF OnshapeInv, RecordsInv, RecordTypes, ConnectionInv, ConnectionTypes
<1>1. ASSUME run' = run
      PROVE  FALSE
  BY <1>1
<1>2. ASSUME NEW o \in Imports, NEW status \in Statuses \ {"running"}, run' = [run EXCEPT ![o] = status]
      PROVE  FALSE
  BY <1>0, <1>2
<1>3. {"failed", "partial", "completed"} \subseteq Statuses \ {"running"}
  BY DEF Statuses
<1>4. ASSUME NEW o \in Imports, ImportStep(o), ~Begin(o)
      PROVE  FALSE
  <2>1. CASE AwaitToken(o) \/ AskOnshape(o) \/ Answered(o)
    BY <1>1, <2>1 DEF AwaitToken, AskOnshape, Answered, records
  <2>2. CASE LinkOnly(o)
    BY <1>2, <1>3, <2>2 DEF LinkOnly
  <2>3. CASE AskUnnamed(o) \/ AskInVain(o) \/ CallFails(o)
    <3>1. \E status \in {"failed", "partial"} : run' = [run EXCEPT ![o] = status]
      BY <2>3 DEF AskUnnamed, AskInVain, CallFails, Stop
    <3> QED
      BY <1>2, <1>3, <3>1
  <2>4. CASE AskCache(o) \/ Answer(o)
    <3>1. PICK payload : Digest(o, payload)
      BY <2>4 DEF AskCache, Answer
    <3>2. \/ run' = [run EXCEPT ![o] = "failed"] \/ run' = [run EXCEPT ![o] = "completed"]
          \/ run' = run
      BY <3>1 DEF Digest, Stop, Conclude, records
    <3> QED
      BY <1>1, <1>2, <1>3, <3>2
  <2> QED
    BY <1>4, <2>1, <2>2, <2>3, <2>4 DEF ImportStep
<1>5. ASSUME NEW o \in Imports, Begin(o)
      PROVE  bearer'[i] = CurrentToken'
  <2>1. /\ run' = [run EXCEPT ![o] = "running"] /\ bearer' = [bearer EXCEPT ![o] = CurrentToken]
        /\ UNCHANGED connection
    BY <1>5 DEF Begin
  <2>2. i = o
    BY <1>0, <2>1
  <2>3. CurrentToken' = CurrentToken
    BY <2>1 DEF CurrentToken, connection, tokens
  <2> QED
    BY <1>0, <2>1, <2>2, <2>3
<1>6. ASSUME NEW p \in Refreshers, TokenSettles(p)
      PROVE  bearer'[i] = CurrentToken'
  <2>1. progress[i] = "refreshing" /\ progress'[i] = "asking"
    BY <1>6 DEF TokenSettles
  <2>2. RefreshSettles(p) /\ ConnectionInv
    BY <1>6 DEF TokenSettles, OnshapeInv
  <2> QED
    BY <2>1, <2>2, SettleKeeps
<1>7. CASE UNCHANGED onshapeVars \/ UNCHANGED unread
  BY <1>1, <1>7 DEF onshapeVars, unread, records
<1>8. ASSUME NEW ref \in Refs, NEW k \in Phases, CacheExpires(ref, k)
      PROVE  FALSE
  BY <1>1, <1>8 DEF CacheExpires, records
<1> QED
  BY <1>4, <1>5, <1>6, <1>7, <1>8, Zenon DEF OnshapeNext

\* A refresh that a callback overtook does not undo the new connection (the generations of
\* refreshOAuthTokenSet), and an import starts reading with the token that is current then,
\* also when it awaited a refresh.
THEOREM ConnectionsStand == OnshapeSpec => ConnectionStands
<1> DEFINE Own == \A p \in Refreshers :
               p \in Pending /\ p \notin Pending' /\ tokens' # tokens => tokenSet.id = begun[p].over
           Current == \A i \in Imports :
               run[i] = "none" /\ run'[i] = "running" => bearer'[i] = CurrentToken'
<1>1. OnshapeInv /\ [OnshapeNext]_onshapeVars => [Own]_onshapeVars /\ [Current]_onshapeVars
  BY ReplacesItsOwn, BeginsOnCurrent
<1> QED
  BY <1>1, OnshapeInvariant, PTL
     DEF OnshapeSpec, ConnectionStands, RefreshReplacesItsOwn, ImportsBeginOnCurrentToken
=============================================================================
