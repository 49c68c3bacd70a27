------------------------- MODULE OnshapeCredentials -------------------------
(***************************************************************************)
(* The Onshape connection: tokens, their refresh and the OAuth callback    *)
(* (src/onshape/cadStoreOAuth.ts, onshapeOAuthRoutes.ts and                *)
(* onshapeClientFactory.ts).                                               *)
(*                                                                         *)
(* One token set serves every user.  An OAuth callback stores a new one; a *)
(* set that is about to expire is refreshed by whoever needs it first,     *)
(* later callers await the same refresh.  Both await Onshape, so a refresh *)
(* may be overtaken by a callback: a generation tells.  Without a stored   *)
(* set the tokens of the environment serve.                                *)
(*                                                                         *)
(* A token set bears the generation that stored it as its id, a refresh    *)
(* token the id of the set it first came with, and a refresh is named by   *)
(* the request that started it.  A settled promise's continuations run     *)
(* before the next event is handled: whoever has one is "asking", and      *)
(* every event waits for Quiet.  Who may use the routes is left out.       *)
(***************************************************************************)
EXTENDS Naturals

CONSTANTS
    Imports,     \* POST /api/onshape/import-runs
    Renewals,    \* POST /api/onshape/oauth/refresh
    Callbacks,   \* GET /api/onshape/oauth/callback
    Attempts,    \* POST /api/onshape/oauth/authorization-url, with its state and cookie
    Env,         \* the tokens of the environment
    Null         \* null and undefined

ASSUME TokensAssumption == Env # Null /\ Env \notin Nat /\ Null \notin Nat
ASSUME CallersAssumption ==
    /\ Null \notin Imports \cup Renewals
    /\ Imports \cap Renewals = {} /\ Imports \cap Callbacks = {} /\ Renewals \cap Callbacks = {}

VARIABLES
    env,               \* which tokens the environment has
    envDue,            \* its access token is near its expiry
    tokenSet,          \* state.oauthTokenSet; id Null when there is none
    generation,        \* generation
    refreshInFlight,   \* the request whose refresh it is
    begun,             \* what each refresh was started from
    awaits,            \* the refresh each request awaits
    oauthStates,       \* the OAuth states
    progress,          \* where each request is
    bearer             \* the access token of the client of each import that reads

tokens == <<tokenSet, generation>>
connection == <<env, envDue, tokens, refreshInFlight, begun, awaits, oauthStates>>

Refreshers == Imports \cup Renewals
Requests == Refreshers \cup Callbacks
NoRefresh == [generation |-> 0, presents |-> Null, over |-> Null]

CredentialsInit ==
    /\ env \in [access : BOOLEAN, refresh : BOOLEAN]
    /\ envDue = FALSE
    /\ tokenSet = [id |-> Null, refresh |-> Null, due |-> FALSE]
    /\ generation = 0
    /\ refreshInFlight = Null
    /\ begun = [r \in Refreshers |-> NoRefresh]
    /\ awaits = [r \in Refreshers |-> Null]
    /\ oauthStates = [a \in Attempts |-> "unasked"]
    /\ progress = [r \in Requests |-> "idle"]
    /\ bearer = [i \in Imports |-> Null]

Quiet == \A i \in Imports : progress[i] # "asking"

Proceed(r, s) == progress' = [progress EXCEPT ![r] = s]

(***************************************************************************)
(* Which token a request would use, and whether it is refreshed first.     *)
(***************************************************************************)
CurrentToken ==
    IF tokenSet.id # Null THEN tokenSet.id ELSE IF env.access THEN Env ELSE Null

RefreshToken ==
    IF tokenSet.refresh # Null THEN tokenSet.refresh ELSE IF env.refresh THEN Env ELSE Null

\* There is no access token, or shouldRefreshOnshapeOAuthToken.
AccessDue == IF tokenSet.id # Null THEN tokenSet.due ELSE env.access => envDue

\* An expiry that Onshape did not state never comes near.
Age ==
    /\ Quiet
    /\ \/ /\ tokenSet.id # Null
          /\ tokenSet' = [tokenSet EXCEPT !.due = TRUE]
          /\ UNCHANGED envDue
       \/ /\ env.access
          /\ envDue' = TRUE
          /\ UNCHANGED tokenSet
    /\ UNCHANGED <<env, generation, refreshInFlight, begun, awaits, oauthStates, progress, bearer>>

(***************************************************************************)
(* refreshOAuthTokenSet                                                    *)
(***************************************************************************)
\* The refreshes that are not over, overtaken ones included.
Pending == {p \in Refreshers : awaits[p] = p}

StartRefresh(r) ==
    /\ awaits' = [awaits EXCEPT ![r] = r]
    /\ begun' = [begun EXCEPT ![r] = [generation |-> generation, presents |-> RefreshToken,
                                      over |-> tokenSet.id]]
    /\ refreshInFlight' = r

JoinRefresh(r) ==
    /\ Proceed(r, "refreshing")
    /\ IF refreshInFlight = Null
       THEN StartRefresh(r)
       ELSE /\ awaits' = [awaits EXCEPT ![r] = refreshInFlight]
            /\ UNCHANGED <<begun, refreshInFlight>>

\* Faulty: a refresh lands whatever was stored meanwhile.
LandsAlways(p) == TRUE
Lands(p) == begun[p].generation = generation

Served(p, ok) == ok /\ Lands(p)

Released(p) == {r \in Refreshers : awaits[r] = p}

\* Onshape answers the refresh, with a new refresh token or without, or it fails; an
\* overtaken one throws "credentials changed".
RefreshSettles(p) == \E ok, rotated \in BOOLEAN :
    LET id == generation + 1
    IN /\ Quiet
       /\ p \in Pending
       /\ IF ok /\ Lands(p)
          THEN /\ tokenSet' = [id |-> id, due |-> FALSE,
                               refresh |-> IF rotated THEN id ELSE begun[p].presents]
               /\ generation' = id
          ELSE UNCHANGED tokens
       /\ refreshInFlight' = IF refreshInFlight = p THEN Null ELSE refreshInFlight
       /\ progress' = [r \in Requests |->
                      IF r \notin Released(p) THEN progress[r]
                      ELSE IF r \in Imports /\ Served(p, ok) THEN "asking" ELSE "answered"]
       /\ bearer' = [i \in Imports |->
                       IF i \in Released(p) /\ Served(p, ok) THEN id ELSE bearer[i]]
       /\ begun' = [begun EXCEPT ![p] = NoRefresh]
       /\ awaits' = [r \in Refreshers |-> IF r \in Released(p) THEN Null ELSE awaits[r]]
       /\ UNCHANGED <<env, envDue, oauthStates>>

\* POST /api/onshape/oauth/refresh
Renew(r) ==
    /\ Quiet
    /\ progress[r] = "idle"
    /\ IF RefreshToken = Null
       THEN Proceed(r, "answered") /\ UNCHANGED <<begun, awaits, refreshInFlight>>
       ELSE JoinRefresh(r)
    /\ UNCHANGED <<env, envDue, tokens, oauthStates, bearer>>

(***************************************************************************)
(* The OAuth callback.                                                     *)
(***************************************************************************)
\* createOAuthState
Authorize(a) ==
    /\ Quiet
    /\ oauthStates[a] = "unasked"
    /\ oauthStates' = [oauthStates EXCEPT ![a] = "open"]
    /\ UNCHANGED <<env, envDue, tokens, refreshInFlight, begun, awaits, progress, bearer>>

\* pruneExpiredStates
Expire(a) ==
    /\ Quiet
    /\ oauthStates[a] = "open"
    /\ oauthStates' = [oauthStates EXCEPT ![a] = "closed"]
    /\ UNCHANGED <<env, envDue, tokens, refreshInFlight, begun, awaits, progress, bearer>>

\* consumeOAuthState: the state is spent before the code is exchanged.  The browser's
\* cookie is of the attempt it made last.
CallBack(c) == \E a, cookie \in Attempts :
    /\ Quiet
    /\ progress[c] = "idle"
    /\ oauthStates[a] # "unasked" /\ oauthStates[cookie] # "unasked"
    /\ IF oauthStates[a] = "open" /\ cookie = a
       THEN /\ oauthStates' = [oauthStates EXCEPT ![a] = "closed"]
            /\ Proceed(c, "exchanging")
       ELSE Proceed(c, "answered") /\ UNCHANGED oauthStates
    /\ UNCHANGED <<env, envDue, tokens, refreshInFlight, begun, awaits, bearer>>

\* setOAuthTokenSet, if Onshape accepts the code; it may leave out the refresh token.
ExchangeSettles(c) == \E ok, refreshable \in BOOLEAN :
    /\ Quiet
    /\ progress[c] = "exchanging"
    /\ Proceed(c, "answered")
    /\ IF ok
       THEN /\ generation' = generation + 1
            /\ refreshInFlight' = Null
            /\ tokenSet' = [id |-> generation', due |-> FALSE,
                            refresh |-> IF refreshable THEN generation' ELSE Null]
       ELSE UNCHANGED <<tokens, refreshInFlight>>
    /\ UNCHANGED <<env, envDue, begun, awaits, oauthStates, bearer>>
=============================================================================
