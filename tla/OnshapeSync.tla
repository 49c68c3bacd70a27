---------------------------- MODULE OnshapeSync ----------------------------
(***************************************************************************)
(* Imports from Onshape (src/onshape/cadImporter.ts, onshapeApiClient.ts,  *)
(* onshapeCadClient.ts, the import-runs route and the runtime store).      *)
(*                                                                         *)
(* An import takes a token, records a run and a job, reads the document's  *)
(* metadata and its bill of materials from the cache or from Onshape, then *)
(* writes snapshot, graph and outcome without waiting for an event; an     *)
(* audit entry is awaited last.  deep_release takes the same steps as bom. *)
(* An import makes at most two calls, of 25 in its budget, so only the     *)
(* rate limit that Onshape reported stops one.  Everything is in memory.   *)
(***************************************************************************)
EXTENDS OnshapeCredentials, Sequences

CONSTANTS
    Versions,     \* document references to a version or a microversion
    Workspaces,   \* document references to a workspace
    WithElement   \* those that name an element

ASSUME RefsAssumption == Versions \cap Workspaces = {}

Refs == Versions \cup Workspaces
Phases == {"metadata", "bom"}
VARIABLES
    asked,      \* documentRef and syncLevel of each import
    phase,      \* the read each import is at
    run,        \* CadImportRun.status
    job,        \* OnshapeSyncJob.status
    made,       \* the snapshot a run reports, as a position in synced
    synced,     \* state.snapshots: reference, the import whose run made it, whether it has a graph
    cache,      \* state.cacheEntries still valid: what Onshape sent, of use or not
    remaining   \* budget.lastRateLimitRemaining, against stopIfRemainingBelow

records == <<run, job, made, synced>>
onshapeVars == <<connection, bearer, progress, asked, phase, records, cache, remaining>>

OnshapeInit ==
    /\ CredentialsInit
    /\ asked = [i \in Imports |-> Null]
    /\ phase = [i \in Imports |-> "metadata"]
    /\ run = [i \in Imports |-> "none"]
    /\ job = [i \in Imports |-> "none"]
    /\ made = [i \in Imports |-> 0]
    /\ synced = <<>>
    /\ cache = [ref \in Refs |-> [p \in Phases |-> "none"]]
    /\ remaining = "unknown"

(***************************************************************************)
(* The route, and the start of runCadImport.                               *)
(***************************************************************************)
Receive(i, levels) == \E ref \in Refs, level \in levels :
    /\ Quiet
    /\ progress[i] = "idle"
    /\ asked' = [asked EXCEPT ![i] = [ref |-> ref, level |-> level]]

LinkOnly(i) ==
    /\ Receive(i, {"link_only"})
    /\ Proceed(i, "recording")
    /\ run' = [run EXCEPT ![i] = "completed"]
    /\ job' = [job EXCEPT ![i] = "completed"]
    /\ UNCHANGED <<connection, bearer, phase, made, synced, cache, remaining>>

\* credentialsFromConfig: a token is refreshed before the run is recorded.
AwaitToken(i) ==
    /\ Receive(i, {"shallow", "bom"})
    /\ AccessDue /\ RefreshToken # Null
    /\ JoinRefresh(i)
    /\ UNCHANGED <<env, envDue, tokens, oauthStates, bearer>>
    /\ UNCHANGED <<phase, records, cache, remaining>>

Begin(i) ==
    /\ Receive(i, {"shallow", "bom"})
    /\ ~(AccessDue /\ RefreshToken # Null)
    /\ Proceed(i, "asking")
    /\ bearer' = [bearer EXCEPT ![i] = CurrentToken]
    /\ run' = [run EXCEPT ![i] = "running"]
    /\ job' = [job EXCEPT ![i] = "running"]
    /\ UNCHANGED connection
    /\ UNCHANGED <<phase, made, synced, cache, remaining>>

\* The imports that awaited a refresh go on with its token, or answer 502 without a run.
TokenSettles(p) ==
    /\ RefreshSettles(p)
    /\ LET started == {i \in Imports : progress[i] = "refreshing" /\ progress'[i] = "asking"}
       IN /\ run' = [i \in Imports |-> IF i \in started THEN "running" ELSE run[i]]
          /\ job' = [i \in Imports |-> IF i \in started THEN "running" ELSE job[i]]
    /\ UNCHANGED <<asked, phase, made, synced, cache, remaining>>

(***************************************************************************)
(* upsertSnapshot and completeRun                                          *)
(***************************************************************************)
\* Faulty: only a version is recognized by its id, not a microversion.
NeverExisting(ref) == {}

\* findExistingSnapshot
Existing(ref) == {n \in DOMAIN synced : ref \in Versions /\ synced[n].ref = ref}

\* completeRun on an error or a stop: no snapshot was written.
Stop(i, status) ==
    /\ Proceed(i, "recording")
    /\ run' = [run EXCEPT ![i] = status]
    /\ job' = [job EXCEPT ![i] = status]
    /\ bearer' = [bearer EXCEPT ![i] = Null]
    /\ UNCHANGED <<made, synced, phase>>

\* Everything has been read: snapshot, graph and outcome are written.
Conclude(i) ==
    /\ Proceed(i, "recording")
    /\ run' = [run EXCEPT ![i] = "completed"]
    /\ job' = [job EXCEPT ![i] = "completed"]
    /\ bearer' = [bearer EXCEPT ![i] = Null]
    /\ LET ref == asked[i].ref
           graph == asked[i].level = "bom"
       IN IF Existing(ref) = {}
          THEN /\ synced' = Append(synced, [ref |-> ref, by |-> i, graph |-> graph])
               /\ made' = [made EXCEPT ![i] = Len(synced) + 1]
          ELSE \E n \in Existing(ref) :
                 /\ synced' = [synced EXCEPT ![n].graph = @ \/ graph]
                 /\ made' = [made EXCEPT ![i] = n]
    /\ UNCHANGED phase

\* What a read brought.  Metadata are always of use; the bill of materials may be
\* unsupported, and normalizeOnshapeBom throws.
Digest(i, payload) ==
    IF payload = "bad" THEN Stop(i, "failed")
    ELSE IF phase[i] = "metadata" /\ asked[i].level = "bom"
    THEN /\ phase' = [phase EXCEPT ![i] = "bom"]
         /\ Proceed(i, "asking")
         /\ UNCHANGED <<records, bearer>>
    ELSE Conclude(i)

(***************************************************************************)
(* fetchDocumentMetadata, fetchAssemblyBom and requestJson                 *)
(***************************************************************************)
Named(i) == phase[i] = "bom" => asked[i].ref \in WithElement
Cached(i) == cache[asked[i].ref][phase[i]]

\* "Onshape element ID is required for BOM sync."
AskUnnamed(i) ==
    /\ progress[i] = "asking" /\ ~Named(i)
    /\ Stop(i, "failed")
    /\ UNCHANGED <<connection, asked, cache, remaining>>

AskCache(i) ==
    /\ progress[i] = "asking" /\ Named(i) /\ Cached(i) # "none"
    /\ Digest(i, Cached(i))
    /\ UNCHANGED <<connection, asked, cache, remaining>>

\* Below the policy's remainder, or without a token.
AskInVain(i) ==
    /\ progress[i] = "asking" /\ Named(i) /\ Cached(i) = "none"
    /\ remaining = "low" \/ bearer[i] = Null
    /\ Stop(i, IF remaining = "low" THEN "partial" ELSE "failed")
    /\ UNCHANGED <<connection, asked, cache, remaining>>

AskOnshape(i) ==
    /\ progress[i] = "asking" /\ Named(i) /\ Cached(i) = "none"
    /\ remaining # "low" /\ bearer[i] # Null
    /\ Proceed(i, "calling")
    /\ UNCHANGED <<connection, bearer, asked, phase, records, cache, remaining>>

\* recordApiCall: an answer that does not say keeps what the last one said.
Counted == remaining' \in {remaining, "enough", "low"}

\* Onshape answers 200; the answer is cached before it is looked at.
Answer(i) == \E payload \in {"good", "bad"} :
    /\ Quiet
    /\ progress[i] = "calling"
    /\ payload = "bad" => phase[i] = "bom"
    /\ Counted
    /\ cache' = [cache EXCEPT ![asked[i].ref][phase[i]] = payload]
    /\ Digest(i, payload)
    /\ UNCHANGED <<connection, asked>>

\* No answer, which is not counted; 429; or another status.
CallFails(i) ==
    /\ Quiet
    /\ progress[i] = "calling"
    /\ \/ UNCHANGED remaining /\ Stop(i, "failed")
       \/ Counted /\ Stop(i, "partial")
       \/ Counted /\ Stop(i, "failed")
    /\ UNCHANGED <<connection, asked, cache>>

\* A workspace's cache entry expires.
CacheExpires(ref, p) ==
    /\ Quiet
    /\ ref \in Workspaces
    /\ cache[ref][p] # "none"
    /\ cache' = [cache EXCEPT ![ref][p] = "none"]
    /\ UNCHANGED <<connection, bearer, progress, asked, phase, records, remaining>>

\* recordCadImportAuditAction has ended, well or not; SnapshotStore models what it awaits.
Answered(i) ==
    /\ Quiet
    /\ progress[i] = "recording"
    /\ Proceed(i, "answered")
    /\ UNCHANGED <<connection, bearer, asked, phase, records, cache, remaining>>

ImportStep(i) ==
    \/ LinkOnly(i) \/ AwaitToken(i) \/ Begin(i)
    \/ AskUnnamed(i) \/ AskCache(i) \/ AskInVain(i) \/ AskOnshape(i)
    \/ Answer(i) \/ CallFails(i) \/ Answered(i)

unread == <<asked, phase, records, cache, remaining>>

OnshapeNext ==
    \/ \E i \in Imports : ImportStep(i)
    \/ \E p \in Refreshers : TokenSettles(p)
    \/ \E ref \in Refs, p \in Phases : CacheExpires(ref, p)
    \/ Age /\ UNCHANGED unread
    \/ \E r \in Renewals : Renew(r) /\ UNCHANGED unread
    \/ \E a \in Attempts : Authorize(a) /\ UNCHANGED unread
    \/ \E a \in Attempts : Expire(a) /\ UNCHANGED unread
    \/ \E c \in Callbacks : CallBack(c) /\ UNCHANGED unread
    \/ \E c \in Callbacks : ExchangeSettles(c) /\ UNCHANGED unread

OnshapeSpec == OnshapeInit /\ [][OnshapeNext]_onshapeVars

\* Every fetch settles (its own timeouts see to it), so does the audit entry; what is
\* ready to run does.
OnshapeFairness ==
    /\ \A i \in Imports :
         WF_onshapeVars(AskUnnamed(i) \/ AskCache(i) \/ AskInVain(i) \/ AskOnshape(i)
                          \/ Answer(i) \/ CallFails(i) \/ Answered(i))
    /\ \A p \in Refreshers : WF_onshapeVars(TokenSettles(p))
    /\ \A c \in Callbacks : WF_onshapeVars(ExchangeSettles(c) /\ UNCHANGED unread)

(***************************************************************************)
(* Properties.                                                             *)
(***************************************************************************)
\* Two refreshes in flight at once (an overtaken one and its successor) never present the
\* same refresh token, which Onshape may accept only once.  The environment's token is
\* excepted: it stands in for whatever a callback did not bring.
OneRefreshPerToken ==
    \A p, q \in Pending :
        begun[p].presents = begun[q].presents /\ begun[p].presents # Env => p = q

\* A refresh replaces the very token set it was started from: one that a callback
\* overtook does not undo the new connection.
RefreshReplacesItsOwn ==
    [][\A p \in Refreshers :
         p \in Pending /\ p \notin Pending' /\ tokens' # tokens
           => tokenSet.id = begun[p].over]_onshapeVars

\* An import begins with the token that is current at that moment, also when it awaited
\* a refresh that others started and a callback came in between.
ImportsBeginOnCurrentToken ==
    [][\A i \in Imports : run[i] = "none" /\ run'[i] = "running" => bearer'[i] = CurrentToken']_onshapeVars

\* Refreshes and callbacks leave the connection that came last.
ConnectionStands == RefreshReplacesItsOwn /\ ImportsBeginOnCurrentToken

\* A version has one snapshot, however many imports of it overlap.
OneSnapshotPerVersion ==
    \A m, n \in DOMAIN synced :
        synced[m].ref = synced[n].ref /\ synced[m].ref \in Versions => m = n

\* Run and job tell the same; a run that completed reports a snapshot of its reference
\* with what its level asks for, and no other run reports or left one.
RunsTellTheTruth ==
    /\ \A i \in Imports :
         /\ job[i] = run[i]
         /\ made[i] # 0 <=> run[i] = "completed" /\ asked[i].level # "link_only"
         /\ made[i] # 0 =>
              /\ made[i] \in DOMAIN synced
              /\ synced[made[i]].ref = asked[i].ref
              /\ asked[i].level = "bom" => synced[made[i]].graph
    /\ \A n \in DOMAIN synced : made[synced[n].by] = n

\* Runs and snapshots agree.
SnapshotsMatchRuns == OneSnapshotPerVersion /\ RunsTellTheTruth

\* Whatever imports, renewals and callbacks do side by side, a refresh token is presented
\* once, and the records of imports agree.
OnshapeHolds == OneRefreshPerToken /\ SnapshotsMatchRuns

\* Every request is answered, also one that awaits another's refresh or meets an error:
\* again and again none is under way.
EveryFetchEnds == []<>(\A r \in Requests : progress[r] \in {"idle", "answered"})
=============================================================================
