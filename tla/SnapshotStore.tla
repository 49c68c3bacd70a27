--------------------------- MODULE SnapshotStore ---------------------------
(***************************************************************************)
(* The request transactions of the platform snapshot (src/data/store.ts,   *)
(* src/app.ts, src/data/platformSnapshotFile.ts).                          *)
(*                                                                         *)
(* One process owns the published workspace (mem), one private workspace   *)
(* per user in an interactive tutorial (tutorials), a FIFO lock per user   *)
(* and one global FIFO lock, and the durable file (disk), replaced through *)
(* a temporary file (tmp).  A mutating HTTP request queues for its user's  *)
(* lock, then, unless its user is in a tutorial, for the global lock; its  *)
(* handler works on a private draft; the onSend hook saves and publishes   *)
(* the draft of a reply below 400 and releases the locks.                  *)
(*                                                                         *)
(* A snapshot is abstracted to the set of requests whose edit it contains: *)
(* the seed and the tutorial fixture, which the code builds with the same  *)
(* factory, contain none.                                                  *)
(***************************************************************************)
EXTENDS Naturals, Sequences

CONSTANTS
    Users,        \* user keys (email, else account id) of signed-in people
    Requests,     \* mutating HTTP requests, each received at most once
    NoUser,       \* the key of a request without a session
    UserOf,       \* the user key of each request
    AuthEnabled,  \* isAuthEnabled(): a sign-in provider is configured
    None,         \* null, an absent file, a user without a tutorial
    Partial       \* a file that is not completely written

ASSUME UsersAssumption ==
    /\ NoUser \notin Users
    /\ UserOf \in [Requests -> Users \cup {NoUser}]
    /\ AuthEnabled \in BOOLEAN
    /\ ~AuthEnabled => \A r \in Requests : UserOf[r] = NoUser

Snapshot == SUBSET Requests
Seed == {}
State == [current : Snapshot, interactive : Snapshot \cup {None}]
ASSUME NoneAssumption ==
    /\ None # Partial
    /\ \A s \in Snapshot : s # None /\ s # Partial
    /\ None \notin State

VARIABLES
    pc,          \* the stage of each request
    draft,       \* the SnapshotState (and its mutation) of each request
    userTail,    \* owner.tails of a user key: its requests, the holder first
    globalTail,  \* owner.tails of the global key
    mem,         \* owner.global: [current, interactive]
    tutorials,   \* owner.tutorials: a state per user, or None
    disk,        \* the snapshot file
    tmp          \* the temporary file beside it

vars == <<pc, draft, userTail, globalTail, mem, tutorials, disk, tmp>>
locks == <<userTail, globalTail>>
published == <<mem, tutorials>>
files == <<disk, tmp>>

Draft == [current : Snapshot, interactive : Snapshot \cup {None},
          destination : {"global", "tutorial", "end-tutorial"},
          dirty : BOOLEAN, locksGlobal : BOOLEAN]

\* What a request is doing.  "unanswered": it took effect and the process died before
\* the answer; "lost": the process died before the effect.
InFlight == {"handler", "sending", "refusing", "writing", "renaming", "publishing"}
Final == {"acked", "unchanged", "refused", "unanswered", "lost"}
Stage == {"idle", "userQueue", "globalQueue"} \cup InFlight \cup Final

HasUser(r) == UserOf[r] \in Users
Tutorial(r) == IF HasUser(r) THEN tutorials[UserOf[r]] ELSE None

\* newSnapshotOwner: the file when there is one, else the seed.
Recovered(file) == IF file = None THEN Seed ELSE file

Init ==
    /\ pc = [r \in Requests |-> "idle"]
    /\ draft = [r \in Requests |->
                  [current |-> Seed, interactive |-> None,
                   destination |-> "global", dirty |-> FALSE, locksGlobal |-> FALSE]]
    /\ userTail = [u \in Users |-> <<>>]
    /\ globalTail = <<>>
    /\ mem = [current |-> Seed, interactive |-> None]
    /\ tutorials = [u \in Users |-> None]
    /\ disk = None
    /\ tmp = None

Goto(r, stage) == pc' = [pc EXCEPT ![r] = stage]

(***************************************************************************)
(* acquireSnapshotMutation: the user's lock, then the destination, then    *)
(* the global lock when the destination is global, then the draft.         *)
(***************************************************************************)
Open(r, source, destination) ==
    /\ draft' = [draft EXCEPT ![r] =
                   [current |-> source.current, interactive |-> source.interactive,
                    destination |-> destination, dirty |-> FALSE,
                    locksGlobal |-> destination = "global"]]
    /\ Goto(r, "handler")

Receive(r) ==
    /\ pc[r] = "idle"
    /\ IF HasUser(r)
       THEN /\ userTail' = [userTail EXCEPT ![UserOf[r]] = Append(@, r)]
            /\ Goto(r, "userQueue")
            /\ UNCHANGED globalTail
       ELSE /\ globalTail' = Append(globalTail, r)
            /\ Goto(r, "globalQueue")
            /\ UNCHANGED userTail
    /\ UNCHANGED <<draft, published, files>>

HoldsUser(r) == userTail[UserOf[r]] # <<>> /\ Head(userTail[UserOf[r]]) = r
HoldsGlobal(r) == globalTail # <<>> /\ Head(globalTail) = r

\* Faulty: the user's queue is not awaited, so the destination is resolved too early.
EnterUserUnqueued(r) ==
    /\ pc[r] = "userQueue"
    /\ IF Tutorial(r) # None
       THEN Open(r, Tutorial(r), "tutorial") /\ UNCHANGED globalTail
       ELSE globalTail' = Append(globalTail, r) /\ Goto(r, "globalQueue") /\ UNCHANGED draft
    /\ UNCHANGED <<userTail, published, files>>

\* The user's queue is passed: a tutorial opens at once, anything else queues again.
EnterUser(r) ==
    /\ pc[r] = "userQueue"
    /\ HoldsUser(r)
    /\ IF Tutorial(r) # None
       THEN Open(r, Tutorial(r), "tutorial") /\ UNCHANGED globalTail
       ELSE /\ globalTail' = Append(globalTail, r)
            /\ Goto(r, "globalQueue")
            /\ UNCHANGED draft
    /\ UNCHANGED <<userTail, published, files>>

EnterGlobal(r) ==
    /\ pc[r] = "globalQueue"
    /\ HoldsGlobal(r)
    /\ Open(r, mem, "global")
    /\ UNCHANGED <<locks, published, files>>

(***************************************************************************)
(* The route handlers, on the draft.  The next stage is the reply: below   *)
(* 400 ("sending"), or an error status or a thrown error ("refusing").     *)
(***************************************************************************)
Handle(r, new) ==
    /\ pc[r] = "handler"
    /\ draft' = [draft EXCEPT ![r] = new]
    /\ \E stage \in {"sending", "refusing"} : Goto(r, stage)
    /\ UNCHANGED <<locks, published, files>>

\* A route without a session when auth is enabled stops before any command.
Authorized(r) == AuthEnabled => HasUser(r)

\* No command ran: a guard, a validation error, or nothing to change.
HandleNothing(r) == Handle(r, draft[r])

\* replaceCurrentSnapshot, from any store command.
HandleEdit(r) ==
    /\ Authorized(r)
    /\ Handle(r, [draft[r] EXCEPT !.current = @ \cup {r}, !.dirty = TRUE])

\* POST /api/tutorial/session/start: a signed-in user gets a private fixture; with
\* auth off the global workspace is stashed and replaced.
HandleStart(r) ==
    /\ Authorized(r)
    /\ Handle(r, IF HasUser(r)
                 THEN [draft[r] EXCEPT !.current = Seed, !.interactive = Seed,
                                       !.destination = "tutorial", !.dirty = TRUE]
                 ELSE [draft[r] EXCEPT !.interactive = draft[r].current,
                                       !.current = Seed, !.dirty = TRUE])

\* POST /api/tutorial/session/reset, mode "baseline".  Nothing changes for a signed-in
\* user whose draft is not a tutorial.
HandleBaseline(r) ==
    /\ Authorized(r)
    /\ HasUser(r) => draft[r].destination = "tutorial"
    /\ Handle(r, [draft[r] EXCEPT !.current = Seed, !.dirty = TRUE])

\* Faulty: the end of a tutorial keeps its edits for the workspace.
HandleMergingEnd(r) ==
    /\ Authorized(r)
    /\ draft[r].interactive # None
    /\ Handle(r, [draft[r] EXCEPT !.interactive = None, !.destination = "global",
                                  !.dirty = TRUE])

\* POST /api/tutorial/session/reset, mode "session".
HandleEnd(r) ==
    /\ Authorized(r)
    /\ draft[r].interactive # None
    /\ HasUser(r) => draft[r].destination = "tutorial"
    /\ Handle(r, IF HasUser(r)
                 THEN [draft[r] EXCEPT !.current = mem.current, !.interactive = None,
                                       !.destination = "end-tutorial", !.dirty = TRUE]
                 ELSE [draft[r] EXCEPT !.current = draft[r].interactive,
                                       !.interactive = None, !.dirty = TRUE])

(***************************************************************************)
(* The onSend hook: commit, then release.                                  *)
(***************************************************************************)
\* Faulty: the global lock is matched to the final destination, not to what was acquired.
ReleaseByDestination(r) ==
    /\ userTail' = IF HasUser(r) THEN [userTail EXCEPT ![UserOf[r]] = Tail(@)]
                                 ELSE userTail
    /\ globalTail' = IF draft[r].destination = "global" THEN Tail(globalTail)
                                                        ELSE globalTail

Release(r) ==
    /\ userTail' = IF HasUser(r) THEN [userTail EXCEPT ![UserOf[r]] = Tail(@)]
                                 ELSE userTail
    /\ globalTail' = IF draft[r].locksGlobal THEN Tail(globalTail) ELSE globalTail

Finish(r, stage) ==
    /\ Goto(r, stage)
    /\ Release(r)

\* An error reply, or a reply of a handler that changed nothing, commits nothing.
SendRefusal(r) ==
    /\ pc[r] = "refusing"
    /\ Finish(r, "refused")
    /\ UNCHANGED <<draft, published, files>>

SendUnchanged(r) ==
    /\ pc[r] = "sending"
    /\ ~draft[r].dirty
    /\ Finish(r, "unchanged")
    /\ UNCHANGED <<draft, published, files>>

\* Faulty: the tutorial's state is stored without what it was started from.
CommitBareTutorial(r) ==
    /\ pc[r] = "sending"
    /\ draft[r].dirty
    /\ draft[r].destination # "global"
    /\ tutorials' = [tutorials EXCEPT ![UserOf[r]] =
                       IF draft[r].destination = "end-tutorial" THEN None
                       ELSE [current |-> draft[r].current]]
    /\ Finish(r, "acked")
    /\ UNCHANGED <<draft, mem, files>>

\* A tutorial is published (or removed) in memory alone.
CommitTutorial(r) ==
    /\ pc[r] = "sending"
    /\ draft[r].dirty
    /\ draft[r].destination # "global"
    /\ tutorials' = [tutorials EXCEPT ![UserOf[r]] =
                       IF draft[r].destination = "end-tutorial" THEN None
                       ELSE [current |-> draft[r].current,
                             interactive |-> draft[r].interactive]]
    /\ Finish(r, "acked")
    /\ UNCHANGED <<draft, mem, files>>

\* Faulty: the draft is published before it is saved.
BeginSavePublishing(r) ==
    /\ pc[r] = "sending"
    /\ draft[r].dirty
    /\ draft[r].destination = "global"
    /\ tmp' = Partial
    /\ mem' = [current |-> draft[r].current, interactive |-> draft[r].interactive]
    /\ Goto(r, "writing")
    /\ UNCHANGED <<draft, locks, tutorials, disk>>

\* savePlatformSnapshotFile: writeFile truncates and fills the temporary file.
BeginSave(r) ==
    /\ pc[r] = "sending"
    /\ draft[r].dirty
    /\ draft[r].destination = "global"
    /\ tmp' = Partial
    /\ Goto(r, "writing")
    /\ UNCHANGED <<draft, locks, published, disk>>

WriteTemporary(r) ==
    /\ pc[r] = "writing"
    /\ tmp' = draft[r].current
    /\ Goto(r, "renaming")
    /\ UNCHANGED <<draft, locks, published, disk>>

Rename(r) ==
    /\ pc[r] = "renaming"
    /\ disk' = tmp
    /\ tmp' = None
    /\ Goto(r, "publishing")
    /\ UNCHANGED <<draft, locks, published>>

\* Faulty: a failed save is answered as a success.
SaveFailsSilently(r) ==
    /\ pc[r] \in {"writing", "renaming"}
    /\ mem' = [current |-> draft[r].current, interactive |-> draft[r].interactive]
    /\ Finish(r, "acked")
    /\ UNCHANGED <<draft, tutorials, files>>

\* mkdir, writeFile or rename rejects: commit throws, the draft is dropped, a 500 goes out.
SaveFails(r) ==
    /\ \/ pc[r] \in {"writing", "renaming"}
       \/ pc[r] = "sending" /\ draft[r].dirty /\ draft[r].destination = "global"
    /\ Finish(r, "refused")
    /\ UNCHANGED <<draft, published, files>>

Publish(r) ==
    /\ pc[r] = "publishing"
    /\ mem' = [current |-> draft[r].current, interactive |-> draft[r].interactive]
    /\ Finish(r, "acked")
    /\ UNCHANGED <<draft, tutorials, files>>

(***************************************************************************)
(* The process dies and starts again: only the files remain.  Requests in  *)
(* progress get no answer.                                                 *)
(***************************************************************************)
Restart ==
    /\ pc' = [r \in Requests |-> CASE pc[r] \in Final \cup {"idle"} -> pc[r]
                                   [] pc[r] = "publishing" -> "unanswered"
                                   [] OTHER -> "lost"]
    /\ userTail' = [u \in Users |-> <<>>]
    /\ globalTail' = <<>>
    /\ mem' = [current |-> Recovered(disk), interactive |-> None]
    /\ tutorials' = [u \in Users |-> None]
    /\ UNCHANGED <<draft, files>>

Acquire(r) == EnterUser(r) \/ EnterGlobal(r)
RunHandler(r) ==
    HandleNothing(r) \/ HandleEdit(r) \/ HandleStart(r) \/ HandleBaseline(r) \/ HandleEnd(r)
Reply(r) ==
    \/ SendRefusal(r) \/ SendUnchanged(r) \/ CommitTutorial(r)
    \/ BeginSave(r) \/ WriteTemporary(r) \/ Rename(r) \/ SaveFails(r) \/ Publish(r)

Next ==
    \/ \E r \in Requests : Receive(r) \/ Acquire(r) \/ RunHandler(r) \/ Reply(r)
    \/ Restart

Spec == Init /\ [][Next]_vars

(***************************************************************************)
(* The event loop runs every resolved promise, every handler returns and   *)
(* every file operation settles while the process lives; nothing makes a   *)
(* client send a request or the process die.                               *)
(***************************************************************************)
Fairness == \A r \in Requests : WF_vars(Acquire(r) \/ RunHandler(r) \/ Reply(r))
FairSpec == Spec /\ Fairness

(***************************************************************************)
(* Properties.                                                             *)
(***************************************************************************)
\* The types of the variables.
TypeOK ==
    /\ pc \in [Requests -> Stage]
    /\ draft \in [Requests -> Draft]
    /\ userTail \in [Users -> Seq(Requests)]
    /\ globalTail \in Seq(Requests)
    /\ mem \in State
    /\ tutorials \in [Users -> State \cup {None}]
    /\ disk \in Snapshot \cup {None}
    /\ tmp \in Snapshot \cup {None, Partial}

\* A change of the workspace that the client saw acknowledged is in the published
\* workspace and in the file, across any number of restarts (commit publishes after
\* savePlatformSnapshotFile and replies after publishing).
AckedEditsSurvive ==
    AuthEnabled =>
        \A r \in Requests :
            pc[r] = "acked" /\ draft[r].destination = "global"
                => r \in mem.current /\ r \in Recovered(disk)

\* What readers see is what a restart would reload, except in the instant between the
\* rename and the publication, when the file is ahead by the draft being published.
PublishedIsDurable ==
    \/ mem.current = Recovered(disk)
    \/ \E r \in Requests : pc[r] = "publishing" /\ disk = draft[r].current

\* A request that holds a draft of the workspace works on the workspace as published
\* now: no other request published since the draft was opened (no lost update).
NoLostUpdate ==
    AuthEnabled =>
        \A r \in Requests :
            pc[r] \in InFlight /\ draft[r].destination = "global"
                => draft[r].current \ {r} = mem.current

\* The destination a request resolved after the user queue stays right until its reply:
\* its user's tutorial neither ended nor began under it.
DestinationStaysCurrent ==
    \A r \in Requests :
        pc[r] \in InFlight /\ HasUser(r)
            => (draft[r].locksGlobal <=> Tutorial(r) = None)

\* A request answered with an error, or that died with the process before its rename,
\* left nothing in any workspace or in the file.
RefusedLeavesNothing ==
    \A r \in Requests :
        pc[r] \in {"refused", "lost"} =>
            /\ r \notin mem.current \cup Recovered(disk)
            /\ mem.interactive # None => r \notin mem.interactive
            /\ \A u \in Users : tutorials[u] # None => r \notin tutorials[u].current

\* Together: an edit is durable exactly when its client was told so, whatever fails between
\* the handler and the reply.
EditsAreDurable == AckedEditsSurvive /\ PublishedIsDurable /\ RefusedLeavesNothing

\* A tutorial holds its own user's tutorial edits only, and none of them reaches the
\* shared workspace or the file.
TutorialIsolation ==
    /\ \A u \in Users : tutorials[u] # None =>
          \A r \in tutorials[u].current :
              UserOf[r] = u /\ draft[r].destination = "tutorial"
    /\ \A r \in mem.current \cup Recovered(disk) : draft[r].destination = "global"

\* With sign-in on, the published workspace changes by one request's edit at a time and
\* never loses one, through commits, failures and restarts.
WorkspaceGrowsByOneEdit ==
    [][AuthEnabled /\ mem.current' # mem.current
         => \E r \in Requests \ mem.current : mem.current' = mem.current \cup {r}]_vars

\* Every request the server received is eventually answered, or dies with the process:
\* again and again none is under way.
EveryRequestEnds ==
    []<>(\A r \in Requests : pc[r] \in Final \cup {"idle"})

(***************************************************************************)
(* The store implements the ledger: the rename is the instant a change of  *)
(* the workspace takes effect, the publication that of a tutorial.         *)
(***************************************************************************)
Publishing == {r \in Requests : pc[r] = "publishing"}
SetAside == IF Publishing = {} THEN mem.interactive
            ELSE draft[CHOOSE r \in Publishing : TRUE].interactive
Private == [u \in Users |-> IF tutorials[u] = None THEN None ELSE tutorials[u].current]
Effective == {r \in Requests : pc[r] \in {"publishing", "acked", "unanswered"}}
Acked == {r \in Requests : pc[r] = "acked"}

Ledger == INSTANCE SnapshotLedger WITH
    workspace <- Recovered(disk), stash <- SetAside, private <- Private,
    done <- Effective, acked <- Acked

\* Every behaviour of the store is a behaviour of the ledger.
ImplementsLedger == Ledger!Spec
=============================================================================
