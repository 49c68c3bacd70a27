------------------------ MODULE SnapshotStoreProofs ------------------------
(***************************************************************************)
(* What SnapshotStore guarantees for any users and requests.  The safety   *)
(* properties are not inductive: they hold because of who holds which lock *)
(* (LockInv), what the files hold at each stage of a save (SaveInv), where *)
(* a draft comes from (DraftInv) and where an edit can be (FreshInv).      *)
(***************************************************************************)
EXTENDS SnapshotStore, SequenceTheorems, TLAPS

Waiting == {"idle", "userQueue", "globalQueue"}
Saving == {"writing", "renaming", "publishing"}

\* A request past its user's queue is the head of that queue, one that opened a draft of
\* the workspace is the head of the global queue.
LockInv ==
    \A r \in Requests :
        /\ pc[r] \in InFlight \cup {"globalQueue"} /\ HasUser(r) => HoldsUser(r)
        /\ pc[r] \in InFlight /\ draft[r].locksGlobal => HoldsGlobal(r)

\* The destination agrees with the tutorial of the user and with the locks held.
DestinationInv ==
    \A r \in Requests :
        /\ pc[r] = "userQueue" => HasUser(r)
        /\ pc[r] = "globalQueue" => Tutorial(r) = None
        /\ pc[r] \in InFlight =>
              /\ draft[r].locksGlobal <=> Tutorial(r) = None
              /\ draft[r].destination = "global" => draft[r].locksGlobal
              /\ draft[r].destination # "global" => HasUser(r)
              /\ draft[r].destination = "end-tutorial" => draft[r].dirty
        /\ pc[r] \in Saving => draft[r].destination = "global" /\ draft[r].dirty

\* The temporary file is the draft about to be renamed; the file is what is published,
\* or the draft about to be published.
SaveInv ==
    /\ \A r \in Requests :
          /\ pc[r] = "renaming" => tmp = draft[r].current
          /\ pc[r] = "publishing" => disk = draft[r].current
    /\ (\A r \in Requests : pc[r] # "publishing") => mem.current = Recovered(disk)

\* With sign-in on, a draft of the workspace is the published workspace, with the edit of
\* its request when it is dirty, and an acknowledged edit stays published and on disk.
DraftInv ==
    AuthEnabled =>
        \A r \in Requests :
            /\ pc[r] \in InFlight /\ draft[r].destination = "global" =>
                  draft[r].current = IF draft[r].dirty THEN mem.current \cup {r}
                                                       ELSE mem.current
            /\ pc[r] = "acked" /\ draft[r].destination = "global" =>
                  r \in mem.current /\ r \in Recovered(disk)

\* Where an edit can be seen: nowhere until its request takes effect, except in its own
\* draft, and in the file once it is renamed.
Contains(state, r) ==
    r \in state.current \/ (state.interactive # None /\ r \in state.interactive)

FreshInv ==
    \A r \in Requests :
        /\ pc[r] \notin {"acked", "unanswered"} =>
              /\ ~Contains(mem, r)
              /\ \A u \in Users : tutorials[u] # None => ~Contains(tutorials[u], r)
              /\ \A s \in Requests \ {r} : pc[s] \in InFlight => ~Contains(draft[s], r)
        /\ pc[r] \notin {"acked", "unanswered", "publishing"} => r \notin Recovered(disk)

\* The workspace, its file and the drafts of it hold edits made on the workspace; the
\* tutorial of a user and the drafts of it hold edits that user made in the tutorial.
IsolationInv ==
    \A r \in Requests :
        /\ Contains(mem, r) \/ r \in Recovered(disk) => draft[r].destination = "global"
        /\ \A u \in Users : tutorials[u] # None /\ Contains(tutorials[u], r) =>
              UserOf[r] = u /\ draft[r].destination = "tutorial"
        /\ \A s \in Requests : pc[s] \in InFlight /\ Contains(draft[s], r) =>
              /\ draft[s].destination = "global" => draft[r].destination = "global"
              /\ draft[s].destination = "tutorial" =>
                    UserOf[r] = UserOf[s] /\ draft[r].destination = "tutorial"

IInv ==
    TypeOK /\ LockInv /\ DestinationInv /\ SaveInv /\ DraftInv /\ FreshInv /\ IsolationInv

-----------------------------------------------------------------------------
(***************************************************************************)
(* Queues.                                                                 *)
(***************************************************************************)
\* Appending to a queue keeps its head.
LEMMA Enqueued ==
    ASSUME NEW q \in Seq(Requests), NEW r \in Requests
    PROVE  /\ Append(q, r) \in Seq(Requests)
           /\ Append(q, r) # <<>>
           /\ q # <<>> => Head(Append(q, r)) = Head(q)
<1>1. Append(q, r) \in Seq(Requests) /\ Append(q, r) # <<>>
  BY AppendProperties
<1>2. Head(Append(q, r)) = IF q = <<>> THEN r ELSE Head(q)
  BY HeadTailAppend
<1> QED
  BY <1>1, <1>2

\* The kinds of step the proofs go through.  All handlers share one shape, and so do the
\* steps of the onSend hook that release the locks, and those that do not.
Handles(r) ==
    \E new \in Draft :
        /\ Handle(r, new)
        /\ new.locksGlobal = draft[r].locksGlobal
        /\ AuthEnabled => (HasUser(r) \/ new = draft[r])
Finishes(r) ==
    /\ pc[r] \in InFlight
    /\ \E stage \in {"acked", "refused", "unchanged"} : Finish(r, stage)
    /\ UNCHANGED draft
Drops(r) == SendRefusal(r) \/ SendUnchanged(r) \/ SaveFails(r)
Saves(r) ==
    /\ pc[r] \in {"sending", "writing", "renaming"}
    /\ \E stage \in Saving : Goto(r, stage)
    /\ UNCHANGED <<draft, locks, published>>

LEMMA Kinds ==
    ASSUME TypeOK, NEW r \in Requests
    PROVE  /\ RunHandler(r) => Handles(r)
           /\ Drops(r) \/ CommitTutorial(r) \/ Publish(r) => Finishes(r)
           /\ BeginSave(r) \/ WriteTemporary(r) \/ Rename(r) => Saves(r)
<1>1. ASSUME RunHandler(r) PROVE Handles(r)
  <2>1. draft[r] \in Draft /\ mem \in State
    BY DEF TypeOK
  <2>2. CASE HandleNothing(r)
    BY <2>1, <2>2 DEF HandleNothing, Handles
  <2>3. CASE HandleEdit(r)
    <3> DEFINE new == [draft[r] EXCEPT !.current = @ \cup {r}, !.dirty = TRUE]
    <3>1. new \in Draft /\ new.locksGlobal = draft[r].locksGlobal
      BY <2>1 DEF Draft, Snapshot
    <3> QED
      BY <2>3, <3>1 DEF HandleEdit, Handles, Authorized
  <2>4. CASE HandleStart(r)
    <3> DEFINE new == IF HasUser(r)
                      THEN [draft[r] EXCEPT !.current = Seed, !.interactive = Seed,
                                            !.destination = "tutorial", !.dirty = TRUE]
                      ELSE [draft[r] EXCEPT !.interactive = draft[r].current,
                                            !.current = Seed, !.dirty = TRUE]
    <3>1. new \in Draft /\ new.locksGlobal = draft[r].locksGlobal
      BY <2>1 DEF Draft, Snapshot, Seed
    <3> QED
      BY <2>4, <3>1 DEF HandleStart, Handles, Authorized
  <2>5. CASE HandleBaseline(r)
    <3> DEFINE new == [draft[r] EXCEPT !.current = Seed, !.dirty = TRUE]
    <3>1. new \in Draft /\ new.locksGlobal = draft[r].locksGlobal
      BY <2>1 DEF Draft, Snapshot, Seed
    <3> QED
      BY <2>5, <3>1 DEF HandleBaseline, Handles, Authorized
  <2>6. CASE HandleEnd(r)
    <3> DEFINE new == IF HasUser(r)
                      THEN [draft[r] EXCEPT !.current = mem.current, !.interactive = None,
                                            !.destination = "end-tutorial", !.dirty = TRUE]
                      ELSE [draft[r] EXCEPT !.current = draft[r].interactive,
                                            !.interactive = None, !.dirty = TRUE]
    <3>1. draft[r].interactive # None
      BY <2>6 DEF HandleEnd
    <3>2. new \in Draft /\ new.locksGlobal = draft[r].locksGlobal
      BY <2>1, <3>1 DEF Draft, State, Snapshot
    <3> QED
      BY <2>6, <3>2 DEF HandleEnd, Handles, Authorized
  <2> QED
    BY <1>1, <2>2, <2>3, <2>4, <2>5, <2>6 DEF RunHandler
<1>2. Drops(r) \/ CommitTutorial(r) \/ Publish(r) => Finishes(r)
  BY DEF Drops, SendRefusal, SendUnchanged, CommitTutorial, SaveFails, Publish, Finishes,
         InFlight
<1>3. BeginSave(r) \/ WriteTemporary(r) \/ Rename(r) => Saves(r)
  BY DEF BeginSave, WriteTemporary, Rename, Saves, Saving, locks, published
<1> QED
  BY <1>1, <1>2, <1>3

\* The draft a request opens.
LEMMA Opened ==
    ASSUME TypeOK, NEW r \in Requests, NEW source \in State,
           NEW destination \in {"global", "tutorial"}, Open(r, source, destination)
    PROVE  /\ pc' = [pc EXCEPT ![r] = "handler"]
           /\ draft'[r].current = source.current
           /\ draft'[r].interactive = source.interactive
           /\ draft'[r].destination = destination
           /\ draft'[r].dirty = FALSE
           /\ draft'[r].locksGlobal <=> destination = "global"
           /\ \A s \in Requests \ {r} : draft'[s] = draft[s]
<1> DEFINE new == [current |-> source.current, interactive |-> source.interactive,
                   destination |-> destination, dirty |-> FALSE,
                   locksGlobal |-> destination = "global"]
<1>1. draft' = [draft EXCEPT ![r] = new] /\ draft \in [Requests -> Draft]
  BY DEF Open, TypeOK
<1>2. draft'[r] = new /\ \A s \in Requests \ {r} : draft'[s] = draft[s]
  BY <1>1
<1>3. new.locksGlobal = (destination = "global")
  BY Zenon
<1>4. /\ new.current = source.current
      /\ new.interactive = source.interactive
      /\ new.destination = destination
      /\ new.dirty = FALSE
  OBVIOUS
<1> QED
  BY <1>2, <1>3, <1>4, Zenon DEF Open, Goto

\* Releasing passes each queue to its next request and leaves the other holders alone.
LEMMA Released ==
    ASSUME TypeOK, LockInv, NEW r \in Requests, pc[r] \in InFlight, Release(r)
    PROVE  /\ userTail' \in [Users -> Seq(Requests)]
           /\ globalTail' \in Seq(Requests)
           /\ \A s \in Requests \ {r} :
                 /\ HasUser(s) /\ HoldsUser(s) /\ UserOf[s] # UserOf[r] => HoldsUser(s)'
                 /\ HasUser(s) /\ HoldsUser(s) /\ HasUser(r) => UserOf[s] # UserOf[r]
                 /\ HoldsGlobal(s) => ~draft[r].locksGlobal /\ HoldsGlobal(s)'
<1>1. userTail \in [Users -> Seq(Requests)] /\ globalTail \in Seq(Requests)
  BY DEF TypeOK
<1>2. HasUser(r) => UserOf[r] \in Users /\ HoldsUser(r)
  BY DEF LockInv, HasUser
<1>3. draft[r].locksGlobal => HoldsGlobal(r)
  BY DEF LockInv
<1>4. userTail' \in [Users -> Seq(Requests)]
  <2>1. CASE HasUser(r)
    <3>1. Tail(userTail[UserOf[r]]) \in Seq(Requests)
      BY <1>1, <1>2, <2>1, HeadTailProperties DEF HoldsUser
    <3>2. userTail' = [userTail EXCEPT ![UserOf[r]] = Tail(userTail[UserOf[r]])]
      BY <2>1 DEF Release
    <3> QED
      BY <1>1, <1>2, <2>1, <3>1, <3>2
  <2>2. CASE ~HasUser(r)
    BY <1>1, <2>2 DEF Release
  <2> QED
    BY <2>1, <2>2
<1>5. globalTail' \in Seq(Requests)
  BY <1>1, <1>3, HeadTailProperties DEF Release, HoldsGlobal
<1>6. ASSUME NEW s \in Requests \ {r}
      PROVE  /\ HasUser(s) /\ HoldsUser(s) /\ UserOf[s] # UserOf[r] => HoldsUser(s)'
             /\ HasUser(s) /\ HoldsUser(s) /\ HasUser(r) => UserOf[s] # UserOf[r]
             /\ HoldsGlobal(s) => ~draft[r].locksGlobal /\ HoldsGlobal(s)'
  BY <1>1, <1>2, <1>3, <1>6 DEF Release, HoldsUser, HoldsGlobal, HasUser
<1> QED
  BY <1>4, <1>5, <1>6

(***************************************************************************)
(* Types.                                                                  *)
(***************************************************************************)
LEMMA TypeInit == Init => TypeOK
<1> SUFFICES ASSUME Init PROVE TypeOK
  OBVIOUS
<1>1. Seed \in Snapshot /\ <<>> \in Seq(Requests)
  BY DEF Seed, Snapshot
<1> QED
  BY <1>1 DEF Init, TypeOK, State, Draft, Stage

LEMMA TypeStep == TypeOK /\ LockInv /\ SaveInv /\ [Next]_vars => TypeOK'
<1> SUFFICES ASSUME TypeOK, LockInv, SaveInv, [Next]_vars PROVE TypeOK'
  OBVIOUS
<1> USE DEF TypeOK
<1>0. ASSUME UNCHANGED vars PROVE TypeOK'
  BY <1>0 DEF vars
<1>1. ASSUME NEW r \in Requests, Receive(r) PROVE TypeOK'
  <2>1. pc' \in [Requests -> Stage]
    BY <1>1 DEF Receive, Goto, Stage
  <2>2. globalTail' \in Seq(Requests)
    BY <1>1, Enqueued DEF Receive
  <2>3. userTail' \in [Users -> Seq(Requests)]
    <3>1. CASE HasUser(r)
      <4>1. UserOf[r] \in Users /\ Append(userTail[UserOf[r]], r) \in Seq(Requests)
        BY <3>1, Enqueued DEF HasUser
      <4>2. userTail' = [userTail EXCEPT ![UserOf[r]] = Append(userTail[UserOf[r]], r)]
        BY <1>1, <3>1 DEF Receive
      <4> QED
        BY <4>1, <4>2
    <3>2. CASE ~HasUser(r)
      BY <1>1, <3>2 DEF Receive
    <3> QED
      BY <3>1, <3>2
  <2> QED
    BY <1>1, <2>1, <2>2, <2>3 DEF Receive, published, files
<1>2. ASSUME NEW r \in Requests, NEW source \in State,
             NEW destination \in {"global", "tutorial"}, Open(r, source, destination)
      PROVE  pc' \in [Requests -> Stage] /\ draft' \in [Requests -> Draft]
  <2>1. [current |-> source.current, interactive |-> source.interactive,
         destination |-> destination, dirty |-> FALSE,
         locksGlobal |-> destination = "global"] \in Draft
    BY DEF State, Draft
  <2> QED
    BY <1>2, <2>1 DEF Open, Goto, Stage, InFlight
<1>3. ASSUME NEW r \in Requests, Acquire(r) PROVE TypeOK'
  <2>1. CASE EnterUser(r)
    <3>1. CASE Tutorial(r) # None
      <4>1. Tutorial(r) \in State
        BY <3>1 DEF Tutorial, HasUser
      <4> QED
        BY <2>1, <3>1, <4>1, <1>2 DEF EnterUser, published, files
    <3>2. CASE Tutorial(r) = None
      <4>1. globalTail' \in Seq(Requests) /\ pc' \in [Requests -> Stage]
        BY <2>1, <3>2, Enqueued DEF EnterUser, Goto, Stage
      <4> QED
        BY <2>1, <3>2, <4>1 DEF EnterUser, published, files
    <3> QED
      BY <3>1, <3>2
  <2>2. CASE EnterGlobal(r)
    BY <2>2, <1>2 DEF EnterGlobal, locks, published, files
  <2> QED
    BY <1>3, <2>1, <2>2 DEF Acquire
<1>4. ASSUME NEW r \in Requests, Handles(r) PROVE TypeOK'
  BY <1>4 DEF Handles, Handle, Goto, Stage, InFlight, locks, published, files
<1>5. ASSUME NEW r \in Requests, Reply(r) PROVE TypeOK'
  <2>1. draft[r] \in Draft
    OBVIOUS
  <2>2. mem' \in State
    BY <1>5, <2>1 DEF Reply, SendRefusal, SendUnchanged, CommitTutorial, BeginSave, WriteTemporary,
                Rename, SaveFails, Publish, published, State, Draft
  <2>3. tutorials' \in [Users -> State \cup {None}]
    <3>1. [current |-> draft[r].current, interactive |-> draft[r].interactive] \in State
      BY <2>1 DEF Draft, State
    <3>2. CASE CommitTutorial(r)
      BY <3>1, <3>2 DEF CommitTutorial
    <3>3. CASE ~CommitTutorial(r)
      BY <1>5, <3>3 DEF Reply, SendRefusal, SendUnchanged, BeginSave, WriteTemporary, Rename,
                        SaveFails, Publish, published
    <3> QED
      BY <3>2, <3>3
  <2>4. disk' \in Snapshot \cup {None} /\ tmp' \in Snapshot \cup {None, Partial}
    <3>1. draft[r].current \in Snapshot
      BY <2>1 DEF Draft
    <3>2. CASE Rename(r)
      BY <3>1, <3>2 DEF Rename, SaveInv
    <3>3. CASE ~Rename(r)
      BY <1>5, <3>1, <3>3 DEF Reply, SendRefusal, SendUnchanged, CommitTutorial, BeginSave,
                              WriteTemporary, SaveFails, Publish, files
    <3> QED
      BY <3>2, <3>3
  <2>5. ASSUME Finishes(r)
        PROVE  /\ pc' \in [Requests -> Stage] /\ draft' = draft
               /\ userTail' \in [Users -> Seq(Requests)] /\ globalTail' \in Seq(Requests)
    BY <2>5, Released DEF Finishes, Finish, Goto, Stage, Final
  <2>6. ASSUME Saves(r)
        PROVE  /\ pc' \in [Requests -> Stage] /\ draft' = draft
               /\ userTail' \in [Users -> Seq(Requests)] /\ globalTail' \in Seq(Requests)
    BY <2>6 DEF Saves, Saving, Goto, Stage, InFlight, locks
  <2> QED
    BY <1>5, <2>2, <2>3, <2>4, <2>5, <2>6, Kinds DEF Reply, Drops
<1>6. ASSUME Restart PROVE TypeOK'
  BY <1>6 DEF Restart, Recovered, Seed, Snapshot, State, Stage, InFlight, Final, files
<1> QED
  BY <1>0, <1>1, <1>3, <1>4, <1>5, <1>6, Kinds DEF Next

(***************************************************************************)
(* Locks.                                                                  *)
(***************************************************************************)
LEMMA LockStep == TypeOK /\ LockInv /\ [Next]_vars => LockInv'
<1> SUFFICES ASSUME TypeOK, LockInv, [Next]_vars, NEW s \in Requests
             PROVE  /\ pc'[s] \in InFlight \cup {"globalQueue"} /\ HasUser(s) => HoldsUser(s)'
                    /\ pc'[s] \in InFlight /\ draft'[s].locksGlobal => HoldsGlobal(s)'
  BY DEF LockInv, HasUser
<1> DEFINE Goal == /\ pc'[s] \in InFlight \cup {"globalQueue"} /\ HasUser(s) => HoldsUser(s)'
                   /\ pc'[s] \in InFlight /\ draft'[s].locksGlobal => HoldsGlobal(s)'
<1> USE DEF LockInv, InFlight, Goto
<1>0. ASSUME UNCHANGED vars PROVE Goal
  BY <1>0 DEF vars, HoldsUser, HoldsGlobal
<1>1. ASSUME NEW r \in Requests, Receive(r) PROVE Goal
  <2>1. HasUser(s) /\ HoldsUser(s) => HoldsUser(s)'
    <3>1. CASE HasUser(r)
      <4>1. \A u \in Users :
               userTail'[u] = IF u = UserOf[r] THEN Append(userTail[u], r) ELSE userTail[u]
        BY <1>1, <3>1 DEF Receive, TypeOK
      <4> QED
        BY <4>1, Enqueued DEF HoldsUser, HasUser, TypeOK
    <3>2. CASE ~HasUser(r)
      BY <1>1, <3>2 DEF Receive, HoldsUser
    <3> QED
      BY <3>1, <3>2
  <2>2. HoldsGlobal(s) => HoldsGlobal(s)'
    BY <1>1, Enqueued DEF Receive, HoldsGlobal, TypeOK
  <2> QED
    BY <1>1, <2>1, <2>2 DEF Receive, TypeOK
<1>2. ASSUME NEW r \in Requests, EnterUser(r) PROVE Goal
  <2>1. HoldsUser(s)' <=> HoldsUser(s)
    BY <1>2 DEF EnterUser, HoldsUser
  <2>2. HoldsGlobal(s) => HoldsGlobal(s)'
    BY <1>2, Enqueued DEF EnterUser, HoldsGlobal, TypeOK
  <2>3. CASE s = r
    <3>1. HoldsUser(s)'
      BY <1>2, <2>1, <2>3 DEF EnterUser
    <3>2. pc'[s] \in InFlight => ~draft'[s].locksGlobal
      <4>1. CASE Tutorial(r) # None
        <5>1. Open(r, Tutorial(r), "tutorial") /\ Tutorial(r) \in State
          BY <1>2, <4>1 DEF EnterUser, Tutorial, HasUser, TypeOK
        <5>2. draft'[r].locksGlobal <=> "tutorial" = "global"
          BY <5>1, Opened
        <5> QED
          BY <2>3, <5>2
      <4>2. CASE Tutorial(r) = None
        BY <1>2, <2>3, <4>2 DEF EnterUser, TypeOK
      <4> QED
        BY <4>1, <4>2
    <3> QED
      BY <3>1, <3>2
  <2>4. CASE s # r
    <3>1. pc'[s] = pc[s] /\ draft'[s] = draft[s]
      BY <1>2, <2>4 DEF EnterUser, Open, TypeOK
    <3> QED
      BY <2>1, <2>2, <3>1
  <2> QED
    BY <2>3, <2>4
<1>3. ASSUME NEW r \in Requests, EnterGlobal(r) PROVE Goal
  <2>1. (HoldsUser(s)' <=> HoldsUser(s)) /\ (HoldsGlobal(s)' <=> HoldsGlobal(s))
    BY <1>3 DEF EnterGlobal, locks, HoldsUser, HoldsGlobal
  <2> QED
    BY <1>3, <2>1 DEF EnterGlobal, Open, TypeOK
<1>4. ASSUME NEW r \in Requests, Handles(r) PROVE Goal
  <2>1. (HoldsUser(s)' <=> HoldsUser(s)) /\ (HoldsGlobal(s)' <=> HoldsGlobal(s))
    BY <1>4 DEF Handles, Handle, locks, HoldsUser, HoldsGlobal
  <2> QED
    BY <1>4, <2>1 DEF Handles, Handle, TypeOK
<1>5. ASSUME NEW r \in Requests, Finishes(r) PROVE Goal
  <2>1. Release(r) /\ pc[r] \in InFlight /\ draft' = draft
    BY <1>5 DEF Finishes, Finish
  <2>2. CASE s = r
    BY <1>5, <2>2 DEF Finishes, Finish, TypeOK
  <2>3. CASE s # r
    <3>1. pc'[s] = pc[s]
      BY <1>5, <2>3 DEF Finishes, Finish, TypeOK
    <3>2. HasUser(s) /\ HoldsUser(s) => HoldsUser(s)'
      BY <2>1, <2>3, Released DEF HasUser
    <3>3. HoldsGlobal(s) => HoldsGlobal(s)'
      BY <2>1, <2>3, Released
    <3> QED
      BY <2>1, <3>1, <3>2, <3>3
  <2> QED
    BY <2>2, <2>3
<1>6. ASSUME NEW r \in Requests, Saves(r) PROVE Goal
  <2>1. (HoldsUser(s)' <=> HoldsUser(s)) /\ (HoldsGlobal(s)' <=> HoldsGlobal(s))
    BY <1>6 DEF Saves, locks, HoldsUser, HoldsGlobal
  <2> QED
    BY <1>6, <2>1 DEF Saves, Saving, TypeOK
<1>7. ASSUME Restart PROVE Goal
  BY <1>7 DEF Restart, Final
<1> QED
  BY <1>0, <1>1, <1>2, <1>3, <1>4, <1>5, <1>6, <1>7, Kinds DEF Next, Acquire, Reply, Drops

(***************************************************************************)
(* Destinations: a tutorial begins and ends under its user's lock.         *)
(***************************************************************************)
LEMMA DestinationStep ==
    TypeOK /\ LockInv /\ DestinationInv /\ [Next]_vars => DestinationInv'
<1> DEFINE Goal(s) ==
      /\ pc[s] = "userQueue" => HasUser(s)
      /\ pc[s] = "globalQueue" => Tutorial(s) = None
      /\ pc[s] \in InFlight =>
            /\ draft[s].locksGlobal <=> Tutorial(s) = None
            /\ draft[s].destination = "global" => draft[s].locksGlobal
            /\ draft[s].destination # "global" => HasUser(s)
            /\ draft[s].destination = "end-tutorial" => draft[s].dirty
      /\ pc[s] \in Saving => draft[s].destination = "global" /\ draft[s].dirty
<1> SUFFICES ASSUME TypeOK, LockInv, DestinationInv, [Next]_vars, NEW s \in Requests
             PROVE  Goal(s)'
  BY DEF DestinationInv
<1>a. Goal(s)
  BY DEF DestinationInv
<1> USE DEF InFlight, Saving, Goto
<1>0. ASSUME UNCHANGED vars PROVE Goal(s)'
  BY <1>0, <1>a DEF vars, Tutorial, HasUser
<1>1. ASSUME NEW r \in Requests, Receive(r) PROVE Goal(s)'
  <2>1. Tutorial(s)' = Tutorial(s) /\ draft' = draft
    BY <1>1 DEF Receive, published, Tutorial, HasUser
  <2>2. ~HasUser(r) => Tutorial(r) = None
    BY DEF Tutorial
  <2>3. CASE s = r
    BY <1>1, <2>1, <2>2, <2>3 DEF Receive, TypeOK, HasUser
  <2>4. CASE s # r
    BY <1>1, <1>a, <2>1, <2>4 DEF Receive, TypeOK, HasUser
  <2> QED
    BY <2>3, <2>4
<1>2. ASSUME NEW r \in Requests, Acquire(r) PROVE Goal(s)'
  <2>1. Tutorial(s)' = Tutorial(s) /\ (HasUser(s)' <=> HasUser(s))
    BY <1>2 DEF Acquire, EnterUser, EnterGlobal, published, Tutorial, HasUser
  <2>2. CASE s # r
    <3>1. pc'[s] = pc[s] /\ draft'[s] = draft[s]
      BY <1>2, <2>2 DEF Acquire, EnterUser, EnterGlobal, Open, TypeOK
    <3> QED
      BY <1>a, <2>1, <3>1
  <2>3. CASE s = r /\ EnterUser(r)
    <3>1. CASE Tutorial(r) # None
      <4>1. Open(r, Tutorial(r), "tutorial") /\ HasUser(r) /\ Tutorial(r) \in State
        BY <1>a, <2>3, <3>1 DEF EnterUser, Tutorial, HasUser, TypeOK
      <4>2. /\ pc'[s] = "handler"
            /\ draft'[s].destination = "tutorial"
            /\ draft'[s].locksGlobal <=> FALSE
        BY <2>3, <4>1, Opened DEF TypeOK
      <4> QED
        BY <2>1, <2>3, <3>1, <4>1, <4>2
    <3>2. CASE Tutorial(r) = None
      BY <1>a, <2>1, <2>3, <3>2 DEF EnterUser, TypeOK
    <3> QED
      BY <3>1, <3>2
  <2>4. CASE s = r /\ EnterGlobal(r)
    BY <1>a, <2>1, <2>4 DEF EnterGlobal, Open, TypeOK
  <2> QED
    BY <1>2, <2>2, <2>3, <2>4 DEF Acquire
<1>3. ASSUME NEW r \in Requests, RunHandler(r) PROVE Goal(s)'
  <2>1. Tutorial(s)' = Tutorial(s) /\ (HasUser(s)' <=> HasUser(s))
    BY <1>3, Kinds DEF Handles, Handle, published, Tutorial, HasUser
  <2>2. CASE s # r
    <3>1. pc'[s] = pc[s] /\ draft'[s] = draft[s]
      BY <1>3, <2>2, Kinds DEF Handles, Handle, TypeOK
    <3> QED
      BY <1>a, <2>1, <3>1
  <2>3. CASE s = r
    <3>1. pc[r] = "handler" /\ pc'[r] \in {"sending", "refusing"}
      BY <1>3, Kinds DEF Handles, Handle, TypeOK
    <3>2. draft'[r].locksGlobal = draft[r].locksGlobal
      BY <1>3, Kinds DEF Handles, Handle, TypeOK
    <3>3. draft[r] \in Draft
      BY DEF TypeOK
    <3>4. /\ draft'[r].destination = "global" => draft[r].destination = "global"
          /\ draft'[r].destination # "global" => draft[r].destination # "global" \/ HasUser(r)
          /\ draft'[r].destination = "end-tutorial" => draft'[r].dirty
      <4>1. CASE HandleNothing(r)
        BY <1>a, <2>3, <3>1, <3>3, <4>1 DEF HandleNothing, Handle, TypeOK
      <4>2. CASE HandleEdit(r)
        BY <1>a, <2>3, <3>3, <4>2 DEF HandleEdit, Handle, TypeOK, Draft
      <4>3. CASE HandleStart(r)
        BY <1>a, <2>3, <3>3, <4>3 DEF HandleStart, Handle, TypeOK, Draft
      <4>4. CASE HandleBaseline(r)
        BY <1>a, <2>3, <3>3, <4>4 DEF HandleBaseline, Handle, TypeOK, Draft
      <4>5. CASE HandleEnd(r)
        BY <1>a, <2>3, <3>3, <4>5 DEF HandleEnd, Handle, TypeOK, Draft
      <4> QED
        BY <1>3, <4>1, <4>2, <4>3, <4>4, <4>5 DEF RunHandler
    <3> QED
      BY <1>a, <2>1, <2>3, <3>1, <3>2, <3>4
  <2> QED
    BY <2>2, <2>3
<1>4. ASSUME NEW r \in Requests, Finishes(r), Drops(r) \/ CommitTutorial(r) \/ Publish(r)
      PROVE  Goal(s)'
  <2>1. CASE s = r
    BY <1>4, <2>1 DEF Finishes, Finish, TypeOK
  <2>2. CASE s # r
    <3>1. pc'[s] = pc[s] /\ draft'[s] = draft[s] /\ (HasUser(s)' <=> HasUser(s))
      BY <1>4, <2>2 DEF Finishes, Finish, TypeOK, HasUser
    <3>2. CASE pc[s] \in InFlight \cup {"globalQueue"} /\ HasUser(s)
      <4>1. HasUser(r) => UserOf[s] # UserOf[r]
        BY <1>4, <2>2, <3>2, Released DEF LockInv, Finishes, Finish
      <4>2. tutorials' = tutorials
              \/ \E t : HasUser(r) /\ tutorials' = [tutorials EXCEPT ![UserOf[r]] = t]
        BY <1>4 DEF Drops, SendRefusal, SendUnchanged, CommitTutorial, SaveFails, Publish,
                    published, DestinationInv, InFlight
      <4>3. Tutorial(s)' = Tutorial(s)
        BY <3>2, <4>1, <4>2 DEF Tutorial, HasUser, TypeOK
      <4> QED
        BY <1>a, <3>1, <4>3
    <3>3. CASE ~HasUser(s)
      BY <1>a, <3>1, <3>3 DEF Tutorial
    <3>4. CASE pc[s] \notin InFlight \cup {"globalQueue"}
      BY <1>a, <3>1, <3>4
    <3> QED
      BY <3>2, <3>3, <3>4
  <2> QED
    BY <2>1, <2>2
<1>5. ASSUME NEW r \in Requests, BeginSave(r) \/ WriteTemporary(r) \/ Rename(r) PROVE Goal(s)'
  <2>1. Tutorial(s)' = Tutorial(s) /\ (HasUser(s)' <=> HasUser(s)) /\ draft' = draft
    BY <1>5 DEF BeginSave, WriteTemporary, Rename, published, Tutorial, HasUser
  <2> QED
    BY <1>5, <1>a, <2>1 DEF BeginSave, WriteTemporary, Rename, TypeOK
<1>6. ASSUME Restart PROVE Goal(s)'
  BY <1>6 DEF Restart, Final
<1> QED
  BY <1>0, <1>1, <1>2, <1>3, <1>4, <1>5, <1>6, Kinds DEF Next, Reply, Drops

(***************************************************************************)
(* Files.                                                                  *)
(***************************************************************************)
\* Only one request at a time has a draft of the workspace.
LEMMA Exclusive ==
    ASSUME LockInv, NEW r \in Requests, NEW s \in Requests,
           pc[r] \in InFlight, draft[r].locksGlobal,
           pc[s] \in InFlight, draft[s].locksGlobal
    PROVE  r = s
  BY DEF LockInv, HoldsGlobal

LEMMA SavingExclusive ==
    ASSUME LockInv, DestinationInv, NEW r \in Requests, NEW s \in Requests,
           pc[r] \in InFlight, draft[r].destination = "global",
           pc[s] \in InFlight, draft[s].destination = "global"
    PROVE  r = s
  BY Exclusive DEF DestinationInv

LEMMA SaveStep ==
    TypeOK /\ LockInv /\ DestinationInv /\ SaveInv /\ [Next]_vars => SaveInv'
<1> SUFFICES ASSUME TypeOK, LockInv, DestinationInv, SaveInv, [Next]_vars PROVE SaveInv'
  OBVIOUS
<1> USE DEF SaveInv, InFlight, Goto
<1>0. ASSUME UNCHANGED vars PROVE SaveInv'
  BY <1>0 DEF vars, Recovered
<1>1. ASSUME NEW r \in Requests, Receive(r) \/ Acquire(r) \/ Handles(r) PROVE SaveInv'
  <2>1. /\ pc[r] \notin {"renaming", "publishing"}
        /\ pc'[r] \notin {"renaming", "publishing"}
        /\ \A s \in Requests \ {r} : pc'[s] = pc[s] /\ draft'[s] = draft[s]
    BY <1>1 DEF Receive, Acquire, EnterUser, EnterGlobal, Open, Handles, Handle, TypeOK
  <2>2. mem' = mem /\ disk' = disk /\ tmp' = tmp
    BY <1>1 DEF Receive, Acquire, EnterUser, EnterGlobal, Handles, Handle, published, files
  <2> QED
    BY <2>1, <2>2 DEF Recovered
<1>2. ASSUME NEW r \in Requests, Drops(r) \/ CommitTutorial(r) PROVE SaveInv'
  <2>1. mem' = mem /\ disk' = disk /\ tmp' = tmp /\ draft' = draft /\ pc[r] # "publishing"
    BY <1>2 DEF Drops, SendRefusal, SendUnchanged, CommitTutorial, SaveFails, published, files
  <2>2. /\ pc'[r] \notin {"renaming", "publishing"}
        /\ \A s \in Requests \ {r} : pc'[s] = pc[s]
    BY <1>2, Kinds DEF Finishes, Finish, TypeOK
  <2> QED
    BY <2>1, <2>2 DEF Recovered
<1>3. ASSUME NEW r \in Requests, Publish(r) PROVE SaveInv'
  <2>1. /\ pc[r] = "publishing" /\ pc'[r] = "acked"
        /\ \A s \in Requests \ {r} : pc'[s] = pc[s]
        /\ disk' = disk /\ tmp' = tmp /\ draft' = draft
        /\ mem'.current = draft[r].current
    BY <1>3 DEF Publish, Finish, files, TypeOK
  <2>2. \A s \in Requests \ {r} : pc[s] \notin {"renaming", "publishing"}
    BY <2>1, SavingExclusive DEF DestinationInv, Saving
  <2>3. disk = draft[r].current /\ Recovered(disk) = disk
    BY <2>1, NoneAssumption DEF TypeOK, Draft, Recovered
  <2> QED
    BY <2>1, <2>2, <2>3
<1>4. ASSUME NEW r \in Requests, BeginSave(r) \/ WriteTemporary(r) \/ Rename(r) PROVE SaveInv'
  <2>1. /\ pc[r] \in {"sending", "writing", "renaming"} /\ draft[r].destination = "global"
        /\ \A s \in Requests \ {r} : pc'[s] = pc[s]
        /\ draft' = draft /\ mem' = mem
    BY <1>4 DEF BeginSave, WriteTemporary, Rename, published, TypeOK, DestinationInv, Saving
  <2>2. \A s \in Requests \ {r} : pc[s] \notin {"renaming", "publishing"}
    BY <2>1, SavingExclusive DEF DestinationInv, Saving
  <2>3. CASE Rename(r)
    <3>1. pc'[r] = "publishing" /\ disk' = draft[r].current
      BY <2>3 DEF Rename, TypeOK
    <3> QED
      BY <2>1, <2>2, <3>1
  <2>4. CASE BeginSave(r) \/ WriteTemporary(r)
    <3>1. /\ disk' = disk
          /\ pc'[r] # "publishing" /\ pc[r] # "publishing"
          /\ pc'[r] = "renaming" => tmp' = draft[r].current
      BY <2>4 DEF BeginSave, WriteTemporary, TypeOK
    <3> QED
      BY <2>1, <2>2, <3>1 DEF Recovered
  <2> QED
    BY <1>4, <2>3, <2>4
<1>5. ASSUME Restart PROVE SaveInv'
  <2>1. \A s \in Requests : pc'[s] \notin {"renaming", "publishing"}
    BY <1>5 DEF Restart, Final
  <2>2. mem'.current = Recovered(disk)'
    BY <1>5 DEF Restart, files, Recovered
  <2> QED
    BY <2>1, <2>2
<1> QED
  BY <1>0, <1>1, <1>2, <1>3, <1>4, <1>5, Kinds DEF Next, Reply, Drops

(***************************************************************************)
(* Drafts of the workspace, with sign-in on.                               *)
(***************************************************************************)
LEMMA DraftStep ==
    TypeOK /\ LockInv /\ DestinationInv /\ SaveInv /\ DraftInv /\ [Next]_vars => DraftInv'
<1> DEFINE Goal(s) ==
      /\ pc[s] \in InFlight /\ draft[s].destination = "global" =>
            draft[s].current = IF draft[s].dirty THEN mem.current \cup {s} ELSE mem.current
      /\ pc[s] = "acked" /\ draft[s].destination = "global" =>
            s \in mem.current /\ s \in Recovered(disk)
<1> SUFFICES ASSUME TypeOK, LockInv, DestinationInv, SaveInv, DraftInv, [Next]_vars,
                    AuthEnabled, NEW s \in Requests
             PROVE  Goal(s)'
  BY DEF DraftInv
<1>a. \A q \in Requests : Goal(q)
  BY DEF DraftInv
<1> USE DEF InFlight, Goto
<1>0. ASSUME UNCHANGED vars PROVE Goal(s)'
  BY <1>0, <1>a DEF vars, Recovered
<1>1. ASSUME NEW r \in Requests, Receive(r) \/ Acquire(r) \/ Handles(r), s # r PROVE Goal(s)'
  <2>1. pc'[s] = pc[s] /\ draft'[s] = draft[s]
    BY <1>1 DEF Receive, Acquire, EnterUser, EnterGlobal, Open, Handles, Handle, TypeOK
  <2>2. mem' = mem /\ disk' = disk
    BY <1>1 DEF Receive, Acquire, EnterUser, EnterGlobal, Handles, Handle, published, files
  <2> QED
    BY <1>a, <2>1, <2>2 DEF Recovered
<1>2. ASSUME Receive(s) PROVE Goal(s)'
  BY <1>2 DEF Receive, TypeOK
<1>3. ASSUME EnterUser(s) PROVE Goal(s)'
  <2>1. CASE Tutorial(s) # None
    <3>1. Open(s, Tutorial(s), "tutorial") /\ Tutorial(s) \in State
      BY <1>3, <2>1 DEF EnterUser, Tutorial, HasUser, TypeOK
    <3>2. draft'[s].destination = "tutorial" /\ pc'[s] = "handler"
      BY <3>1, Opened DEF TypeOK
    <3> QED
      BY <3>2
  <2>2. CASE Tutorial(s) = None
    BY <1>3, <2>2 DEF EnterUser, TypeOK
  <2> QED
    BY <2>1, <2>2
<1>4. ASSUME EnterGlobal(s) PROVE Goal(s)'
  <2>1. Open(s, mem, "global") /\ mem \in State /\ mem' = mem
    BY <1>4 DEF EnterGlobal, TypeOK, published
  <2>2. draft'[s].current = mem.current /\ draft'[s].dirty = FALSE /\ pc'[s] = "handler"
    BY <2>1, Opened DEF TypeOK
  <2> QED
    BY <2>1, <2>2
<1>5. ASSUME RunHandler(s) PROVE Goal(s)'
  <2>1. mem' = mem /\ pc[s] = "handler" /\ pc'[s] \in {"sending", "refusing"} /\ draft[s] \in Draft
    BY <1>5, Kinds DEF Handles, Handle, published, TypeOK
  <2>2. CASE HandleNothing(s)
    BY <1>a, <2>1, <2>2 DEF HandleNothing, Handle, TypeOK
  <2>3. CASE HandleEdit(s)
    <3>1. /\ draft'[s].current = draft[s].current \cup {s} /\ draft'[s].dirty = TRUE
          /\ draft'[s].destination = draft[s].destination
      BY <2>1, <2>3 DEF HandleEdit, Handle, TypeOK, Draft
    <3>2. draft[s].destination = "global" =>
             draft[s].current = mem.current \/ draft[s].current = mem.current \cup {s}
      BY <1>a, <2>1
    <3> QED
      BY <2>1, <3>1, <3>2
  <2>4. CASE HandleStart(s) \/ HandleBaseline(s) \/ HandleEnd(s)
    <3>a. HasUser(s)
      BY <2>4 DEF HandleStart, HandleBaseline, HandleEnd, Authorized
    <3>1. draft'[s].destination # "global"
      <4>1. CASE HandleStart(s)
        BY <2>1, <3>a, <4>1 DEF HandleStart, Handle, TypeOK, Draft
      <4>2. CASE HandleBaseline(s)
        BY <2>1, <3>a, <4>2 DEF HandleBaseline, Handle, TypeOK, Draft
      <4>3. CASE HandleEnd(s)
        BY <2>1, <3>a, <4>3 DEF HandleEnd, Handle, TypeOK, Draft
      <4> QED
        BY <2>4, <4>1, <4>2, <4>3
    <3> QED
      BY <2>1, <3>1
  <2> QED
    BY <1>5, <2>2, <2>3, <2>4 DEF RunHandler
<1>6. ASSUME NEW r \in Requests, Drops(r) \/ CommitTutorial(r) PROVE Goal(s)'
  <2>1. mem' = mem /\ disk' = disk /\ draft' = draft
    BY <1>6 DEF Drops, SendRefusal, SendUnchanged, CommitTutorial, SaveFails, published, files
  <2>2. \A q \in Requests \ {r} : pc'[q] = pc[q]
    BY <1>6, Kinds DEF Finishes, Finish, TypeOK
  <2>3. Drops(r) => pc'[r] \in {"refused", "unchanged"}
    BY DEF Drops, SendRefusal, SendUnchanged, SaveFails, Finish, TypeOK
  <2>4. CommitTutorial(r) => pc'[r] = "acked" /\ draft[r].destination # "global"
    BY DEF CommitTutorial, Finish, TypeOK
  <2> QED
    BY <1>6, <1>a, <2>1, <2>2, <2>3, <2>4 DEF Recovered
<1>7. ASSUME NEW r \in Requests, Publish(r) PROVE Goal(s)'
  <2>1. /\ pc[r] = "publishing" /\ pc'[r] = "acked"
        /\ \A q \in Requests \ {r} : pc'[q] = pc[q]
        /\ disk' = disk /\ draft' = draft
        /\ mem'.current = draft[r].current
    BY <1>7 DEF Publish, Finish, files, TypeOK
  <2>2. draft[r].destination = "global" /\ draft[r].current = mem.current \cup {r}
    BY <1>a, <2>1 DEF DestinationInv, Saving
  <2>3. Recovered(disk)' = Recovered(disk) /\ Recovered(disk) = draft[r].current
    BY <2>1, NoneAssumption DEF SaveInv, TypeOK, Draft, Recovered
  <2>4. s # r /\ pc[s] \in InFlight => draft[s].destination # "global"
    BY <2>1, <2>2, SavingExclusive
  <2> QED
    BY <1>a, <2>1, <2>2, <2>3, <2>4
<1>8. ASSUME NEW r \in Requests, BeginSave(r) \/ WriteTemporary(r) \/ Rename(r) PROVE Goal(s)'
  <2>1. /\ pc[r] \in InFlight /\ pc'[r] \in InFlight
        /\ draft[r].destination = "global" /\ draft[r].dirty
        /\ \A q \in Requests \ {r} : pc'[q] = pc[q]
        /\ draft' = draft /\ mem' = mem
    BY <1>8 DEF BeginSave, WriteTemporary, Rename, published, TypeOK, DestinationInv, Saving
  <2>2. draft[r].current = mem.current \cup {r}
    BY <1>a, <2>1
  <2>3. \/ disk' = disk
        \/ disk' = draft[r].current /\ Recovered(disk)' = draft[r].current
    <3>1. draft[r].current # None
      BY NoneAssumption DEF TypeOK, Draft
    <3>2. CASE Rename(r)
      BY <3>1, <3>2 DEF Rename, SaveInv, Recovered
    <3>3. CASE BeginSave(r) \/ WriteTemporary(r)
      BY <3>3 DEF BeginSave, WriteTemporary
    <3> QED
      BY <1>8, <3>2, <3>3
  <2>4. pc'[s] = "acked" => pc[s] = "acked"
    BY <2>1
  <2>5. pc'[s] \in InFlight => pc[s] \in InFlight
    BY <2>1
  <2> QED
    BY <1>a, <2>1, <2>2, <2>3, <2>4, <2>5 DEF Recovered
<1>9. ASSUME Restart PROVE Goal(s)'
  <2>1. pc'[s] \notin InFlight /\ (pc'[s] = "acked" => pc[s] = "acked") /\ draft' = draft
    BY <1>9 DEF Restart, Final
  <2>2. mem'.current = Recovered(disk) /\ Recovered(disk)' = Recovered(disk)
    BY <1>9 DEF Restart, files, Recovered
  <2> QED
    BY <1>a, <2>1, <2>2
<1> QED
  BY <1>0, <1>1, <1>2, <1>3, <1>4, <1>5, <1>6, <1>7, <1>8, <1>9, Kinds
     DEF Next, Acquire, Reply, Drops

(***************************************************************************)
(* Where edits are.                                                        *)
(***************************************************************************)
\* A handler adds its own edit to its draft, or starts from what was published.
LEMMA HandlerContents ==
    ASSUME TypeOK, NEW r \in Requests, RunHandler(r)
    PROVE  \A q \in Requests : Contains(draft'[r], q) =>
              q = r \/ Contains(draft[r], q) \/ Contains(mem, q)
<1>1. draft[r] \in Draft /\ mem \in State
  BY DEF TypeOK
<1>2. CASE HandleNothing(r)
  BY <1>2 DEF HandleNothing, Handle, TypeOK
<1>3. CASE HandleEdit(r)
  BY <1>1, <1>3 DEF HandleEdit, Handle, TypeOK, Draft, Contains
<1>4. CASE HandleStart(r)
  BY <1>1, <1>4 DEF HandleStart, Handle, TypeOK, Draft, Contains, Seed
<1>5. CASE HandleBaseline(r)
  BY <1>1, <1>5 DEF HandleBaseline, Handle, TypeOK, Draft, Contains, Seed
<1>6. CASE HandleEnd(r)
  BY <1>1, <1>6 DEF HandleEnd, Handle, TypeOK, Draft, Contains
<1> QED
  BY <1>2, <1>3, <1>4, <1>5, <1>6 DEF RunHandler

\* A draft opens with the contents of the tutorial or of the workspace.
LEMMA OpenContents ==
    ASSUME TypeOK, NEW r \in Requests, Acquire(r), pc'[r] = "handler"
    PROVE  \/ /\ Tutorial(r) # None /\ HasUser(r) /\ draft'[r].destination = "tutorial"
              /\ \A q \in Requests : Contains(draft'[r], q) <=> Contains(Tutorial(r), q)
           \/ /\ draft'[r].destination = "global"
              /\ \A q \in Requests : Contains(draft'[r], q) <=> Contains(mem, q)
<1>1. CASE EnterUser(r)
  <2>1. CASE Tutorial(r) # None
    <3>1. Open(r, Tutorial(r), "tutorial") /\ Tutorial(r) \in State /\ HasUser(r)
      BY <1>1, <2>1 DEF EnterUser, Tutorial, HasUser, TypeOK
    <3> QED
      BY <2>1, <3>1, Opened DEF Contains
  <2>2. CASE Tutorial(r) = None
    BY <1>1, <2>2 DEF EnterUser, Goto, TypeOK
  <2> QED
    BY <2>1, <2>2
<1>2. CASE EnterGlobal(r)
  <2>1. Open(r, mem, "global") /\ mem \in State
    BY <1>2 DEF EnterGlobal, TypeOK
  <2> QED
    BY <2>1, Opened DEF Contains
<1> QED
  BY <1>1, <1>2 DEF Acquire

LEMMA FreshStep ==
    TypeOK /\ LockInv /\ DestinationInv /\ SaveInv /\ FreshInv /\ [Next]_vars => FreshInv'
<1> DEFINE Unapplied(q) ==
      /\ ~Contains(mem, q)
      /\ \A u \in Users : tutorials[u] # None => ~Contains(tutorials[u], q)
      /\ \A s \in Requests \ {q} : pc[s] \in InFlight => ~Contains(draft[s], q)
           Goal(q) ==
      /\ pc[q] \notin {"acked", "unanswered"} => Unapplied(q)
      /\ pc[q] \notin {"acked", "unanswered", "publishing"} => q \notin Recovered(disk)
<1> SUFFICES ASSUME TypeOK, LockInv, DestinationInv, SaveInv, FreshInv, [Next]_vars,
                    NEW q \in Requests
             PROVE  Goal(q)'
  BY DEF FreshInv
<1>a. Goal(q)
  BY DEF FreshInv
<1>b. draft \in [Requests -> Draft]
  BY DEF TypeOK
<1> HIDE DEF Unapplied
<1> USE DEF InFlight, Goto
<1>0. ASSUME UNCHANGED vars PROVE Goal(q)'
  BY <1>0, <1>a DEF vars, Recovered, Contains, Unapplied
<1>1. ASSUME NEW r \in Requests, Receive(r) PROVE Goal(q)'
  <2>1. \A s \in Requests : \/ pc'[s] = pc[s]
                            \/ pc[s] = "idle" /\ pc'[s] \in {"userQueue", "globalQueue"}
    BY <1>1 DEF Receive, TypeOK
  <2>2. mem' = mem /\ tutorials' = tutorials /\ disk' = disk /\ draft' = draft
    BY <1>1 DEF Receive, published, files
  <2> QED
    BY <1>a, <2>1, <2>2 DEF Recovered, Contains, Unapplied
<1>2. ASSUME NEW r \in Requests, Acquire(r) PROVE Goal(q)'
  <2>1. /\ pc[r] \in {"userQueue", "globalQueue"} /\ pc'[r] \in {"globalQueue", "handler"}
        /\ \A s \in Requests \ {r} : pc'[s] = pc[s] /\ draft'[s] = draft[s]
    BY <1>2 DEF Acquire, EnterUser, EnterGlobal, Open, TypeOK
  <2>2. mem' = mem /\ tutorials' = tutorials /\ disk' = disk
    BY <1>2 DEF Acquire, EnterUser, EnterGlobal, published, files
  <2>3. Unapplied(q) /\ q # r /\ pc'[r] = "handler" => ~Contains(draft'[r], q)
    BY <1>2, OpenContents DEF Unapplied, HasUser, Tutorial
  <2>4. Unapplied(q) => Unapplied(q)'
    BY <2>1, <2>2, <2>3 DEF Unapplied, Contains
  <2> QED
    BY <1>a, <2>1, <2>2, <2>4 DEF Recovered
<1>3. ASSUME NEW r \in Requests, RunHandler(r) PROVE Goal(q)'
  <2>1. /\ pc[r] = "handler" /\ pc'[r] \in {"sending", "refusing"}
        /\ \A s \in Requests \ {r} : pc'[s] = pc[s] /\ draft'[s] = draft[s]
        /\ mem' = mem /\ tutorials' = tutorials /\ disk' = disk
    BY <1>3, Kinds DEF Handles, Handle, TypeOK, published, files
  <2>2. Unapplied(q) /\ q # r => ~Contains(draft'[r], q)
    BY <1>3, <2>1, HandlerContents DEF Unapplied
  <2>3. Unapplied(q) => Unapplied(q)'
    BY <2>1, <2>2 DEF Unapplied, Contains
  <2> QED
    BY <1>a, <2>1, <2>3 DEF Recovered
<1>4. ASSUME NEW r \in Requests, Finishes(r), Drops(r) \/ CommitTutorial(r) \/ Publish(r)
      PROVE  Goal(q)'
  <2>1. /\ pc[r] \in InFlight /\ pc'[r] \in {"acked", "refused", "unchanged"}
        /\ \A s \in Requests \ {r} : pc'[s] = pc[s]
        /\ draft' = draft
    BY <1>4 DEF Finishes, Finish, TypeOK
  <2>2. disk' = disk
    BY <1>4 DEF Drops, SendRefusal, SendUnchanged, CommitTutorial, SaveFails, Publish, files
  <2>3. CASE Drops(r)
    <3>1. mem' = mem /\ tutorials' = tutorials /\ pc[r] # "publishing"
      BY <2>3 DEF Drops, SendRefusal, SendUnchanged, SaveFails, published
    <3>2. Unapplied(q) => Unapplied(q)'
      BY <2>1, <3>1 DEF Unapplied, Contains
    <3> QED
      BY <1>a, <2>1, <2>2, <3>1, <3>2 DEF Recovered
  <2>4. CASE CommitTutorial(r) \/ Publish(r)
    <3>1. pc'[r] = "acked"
      BY <2>4 DEF CommitTutorial, Publish, Finish, TypeOK
    <3>2. CASE q # r
      <4>1. Unapplied(q) => ~Contains(mem', q)
        BY <2>1, <2>4, <3>2 DEF CommitTutorial, Publish, Unapplied, Contains
      <4>2. ASSUME Unapplied(q), NEW u \in Users, tutorials'[u] # None
            PROVE  ~Contains(tutorials'[u], q)
        <5>1. CASE tutorials'[u] = tutorials[u]
          BY <4>2, <5>1 DEF Unapplied
        <5>2. CASE tutorials'[u] # tutorials[u]
          <6>1. tutorials'[u] = [current |-> draft[r].current,
                                 interactive |-> draft[r].interactive]
            BY <2>4, <4>2, <5>2 DEF CommitTutorial, Publish, TypeOK
          <6> QED
            BY <2>1, <3>2, <4>2, <6>1 DEF Unapplied, Contains
        <5> QED
          BY <5>1, <5>2
      <4>3. Unapplied(q) => Unapplied(q)'
        <5> SUFFICES ASSUME Unapplied(q) PROVE Unapplied(q)'
          OBVIOUS
        <5>1. \A s \in Requests \ {q} : pc'[s] \in InFlight => ~Contains(draft'[s], q)
          BY <2>1 DEF Unapplied
        <5> QED
          BY <4>1, <4>2, <5>1 DEF Unapplied, Contains
      <4> QED
        BY <1>a, <2>1, <2>2, <3>2, <4>3 DEF Recovered
    <3> QED
      BY <3>1, <3>2
  <2> QED
    BY <1>4, <2>3, <2>4
<1>5. ASSUME NEW r \in Requests, BeginSave(r) \/ WriteTemporary(r) \/ Rename(r) PROVE Goal(q)'
  <2>1. /\ pc[r] \in {"sending", "writing", "renaming"}
        /\ pc'[r] \in {"writing", "renaming", "publishing"}
        /\ \A s \in Requests \ {r} : pc'[s] = pc[s]
        /\ draft' = draft /\ mem' = mem /\ tutorials' = tutorials
    BY <1>5 DEF BeginSave, WriteTemporary, Rename, published, TypeOK
  <2>2. Unapplied(q) => Unapplied(q)'
    BY <2>1 DEF Unapplied, Contains
  <2>3. CASE Rename(r)
    <3>1. pc'[r] = "publishing" /\ disk' = draft[r].current /\ disk' # None
      BY <2>3, <1>b, NoneAssumption DEF Rename, SaveInv, TypeOK, Draft
    <3>2. Unapplied(q) /\ q # r => q \notin disk'
      BY <2>1, <3>1 DEF Unapplied, Contains
    <3> QED
      BY <1>a, <2>1, <2>2, <3>1, <3>2 DEF Recovered
  <2>4. CASE BeginSave(r) \/ WriteTemporary(r)
    <3>1. disk' = disk /\ pc'[r] # "publishing"
      BY <2>4 DEF BeginSave, WriteTemporary, TypeOK
    <3> QED
      BY <1>a, <2>1, <2>2, <3>1 DEF Recovered
  <2> QED
    BY <1>5, <2>3, <2>4
<1>6. ASSUME Restart PROVE Goal(q)'
  <2>1. \A s \in Requests : pc'[s] \notin InFlight
    BY <1>6 DEF Restart, Final
  <2>2. pc'[q] \notin {"acked", "unanswered"} => pc[q] \notin {"acked", "unanswered", "publishing"}
    BY <1>6 DEF Restart, Final
  <2>3. /\ mem'.current = Recovered(disk) /\ mem'.interactive = None
        /\ \A u \in Users : tutorials'[u] = None
        /\ Recovered(disk)' = Recovered(disk)
    BY <1>6 DEF Restart, files, Recovered
  <2>4. q \notin Recovered(disk) => Unapplied(q)'
    BY <2>1, <2>3 DEF Unapplied, Contains
  <2> QED
    BY <1>a, <2>1, <2>2, <2>3, <2>4
<1> QED
  BY <1>0, <1>1, <1>2, <1>3, <1>4, <1>5, <1>6, Kinds DEF Next, Reply, Drops

\* A handler that leaves its draft with the destination of a workspace or of a tutorial
\* had that destination before, or starts from nothing.
LEMMA HandlerDestination ==
    ASSUME TypeOK, NEW r \in Requests, RunHandler(r), NEW q \in Requests \ {r},
           Contains(draft'[r], q), draft'[r].destination # "end-tutorial"
    PROVE  Contains(draft[r], q) /\ draft[r].destination = draft'[r].destination
<1>1. draft[r] \in Draft /\ mem \in State
  BY DEF TypeOK
<1>2. CASE HandleNothing(r)
  BY <1>2 DEF HandleNothing, Handle, TypeOK
<1>3. CASE HandleEdit(r)
  BY <1>1, <1>3 DEF HandleEdit, Handle, TypeOK, Draft, Contains
<1>4. CASE HandleStart(r)
  <2>1. CASE HasUser(r)
    <3>1. draft'[r].current = Seed /\ draft'[r].interactive = Seed
      BY <1>1, <1>4, <2>1 DEF HandleStart, Handle, TypeOK, Draft
    <3> QED
      BY <3>1 DEF Contains, Seed
  <2>2. CASE ~HasUser(r)
    <3>1. /\ draft'[r].current = Seed /\ draft'[r].interactive = draft[r].current
          /\ draft'[r].destination = draft[r].destination
      BY <1>1, <1>4, <2>2 DEF HandleStart, Handle, TypeOK, Draft
    <3> QED
      BY <3>1 DEF Contains, Seed
  <2> QED
    BY <2>1, <2>2
<1>5. CASE HandleBaseline(r)
  BY <1>1, <1>5 DEF HandleBaseline, Handle, TypeOK, Draft, Contains, Seed
<1>6. CASE HandleEnd(r)
  <2>1. CASE HasUser(r)
    <3>1. draft'[r].destination = "end-tutorial"
      BY <1>1, <1>6, <2>1 DEF HandleEnd, Handle, TypeOK, Draft
    <3> QED
      BY <3>1
  <2>2. CASE ~HasUser(r)
    <3>1. /\ draft'[r].current = draft[r].interactive /\ draft'[r].interactive = None
          /\ draft'[r].destination = draft[r].destination /\ draft[r].interactive # None
      BY <1>1, <1>6, <2>2 DEF HandleEnd, Handle, TypeOK, Draft
    <3> QED
      BY <3>1 DEF Contains
  <2> QED
    BY <2>1, <2>2
<1> QED
  BY <1>2, <1>3, <1>4, <1>5, <1>6 DEF RunHandler

LEMMA IsolationStep ==
    /\ TypeOK /\ LockInv /\ DestinationInv /\ SaveInv /\ FreshInv /\ IsolationInv
    /\ [Next]_vars /\ FreshInv'
    => IsolationInv'
<1> DEFINE InWorkspace(q) ==
      Contains(mem, q) \/ q \in Recovered(disk) => draft[q].destination = "global"
           InTutorial(q, u) ==
      tutorials[u] # None /\ Contains(tutorials[u], q) =>
         UserOf[q] = u /\ draft[q].destination = "tutorial"
           InDraft(q, s) ==
      pc[s] \in InFlight /\ Contains(draft[s], q) =>
         /\ draft[s].destination = "global" => draft[q].destination = "global"
         /\ draft[s].destination = "tutorial" =>
               UserOf[q] = UserOf[s] /\ draft[q].destination = "tutorial"
           Goal(q) ==
      /\ InWorkspace(q)
      /\ \A u \in Users : InTutorial(q, u)
      /\ \A s \in Requests : InDraft(q, s)
<1> SUFFICES ASSUME TypeOK, LockInv, DestinationInv, SaveInv, FreshInv, IsolationInv,
                    [Next]_vars, FreshInv', NEW q \in Requests
             PROVE  Goal(q)'
  BY DEF IsolationInv
<1>a. Goal(q)
  BY DEF IsolationInv
<1>b. ASSUME pc'[q] \notin {"acked", "unanswered", "publishing"} PROVE Goal(q)'
  BY <1>b DEF FreshInv
<1>c. draft \in [Requests -> Draft]
  BY DEF TypeOK
<1> USE DEF InFlight, Goto
<1>0. ASSUME UNCHANGED vars PROVE Goal(q)'
  BY <1>0, <1>a DEF vars, Recovered, Contains
<1>1. ASSUME NEW r \in Requests, Receive(r), pc'[q] \in {"acked", "unanswered", "publishing"}
      PROVE  Goal(q)'
  <2>1. \A s \in Requests : pc'[s] \in InFlight => pc[s] \in InFlight
    BY <1>1 DEF Receive, TypeOK
  <2>2. mem' = mem /\ tutorials' = tutorials /\ disk' = disk /\ draft' = draft
    BY <1>1 DEF Receive, published, files
  <2> QED
    BY <1>a, <2>1, <2>2 DEF Recovered, Contains
<1>2. ASSUME NEW r \in Requests, Acquire(r), pc'[q] \in {"acked", "unanswered", "publishing"}
      PROVE  Goal(q)'
  <2>1. /\ pc'[r] \in {"globalQueue", "handler"}
        /\ \A s \in Requests \ {r} : pc'[s] = pc[s] /\ draft'[s] = draft[s]
    BY <1>2 DEF Acquire, EnterUser, EnterGlobal, Open, TypeOK
  <2>2. mem' = mem /\ tutorials' = tutorials /\ disk' = disk /\ q # r
    BY <1>2, <2>1 DEF Acquire, EnterUser, EnterGlobal, published, files
  <2>3. InDraft(q, r)'
    BY <1>2, <1>a, <2>1, <2>2, OpenContents DEF Tutorial, HasUser, Contains
  <2> QED
    BY <1>a, <2>1, <2>2, <2>3 DEF Recovered, Contains
<1>3. ASSUME NEW r \in Requests, RunHandler(r), pc'[q] \in {"acked", "unanswered", "publishing"}
      PROVE  Goal(q)'
  <2>1. /\ pc[r] = "handler" /\ pc'[r] \in {"sending", "refusing"}
        /\ \A s \in Requests \ {r} : pc'[s] = pc[s] /\ draft'[s] = draft[s]
        /\ mem' = mem /\ tutorials' = tutorials /\ disk' = disk
    BY <1>3, Kinds DEF Handles, Handle, TypeOK, published, files
  <2>2. q # r
    BY <1>3, <2>1
  <2>3. InDraft(q, r)'
    <3> SUFFICES ASSUME Contains(draft'[r], q), draft'[r].destination # "end-tutorial"
                 PROVE  InDraft(q, r)'
      OBVIOUS
    <3>1. Contains(draft[r], q) /\ draft[r].destination = draft'[r].destination
      BY <1>3, <2>2, HandlerDestination
    <3> QED
      BY <1>a, <2>1, <2>2, <3>1
  <2> QED
    BY <1>a, <2>1, <2>2, <2>3 DEF Recovered, Contains
<1>4. ASSUME NEW r \in Requests, Drops(r) PROVE Goal(q)'
  <2>1. mem' = mem /\ tutorials' = tutorials /\ disk' = disk /\ draft' = draft
    BY <1>4 DEF Drops, SendRefusal, SendUnchanged, SaveFails, published, files
  <2>2. \A s \in Requests : pc'[s] \in InFlight => pc[s] \in InFlight
    BY <1>4, Kinds DEF Finishes, Finish, TypeOK
  <2> QED
    BY <1>a, <2>1, <2>2 DEF Recovered, Contains
<1>5. ASSUME NEW r \in Requests, CommitTutorial(r) PROVE Goal(q)'
  <2>1. /\ mem' = mem /\ disk' = disk /\ draft' = draft
        /\ pc[r] = "sending" /\ draft[r].destination # "global"
        /\ \A s \in Requests : pc'[s] \in InFlight => pc[s] \in InFlight
    BY <1>5 DEF CommitTutorial, Finish, files, TypeOK
  <2>2. ASSUME NEW u \in Users PROVE InTutorial(q, u)'
    <3>1. CASE tutorials'[u] = tutorials[u]
      BY <1>a, <2>1, <3>1 DEF Contains
    <3>2. CASE tutorials'[u] # tutorials[u] /\ tutorials'[u] # None
      <4>1. /\ u = UserOf[r] /\ draft[r].destination # "end-tutorial"
            /\ tutorials'[u] = [current |-> draft[r].current,
                                interactive |-> draft[r].interactive]
        BY <1>5, <3>2 DEF CommitTutorial, TypeOK
      <4>2. draft[r].destination = "tutorial"
        BY <1>c, <2>1, <4>1 DEF Draft
      <4>3. Contains(tutorials'[u], q) => Contains(draft[r], q)
        BY <4>1 DEF Contains
      <4> QED
        BY <1>a, <2>1, <4>1, <4>2, <4>3
    <3>3. CASE tutorials'[u] = None
      BY <3>3
    <3> QED
      BY <3>1, <3>2, <3>3
  <2> QED
    BY <1>a, <2>1, <2>2 DEF Recovered, Contains
<1>6. ASSUME NEW r \in Requests, Publish(r) PROVE Goal(q)'
  <2>1. /\ tutorials' = tutorials /\ disk' = disk /\ draft' = draft
        /\ pc[r] = "publishing" /\ draft[r].destination = "global"
        /\ mem' = [current |-> draft[r].current, interactive |-> draft[r].interactive]
        /\ \A s \in Requests : pc'[s] \in InFlight => pc[s] \in InFlight
    BY <1>6 DEF Publish, Finish, files, TypeOK, DestinationInv, Saving
  <2>2. Contains(mem', q) => Contains(draft[r], q)
    BY <2>1 DEF Contains
  <2>3. InWorkspace(q)'
    BY <1>a, <2>1, <2>2 DEF Recovered
  <2> QED
    BY <1>a, <2>1, <2>3 DEF Contains
<1>7. ASSUME NEW r \in Requests, BeginSave(r) \/ WriteTemporary(r) \/ Rename(r) PROVE Goal(q)'
  <2>1. /\ pc[r] \in InFlight /\ draft[r].destination = "global"
        /\ \A s \in Requests : pc'[s] \in InFlight => pc[s] \in InFlight
        /\ draft' = draft /\ mem' = mem /\ tutorials' = tutorials
    BY <1>7 DEF BeginSave, WriteTemporary, Rename, published, TypeOK, DestinationInv, Saving
  <2>2. \/ disk' = disk
        \/ disk' = draft[r].current /\ disk' # None
    BY <1>7, <1>c, NoneAssumption DEF BeginSave, WriteTemporary, Rename, SaveInv, Draft
  <2>3. q \in Recovered(disk)' => q \in Recovered(disk) \/ Contains(draft[r], q)
    BY <2>2 DEF Recovered, Contains
  <2>4. InWorkspace(q)'
    BY <1>a, <2>1, <2>3 DEF Contains
  <2> QED
    BY <1>a, <2>1, <2>4 DEF Contains
<1>8. ASSUME Restart PROVE Goal(q)'
  <2>1. \A s \in Requests : pc'[s] \notin InFlight
    BY <1>8 DEF Restart, Final
  <2>2. /\ mem'.current = Recovered(disk) /\ mem'.interactive = None
        /\ \A u \in Users : tutorials'[u] = None
        /\ Recovered(disk)' = Recovered(disk) /\ draft' = draft
    BY <1>8 DEF Restart, files, Recovered
  <2> QED
    BY <1>a, <2>1, <2>2 DEF Contains
<1> QED
  BY <1>0, <1>1, <1>2, <1>3, <1>4, <1>5, <1>6, <1>7, <1>8, <1>b, Kinds
     DEF Next, Reply, Drops

(***************************************************************************)
(* The inductive invariant, and what follows from it.                      *)
(***************************************************************************)
LEMMA IInvInit == Init => IInv
<1> SUFFICES ASSUME Init PROVE IInv
  OBVIOUS
<1>1. TypeOK
  BY TypeInit
<1>2. LockInv /\ DestinationInv /\ SaveInv /\ DraftInv
  BY DEF Init, LockInv, DestinationInv, SaveInv, DraftInv, InFlight, Saving, Recovered
<1>3. FreshInv /\ IsolationInv
  BY DEF Init, FreshInv, IsolationInv, InFlight, Contains, Recovered, Seed
<1> QED
  BY <1>1, <1>2, <1>3 DEF IInv

LEMMA IInvStep == IInv /\ [Next]_vars => IInv'
<1> SUFFICES ASSUME IInv, [Next]_vars PROVE IInv'
  OBVIOUS
<1>1. TypeOK' /\ LockInv' /\ DestinationInv'
  BY TypeStep, LockStep, DestinationStep DEF IInv
<1>2. SaveInv' /\ DraftInv' /\ FreshInv'
  BY SaveStep, DraftStep, FreshStep DEF IInv
<1>3. IsolationInv'
  BY <1>2, IsolationStep DEF IInv
<1> QED
  BY <1>1, <1>2, <1>3 DEF IInv

\* The conjunction of all parts holds in every reachable state.
THEOREM Inductive == Spec => []IInv
  BY IInvInit, IInvStep, PTL DEF Spec

\* Every variable keeps its type: in particular the file is never a partially written one.
THEOREM TypeCorrect == Spec => []TypeOK
<1>1. IInv => TypeOK
  BY DEF IInv
<1> QED
  BY <1>1, Inductive, PTL

\* An edit the client saw acknowledged is in the workspace and in the file, whatever
\* crashes, failures and other requests follow.
THEOREM EditsSurvive == Spec => []AckedEditsSurvive
<1>1. IInv => AckedEditsSurvive
  BY DEF IInv, DraftInv, AckedEditsSurvive
<1> QED
  BY <1>1, Inductive, PTL

\* The published workspace and the file agree, up to the draft being published.
THEOREM Durable == Spec => []PublishedIsDurable
<1>1. IInv => PublishedIsDurable
  BY DEF IInv, SaveInv, PublishedIsDurable
<1> QED
  BY <1>1, Inductive, PTL

\* No two requests work on the same version of the workspace.
THEOREM UpdatesKept == Spec => []NoLostUpdate
<1>1. ASSUME IInv PROVE NoLostUpdate
  <2> SUFFICES ASSUME AuthEnabled, NEW r \in Requests,
                      pc[r] \in InFlight, draft[r].destination = "global"
               PROVE  draft[r].current \ {r} = mem.current
    BY DEF NoLostUpdate
  <2>1. r \notin mem.current
    BY <1>1 DEF IInv, FreshInv, Contains, InFlight
  <2>2. draft[r].current = IF draft[r].dirty THEN mem.current \cup {r} ELSE mem.current
    BY <1>1 DEF IInv, DraftInv
  <2>3. draft[r].current \subseteq Requests /\ mem.current \subseteq Requests
    BY <1>1 DEF IInv, TypeOK, Draft, State, Snapshot
  <2> QED
    BY <2>1, <2>2, <2>3
<1> QED
  BY <1>1, Inductive, PTL

\* The destination resolved behind the user's queue is right until the reply.
THEOREM DestinationCurrent == Spec => []DestinationStaysCurrent
<1>1. IInv => DestinationStaysCurrent
  BY DEF IInv, DestinationInv, DestinationStaysCurrent
<1> QED
  BY <1>1, Inductive, PTL

\* A refused request, or one the process lost, left nothing behind.
THEOREM RefusalsLeaveNothing == Spec => []RefusedLeavesNothing
<1>1. IInv => RefusedLeavesNothing
  BY DEF IInv, FreshInv, Contains, RefusedLeavesNothing
<1> QED
  BY <1>1, Inductive, PTL

\* The three together: an edit is durable exactly when its client was told so (commit).
THEOREM EditsDurable == Spec => []EditsAreDurable
<1>1. AckedEditsSurvive /\ PublishedIsDurable /\ RefusedLeavesNothing => EditsAreDurable
  BY DEF EditsAreDurable
<1> QED
  BY <1>1, EditsSurvive, Durable, RefusalsLeaveNothing, PTL

\* Tutorial edits stay in their user's tutorial.
THEOREM Isolated == Spec => []TutorialIsolation
<1>1. ASSUME IInv PROVE TutorialIsolation
  <2>1. \A r \in mem.current \cup Recovered(disk) : r \in Requests
    BY <1>1 DEF IInv, TypeOK, State, Snapshot, Recovered, Seed
  <2>2. \A u \in Users : tutorials[u] # None => tutorials[u].current \subseteq Requests
    BY <1>1 DEF IInv, TypeOK, State, Snapshot
  <2> QED
    BY <1>1, <2>1, <2>2 DEF IInv, IsolationInv, Contains, TutorialIsolation
<1> QED
  BY <1>1, Inductive, PTL

\* With sign-in on the workspace only ever grows, one request's edit at a time.
THEOREM GrowsByOneEdit == Spec => WorkspaceGrowsByOneEdit
<1> DEFINE Grows ==
      AuthEnabled /\ mem.current' # mem.current
         => \E r \in Requests \ mem.current : mem.current' = mem.current \cup {r}
<1>1. ASSUME IInv, [Next]_vars PROVE [Grows]_vars
  <2> SUFFICES ASSUME AuthEnabled, mem.current' # mem.current
               PROVE  \E r \in Requests \ mem.current : mem.current' = mem.current \cup {r}
    OBVIOUS
  <2>1. mem' # mem
    OBVIOUS
  <2>2. ASSUME NEW r \in Requests, pc[r] = "publishing", mem'.current = draft[r].current
        PROVE  r \in Requests \ mem.current /\ mem.current' = mem.current \cup {r}
    <3>1. r \notin mem.current
      BY <1>1, <2>2 DEF IInv, FreshInv, Contains
    <3>2. draft[r].destination = "global" /\ draft[r].dirty
      BY <1>1, <2>2 DEF IInv, DestinationInv, Saving
    <3>3. draft[r].current = mem.current \cup {r}
      BY <1>1, <2>2, <3>2 DEF IInv, DraftInv, InFlight
    <3> QED
      BY <2>2, <3>1, <3>3
  <2>3. CASE \E r \in Requests : Publish(r)
    BY <2>2, <2>3 DEF Publish
  <2>4. CASE Restart
    <3>1. mem'.current = Recovered(disk)
      BY <2>4 DEF Restart
    <3>2. PICK r \in Requests : pc[r] = "publishing"
      BY <1>1, <3>1 DEF IInv, SaveInv
    <3>3. disk = draft[r].current /\ draft[r].current # None
      BY <1>1, <3>2, NoneAssumption DEF IInv, SaveInv, TypeOK, Draft
    <3> QED
      BY <2>2, <3>1, <3>2, <3>3 DEF Recovered
  <2> QED
    BY <1>1, <2>1, <2>3, <2>4
       DEF Next, vars, Receive, Acquire, EnterUser, EnterGlobal, RunHandler, HandleNothing,
           HandleEdit, HandleStart, HandleBaseline, HandleEnd, Handle, Reply, SendRefusal,
           SendUnchanged, CommitTutorial, BeginSave, WriteTemporary, Rename, SaveFails,
           published
<1> QED
  BY <1>1, Inductive, PTL DEF Spec, WorkspaceGrowsByOneEdit

-----------------------------------------------------------------------------
(***************************************************************************)
(* The store implements the ledger.  What is missing from IInv is what a   *)
(* dirty draft may be: the outcome of one command on what was opened.      *)
(***************************************************************************)
EditedFrom(d, r) == d.current = mem.current \cup {r} /\ d.interactive = mem.interactive
StartedFrom(d) == d.current = {} /\ d.interactive = mem.current
RebasedFrom(d) == d.current = {} /\ d.interactive = mem.interactive
EndedFrom(d) ==
    mem.interactive # None /\ d.current = mem.interactive /\ d.interactive = None

WorkspaceDraft(r) ==
    IF draft[r].dirty
    THEN \/ EditedFrom(draft[r], r) \/ StartedFrom(draft[r])
         \/ RebasedFrom(draft[r]) \/ EndedFrom(draft[r])
    ELSE draft[r].current = mem.current /\ draft[r].interactive = mem.interactive

TutorialDraft(r) ==
    \/ draft[r].dirty /\ draft[r].current = {}
    \/ /\ ~draft[r].locksGlobal
       /\ draft[r].current = IF draft[r].dirty THEN Tutorial(r).current \cup {r}
                                               ELSE Tutorial(r).current

OriginInv ==
    \A r \in Requests : pc[r] \in InFlight =>
        /\ pc[r] = "handler" => ~draft[r].dirty /\ draft[r].destination # "end-tutorial"
        /\ draft[r].destination = "global" => WorkspaceDraft(r)
        /\ draft[r].destination = "tutorial" => TutorialDraft(r)
        /\ draft[r].destination = "end-tutorial" => ~draft[r].locksGlobal

\* The origin of a draft stays true while nobody else changes what it was opened from.
LEMMA OriginKept ==
    ASSUME TypeOK, OriginInv, NEW r \in Requests, pc[r] \in InFlight,
           pc'[r] \in InFlight, pc'[r] = "handler" => pc[r] = "handler",
           draft'[r] = draft[r],
           draft[r].destination = "global" => mem' = mem,
           draft[r].destination = "tutorial" => Tutorial(r)' = Tutorial(r)
    PROVE  /\ pc'[r] = "handler" => ~draft'[r].dirty /\ draft'[r].destination # "end-tutorial"
           /\ draft'[r].destination = "global" => WorkspaceDraft(r)'
           /\ draft'[r].destination = "tutorial" => TutorialDraft(r)'
           /\ draft'[r].destination = "end-tutorial" => ~draft'[r].locksGlobal
  BY DEF OriginInv, WorkspaceDraft, TutorialDraft, EditedFrom, StartedFrom, RebasedFrom,
         EndedFrom

\* A handler derives its draft from what was opened by one command.
LEMMA OriginHandled ==
    ASSUME TypeOK, DestinationInv, OriginInv, NEW r \in Requests, RunHandler(r)
    PROVE  /\ draft'[r].destination = "global" => WorkspaceDraft(r)'
           /\ draft'[r].destination = "tutorial" => TutorialDraft(r)'
           /\ draft'[r].destination = "end-tutorial" => ~draft'[r].locksGlobal
<1>1. /\ pc[r] = "handler" /\ mem' = mem /\ Tutorial(r)' = Tutorial(r)
      /\ draft[r] \in Draft /\ draft \in [Requests -> Draft]
  BY Kinds DEF Handles, Handle, published, Tutorial, TypeOK
<1>2. /\ ~draft[r].dirty /\ draft[r].destination # "end-tutorial"
      /\ draft[r].destination = "global" =>
            draft[r].current = mem.current /\ draft[r].interactive = mem.interactive
      /\ draft[r].destination = "tutorial" =>
            ~draft[r].locksGlobal /\ draft[r].current = Tutorial(r).current
  BY <1>1 DEF OriginInv, InFlight, WorkspaceDraft, TutorialDraft
<1> USE DEF WorkspaceDraft, TutorialDraft
<1>3. CASE HandleNothing(r)
  <2>1. draft'[r] = draft[r]
    BY <1>1, <1>3 DEF HandleNothing, Handle
  <2> QED
    BY <1>1, <1>2, <2>1
<1>4. CASE HandleEdit(r)
  <2>1. draft'[r] = [draft[r] EXCEPT !.current = @ \cup {r}, !.dirty = TRUE]
    BY <1>1, <1>4 DEF HandleEdit, Handle
  <2>2. /\ draft'[r].current = draft[r].current \cup {r} /\ draft'[r].dirty
        /\ draft'[r].interactive = draft[r].interactive
        /\ draft'[r].destination = draft[r].destination
        /\ draft'[r].locksGlobal = draft[r].locksGlobal
    BY <1>1, <2>1 DEF Draft
  <2> QED
    BY <1>1, <1>2, <2>2 DEF EditedFrom
<1>5. CASE HandleStart(r)
  <2>1. CASE HasUser(r)
    <3>1. draft'[r].current = {} /\ draft'[r].dirty /\ draft'[r].destination = "tutorial"
      BY <1>1, <1>5, <2>1 DEF HandleStart, Handle, Draft, Seed
    <3> QED
      BY <3>1
  <2>2. CASE ~HasUser(r)
    <3>1. /\ draft'[r].current = {} /\ draft'[r].interactive = draft[r].current
          /\ draft'[r].dirty /\ draft'[r].destination = draft[r].destination
      BY <1>1, <1>5, <2>2 DEF HandleStart, Handle, Draft, Seed
    <3> QED
      BY <1>1, <1>2, <3>1 DEF StartedFrom
  <2> QED
    BY <2>1, <2>2
<1>6. CASE HandleBaseline(r)
  <2>1. draft'[r] = [draft[r] EXCEPT !.current = Seed, !.dirty = TRUE]
    BY <1>1, <1>6 DEF HandleBaseline, Handle
  <2>2. /\ draft'[r].current = {} /\ draft'[r].dirty
        /\ draft'[r].interactive = draft[r].interactive
        /\ draft'[r].destination = draft[r].destination
    BY <1>1, <2>1 DEF Draft, Seed
  <2> QED
    BY <1>1, <1>2, <2>2 DEF RebasedFrom
<1>7. CASE HandleEnd(r)
  <2>1. CASE HasUser(r)
    <3>1. /\ draft'[r].destination = "end-tutorial"
          /\ draft'[r].locksGlobal = draft[r].locksGlobal
          /\ draft[r].destination = "tutorial"
      BY <1>1, <1>7, <2>1 DEF HandleEnd, Handle, Draft
    <3> QED
      BY <1>2, <3>1
  <2>2. CASE ~HasUser(r)
    <3>1. /\ draft'[r].current = draft[r].interactive /\ draft'[r].interactive = None
          /\ draft[r].interactive # None /\ draft'[r].dirty
          /\ draft'[r].destination = draft[r].destination
      BY <1>1, <1>7, <2>2 DEF HandleEnd, Handle, Draft
    <3>2. draft[r].destination = "global"
      BY <1>1, <2>2 DEF DestinationInv, InFlight
    <3> QED
      BY <1>1, <1>2, <3>1, <3>2 DEF EndedFrom
  <2> QED
    BY <2>1, <2>2
<1> QED
  BY <1>3, <1>4, <1>5, <1>6, <1>7 DEF RunHandler

LEMMA OriginStep == IInv /\ OriginInv /\ [Next]_vars => OriginInv'
<1> DEFINE Goal(s) ==
      /\ pc[s] = "handler" => ~draft[s].dirty /\ draft[s].destination # "end-tutorial"
      /\ draft[s].destination = "global" => WorkspaceDraft(s)
      /\ draft[s].destination = "tutorial" => TutorialDraft(s)
      /\ draft[s].destination = "end-tutorial" => ~draft[s].locksGlobal
<1> SUFFICES ASSUME IInv, OriginInv, [Next]_vars, NEW s \in Requests, pc'[s] \in InFlight
             PROVE  Goal(s)'
  BY DEF OriginInv, InFlight
<1>a. TypeOK /\ LockInv /\ DestinationInv /\ pc \in [Requests -> Stage]
  BY DEF IInv, TypeOK
<1>b. ASSUME pc[s] \in InFlight, pc'[s] = "handler" => pc[s] = "handler",
             draft'[s] = draft[s], mem' = mem, Tutorial(s)' = Tutorial(s)
      PROVE  Goal(s)'
  BY <1>a, <1>b, OriginKept
<1> HIDE DEF Goal
<1>0. CASE UNCHANGED vars
  BY <1>0, <1>b DEF vars, Tutorial
<1>1. ASSUME NEW r \in Requests, Receive(r) PROVE Goal(s)'
  <2>1. pc'[s] = pc[s] /\ draft' = draft /\ mem' = mem /\ tutorials' = tutorials
    BY <1>1, <1>a DEF Receive, Goto, InFlight, published
  <2> QED
    BY <1>b, <2>1 DEF Tutorial
<1>2. ASSUME NEW r \in Requests, Acquire(r) PROVE Goal(s)'
  <2>1. mem' = mem /\ tutorials' = tutorials
    BY <1>2 DEF Acquire, EnterUser, EnterGlobal, published
  <2>2. CASE s # r
    <3>1. pc'[s] = pc[s] /\ draft'[s] = draft[s]
      BY <1>2, <1>a, <2>2 DEF Acquire, EnterUser, EnterGlobal, Open, Goto, TypeOK
    <3> QED
      BY <1>b, <2>1, <3>1 DEF Tutorial
  <2>3. CASE s = r /\ EnterUser(r)
    <3>1. Tutorial(r) # None /\ Open(r, Tutorial(r), "tutorial") /\ Tutorial(r) \in State
      BY <1>a, <2>3 DEF EnterUser, Goto, InFlight, Tutorial, HasUser, TypeOK
    <3> QED
      BY <1>a, <2>1, <2>3, <3>1, Opened DEF Goal, TutorialDraft, Tutorial
  <2>4. CASE s = r /\ EnterGlobal(r)
    <3>1. Open(r, mem, "global") /\ mem \in State
      BY <1>a, <2>4 DEF EnterGlobal, TypeOK
    <3> QED
      BY <1>a, <2>1, <2>4, <3>1, Opened DEF Goal, WorkspaceDraft
  <2> QED
    BY <1>2, <2>2, <2>3, <2>4 DEF Acquire
<1>3. ASSUME NEW r \in Requests, RunHandler(r) PROVE Goal(s)'
  <2>1. /\ mem' = mem /\ tutorials' = tutorials /\ pc'[r] # "handler"
        /\ s # r => pc'[s] = pc[s] /\ draft'[s] = draft[s]
    BY <1>3, <1>a, Kinds DEF Handles, Handle, Goto, published, TypeOK
  <2>2. CASE s = r
    BY <1>3, <1>a, <2>1, <2>2, OriginHandled DEF Goal
  <2>3. CASE s # r
    BY <1>b, <2>1, <2>3 DEF Tutorial
  <2> QED
    BY <2>2, <2>3
<1>4. ASSUME NEW r \in Requests, Finishes(r), Drops(r) \/ CommitTutorial(r) \/ Publish(r)
      PROVE  Goal(s)'
  <2>1. pc'[s] = pc[s] /\ draft' = draft /\ s # r /\ pc[r] \in InFlight
    BY <1>4, <1>a DEF Finishes, Finish, Goto, InFlight
  <2>2. CASE Drops(r)
    BY <1>b, <2>1, <2>2
       DEF Drops, SendRefusal, SendUnchanged, SaveFails, published, Tutorial
  <2>3. CASE CommitTutorial(r)
    <3>1. /\ mem' = mem /\ HasUser(r)
          /\ \A u \in Users \ {UserOf[r]} : tutorials'[u] = tutorials[u]
      BY <1>a, <2>1, <2>3 DEF CommitTutorial, DestinationInv, TypeOK
    <3>2. HasUser(s) => UserOf[s] # UserOf[r]
      BY <1>a, <2>1, <3>1 DEF LockInv, HoldsUser
    <3> QED
      BY <1>b, <2>1, <3>1, <3>2 DEF Tutorial, HasUser
  <2>4. CASE Publish(r)
    <3>1. tutorials' = tutorials /\ draft[r].destination = "global"
      BY <1>a, <2>4 DEF Publish, DestinationInv, Saving
    <3>2. draft[s].destination # "global"
      BY <1>a, <2>1, <3>1, SavingExclusive
    <3> QED
      BY <1>a, <2>1, <3>1, <3>2, OriginKept DEF Goal, Tutorial
  <2> QED
    BY <1>4, <2>2, <2>3, <2>4
<1>5. ASSUME NEW r \in Requests, BeginSave(r) \/ WriteTemporary(r) \/ Rename(r)
      PROVE  Goal(s)'
  <2>1. /\ pc[s] \in InFlight /\ pc'[s] = "handler" => pc[s] = "handler"
        /\ pc[s] \in InFlight
        /\ draft' = draft /\ mem' = mem /\ tutorials' = tutorials
    BY <1>5, <1>a DEF BeginSave, WriteTemporary, Rename, Goto, InFlight, published
  <2> QED
    BY <1>b, <2>1 DEF Tutorial
<1>6. ASSUME Restart PROVE Goal(s)'
  BY <1>6 DEF Restart, InFlight, Final
<1> QED
  BY <1>0, <1>1, <1>2, <1>3, <1>4, <1>5, <1>6, <1>a, Kinds DEF Next, Reply, Drops

LEMMA OriginInit == Init => OriginInv
  BY DEF Init, OriginInv, InFlight

(***************************************************************************)
(* The refinement mapping.                                                 *)
(***************************************************************************)
Mapped ==
    /\ (\A r \in Requests : pc[r] # "publishing") =>
          SetAside = mem.interactive /\ Recovered(disk) = mem.current
    /\ \A r \in Requests : pc[r] = "publishing" =>
          SetAside = draft[r].interactive /\ Publishing = {r}

\* At most one request is publishing, and then its draft is the workspace in force.
LEMMA MappedStash == IInv => Mapped
<1> SUFFICES ASSUME IInv PROVE Mapped
  OBVIOUS
<1>1. ASSUME \A r \in Requests : pc[r] # "publishing"
      PROVE  SetAside = mem.interactive /\ Recovered(disk) = mem.current
  <2>1. Publishing = {}
    BY <1>1 DEF Publishing
  <2> QED
    BY <1>1, <2>1 DEF SetAside, IInv, SaveInv
<1>2. ASSUME NEW r \in Requests, pc[r] = "publishing"
      PROVE  SetAside = draft[r].interactive /\ Publishing = {r}
  <2>1. \A s \in Requests : pc[s] = "publishing" => s = r
    BY <1>2, SavingExclusive DEF IInv, DestinationInv, Saving, InFlight
  <2>2. Publishing = {r}
    BY <1>2, <2>1 DEF Publishing
  <2>3. (CHOOSE q \in Publishing : TRUE) = r /\ Publishing # {}
    BY <2>2
  <2> QED
    BY <2>2, <2>3 DEF SetAside
<1> QED
  BY <1>1, <1>2 DEF Mapped

LEMMA MappedStashNext == IInv' => Mapped'
  BY MappedStash, PTL

\* The mapped private workspaces are those in memory.
LEMMA MappedPrivate ==
    ASSUME TypeOK
    PROVE  /\ Private = [u \in Users |-> Private[u]]
           /\ \A u \in Users : Private[u] = IF tutorials[u] = None THEN None
                                            ELSE tutorials[u].current
           /\ \A u \in Users : Private[u] = None <=> tutorials[u] = None
<1>1. \A u \in Users : tutorials[u] # None => tutorials[u].current # None
  BY NoneAssumption DEF TypeOK, State
<1> QED
  BY <1>1 DEF Private

\* Steps before the rename, and replies that commit nothing, change nothing of the ledger.
LEMMA Invisible ==
    ASSUME IInv, IInv', UNCHANGED <<mem, tutorials, disk>>,
           \A s \in Requests :
               \/ pc'[s] = pc[s] /\ (pc[s] = "publishing" => draft'[s] = draft[s])
               \/ /\ pc[s] \notin {"publishing", "acked", "unanswered"}
                  /\ pc'[s] \notin {"publishing", "acked", "unanswered"}
    PROVE  UNCHANGED Ledger!vars
<1>1. Private' = Private /\ Effective' = Effective /\ Acked' = Acked
  BY DEF Private, Effective, Acked
<1>2. Recovered(disk)' = Recovered(disk)
  BY DEF Recovered
<1>3. SetAside' = SetAside
  <2>1. CASE \A r \in Requests : pc[r] # "publishing"
    <3>1. \A r \in Requests : pc'[r] # "publishing"
      BY <2>1
    <3>2. SetAside' = mem'.interactive
      BY <3>1, MappedStashNext DEF Mapped
    <3> QED
      BY <2>1, <3>2, MappedStash DEF Mapped
  <2>2. ASSUME NEW r \in Requests, pc[r] = "publishing" PROVE SetAside' = SetAside
    <3>1. pc'[r] = "publishing" /\ draft'[r] = draft[r]
      BY <2>2
    <3>2. SetAside' = draft'[r].interactive
      BY <3>1, MappedStashNext DEF Mapped
    <3> QED
      BY <2>2, <3>1, <3>2, MappedStash DEF Mapped
  <2> QED
    BY <2>1, <2>2
<1> QED
  BY <1>1, <1>2, <1>3 DEF Ledger!vars

\* The rename makes a change of the workspace take effect.
LEMMA RenameImplements ==
    ASSUME IInv, IInv', OriginInv, NEW r \in Requests, Rename(r)
    PROVE  Ledger!Next
<1>1. /\ pc[r] = "renaming" /\ pc' = [pc EXCEPT ![r] = "publishing"]
      /\ pc \in [Requests -> Stage]
      /\ draft' = draft /\ mem' = mem /\ tutorials' = tutorials
      /\ draft[r].destination = "global" /\ draft[r].dirty /\ draft[r] \in Draft
  BY DEF Rename, Goto, published, IInv, TypeOK, DestinationInv, Saving
<1>2. \A s \in Requests : pc[s] # "publishing"
  BY <1>1, SavingExclusive DEF IInv, DestinationInv, Saving, InFlight
<1>3. pc'[r] = "publishing" /\ \A s \in Requests \ {r} : pc'[s] = pc[s]
  BY <1>1
<1>4. SetAside = mem.interactive /\ Recovered(disk) = mem.current
  BY <1>2, MappedStash DEF Mapped
<1>5. SetAside' = draft[r].interactive
  BY <1>1, <1>3, MappedStashNext DEF Mapped
<1>6. Recovered(disk)' = draft[r].current
  <2>1. disk' = draft[r].current
    BY <1>1 DEF Rename, IInv, SaveInv
  <2>2. draft[r].current # None
    BY <1>1, NoneAssumption DEF Draft
  <2> QED
    BY <2>1, <2>2 DEF Recovered
<1>7. Private' = Private /\ Acked' = Acked /\ r \notin Effective
      /\ Effective' = Effective \cup {r}
  BY <1>1, <1>2, <1>3 DEF Private, Acked, Effective
<1>8. WorkspaceDraft(r)
  BY <1>1 DEF OriginInv, InFlight
<1> HIDE DEF SetAside, Recovered, Private, Acked, Effective
<1>9. CASE EditedFrom(draft[r], r)
  BY <1>4, <1>5, <1>6, <1>7, <1>9 DEF EditedFrom, Ledger!Next, Ledger!Edit, Ledger!TakeEffect
<1>10. CASE StartedFrom(draft[r])
  BY <1>4, <1>5, <1>6, <1>7, <1>10
     DEF StartedFrom, Ledger!Next, Ledger!StartShared, Ledger!TakeEffect
<1>11. CASE RebasedFrom(draft[r])
  BY <1>4, <1>5, <1>6, <1>7, <1>11
     DEF RebasedFrom, Ledger!Next, Ledger!BaselineShared, Ledger!TakeEffect
<1>12. CASE EndedFrom(draft[r])
  BY <1>4, <1>5, <1>6, <1>7, <1>12
     DEF EndedFrom, Ledger!Next, Ledger!EndShared, Ledger!TakeEffect
<1> QED
  BY <1>1, <1>8, <1>9, <1>10, <1>11, <1>12 DEF WorkspaceDraft

\* The publication acknowledges it.
LEMMA PublishImplements ==
    ASSUME IInv, IInv', NEW r \in Requests, Publish(r)
    PROVE  Ledger!Next
<1>1. /\ pc[r] = "publishing" /\ pc' = [pc EXCEPT ![r] = "acked"]
      /\ pc \in [Requests -> Stage]
      /\ draft' = draft /\ tutorials' = tutorials /\ disk' = disk
      /\ mem' = [current |-> draft[r].current, interactive |-> draft[r].interactive]
  BY DEF Publish, Finish, Goto, files, IInv, TypeOK
<1>2. SetAside = draft[r].interactive /\ Publishing = {r}
  BY <1>1, MappedStash DEF Mapped
<1>3. pc'[r] = "acked" /\ \A s \in Requests \ {r} : pc'[s] = pc[s] /\ pc[s] # "publishing"
  BY <1>1, <1>2 DEF Publishing
<1>4. \A s \in Requests : pc'[s] # "publishing"
  BY <1>3
<1>5. SetAside' = mem'.interactive
  BY <1>4, MappedStashNext DEF Mapped
<1>6. Recovered(disk)' = Recovered(disk) /\ Private' = Private
  BY <1>1 DEF Recovered, Private
<1>7. r \in Effective \ Acked /\ Acked' = Acked \cup {r} /\ Effective' = Effective
  BY <1>1, <1>3 DEF Effective, Acked
<1> QED
  BY <1>1, <1>2, <1>5, <1>6, <1>7 DEF Ledger!Next, Ledger!Acknowledge

\* The publication of a tutorial is effect and acknowledgement in one.
LEMMA TutorialImplements ==
    ASSUME IInv, IInv', OriginInv, NEW r \in Requests, CommitTutorial(r)
    PROVE  Ledger!Next
<1> DEFINE new == IF draft[r].destination = "end-tutorial" THEN None
                  ELSE [current |-> draft[r].current, interactive |-> draft[r].interactive]
           u == UserOf[r]
<1>1. /\ pc[r] = "sending" /\ pc' = [pc EXCEPT ![r] = "acked"]
      /\ pc \in [Requests -> Stage]
      /\ draft' = draft /\ mem' = mem /\ disk' = disk
      /\ tutorials' = [tutorials EXCEPT ![u] = new]
      /\ draft[r].dirty /\ draft[r].destination # "global" /\ draft[r] \in Draft
      /\ tutorials \in [Users -> State \cup {None}]
  BY DEF CommitTutorial, Finish, Goto, files, IInv, TypeOK
<1>2. u \in Users
  BY <1>1 DEF IInv, DestinationInv, InFlight, HasUser
<1>3. pc'[r] = "acked" /\ \A s \in Requests \ {r} : pc'[s] = pc[s]
  BY <1>1
<1>4. /\ r \notin Effective /\ Effective' = Effective \cup {r}
      /\ Acked' = Acked \cup {r}
  BY <1>1, <1>3 DEF Effective, Acked
<1>5. Recovered(disk)' = Recovered(disk) /\ SetAside' = SetAside
  <2>1. Publishing' = Publishing
    BY <1>1, <1>3 DEF Publishing
  <2> QED
    BY <1>1, <2>1 DEF Recovered, SetAside
<1>6. Private' = [Private EXCEPT ![u] = IF new = None THEN None ELSE new.current]
  BY <1>1, <1>2 DEF Private
<1>7. ~draft[r].locksGlobal => tutorials[u] # None /\ Private[u] = tutorials[u].current
  BY <1>1, <1>2, MappedPrivate DEF IInv, DestinationInv, InFlight, HasUser, Tutorial
<1>8. ~draft[r].locksGlobal => Private[u] # None
  BY <1>2, <1>7, MappedPrivate DEF IInv
<1>9. \/ Private' = [Private EXCEPT ![u] = {}]
      \/ /\ Private[u] # None
         /\ \/ Private' = [Private EXCEPT ![u] = @ \cup {r}]
            \/ Private' = [Private EXCEPT ![u] = None]
  <2>1. CASE draft[r].destination = "end-tutorial"
    <3>1. ~draft[r].locksGlobal
      BY <1>1, <2>1 DEF OriginInv, InFlight
    <3> QED
      BY <1>6, <1>8, <2>1, <3>1
  <2>2. CASE draft[r].destination = "tutorial"
    <3>1. new # None /\ new.current = draft[r].current
      <4>1. new = [current |-> draft[r].current, interactive |-> draft[r].interactive]
        BY <2>2
      <4>2. new \in State
        BY <1>1, <4>1 DEF Draft, State
      <4> QED
        BY <4>1, <4>2, NoneAssumption
    <3>2. TutorialDraft(r)
      BY <1>1, <2>2 DEF OriginInv, InFlight
    <3>3. CASE draft[r].current = {}
      BY <1>6, <3>1, <3>3
    <3>4. CASE /\ ~draft[r].locksGlobal
               /\ draft[r].current = tutorials[u].current \cup {r}
      <4>1. draft[r].current = Private[u] \cup {r}
        BY <1>7, <3>4
      <4> QED
        BY <1>6, <1>8, <3>1, <3>4, <4>1
    <3> QED
      BY <1>1, <1>2, <3>2, <3>3, <3>4 DEF TutorialDraft, Tutorial, HasUser
  <2> QED
    BY <1>1, <2>1, <2>2 DEF Draft
<1> QED
  BY <1>2, <1>4, <1>5, <1>9 DEF Ledger!Next, Ledger!Private, Ledger!TakeEffect

LEMMA RestartImplements ==
    ASSUME IInv, IInv', Restart
    PROVE  Ledger!Next
<1>1. \A r \in Requests : pc'[r] # "publishing"
  BY DEF Restart, Final
<1>2. SetAside' = None
  BY <1>1, MappedStashNext DEF Mapped, Restart
<1>3. Private' = [v \in Users |-> None]
  BY DEF Private, Restart
<1>4. Recovered(disk)' = Recovered(disk) /\ Effective' = Effective /\ Acked' = Acked
  BY DEF Restart, files, Recovered, Effective, Acked, Final
<1> QED
  BY <1>2, <1>3, <1>4 DEF Ledger!Next, Ledger!Forget

LEMMA StepImplements ==
    IInv /\ IInv' /\ OriginInv /\ [Next]_vars => [Ledger!Next]_(Ledger!vars)
<1> SUFFICES ASSUME IInv, IInv', OriginInv, [Next]_vars
             PROVE  Ledger!Next \/ UNCHANGED Ledger!vars
  OBVIOUS
<1>a. pc \in [Requests -> Stage] /\ draft \in [Requests -> Draft]
  BY DEF IInv, TypeOK
<1> USE DEF Goto
<1>0. CASE UNCHANGED vars
  BY <1>0, Invisible DEF vars
<1>1. ASSUME NEW r \in Requests, Receive(r) PROVE UNCHANGED Ledger!vars
  BY <1>1, <1>a, Invisible DEF Receive, published, files
<1>2. ASSUME NEW r \in Requests, Acquire(r) PROVE UNCHANGED Ledger!vars
  BY <1>2, <1>a, Invisible DEF Acquire, EnterUser, EnterGlobal, Open, published, files
<1>3. ASSUME NEW r \in Requests, RunHandler(r) PROVE UNCHANGED Ledger!vars
  <2>1. Handles(r)
    BY <1>3, Kinds DEF IInv
  <2> QED
    BY <2>1, <1>a, Invisible DEF Handles, Handle, published, files
<1>4. ASSUME NEW r \in Requests, Drops(r) PROVE UNCHANGED Ledger!vars
  BY <1>4, <1>a, Invisible
     DEF Drops, SendRefusal, SendUnchanged, SaveFails, Finish, published, files
<1>5. ASSUME NEW r \in Requests, BeginSave(r) \/ WriteTemporary(r)
      PROVE  UNCHANGED Ledger!vars
  BY <1>5, <1>a, Invisible DEF BeginSave, WriteTemporary, published
<1> QED
  BY <1>0, <1>1, <1>2, <1>3, <1>4, <1>5, RenameImplements, PublishImplements,
     TutorialImplements, RestartImplements DEF Next, Reply, Drops

\* Every behaviour of the store, for any users and requests, is one of the ledger.
THEOREM Refinement == Spec => ImplementsLedger
<1>1. Init => Ledger!Init
  BY DEF Init, Ledger!Init, Recovered, SetAside, Publishing, Private, Effective, Acked, Seed
<1>2. Spec => []OriginInv
  <2>1. IInv /\ IInv' /\ OriginInv /\ [Next]_vars => OriginInv'
    BY OriginStep
  <2> QED
    BY <2>1, OriginInit, Inductive, PTL DEF Spec
<1> QED
  BY <1>1, <1>2, StepImplements, Inductive, PTL DEF Spec, ImplementsLedger, Ledger!Spec
=============================================================================
