--------------------------- MODULE SnapshotLedger ---------------------------
(***************************************************************************)
(* What the snapshot transactions promise, without queues, drafts or       *)
(* files: a durable workspace, a private workspace per user in a tutorial, *)
(* and the workspace set aside while a tutorial runs with sign-in off.     *)
(* Every request takes effect at one instant, at most once, and is         *)
(* acknowledged only after that.  A restart forgets everything except the  *)
(* workspace.                                                              *)
(***************************************************************************)
CONSTANTS Users, Requests, UserOf, None

VARIABLES
    workspace,   \* the requests whose edit the durable workspace contains
    stash,       \* the workspace set aside by a tutorial of everyone, or None
    private,     \* the tutorial workspace of each user, or None
    done,        \* the requests that took effect
    acked        \* the requests whose client was told so

vars == <<workspace, stash, private, done, acked>>

Init ==
    /\ workspace = {}
    /\ stash = None
    /\ private = [u \in Users |-> None]
    /\ done = {}
    /\ acked = {}

TakeEffect(r) ==
    /\ r \notin done
    /\ done' = done \cup {r}

Edit(r) ==
    /\ TakeEffect(r)
    /\ workspace' = workspace \cup {r}
    /\ UNCHANGED <<stash, private, acked>>

StartShared(r) ==
    /\ TakeEffect(r)
    /\ stash' = workspace
    /\ workspace' = {}
    /\ UNCHANGED <<private, acked>>

BaselineShared(r) ==
    /\ TakeEffect(r)
    /\ workspace' = {}
    /\ UNCHANGED <<stash, private, acked>>

EndShared(r) ==
    /\ TakeEffect(r)
    /\ stash # None
    /\ workspace' = stash
    /\ stash' = None
    /\ UNCHANGED <<private, acked>>

Acknowledge(r) ==
    /\ r \in done \ acked
    /\ acked' = acked \cup {r}
    /\ UNCHANGED <<workspace, stash, private, done>>

\* In a tutorial effect and acknowledgement coincide: nothing is written.
Private(r) ==
    /\ TakeEffect(r)
    /\ UserOf[r] \in Users
    /\ acked' = acked \cup {r}
    /\ \/ private' = [private EXCEPT ![UserOf[r]] = {}]
       \/ /\ private[UserOf[r]] # None
          /\ \/ private' = [private EXCEPT ![UserOf[r]] = @ \cup {r}]
             \/ private' = [private EXCEPT ![UserOf[r]] = None]
    /\ UNCHANGED <<workspace, stash>>

Forget ==
    /\ stash' = None
    /\ private' = [u \in Users |-> None]
    /\ UNCHANGED <<workspace, done, acked>>

Next ==
    \/ \E r \in Requests :
         \/ Edit(r) \/ StartShared(r) \/ BaselineShared(r) \/ EndShared(r)
         \/ Acknowledge(r) \/ Private(r)
    \/ Forget

Spec == Init /\ [][Next]_vars
=============================================================================
