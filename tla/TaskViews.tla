------------------------------ MODULE TaskViews ------------------------------
(***************************************************************************)
(* What the clients see of tasks that wait for others: in the lists, which *)
(* take the whole snapshot (src/routes/registerRoutes.ts), and in the      *)
(* bootstrap of selected projects, which keeps what is in scope of each    *)
(* kind of record and works out the rest from that                         *)
(* (src/routes/helpers/bootstrapSelection.ts).                             *)
(*                                                                         *)
(* Abstractions: a task belongs to a project, and dependencies may cross   *)
(* projects: the tasks in scope of a selection are any set of them.  Those *)
(* of no selection are all.                                                *)
(***************************************************************************)
EXTENDS TaskCompletion

\* isWaitingOnDependency, in the list of tasks
ListedWaiting(t) == status[t] # "complete" /\ WaitingOn(t) # {}

Recorded == {d \in Dependencies : dependencies[d] # None}
DependenciesWithin(shown) ==     \* mutant: both ends have to be in scope
  {d \in Recorded : {dependencies[d].task, dependencies[d].ref} \cap Tasks \subseteq shown}
ShownDependencies(shown) == {d \in Recorded : dependencies[d].task \in shown}

\* isTaskDependencySatisfied on the scoped snapshot, which has all parts but
\* only the tasks in scope: a hard dependency on another one does not hold
SatisfiedInView(dependency, shown) ==
  /\ Satisfied(dependency)
  /\ dependency.hard /\ dependency.ref \in Tasks => dependency.ref \in shown

\* isWaitingOnDependency, in the bootstrap
ShownWaiting(t, shown) ==
  /\ status[t] # "complete"
  /\ \E d \in ShownDependencies(shown) :
       dependencies[d].task = t /\ ~SatisfiedInView(dependencies[d], shown)

\* Whatever is selected, no task is shown as free to start that waits for
\* another one or for a part, in whatever project that is; and the bootstrap
\* of everything says what the lists say.  The bootstrap of a project may show
\* a task as waiting that does not: it knows nothing of the other projects'
\* tasks.
WaitingIsShown ==
  \A shown \in SUBSET Existing : \A t \in shown :
     /\ ListedWaiting(t) => ShownWaiting(t, shown)
     /\ shown = Existing /\ ShownWaiting(t, shown) => ListedWaiting(t)
=============================================================================
