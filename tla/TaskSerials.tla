----------------------------- MODULE TaskSerials -----------------------------
(***************************************************************************)
(* The serials of tasks (T-DR12: the alias of the task's first subsystem   *)
(* and a number of its own there), which people write on parts and boards  *)
(* (src/data/store.ts).  They are assigned when a task is created and      *)
(* repaired by normalizeSnapshotTaskSerials, which some requests run over  *)
(* the whole snapshot before they publish it and others do not.            *)
(*                                                                         *)
(* One action is one accepted request.  Abstractions: a task has at most   *)
(* one mechanism and no parts, so nothing but that mechanism keeps it in   *)
(* the mechanism's subsystem; tasks created in the same millisecond, which *)
(* their ids would put in order, do not occur.                             *)
(***************************************************************************)
EXTENDS Naturals, Sequences, FiniteSets, SequencesExt, FiniteSetsExt

CONSTANTS
  Tasks, Subsystems, Mechanisms,    \* ids
  Aliases,                          \* what subsystems are called in serials
  MaxNumber,                        \* bound on the numbers
  None                              \* no mechanism, no subsystem

VARIABLES
  tasks,     \* the array of tasks: [id, subsystems, mechanism, number, serial]
  alias,     \* subsystem -> its alias
  home       \* mechanism -> its subsystem, or None

serialVars == <<tasks, alias, home>>

Owner(task) == Head(task.subsystems)
Ids == {tasks[i].id : i \in DOMAIN tasks}
Mounted == {m \in Mechanisms : home[m] # None}

Init ==
  /\ tasks = <<>>
  /\ alias \in [Subsystems -> Aliases]
  /\ home \in [Mechanisms -> Subsystems \cup {None}]

-----------------------------------------------------------------------------
(* normalizeSnapshotTaskSerials: among the tasks of one first subsystem the *)
(* first with a number keeps it; those without, or with a number taken,    *)
(* are numbered on from the highest; all serials are written anew.         *)

Together(list, i) == {j \in DOMAIN list : Owner(list[j]) = Owner(list[i])}
Keeps(list, i) ==
  /\ list[i].number # 0
  /\ \A j \in Together(list, i) : j < i => list[j].number # list[i].number

Number(list, i) ==
  LET kept == {j \in Together(list, i) : Keeps(list, j)}
      highest == Max({0} \cup {list[j].number : j \in kept})
  IN  IF i \in kept THEN list[i].number
      ELSE highest + Cardinality({j \in Together(list, i) \ kept : j <= i})

Serial(list, i, names) == <<names[Owner(list[i])], Number(list, i)>>

Normalized(list, names) ==
  [i \in DOMAIN list |-> [list[i] EXCEPT !.number = Number(list, i), !.serial = Serial(list, i, names)]]

-----------------------------------------------------------------------------
(* Tasks.                                                                   *)

\* normalizeTaskTargetIds: the mechanism brings its subsystem, after those asked for
Targets(asked, m) ==
  IF m = None \/ home[m] \in ToSet(asked) THEN asked ELSE Append(asked, home[m])

Asked == {<<>>} \cup {<<s>> : s \in Subsystems}

NextNumber(asked) ==
  1 + Max({0} \cup {tasks[i].number : i \in {j \in DOMAIN tasks : <<Owner(tasks[j])>> = asked}})

CreateTask(t) ==
  /\ t \notin Ids
  /\ \E asked \in Asked, m \in Mounted \cup {None} :
       /\ Targets(asked, m) # <<>>
       /\ tasks' = Normalized(Append(tasks,
            [id |-> t, subsystems |-> Targets(asked, m), mechanism |-> m,
             number |-> NextNumber(asked), serial |-> <<>>]), alias)
  /\ UNCHANGED <<alias, home>>

\* the task of integrating a new subsystem under s, or of wiring a new mechanism in it
GeneratedTask(t, s, m) ==
  [id |-> t, subsystems |-> <<s>>, mechanism |-> m, number |-> 0, serial |-> <<>>]

CreateSubsystemBelow(t, s) ==
  /\ t \notin Ids
  /\ tasks' = Normalized(Append(tasks, GeneratedTask(t, s, None)), alias)
  /\ UNCHANGED <<alias, home>>

CreateMechanism(t, m) ==
  /\ t \notin Ids /\ m \notin Mounted
  /\ \E s \in Subsystems :
       /\ home' = [home EXCEPT ![m] = s]
       /\ tasks' = Normalized(Append(tasks, GeneratedTask(t, s, m)), alias)
  /\ UNCHANGED alias

\* A task that gets another first subsystem gives its number back.
UpdateTask(i) ==
  /\ \E asked \in Asked, m \in Mounted \cup {None} :
       /\ Targets(asked, m) # <<>>
       /\ LET moved == [tasks[i] EXCEPT !.subsystems = Targets(asked, m), !.mechanism = m]
              updated == IF Owner(moved) = Owner(tasks[i]) THEN moved ELSE [moved EXCEPT !.number = 0]
          IN  tasks' = Normalized([tasks EXCEPT ![i] = updated], alias)
  /\ UNCHANGED <<alias, home>>

RemoveTask(i) ==
  /\ tasks' = Normalized(RemoveAt(tasks, i), alias)
  /\ UNCHANGED <<alias, home>>

-----------------------------------------------------------------------------
(* What tasks point at.                                                     *)

\* The tasks on the mechanism follow it, the new subsystem first; nothing is
\* normalized.
UpdateMechanism(m, s) ==
  /\ m \in Mounted
  /\ home' = [home EXCEPT ![m] = s]
  /\ tasks' = [i \in DOMAIN tasks |->
       IF tasks[i].mechanism # m THEN tasks[i]
       ELSE [tasks[i] EXCEPT !.subsystems =
               <<s>> \o SelectSeq(@, LAMBDA old : old \notin {home[m], s})]]
  /\ UNCHANGED alias

RemoveMechanism(m) ==
  /\ m \in Mounted
  /\ home' = [home EXCEPT ![m] = None]
  /\ tasks' = [i \in DOMAIN tasks |->
       IF tasks[i].mechanism = m THEN [tasks[i] EXCEPT !.mechanism = None] ELSE tasks[i]]
  /\ UNCHANGED alias

UpdateSubsystem(s, a) ==
  /\ alias' = [alias EXCEPT ![s] = a]
  /\ tasks' = Normalized(tasks, alias')
  /\ UNCHANGED home

\* the file is read back
Restart ==
  /\ tasks' = Normalized(tasks, alias)
  /\ UNCHANGED <<alias, home>>

Bounded == \A i \in DOMAIN tasks' : tasks'[i].number <= MaxNumber

Request ==
  \/ \E t \in Tasks : CreateTask(t)
  \/ \E t \in Tasks, s \in Subsystems : CreateSubsystemBelow(t, s)
  \/ \E t \in Tasks, m \in Mechanisms : CreateMechanism(t, m)
  \/ \E i \in DOMAIN tasks : UpdateTask(i)
  \/ \E i \in DOMAIN tasks : RemoveTask(i)
  \/ \E m \in Mechanisms, s \in Subsystems : UpdateMechanism(m, s)
  \/ \E m \in Mechanisms : RemoveMechanism(m)
  \/ \E s \in Subsystems, a \in Aliases : UpdateSubsystem(s, a)
  \/ Restart

Next == Request /\ Bounded

Spec == Init /\ [][Next]_serialVars

-----------------------------------------------------------------------------
\* "First target owns serial" (src/test/taskTargets.test.ts:79): a task's
\* serial carries the alias of its first subsystem and a number no other task
\* of that subsystem has.
FirstTargetOwnsSerial ==
  \A i \in DOMAIN tasks :
     /\ tasks[i].serial = <<alias[Owner(tasks[i])], tasks[i].number>>
     /\ \A j \in Together(tasks, i) \ {i} : tasks[j].number # tasks[i].number
=============================================================================
