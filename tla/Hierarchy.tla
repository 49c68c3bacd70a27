----------------------------- MODULE Hierarchy -----------------------------
(***************************************************************************)
(* The robot's structure in the workspace snapshot: subsystems in a tree,  *)
(* mechanisms in subsystems, part instances of part definitions in both,   *)
(* and the tasks and purchases that point at them (src/data/store.ts with  *)
(* the handlers of src/routes/registerRoutes.ts).  The snapshot has no     *)
(* foreign keys: what a removal cascades to, refuses or merely detaches is *)
(* written out in each handler, and ids are slugs that a new record takes  *)
(* over from a removed one.                                                *)
(*                                                                         *)
(* One action is one accepted request; a refused one is a disabled action. *)
(* Abstractions: people, work types, dates and texts are left out (a       *)
(* refusal over them is a request that is not made); a task keeps its      *)
(* targets and the definition it manufactures; completion, risks and       *)
(* corrective history, which also refuse removals, are in TaskCompletion,  *)
(* quantities and approvals in Purchasing.                                 *)
(***************************************************************************)
EXTENDS Naturals, FiniteSets

CONSTANTS
  Projects, Subsystems, Mechanisms, Definitions, Parts, Tasks, Purchases,   \* ids
  Cores,      \* the subsystems that come with a robot project: never removed, never below another
  None

ASSUME CoresAssumption == Cores \subseteq Subsystems
ASSUME AbsentAssumption ==
  None \notin Projects \cup Subsystems \cup Mechanisms \cup Definitions \cup Parts \cup Tasks

VARIABLES
  project,     \* subsystem -> its project, None when there is no such subsystem
  parent,      \* subsystem -> parentSubsystemId
  home,        \* mechanism -> its subsystem, None when there is no such mechanism
  defined,     \* the part definitions there are
  part,        \* part instance -> [of, subsystem, mechanism, at], or None
  task,        \* task -> [project, subsystems, mechanisms, parts, makes], or None
  purchase,    \* purchase item -> [task, of], or None
  receipts     \* purchase item -> the part instances its receipts created

vars == <<project, parent, home, defined, part, task, purchase, receipts>>

Present == {s \in Subsystems : project[s] # None}
Mounted == {m \in Mechanisms : home[m] # None}
Instances == {x \in Parts : part[x] # None}
Open == {t \in Tasks : task[t] # None}
Bought == {i \in Purchases : purchase[i] # None}
Received == UNION {receipts[i] : i \in Purchases}

\* A part's location is None (in stock, under repair, lost) or where it is
\* installed.  What it is intended for counts only while it is not installed.
Installed == [subsystem : Subsystems, mechanism : Mechanisms \cup {None}]
SubsystemOf(x) == IF x.at = None THEN x.subsystem ELSE x.at.subsystem
MechanismOf(x) == IF x.at = None THEN x.mechanism ELSE x.at.mechanism

Init ==
  /\ \E p \in Projects : project = [s \in Subsystems |-> IF s \in Cores THEN p ELSE None]
  /\ parent = [s \in Subsystems |-> None]
  /\ home = [m \in Mechanisms |-> None]
  /\ defined = {}
  /\ part = [x \in Parts |-> None]
  /\ task = [t \in Tasks |-> None]
  /\ purchase = [i \in Purchases |-> None]
  /\ receipts = [i \in Purchases |-> {}]

-----------------------------------------------------------------------------
(* Subsystems.                                                             *)

\* the subsystem and everything below it
Below(s) ==
  {b \in Subsystems : \A family \in SUBSET Subsystems :
     s \in family /\ (\A c \in Subsystems : parent[c] \in family => c \in family) => b \in family}

\* what wouldCreateSubsystemCycle walks up to from a parent
WouldCreateCycle(s, above) == above \in Below(s)

\* generated tasks point at one place and nothing else
GeneratedTask(p, s, mechanisms) ==
  [project |-> p, subsystems |-> {s}, mechanisms |-> mechanisms, parts |-> {}, makes |-> None]

\* the parents the routes let a new and an existing subsystem have
ParentsIn(p) == {above \in Present : project[above] = p}
ParentsFor(s) ==
  IF s \in Cores THEN {None}
  ELSE {None} \cup {above \in ParentsIn(project[s]) : ~WouldCreateCycle(s, above)}

\* A subsystem below another one comes with the task of integrating it there.
CreateSubsystem(s) ==
  /\ s \notin Present
  /\ \E p \in Projects :
       /\ project' = [project EXCEPT ![s] = p]
       /\ \/ UNCHANGED <<parent, task>>
          \/ \E above \in ParentsIn(p), t \in Tasks \ Open :
               /\ parent' = [parent EXCEPT ![s] = above]
               /\ task' = [task EXCEPT ![t] = GeneratedTask(p, above, {})]
  /\ UNCHANGED <<home, defined, part, purchase, receipts>>

UpdateSubsystem(s) ==
  /\ s \in Present
  /\ \E above \in ParentsFor(s) : parent' = [parent EXCEPT ![s] = above]
  /\ UNCHANGED <<project, home, defined, part, task, purchase, receipts>>

\* What goes with a subsystem: all below it, their mechanisms, the parts that
\* are in either, and every task that points at any of them.
MechanismsIn(gone) == {m \in Mounted : home[m] \in gone}
IntendedPartsIn(gone) ==     \* mutant: a part installed elsewhere than intended is missed
  {x \in Instances : part[x].subsystem \in gone \/ part[x].mechanism \in MechanismsIn(gone)}
PartsIn(gone) ==
  {x \in Instances : SubsystemOf(part[x]) \in gone \/ MechanismOf(part[x]) \in MechanismsIn(gone)}
TasksIn(gone) ==
  {t \in Open : \/ task[t].subsystems \cap gone # {}
                \/ task[t].mechanisms \cap MechanismsIn(gone) # {}
                \/ task[t].parts \cap PartsIn(gone) # {}}

\* assertPartInstancesHaveNoReceiptHistory
NotReceived(parts) == parts \cap Received = {}
\* assertTasksHaveNoLinkedPurchaseItems
NotBoughtFor(tasks) == \A i \in Bought : purchase[i].task \notin tasks

RemoveSubsystem(s) ==
  /\ s \in Present \ Cores
  /\ LET gone == Below(s)
     IN  /\ NotReceived(PartsIn(gone))
         /\ NotBoughtFor(TasksIn(gone))
         /\ project' = [b \in Subsystems |-> IF b \in gone THEN None ELSE project[b]]
         /\ parent' = [b \in Subsystems |-> IF b \in gone THEN None ELSE parent[b]]
         /\ home' = [m \in Mechanisms |-> IF m \in MechanismsIn(gone) THEN None ELSE home[m]]
         /\ part' = [x \in Parts |-> IF x \in PartsIn(gone) THEN None ELSE part[x]]
         /\ task' = [t \in Tasks |-> IF t \in TasksIn(gone) THEN None ELSE task[t]]
  /\ UNCHANGED <<defined, purchase, receipts>>

-----------------------------------------------------------------------------
(* Mechanisms.                                                             *)

\* a mechanism comes with the task of wiring it
CreateMechanism(m) ==
  /\ m \notin Mounted
  /\ \E s \in Present, t \in Tasks \ Open :
       /\ home' = [home EXCEPT ![m] = s]
       /\ task' = [task EXCEPT ![t] = GeneratedTask(project[s], s, {m})]
  /\ UNCHANGED <<project, parent, defined, part, purchase, receipts>>

\* The tasks on a mechanism follow it to another subsystem; they leave the old
\* one unless another of their mechanisms or parts is there.
StillThere(t, m) ==
  \/ \E other \in task[t].mechanisms \ {m} : home[other] = home[m]
  \/ \E x \in task[t].parts : /\ part[x] # None
                              /\ MechanismOf(part[x]) # m
                              /\ SubsystemOf(part[x]) = home[m]

FollowAndForget(t, m, s) ==   \* mutant: the old subsystem is dropped whatever else is there
  [task[t] EXCEPT !.subsystems = {s} \cup (@ \ {home[m]})]
Follow(t, m, s) ==
  [task[t] EXCEPT !.subsystems = {s} \cup {old \in @ : old # home[m] \/ StillThere(t, m)}]

UpdateMechanism(m) ==
  /\ m \in Mounted
  /\ \E s \in Present :
       /\ project[s] = project[home[m]]
       /\ home' = [home EXCEPT ![m] = s]
       /\ task' = [t \in Tasks |->
            IF t \in Open /\ m \in task[t].mechanisms THEN Follow(t, m, s) ELSE task[t]]
       /\ part' = [x \in Parts |->
            IF x \notin Instances THEN None
            ELSE IF MechanismOf(part[x]) # m THEN part[x]
            ELSE IF part[x].at = None THEN [part[x] EXCEPT !.subsystem = s]
            ELSE [part[x] EXCEPT !.subsystem = s, !.at.subsystem = s]]
  /\ UNCHANGED <<project, parent, defined, purchase, receipts>>

\* removing a mechanism only detaches what is on it
PartsLetGo(m) ==
  [x \in Parts |->
     IF x \notin Instances THEN None
     ELSE IF MechanismOf(part[x]) # m THEN part[x]
     ELSE IF part[x].at = None THEN [part[x] EXCEPT !.mechanism = None]
     ELSE [part[x] EXCEPT !.mechanism = None, !.at.mechanism = None]]
TasksLetGo(m) ==
  [t \in Tasks |-> IF t \in Open THEN [task[t] EXCEPT !.mechanisms = @ \ {m}] ELSE None]

RemoveMechanism(m) ==
  /\ m \in Mounted
  /\ home' = [home EXCEPT ![m] = None]
  /\ task' = TasksLetGo(m)
  /\ part' = PartsLetGo(m)
  /\ UNCHANGED <<project, parent, defined, purchase, receipts>>

-----------------------------------------------------------------------------
(* Part definitions and part instances.                                    *)

\* A definition, with the task that makes or buys it and, if it is bought, the
\* purchase: all of it or nothing.
CreateDefinition(d) ==
  /\ d \notin defined
  /\ defined' = defined \cup {d}
  /\ \/ UNCHANGED <<task, purchase>>
     \/ \E s \in Present, t \in Tasks \ Open, made \in BOOLEAN :
          /\ task' = [task EXCEPT ![t] =
               [GeneratedTask(project[s], s, {}) EXCEPT !.makes = IF made THEN d ELSE None]]
          /\ \/ made /\ UNCHANGED purchase
             \/ \E i \in Purchases \ Bought :
                  purchase' = [purchase EXCEPT ![i] = [task |-> t, of |-> d]]
  /\ UNCHANGED <<project, parent, home, part, receipts>>

\* tasks lose the parts that are removed
TasksWithout(parts) ==
  [t \in Tasks |-> IF t \in Open THEN [task[t] EXCEPT !.parts = @ \ parts] ELSE None]

RemoveDefinition(d) ==
  /\ d \in defined
  /\ \A t \in Open : task[t].makes # d
  /\ \A i \in Bought : purchase[i].of # d
  /\ LET gone == {x \in Instances : part[x].of = d}
     IN  /\ NotReceived(gone)
         /\ part' = [x \in Parts |-> IF x \in gone THEN None ELSE part[x]]
         /\ task' = TasksWithout(gone)
  /\ defined' = defined \ {d}
  /\ UNCHANGED <<project, parent, home, purchase, receipts>>

\* validatePartInstanceLinks: the place that counts exists, and the
\* mechanism there belongs to the subsystem there
ValidPart(x) ==
  /\ SubsystemOf(x) # None => SubsystemOf(x) \in Present
  /\ MechanismOf(x) # None => MechanismOf(x) \in Mounted /\ home[MechanismOf(x)] = SubsystemOf(x)
  /\ x.of \in defined

PartRecords ==
  [of : Definitions, subsystem : Subsystems \cup {None}, mechanism : Mechanisms \cup {None},
   at : Installed \cup {None}]

CreatePart(x) ==
  /\ x \notin Instances
  /\ \E record \in PartRecords :
       /\ ValidPart(record)
       /\ part' = [part EXCEPT ![x] = record]
  /\ UNCHANGED <<project, parent, home, defined, task, purchase, receipts>>

\* A patch is checked as what it leaves in place, and a field it clears as
\* what the field held, before the field is cleared.
CheckedAs(x, record) ==
  [record EXCEPT !.subsystem = IF @ = None THEN part[x].subsystem ELSE @,
                 !.mechanism = IF @ = None THEN part[x].mechanism ELSE @]

UpdatePart(x) ==
  /\ x \in Instances
  /\ \E record \in PartRecords :
       /\ ValidPart(CheckedAs(x, record))
       /\ record.of # part[x].of => NotReceived({x})
       /\ part' = [part EXCEPT ![x] = record]
  /\ UNCHANGED <<project, parent, home, defined, task, purchase, receipts>>

RemovePart(x) ==
  /\ x \in Instances
  /\ NotReceived({x})
  /\ part' = [part EXCEPT ![x] = None]
  /\ task' = TasksWithout({x})
  /\ UNCHANGED <<project, parent, home, defined, purchase, receipts>>

-----------------------------------------------------------------------------
(* Tasks and purchases.                                                    *)

\* normalizeTaskTargetIds: parts bring their mechanisms, both their subsystems
WithPlaces(t) ==
  LET mechanisms == (t.mechanisms \cup {MechanismOf(part[x]) : x \in t.parts \cap Instances}) \ {None}
      subsystems == (t.subsystems \cup {home[m] : m \in mechanisms \cap Mounted}
                       \cup {SubsystemOf(part[x]) : x \in t.parts \cap Instances}) \ {None}
  IN  [t EXCEPT !.mechanisms = mechanisms, !.subsystems = subsystems]

\* validateTaskLinks
ValidTask(t) ==
  /\ t.subsystems # {}
  /\ \A s \in t.subsystems : project[s] = t.project
  /\ t.mechanisms \subseteq Mounted
  /\ {home[m] : m \in t.mechanisms} \subseteq t.subsystems
  /\ \A x \in t.parts : /\ x \in Instances
                        /\ SubsystemOf(part[x]) \in t.subsystems
                        /\ MechanismOf(part[x]) \in t.mechanisms
  /\ t.makes \in defined \cup {None}

TaskRecords ==
  [project : Projects, subsystems : SUBSET Subsystems, mechanisms : SUBSET Mechanisms,
   parts : SUBSET Parts, makes : Definitions \cup {None}]

ASSUME StructureRecordsAssumption == None \notin PartRecords \cup TaskRecords \cup Installed

SaveTask(t) ==       \* create it, or update it
  /\ \E record \in TaskRecords :
       /\ ValidTask(WithPlaces(record))
       /\ task' = [task EXCEPT ![t] = WithPlaces(record)]
  /\ UNCHANGED <<project, parent, home, defined, part, purchase, receipts>>

RemoveTask(t) ==
  /\ t \in Open
  /\ NotBoughtFor({t})
  /\ task' = [task EXCEPT ![t] = None]
  /\ UNCHANGED <<project, parent, home, defined, part, purchase, receipts>>

CreatePurchase(i) ==
  /\ i \notin Bought
  /\ \E t \in Open, d \in defined \cup {None} : purchase' = [purchase EXCEPT ![i] = [task |-> t, of |-> d]]
  /\ UNCHANGED <<project, parent, home, defined, part, task, receipts>>

\* validateReceivedPurchaseItemUpdate; the task of a purchase never changes
UpdatePurchase(i) ==
  /\ i \in Bought
  /\ receipts[i] = {}
  /\ \E d \in defined \cup {None} : purchase' = [purchase EXCEPT ![i].of = d]
  /\ UNCHANGED <<project, parent, home, defined, part, task, receipts>>

RemovePurchase(i) ==
  /\ i \in Bought
  /\ receipts[i] = {}
  /\ purchase' = [purchase EXCEPT ![i] = None]
  /\ UNCHANGED <<project, parent, home, defined, part, task, receipts>>

\* receivePurchaseItem: a part in stock, intended for a subsystem of the task
Receive(i, x) ==
  /\ i \in Bought /\ x \notin Instances
  /\ purchase[i].of \in defined
  /\ \E s \in task[purchase[i].task].subsystems :
       part' = [part EXCEPT ![x] =
         [of |-> purchase[i].of, subsystem |-> s, mechanism |-> None, at |-> None]]
  /\ receipts' = [receipts EXCEPT ![i] = @ \cup {x}]
  /\ UNCHANGED <<project, parent, home, defined, task, purchase>>

Next ==
  \/ \E s \in Subsystems : CreateSubsystem(s) \/ UpdateSubsystem(s) \/ RemoveSubsystem(s)
  \/ \E m \in Mechanisms : CreateMechanism(m) \/ UpdateMechanism(m) \/ RemoveMechanism(m)
  \/ \E d \in Definitions : CreateDefinition(d) \/ RemoveDefinition(d)
  \/ \E x \in Parts : CreatePart(x) \/ UpdatePart(x) \/ RemovePart(x)
  \/ \E t \in Tasks : SaveTask(t) \/ RemoveTask(t)
  \/ \E i \in Purchases : CreatePurchase(i) \/ UpdatePurchase(i) \/ RemovePurchase(i)
  \/ \E i \in Purchases, x \in Parts : Receive(i, x)

Spec == Init /\ [][Next]_vars

-----------------------------------------------------------------------------
TypeOK ==
  /\ project \in [Subsystems -> Projects \cup {None}]
  /\ parent \in [Subsystems -> Subsystems \cup {None}]
  /\ home \in [Mechanisms -> Subsystems \cup {None}]
  /\ defined \subseteq Definitions
  /\ part \in [Parts -> PartRecords \cup {None}]
  /\ task \in [Tasks -> TaskRecords \cup {None}]
  /\ purchase \in [Purchases -> [task : Tasks, of : Definitions \cup {None}] \cup {None}]
  /\ receipts \in [Purchases -> SUBSET Parts]

\* The subsystems are a forest: a parent exists, in the same project, never
\* above itself, and a core subsystem is below nothing (updateSubsystem,
\* removeSubsystem; wouldCreateSubsystemCycle sees only the tree as it is).
SubsystemsFormForest ==
  \A s \in Subsystems :
     parent[s] # None =>
       /\ s \in Present \ Cores
       /\ project[parent[s]] = project[s]
       /\ parent[s] \notin Below(s)

\* Where a mechanism is, and where a part counts as being, exists, whatever
\* was removed since; a removed subsystem, mechanism or definition leaves
\* nothing behind for the next record with its id.
PlacesExist ==
  /\ \A m \in Mounted : home[m] \in Present
  /\ \A x \in Instances : /\ SubsystemOf(part[x]) \in Present \cup {None}
                          /\ MechanismOf(part[x]) \in Mounted \cup {None}
                          /\ part[x].of \in defined

\* A task's targets exist, in its project, at least one of them a subsystem,
\* and the subsystem of each of its mechanisms is among them, after every
\* move and removal of what it points at.
TargetsExist ==
  \A t \in Open :
     /\ task[t].subsystems # {}
     /\ \A s \in task[t].subsystems : project[s] = task[t].project
     /\ task[t].mechanisms \subseteq Mounted
     /\ {home[m] : m \in task[t].mechanisms} \subseteq task[t].subsystems
     /\ task[t].parts \subseteq Instances
     /\ task[t].makes \in defined \cup {None}

\* Receipts keep their parts: no cascade removes a part that was received, or
\* makes it one of another definition, or takes the purchase's task away.
ReceiptsKeepTheirParts ==
  \A i \in Purchases :
     /\ i \in Bought => purchase[i].task \in Open /\ purchase[i].of \in defined \cup {None}
     /\ receipts[i] # {} => i \in Bought
     /\ \A x \in receipts[i] : x \in Instances /\ part[x].of = purchase[i].of

\* Tasks and purchases name what there is.
ReferencesHold == TargetsExist /\ ReceiptsKeepTheirParts
=============================================================================
