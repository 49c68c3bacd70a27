-------------------------- MODULE WorkspaceProofs ---------------------------
(***************************************************************************)
(* Proofs about the records of the workspace, facet by facet, for any      *)
(* numbers of records, people, seasons and requests.                       *)
(***************************************************************************)
EXTENDS WorkspaceViews, FiniteSetTheorems, WellFoundedInduction, TLAPS

-----------------------------------------------------------------------------
(* The structure (Hierarchy).                                              *)

\* A part is on a mechanism of the subsystem it is in.
MechanismsAgree ==
  \A x \in Instances :
    MechanismOf(part[x]) # None /\ SubsystemOf(part[x]) # None =>
      home[MechanismOf(part[x])] = SubsystemOf(part[x])

StructureInv ==
  /\ TypeOK
  /\ SubsystemsFormForest /\ Cores \subseteq Present
  /\ PlacesExist
  /\ MechanismsAgree
  /\ ReferencesHold

\* A set of subsystems that contains whatever is below a member.
Closed(up, family) == \A c \in Subsystems : up[c] \in family => c \in family

LEMMA BelowIsClosed ==
    \A s \in Subsystems : Below(s) \subseteq Subsystems /\ s \in Below(s) /\ Closed(parent, Below(s))
  BY DEF Below, Closed

LEMMA BelowIsLeast ==
    \A s \in Subsystems : \A family \in SUBSET Subsystems :
      s \in family /\ Closed(parent, family) => Below(s) \subseteq family
  BY DEF Below, Closed

LEMMA PartPlaces ==
  TypeOK =>
    \A x \in Instances :
      /\ part[x] \in PartRecords
      /\ part[x].at # None => part[x].at \in Installed
      /\ SubsystemOf(part[x]) \in Subsystems \cup {None}
      /\ MechanismOf(part[x]) \in Mechanisms \cup {None}
<1> SUFFICES ASSUME TypeOK, NEW x \in Instances
             PROVE  /\ part[x] \in PartRecords
                    /\ part[x].at # None => part[x].at \in Installed
                    /\ SubsystemOf(part[x]) \in Subsystems \cup {None}
                    /\ MechanismOf(part[x]) \in Mechanisms \cup {None}
  OBVIOUS
<1>1. part[x] \in PartRecords
  BY DEF TypeOK, Instances
<1>2. part[x].at # None => part[x].at \in Installed
  BY <1>1 DEF PartRecords
<1> QED
  BY <1>1, <1>2 DEF PartRecords, Installed, SubsystemOf, MechanismOf

\* The subsystems stay a forest when one is put below another that is not
\* below it, the subsystems of a closed family go, or one comes.
LEMMA ForestMoved ==
    ASSUME TypeOK, SubsystemsFormForest, NEW s \in Subsystems \ Cores, NEW above \in Subsystems,
           above \notin Below(s), parent' = [parent EXCEPT ![s] = above],
           NEW b \in Subsystems, parent'[b] # None
    PROVE  parent'[b] \notin Below(b)'
<1> USE AbsentAssumption
<1>1. \A c \in Subsystems : parent'[c] = IF c = s THEN above ELSE parent[c]
  BY DEF TypeOK
<1>2. \A family \in SUBSET Subsystems : b \in family /\ Closed(parent', family) => Below(b)' \subseteq family
  BY DEF Below, Closed
<1>3. CASE b = s
  <2>1. Closed(parent', Below(s))
    BY <1>1, BelowIsClosed DEF Closed
  <2>2. Below(b)' \subseteq Below(s)
    BY <1>2, <1>3, <2>1, BelowIsClosed
  <2> QED
    BY <1>1, <1>3, <2>2
<1>4. CASE b # s
  <2>1. parent'[b] = parent[b] /\ parent[b] \notin Below(b)
    BY <1>1, <1>4 DEF SubsystemsFormForest
  <2>2. CASE above \in Below(b) => s \in Below(b)
    <3>1. Closed(parent', Below(b))
      BY <1>1, <2>2, BelowIsClosed DEF Closed
    <3> QED
      BY <1>2, <2>1, <3>1, BelowIsClosed
  <2>3. CASE above \in Below(b) /\ s \notin Below(b)
    <3>1. Closed(parent', Below(b) \cup Below(s))
      BY <1>1, BelowIsClosed DEF Closed
    <3>2. Below(b)' \subseteq Below(b) \cup Below(s)
      BY <1>2, <3>1, BelowIsClosed
    <3>3. b \notin Below(s)
      BY <2>3, BelowIsClosed, BelowIsLeast
    <3>4. parent[b] \notin Below(s)
      BY <3>3, BelowIsClosed DEF Closed
    <3> QED
      BY <2>1, <3>2, <3>4
  <2> QED
    BY <2>2, <2>3
<1> QED
  BY <1>3, <1>4

LEMMA ForestPruned ==
    ASSUME TypeOK, SubsystemsFormForest, NEW gone \in SUBSET Subsystems, Closed(parent, gone),
           parent' = [b \in Subsystems |-> IF b \in gone THEN None ELSE parent[b]],
           NEW b \in Subsystems, parent'[b] # None
    PROVE  b \notin gone /\ parent'[b] = parent[b] /\ parent[b] \notin gone /\ parent'[b] \notin Below(b)'
<1> USE AbsentAssumption
<1>1. b \notin gone /\ parent'[b] = parent[b]
  OBVIOUS
<1>2. parent[b] \notin gone
  BY <1>1 DEF Closed
<1>3. \A family \in SUBSET Subsystems : b \in family /\ Closed(parent', family) => Below(b)' \subseteq family
  BY DEF Below, Closed
<1>4. Closed(parent', Below(b))
  BY BelowIsClosed DEF Closed
<1>5. Below(b)' \subseteq Below(b)
  BY <1>3, <1>4, BelowIsClosed
<1> QED
  BY <1>1, <1>2, <1>5 DEF SubsystemsFormForest

LEMMA ForestKept ==
    ASSUME SubsystemsFormForest, UNCHANGED parent, NEW b \in Subsystems, parent'[b] # None
    PROVE  parent'[b] \notin Below(b)'
  BY DEF SubsystemsFormForest, Below

LEMMA PlacedType ==
    ASSUME TypeOK, NEW record \in TaskRecords PROVE WithPlaces(record) \in TaskRecords
<1>0. \A x \in Instances : /\ SubsystemOf(part[x]) \in Subsystems \cup {None}
                          /\ MechanismOf(part[x]) \in Mechanisms \cup {None}
  BY PartPlaces
<1>1. {MechanismOf(part[x]) : x \in record.parts \cap Instances} \subseteq Mechanisms \cup {None}
  BY <1>0
<1>2. {SubsystemOf(part[x]) : x \in record.parts \cap Instances} \subseteq Subsystems \cup {None}
  BY <1>0
<1>3. \A m \in Mounted : home[m] \in Subsystems
  BY DEF TypeOK, Mounted
<1> DEFINE mechanisms ==
             (record.mechanisms \cup {MechanismOf(part[x]) : x \in record.parts \cap Instances}) \ {None}
           subsystems ==
             (record.subsystems \cup {home[m] : m \in mechanisms \cap Mounted}
                \cup {SubsystemOf(part[x]) : x \in record.parts \cap Instances}) \ {None}
<1>4. WithPlaces(record) = [record EXCEPT !.mechanisms = mechanisms, !.subsystems = subsystems]
  BY DEF WithPlaces
<1>5. mechanisms \subseteq Mechanisms /\ subsystems \subseteq Subsystems
  BY <1>1, <1>2, <1>3 DEF TaskRecords
<1> HIDE DEF mechanisms, subsystems
<1> QED
  BY <1>4, <1>5 DEF TaskRecords

LEMMA StructureTypes ==
    ASSUME StructureInv, Next
    PROVE  TypeOK'
<1> USE AbsentAssumption DEF TypeOK
<1>0. TypeOK /\ ReferencesHold /\ PlacesExist
  BY DEF StructureInv
<1>1. \A s \in Present : project[s] \in Projects
  BY <1>0 DEF Present
<1>2. \A p \in Projects, s \in Subsystems, ms \in SUBSET Mechanisms :
        GeneratedTask(p, s, ms) \in TaskRecords
  BY DEF GeneratedTask, TaskRecords
<1>3. \A t \in Open : task[t] \in TaskRecords
  BY <1>0 DEF Open
<1>4. \A x \in Instances :
        /\ part[x] \in PartRecords
        /\ part[x].at # None => part[x].at \in Installed
        /\ SubsystemOf(part[x]) \in Subsystems \cup {None}
        /\ MechanismOf(part[x]) \in Mechanisms \cup {None}
  BY <1>0, PartPlaces
<1>5. ASSUME NEW s \in Subsystems, CreateSubsystem(s) PROVE TypeOK'
  BY <1>0, <1>2, <1>5 DEF CreateSubsystem, ParentsIn, Present, Open
<1>6. ASSUME NEW s \in Subsystems, UpdateSubsystem(s) PROVE TypeOK'
  BY <1>0, <1>6 DEF UpdateSubsystem, ParentsFor, ParentsIn, Present
<1>7. ASSUME NEW s \in Subsystems, RemoveSubsystem(s) PROVE TypeOK'
  BY <1>0, <1>7 DEF RemoveSubsystem
<1>8. ASSUME NEW m \in Mechanisms, CreateMechanism(m) PROVE TypeOK'
  BY <1>0, <1>1, <1>2, <1>8 DEF CreateMechanism, Present, Open
<1>9. ASSUME NEW m \in Mechanisms, UpdateMechanism(m) PROVE TypeOK'
  <2>1. PICK s \in Present :
          /\ home' = [home EXCEPT ![m] = s]
          /\ task' = [t \in Tasks |->
               IF t \in Open /\ m \in task[t].mechanisms THEN Follow(t, m, s) ELSE task[t]]
          /\ part' = [x \in Parts |->
               IF x \notin Instances THEN None
               ELSE IF MechanismOf(part[x]) # m THEN part[x]
               ELSE IF part[x].at = None THEN [part[x] EXCEPT !.subsystem = s]
               ELSE [part[x] EXCEPT !.subsystem = s, !.at.subsystem = s]]
    BY <1>9 DEF UpdateMechanism
  <2>2. s \in Subsystems
    BY DEF Present
  <2>3. home' \in [Mechanisms -> Subsystems \cup {None}]
    BY <1>0, <2>1, <2>2
  <2>4. \A t \in Open : Follow(t, m, s) \in TaskRecords
    BY <1>3, <2>2 DEF Follow, TaskRecords
  <2>5. task' \in [Tasks -> TaskRecords \cup {None}]
    BY <1>0, <2>1, <2>4
  <2>6. \A x \in Instances : [part[x] EXCEPT !.subsystem = s] \in PartRecords
    BY <1>4, <2>2 DEF PartRecords
  <2>7. \A x \in Instances : part[x].at # None => [part[x] EXCEPT !.subsystem = s, !.at.subsystem = s] \in PartRecords
    <3> SUFFICES ASSUME NEW x \in Instances, part[x].at # None
                 PROVE  [part[x] EXCEPT !.subsystem = s, !.at.subsystem = s] \in PartRecords
      OBVIOUS
    <3>1. [part[x].at EXCEPT !.subsystem = s] \in Installed
      BY <1>4, <2>2 DEF Installed
    <3>2. part[x] \in PartRecords
      BY <1>4
    <3> QED
      BY <2>2, <3>1, <3>2 DEF PartRecords
  <2>8. part' \in [Parts -> PartRecords \cup {None}]
    BY <1>4, <2>1, <2>6, <2>7
  <2> QED
    BY <1>0, <1>9, <2>3, <2>5, <2>8 DEF UpdateMechanism
<1>10. ASSUME NEW m \in Mechanisms, RemoveMechanism(m) PROVE TypeOK'
  <2>1. \A t \in Open : [task[t] EXCEPT !.mechanisms = @ \ {m}] \in TaskRecords
    BY <1>3 DEF TaskRecords
  <2>2. task' \in [Tasks -> TaskRecords \cup {None}]
    BY <1>10, <2>1 DEF RemoveMechanism, TasksLetGo
  <2>3. \A x \in Instances : [part[x] EXCEPT !.mechanism = None] \in PartRecords
    BY <1>4 DEF PartRecords
  <2>4. \A x \in Instances : part[x].at # None => [part[x] EXCEPT !.mechanism = None, !.at.mechanism = None] \in PartRecords
    <3> SUFFICES ASSUME NEW x \in Instances, part[x].at # None
                 PROVE  [part[x] EXCEPT !.mechanism = None, !.at.mechanism = None] \in PartRecords
      OBVIOUS
    <3>1. [part[x].at EXCEPT !.mechanism = None] \in Installed
      BY <1>4 DEF Installed
    <3>2. part[x] \in PartRecords
      BY <1>4
    <3> QED
      BY <3>1, <3>2 DEF PartRecords
  <2>5. part' \in [Parts -> PartRecords \cup {None}]
    BY <1>4, <1>10, <2>3, <2>4 DEF RemoveMechanism, PartsLetGo
  <2> QED
    BY <1>0, <1>10, <2>2, <2>5 DEF RemoveMechanism
<1>11. ASSUME NEW parts PROVE TasksWithout(parts) \in [Tasks -> TaskRecords \cup {None}]
  <2>1. \A t \in Open : [task[t] EXCEPT !.parts = @ \ parts] \in TaskRecords
    BY <1>3 DEF TaskRecords
  <2> QED
    BY <2>1 DEF TasksWithout
<1>12. ASSUME NEW d \in Definitions, CreateDefinition(d) PROVE TypeOK'
  <2>1. \A s \in Present : \A made \in BOOLEAN :
          [GeneratedTask(project[s], s, {}) EXCEPT !.makes = IF made THEN d ELSE None] \in TaskRecords
    BY <1>1 DEF GeneratedTask, TaskRecords, Present
  <2>2. task' \in [Tasks -> TaskRecords \cup {None}]
    BY <1>0, <1>12, <2>1 DEF CreateDefinition, Open
  <2>3. purchase' \in [Purchases -> [task : Tasks, of : Definitions \cup {None}] \cup {None}]
    BY <1>0, <1>12 DEF CreateDefinition, Open
  <2> QED
    BY <1>0, <1>12, <2>2, <2>3 DEF CreateDefinition
<1>13. ASSUME NEW d \in Definitions, RemoveDefinition(d) PROVE TypeOK'
  BY <1>0, <1>11, <1>13 DEF RemoveDefinition
<1>14. ASSUME NEW x \in Parts, CreatePart(x) PROVE TypeOK'
  BY <1>0, <1>14 DEF CreatePart
<1>15. ASSUME NEW x \in Parts, UpdatePart(x) PROVE TypeOK'
  BY <1>0, <1>15 DEF UpdatePart
<1>16. ASSUME NEW x \in Parts, RemovePart(x) PROVE TypeOK'
  BY <1>0, <1>11, <1>16 DEF RemovePart
<1>17. ASSUME NEW t \in Tasks, SaveTask(t) PROVE TypeOK'
  <2>1. \A record \in TaskRecords : WithPlaces(record) \in TaskRecords
    BY <1>0, PlacedType
  <2> QED
    BY <1>0, <1>17, <2>1 DEF SaveTask
<1>18. ASSUME NEW t \in Tasks, RemoveTask(t) PROVE TypeOK'
  BY <1>0, <1>18 DEF RemoveTask
<1>19. ASSUME NEW i \in Purchases, CreatePurchase(i) PROVE TypeOK'
  BY <1>0, <1>19 DEF CreatePurchase, Open
<1>20. ASSUME NEW i \in Purchases, UpdatePurchase(i) PROVE TypeOK'
  <2>1. \A d \in Definitions \cup {None} :
          [purchase[i] EXCEPT !.of = d] \in [task : Tasks, of : Definitions \cup {None}]
    BY <1>0, <1>20 DEF UpdatePurchase, Bought
  <2> QED
    BY <1>0, <1>20, <2>1 DEF UpdatePurchase
<1>21. ASSUME NEW i \in Purchases, RemovePurchase(i) PROVE TypeOK'
  BY <1>0, <1>21 DEF RemovePurchase
<1>22. ASSUME NEW i \in Purchases, NEW x \in Parts, Receive(i, x) PROVE TypeOK'
  <2>1. purchase[i].of \in Definitions /\ purchase[i].task \in Open
    BY <1>0, <1>22 DEF Receive, ReferencesHold, ReceiptsKeepTheirParts
  <2>2. \A s \in task[purchase[i].task].subsystems :
          [of |-> purchase[i].of, subsystem |-> s, mechanism |-> None, at |-> None] \in PartRecords
    BY <1>3, <2>1 DEF PartRecords, TaskRecords
  <2>3. part' \in [Parts -> PartRecords \cup {None}]
    BY <1>0, <1>22, <2>2 DEF Receive
  <2> QED
    BY <1>0, <1>22, <2>3 DEF Receive
<1> QED
  BY <1>5, <1>6, <1>7, <1>8, <1>9, <1>10, <1>12, <1>13, <1>14, <1>15, <1>16, <1>17, <1>18, <1>19,
     <1>20, <1>21, <1>22 DEF Next

LEMMA StructureForest ==
    ASSUME StructureInv, Next
    PROVE  SubsystemsFormForest' /\ (Cores \subseteq Present)'
<1> USE AbsentAssumption
<1>0. TypeOK /\ SubsystemsFormForest /\ Cores \subseteq Present
  BY DEF StructureInv
<1>1. \A s \in Subsystems : parent[s] # None => parent[s] \in Present
  BY <1>0 DEF TypeOK, SubsystemsFormForest, Present
<1>2. CASE UNCHANGED <<project, parent>>
  BY <1>0, <1>2, ForestKept DEF SubsystemsFormForest, Present
<1>3. ASSUME NEW s \in Subsystems, CreateSubsystem(s) PROVE SubsystemsFormForest' /\ (Cores \subseteq Present)'
  <2>1. PICK p \in Projects :
          /\ project' = [project EXCEPT ![s] = p]
          /\ \/ UNCHANGED parent
             \/ \E above \in ParentsIn(p) : parent' = [parent EXCEPT ![s] = above]
    BY <1>3 DEF CreateSubsystem
  <2>2. s \notin Present /\ s \notin Cores /\ parent[s] = None
    BY <1>0, <1>3 DEF CreateSubsystem, SubsystemsFormForest, Present
  <2>3. \A c \in Subsystems : parent[c] # s
    BY <1>1, <2>2
  <2>4. \A c \in Subsystems : project'[c] = IF c = s THEN p ELSE project[c]
    BY <1>0, <2>1 DEF TypeOK
  <2>5. CASE UNCHANGED parent
    BY CoresAssumption, <1>0, <1>1, <2>2, <2>3, <2>4, <2>5, ForestKept DEF SubsystemsFormForest, Present
  <2>6. ASSUME NEW above \in ParentsIn(p), parent' = [parent EXCEPT ![s] = above]
        PROVE  SubsystemsFormForest' /\ (Cores \subseteq Present)'
    <3>1. above \in Present /\ project[above] = p
      BY DEF ParentsIn
    <3>2. above \notin Below(s)
      <4>1. Closed(parent, {s})
        BY <2>3 DEF Closed
      <4> QED
        BY <2>2, <3>1, <4>1, BelowIsLeast
    <3>3. \A c \in Subsystems : parent'[c] = IF c = s THEN above ELSE parent[c]
      BY <1>0, <2>6 DEF TypeOK
    <3>4. \A c \in Subsystems : parent'[c] # None => parent'[c] \notin Below(c)'
      BY <1>0, <2>2, <2>6, <3>1, <3>2, ForestMoved DEF Present
    <3> QED
      BY <1>0, <1>1, <2>2, <2>3, <2>4, <3>1, <3>3, <3>4 DEF SubsystemsFormForest, Present
  <2> QED
    BY <2>1, <2>5, <2>6
<1>4. ASSUME NEW s \in Subsystems, UpdateSubsystem(s) PROVE SubsystemsFormForest' /\ (Cores \subseteq Present)'
  <2>1. PICK above \in ParentsFor(s) : parent' = [parent EXCEPT ![s] = above]
    BY <1>4 DEF UpdateSubsystem
  <2>2. s \in Present /\ UNCHANGED project
    BY <1>4 DEF UpdateSubsystem
  <2>3. \A c \in Subsystems : parent'[c] = IF c = s THEN above ELSE parent[c]
    BY <1>0, <2>1 DEF TypeOK
  <2>4. CASE above = None
    <3>1. \A c \in Subsystems : Closed(parent', Below(c))
      BY <2>3, <2>4, BelowIsClosed DEF Closed
    <3>2. \A c \in Subsystems : Below(c)' \subseteq Below(c)
      BY <3>1, BelowIsClosed DEF Below, Closed
    <3> QED
      BY <1>0, <2>2, <2>3, <2>4, <3>2 DEF SubsystemsFormForest, Present
  <2>5. CASE above # None
    <3>1. s \notin Cores /\ above \in ParentsIn(project[s]) /\ above \notin Below(s)
      BY <2>1, <2>5 DEF ParentsFor, WouldCreateCycle
    <3>2. above \in Present /\ project[above] = project[s]
      BY <3>1 DEF ParentsIn
    <3>3. \A c \in Subsystems : parent'[c] # None => parent'[c] \notin Below(c)'
      BY <1>0, <2>1, <3>1, <3>2, ForestMoved DEF Present
    <3> QED
      BY <1>0, <2>2, <2>3, <3>1, <3>2, <3>3 DEF SubsystemsFormForest, Present
  <2> QED
    BY <2>4, <2>5
<1>5. ASSUME NEW s \in Subsystems, RemoveSubsystem(s) PROVE SubsystemsFormForest' /\ (Cores \subseteq Present)'
  <2> DEFINE gone == Below(s)
  <2>1. /\ parent' = [b \in Subsystems |-> IF b \in gone THEN None ELSE parent[b]]
        /\ project' = [b \in Subsystems |-> IF b \in gone THEN None ELSE project[b]]
    BY <1>5 DEF RemoveSubsystem
  <2>2. gone \in SUBSET Subsystems /\ Closed(parent, gone)
    BY BelowIsClosed
  <2> HIDE DEF gone
  <2>3. \A b \in Subsystems : parent'[b] # None =>
          b \notin gone /\ parent'[b] = parent[b] /\ parent[b] \notin gone /\ parent'[b] \notin Below(b)'
    BY <1>0, <2>1, <2>2, ForestPruned
  <2>4. gone \cap Cores = {}
    <3>1. s \notin Cores
      BY <1>5 DEF RemoveSubsystem
    <3>2. Closed(parent, Below(s) \ Cores)
      BY <1>0, BelowIsClosed DEF Closed, SubsystemsFormForest
    <3> QED
      BY <3>1, <3>2, BelowIsClosed, BelowIsLeast DEF gone
  <2> QED
    BY <1>0, <1>1, <2>1, <2>3, <2>4 DEF SubsystemsFormForest, Present
<1>6. ASSUME NEW m \in Mechanisms, CreateMechanism(m) \/ UpdateMechanism(m) \/ RemoveMechanism(m)
      PROVE  UNCHANGED <<project, parent>>
  BY <1>6 DEF CreateMechanism, UpdateMechanism, RemoveMechanism
<1>7. ASSUME NEW d \in Definitions, CreateDefinition(d) \/ RemoveDefinition(d)
      PROVE  UNCHANGED <<project, parent>>
  BY <1>7 DEF CreateDefinition, RemoveDefinition
<1>8. ASSUME NEW x \in Parts, CreatePart(x) \/ UpdatePart(x) \/ RemovePart(x)
      PROVE  UNCHANGED <<project, parent>>
  BY <1>8 DEF CreatePart, UpdatePart, RemovePart
<1>9. ASSUME NEW t \in Tasks, SaveTask(t) \/ RemoveTask(t) PROVE UNCHANGED <<project, parent>>
  BY <1>9 DEF SaveTask, RemoveTask
<1>10. ASSUME NEW i \in Purchases, CreatePurchase(i) \/ UpdatePurchase(i) \/ RemovePurchase(i)
       PROVE  UNCHANGED <<project, parent>>
  BY <1>10 DEF CreatePurchase, UpdatePurchase, RemovePurchase
<1>11. ASSUME NEW i \in Purchases, NEW x \in Parts, Receive(i, x) PROVE UNCHANGED <<project, parent>>
  BY <1>11 DEF Receive
<1> QED
  BY <1>2, <1>3, <1>4, <1>5, <1>6, <1>7, <1>8, <1>9, <1>10, <1>11 DEF Next

\* What moving and removing a mechanism does to the parts on it.
LEMMA MovedParts ==
    ASSUME StructureInv, NEW m \in Mechanisms, NEW s \in Subsystems,
           part' = [x \in Parts |->
             IF x \notin Instances THEN None
             ELSE IF MechanismOf(part[x]) # m THEN part[x]
             ELSE IF part[x].at = None THEN [part[x] EXCEPT !.subsystem = s]
             ELSE [part[x] EXCEPT !.subsystem = s, !.at.subsystem = s]]
    PROVE  /\ Instances' = Instances
           /\ \A x \in Instances :
                /\ part'[x].of = part[x].of
                /\ MechanismOf(part'[x]) = MechanismOf(part[x])
                /\ SubsystemOf(part'[x]) = IF MechanismOf(part[x]) = m THEN s ELSE SubsystemOf(part[x])
<1> USE StructureRecordsAssumption
<1>0. TypeOK
  BY DEF StructureInv
<1>1. ASSUME NEW x \in Instances
      PROVE  /\ part'[x] # None
             /\ part'[x].of = part[x].of
             /\ MechanismOf(part'[x]) = MechanismOf(part[x])
             /\ SubsystemOf(part'[x]) = IF MechanismOf(part[x]) = m THEN s ELSE SubsystemOf(part[x])
  <2>1. part[x] \in PartRecords /\ x \in Parts /\ (part[x].at # None => part[x].at \in Installed)
    BY <1>0, PartPlaces DEF Instances
  <2>2. CASE MechanismOf(part[x]) # m
    BY <2>1, <2>2 DEF Instances
  <2>3. CASE MechanismOf(part[x]) = m /\ part[x].at = None
    <3>1. part'[x] = [part[x] EXCEPT !.subsystem = s]
      BY <2>1, <2>3
    <3>2. part'[x] \in PartRecords
      BY <2>1, <3>1 DEF PartRecords
    <3> QED
      BY <2>1, <2>3, <3>1, <3>2 DEF PartRecords, MechanismOf, SubsystemOf
  <2>4. CASE MechanismOf(part[x]) = m /\ part[x].at # None
    <3> DEFINE at == [part[x].at EXCEPT !.subsystem = s]
    <3>1. part'[x] = [part[x] EXCEPT !.subsystem = s, !.at = at]
      BY <2>1, <2>4
    <3>2. at \in Installed /\ at.subsystem = s /\ at.mechanism = part[x].at.mechanism /\ at # None
      BY <2>1, <2>4 DEF Installed
    <3> HIDE DEF at
    <3>3. part'[x] \in PartRecords
      BY <2>1, <3>1, <3>2 DEF PartRecords
    <3>4. part'[x].at = at /\ part'[x].of = part[x].of
      BY <2>1, <3>1 DEF PartRecords
    <3>5. part'[x] # None
      BY <3>3
    <3>6. MechanismOf(part'[x]) = at.mechanism /\ SubsystemOf(part'[x]) = at.subsystem
      BY <3>2, <3>4 DEF MechanismOf, SubsystemOf
    <3>7. MechanismOf(part[x]) = part[x].at.mechanism /\ SubsystemOf(part[x]) = part[x].at.subsystem
      BY <2>4 DEF MechanismOf, SubsystemOf
    <3> QED
      BY <2>4, <3>2, <3>4, <3>5, <3>6, <3>7
  <2> QED
    BY <2>2, <2>3, <2>4
<1> QED
  BY <1>1 DEF Instances

LEMMA FreedParts ==
    ASSUME StructureInv, NEW m \in Mechanisms, part' = PartsLetGo(m)
    PROVE  /\ Instances' = Instances
           /\ \A x \in Instances :
                /\ part'[x].of = part[x].of
                /\ MechanismOf(part'[x]) = IF MechanismOf(part[x]) = m THEN None ELSE MechanismOf(part[x])
                /\ SubsystemOf(part'[x]) = SubsystemOf(part[x])
<1> USE StructureRecordsAssumption DEF PartsLetGo
<1>0. TypeOK
  BY DEF StructureInv
<1>1. ASSUME NEW x \in Instances
      PROVE  /\ part'[x] # None
             /\ part'[x].of = part[x].of
             /\ MechanismOf(part'[x]) = IF MechanismOf(part[x]) = m THEN None ELSE MechanismOf(part[x])
             /\ SubsystemOf(part'[x]) = SubsystemOf(part[x])
  <2>1. part[x] \in PartRecords /\ x \in Parts /\ (part[x].at # None => part[x].at \in Installed)
    BY <1>0, PartPlaces DEF Instances
  <2>2. CASE MechanismOf(part[x]) # m
    BY <2>1, <2>2 DEF Instances
  <2>3. CASE MechanismOf(part[x]) = m /\ part[x].at = None
    <3>1. part'[x] = [part[x] EXCEPT !.mechanism = None]
      BY <2>1, <2>3
    <3>2. part'[x] \in PartRecords
      BY <2>1, <3>1 DEF PartRecords
    <3> QED
      BY <2>1, <2>3, <3>1, <3>2 DEF PartRecords, MechanismOf, SubsystemOf
  <2>4. CASE MechanismOf(part[x]) = m /\ part[x].at # None
    <3> DEFINE at == [part[x].at EXCEPT !.mechanism = None]
    <3>1. part'[x] = [part[x] EXCEPT !.mechanism = None, !.at = at]
      BY <2>1, <2>4
    <3>2. at \in Installed /\ at.mechanism = None /\ at.subsystem = part[x].at.subsystem /\ at # None
      BY <2>1, <2>4 DEF Installed
    <3> HIDE DEF at
    <3>3. part'[x] \in PartRecords
      BY <2>1, <3>1, <3>2 DEF PartRecords
    <3>4. part'[x].at = at /\ part'[x].of = part[x].of
      BY <2>1, <3>1 DEF PartRecords
    <3>5. part'[x] # None
      BY <3>3
    <3>6. MechanismOf(part'[x]) = at.mechanism /\ SubsystemOf(part'[x]) = at.subsystem
      BY <3>2, <3>4 DEF MechanismOf, SubsystemOf
    <3>7. MechanismOf(part[x]) = part[x].at.mechanism /\ SubsystemOf(part[x]) = part[x].at.subsystem
      BY <2>4 DEF MechanismOf, SubsystemOf
    <3> QED
      BY <2>4, <3>2, <3>4, <3>5, <3>6, <3>7
  <2> QED
    BY <2>2, <2>3, <2>4
<1> QED
  BY <1>1 DEF Instances

LEMMA StructurePlaces ==
    ASSUME StructureInv, Next
    PROVE  PlacesExist' /\ MechanismsAgree'
<1> USE AbsentAssumption
<1>0. TypeOK /\ PlacesExist /\ MechanismsAgree
  BY DEF StructureInv
<1>1. \A x \in Instances :
        /\ part[x] \in PartRecords
        /\ SubsystemOf(part[x]) \in Subsystems \cup {None}
        /\ MechanismOf(part[x]) \in Mechanisms \cup {None}
  BY <1>0, PartPlaces
<1>2. CASE UNCHANGED <<project, home, defined, part>>
  BY <1>0, <1>2 DEF PlacesExist, MechanismsAgree, Mounted, Instances, Present
<1>3. ASSUME NEW s \in Subsystems, CreateSubsystem(s) PROVE PlacesExist' /\ MechanismsAgree'
  <2>1. Present \subseteq Present'
    BY <1>0, <1>3 DEF CreateSubsystem, Present, TypeOK
  <2>2. UNCHANGED <<home, part, defined>>
    BY <1>3 DEF CreateSubsystem
  <2> QED
    BY <1>0, <2>1, <2>2 DEF PlacesExist, MechanismsAgree, Mounted, Instances
<1>4. ASSUME NEW s \in Subsystems, UpdateSubsystem(s) PROVE UNCHANGED <<project, home, defined, part>>
  BY <1>4 DEF UpdateSubsystem
<1>5. ASSUME NEW s \in Subsystems, RemoveSubsystem(s) PROVE PlacesExist' /\ MechanismsAgree'
  <2> DEFINE gone == Below(s)
  <2>1. /\ project' = [b \in Subsystems |-> IF b \in gone THEN None ELSE project[b]]
        /\ home' = [m \in Mechanisms |-> IF m \in MechanismsIn(gone) THEN None ELSE home[m]]
        /\ part' = [x \in Parts |-> IF x \in PartsIn(gone) THEN None ELSE part[x]]
        /\ UNCHANGED defined
    BY <1>5 DEF RemoveSubsystem
  <2> HIDE DEF gone
  <2>2. \A m \in Mounted' : m \in Mounted /\ home'[m] = home[m] /\ home[m] \in Present'
    BY <1>0, <2>1 DEF Mounted, MechanismsIn, PlacesExist, Present
  <2>3. \A x \in Instances' : /\ x \in Instances /\ part'[x] = part[x]
                              /\ SubsystemOf(part[x]) \notin gone
                              /\ MechanismOf(part[x]) \notin MechanismsIn(gone)
    BY <2>1 DEF Instances, PartsIn
  <2>4. \A x \in Instances' : /\ SubsystemOf(part[x]) \in Present' \cup {None}
                              /\ MechanismOf(part[x]) \in Mounted' \cup {None}
                              /\ MechanismOf(part[x]) # None => home'[MechanismOf(part[x])] = home[MechanismOf(part[x])]
    BY <1>0, <1>1, <2>1, <2>3 DEF PlacesExist, Present, Mounted
  <2> QED
    BY <1>0, <2>1, <2>2, <2>3, <2>4 DEF PlacesExist, MechanismsAgree
<1>6. ASSUME NEW m \in Mechanisms, CreateMechanism(m) PROVE PlacesExist' /\ MechanismsAgree'
  <2>1. PICK s \in Present : home' = [home EXCEPT ![m] = s]
    BY <1>6 DEF CreateMechanism
  <2>2. UNCHANGED <<project, part, defined>> /\ m \notin Mounted
    BY <1>6 DEF CreateMechanism
  <2>3. \A n \in Mechanisms : home'[n] = IF n = m THEN s ELSE home[n]
    BY <1>0, <2>1 DEF TypeOK
  <2> QED
    BY <1>0, <2>2, <2>3 DEF PlacesExist, MechanismsAgree, Mounted, Instances, Present
<1>7. ASSUME NEW m \in Mechanisms, UpdateMechanism(m) PROVE PlacesExist' /\ MechanismsAgree'
  <2>1. PICK s \in Present :
          /\ home' = [home EXCEPT ![m] = s]
          /\ part' = [x \in Parts |->
               IF x \notin Instances THEN None
               ELSE IF MechanismOf(part[x]) # m THEN part[x]
               ELSE IF part[x].at = None THEN [part[x] EXCEPT !.subsystem = s]
               ELSE [part[x] EXCEPT !.subsystem = s, !.at.subsystem = s]]
    BY <1>7 DEF UpdateMechanism
  <2>2. UNCHANGED <<project, defined>> /\ m \in Mounted
    BY <1>7 DEF UpdateMechanism
  <2>3. \A n \in Mechanisms : home'[n] = IF n = m THEN s ELSE home[n]
    BY <1>0, <2>1 DEF TypeOK
  <2>4. /\ Instances' = Instances
        /\ \A x \in Instances :
             /\ part'[x].of = part[x].of
             /\ MechanismOf(part'[x]) = MechanismOf(part[x])
             /\ SubsystemOf(part'[x]) = IF MechanismOf(part[x]) = m THEN s ELSE SubsystemOf(part[x])
    BY <2>1, MovedParts DEF Present
  <2>5. Present' = Present /\ Mounted' = Mounted /\ s # None
    BY <2>2, <2>3 DEF Present, Mounted
  <2> QED
    BY <1>0, <2>2, <2>3, <2>4, <2>5 DEF PlacesExist, MechanismsAgree, Mounted
<1>8. ASSUME NEW m \in Mechanisms, RemoveMechanism(m) PROVE PlacesExist' /\ MechanismsAgree'
  <2>1. home' = [home EXCEPT ![m] = None] /\ part' = PartsLetGo(m) /\ UNCHANGED <<project, defined>>
    BY <1>8 DEF RemoveMechanism
  <2>2. \A n \in Mechanisms : home'[n] = IF n = m THEN None ELSE home[n]
    BY <1>0, <2>1 DEF TypeOK
  <2>3. /\ Instances' = Instances
        /\ \A x \in Instances :
             /\ part'[x].of = part[x].of
             /\ MechanismOf(part'[x]) = IF MechanismOf(part[x]) = m THEN None ELSE MechanismOf(part[x])
             /\ SubsystemOf(part'[x]) = SubsystemOf(part[x])
    BY <2>1, FreedParts
  <2>4. Present' = Present /\ Mounted' = Mounted \ {m}
    BY <2>1, <2>2 DEF Present, Mounted
  <2> QED
    BY <1>0, <2>1, <2>2, <2>3, <2>4 DEF PlacesExist, MechanismsAgree, Mounted
<1>9. ASSUME NEW d \in Definitions, CreateDefinition(d) PROVE PlacesExist' /\ MechanismsAgree'
  BY <1>0, <1>9 DEF CreateDefinition, PlacesExist, MechanismsAgree, Mounted, Instances, Present
<1>10. ASSUME NEW d \in Definitions, RemoveDefinition(d) PROVE PlacesExist' /\ MechanismsAgree'
  <2>1. /\ part' = [x \in Parts |-> IF x \in {y \in Instances : part[y].of = d} THEN None ELSE part[x]]
        /\ defined' = defined \ {d} /\ UNCHANGED <<project, home>>
    BY <1>10 DEF RemoveDefinition
  <2>2. \A x \in Instances' : x \in Instances /\ part'[x] = part[x] /\ part[x].of # d
    BY <2>1 DEF Instances
  <2> QED
    BY <1>0, <2>1, <2>2 DEF PlacesExist, MechanismsAgree, Mounted, Present
<1>11. ASSUME NEW x \in Parts, NEW record \in PartRecords, part' = [part EXCEPT ![x] = record],
              SubsystemOf(record) \in Present \cup {None}, MechanismOf(record) \in Mounted \cup {None},
              record.of \in defined,
              MechanismOf(record) # None /\ SubsystemOf(record) # None =>
                home[MechanismOf(record)] = SubsystemOf(record),
              UNCHANGED <<project, home, defined>>
       PROVE  PlacesExist' /\ MechanismsAgree'
  <2>1. \A y \in Parts : part'[y] = IF y = x THEN record ELSE part[y]
    BY <1>0, <1>11 DEF TypeOK
  <2>2. \A y \in Instances' : y = x \/ y \in Instances
    BY <2>1 DEF Instances
  <2>3. Instances' \subseteq Parts
    BY DEF Instances
  <2> QED
    BY <1>0, <1>11, <2>1, <2>2, <2>3 DEF PlacesExist, MechanismsAgree, Mounted, Present
<1>12. ASSUME NEW x \in Parts, CreatePart(x) PROVE PlacesExist' /\ MechanismsAgree'
  <2>1. PICK record \in PartRecords : ValidPart(record) /\ part' = [part EXCEPT ![x] = record]
    BY <1>12 DEF CreatePart
  <2>2. UNCHANGED <<project, home, defined>>
    BY <1>12 DEF CreatePart
  <2> QED
    BY <1>11, <2>1, <2>2 DEF ValidPart
<1>13. ASSUME NEW x \in Parts, UpdatePart(x) PROVE PlacesExist' /\ MechanismsAgree'
  <2>1. PICK record \in PartRecords :
          ValidPart(CheckedAs(x, record)) /\ part' = [part EXCEPT ![x] = record]
    BY <1>13 DEF UpdatePart
  <2>2. UNCHANGED <<project, home, defined>>
    BY <1>13 DEF UpdatePart
  <2> DEFINE asked == CheckedAs(x, record)
  <2>3. /\ asked.of = record.of /\ asked.at = record.at
        /\ record.subsystem # None => asked.subsystem = record.subsystem
        /\ record.mechanism # None => asked.mechanism = record.mechanism
    BY DEF CheckedAs, PartRecords
  <2>4. /\ SubsystemOf(record) # None => SubsystemOf(asked) = SubsystemOf(record)
        /\ MechanismOf(record) # None => MechanismOf(asked) = MechanismOf(record)
    BY <2>3 DEF SubsystemOf, MechanismOf
  <2>5. ValidPart(asked)
    BY <2>1
  <2> HIDE DEF asked
  <2> QED
    BY <1>11, <2>1, <2>2, <2>3, <2>4, <2>5 DEF ValidPart
<1>14. ASSUME NEW x \in Parts, RemovePart(x) PROVE PlacesExist' /\ MechanismsAgree'
  <2>1. /\ part' = [part EXCEPT ![x] = None] /\ UNCHANGED <<project, home, defined>>
    BY <1>14 DEF RemovePart
  <2>2. \A y \in Instances' : y \in Instances /\ part'[y] = part[y]
    BY <1>0, <2>1 DEF Instances, TypeOK
  <2> QED
    BY <1>0, <2>1, <2>2 DEF PlacesExist, MechanismsAgree, Mounted, Present
<1>15. ASSUME NEW t \in Tasks, SaveTask(t) \/ RemoveTask(t) PROVE UNCHANGED <<project, home, defined, part>>
  BY <1>15 DEF SaveTask, RemoveTask
<1>16. ASSUME NEW i \in Purchases, CreatePurchase(i) \/ UpdatePurchase(i) \/ RemovePurchase(i)
       PROVE  UNCHANGED <<project, home, defined, part>>
  BY <1>16 DEF CreatePurchase, UpdatePurchase, RemovePurchase
<1>17. ASSUME NEW i \in Purchases, NEW x \in Parts, Receive(i, x) PROVE PlacesExist' /\ MechanismsAgree'
  <2>1. PICK s \in task[purchase[i].task].subsystems :
          part' = [part EXCEPT ![x] =
            [of |-> purchase[i].of, subsystem |-> s, mechanism |-> None, at |-> None]]
    BY <1>17 DEF Receive
  <2>2. purchase[i].task \in Open /\ purchase[i].of \in defined /\ UNCHANGED <<project, home, defined>>
    BY <1>17 DEF Receive, StructureInv, ReferencesHold, ReceiptsKeepTheirParts
  <2>3. task[purchase[i].task] \in TaskRecords /\ defined \subseteq Definitions
    BY <1>0, <2>2 DEF TypeOK, Open
  <2>4. s \in Present
    BY <2>2, <2>3 DEF StructureInv, ReferencesHold, TargetsExist, Present, TaskRecords
  <2> DEFINE record == [of |-> purchase[i].of, subsystem |-> s, mechanism |-> None, at |-> None]
  <2>5. record \in PartRecords
    BY <2>2, <2>3, <2>4 DEF PartRecords, Present
  <2>6. SubsystemOf(record) = s /\ MechanismOf(record) = None /\ record.of \in defined
    BY <2>2 DEF SubsystemOf, MechanismOf
  <2>7. part' = [part EXCEPT ![x] = record]
    BY <2>1
  <2> HIDE DEF record
  <2> QED
    BY <1>11, <2>2, <2>4, <2>5, <2>6, <2>7
<1> QED
  BY <1>2, <1>3, <1>4, <1>5, <1>6, <1>7, <1>8, <1>9, <1>10, <1>12, <1>13, <1>14, <1>15, <1>16, <1>17
     DEF Next

\* What TargetsExist says of one task.
WellPlaced(t) ==
  /\ t.subsystems # {}
  /\ \A s \in t.subsystems : project[s] = t.project
  /\ \A m \in t.mechanisms : m \in Mounted /\ home[m] \in t.subsystems
  /\ t.parts \subseteq Instances
  /\ t.makes \in defined \cup {None}

LEMMA StructureTargets ==
    ASSUME StructureInv, Next
    PROVE  TargetsExist'
<1> USE AbsentAssumption, StructureRecordsAssumption
<1>0. TypeOK /\ PlacesExist /\ ReferencesHold
  BY DEF StructureInv
<1>1. \A t \in Open : /\ t \in Tasks /\ task[t] \in TaskRecords /\ WellPlaced(task[t])
                      /\ task[t].subsystems \subseteq Present
  BY <1>0 DEF TypeOK, ReferencesHold, TargetsExist, WellPlaced, Open, Present, TaskRecords
<1>2. SUFFICES \A t \in Open' : WellPlaced(task[t])'
  BY DEF TargetsExist, WellPlaced
<1> USE DEF WellPlaced
<1>3. ASSUME UNCHANGED task, Present \subseteq Present', \A s \in Present : project'[s] = project[s],
             \A m \in Mounted : home'[m] = home[m], Instances \subseteq Instances', defined \subseteq defined'
      PROVE  \A t \in Open' : WellPlaced(task[t])'
  BY <1>1, <1>3 DEF Open, Mounted
<1>4. ASSUME NEW p \in Projects, NEW s \in Subsystems, NEW mechanisms \in SUBSET Mechanisms,
             \A m \in mechanisms : home'[m] = s, project'[s] = p,
             NEW new, new.subsystems = {s}, new.project = p, new.mechanisms = mechanisms,
             new.parts = {}, new.makes \in defined' \cup {None}
      PROVE  WellPlaced(new)'
  BY <1>4 DEF Mounted
<1>5. ASSUME NEW s \in Subsystems, CreateSubsystem(s) PROVE \A t \in Open' : WellPlaced(task[t])'
  <2>1. PICK p \in Projects :
          /\ project' = [project EXCEPT ![s] = p]
          /\ \/ UNCHANGED task
             \/ \E above \in ParentsIn(p), t \in Tasks \ Open :
                  task' = [task EXCEPT ![t] = GeneratedTask(p, above, {})]
    BY <1>5 DEF CreateSubsystem
  <2>2. s \notin Present /\ UNCHANGED <<home, part, defined>>
    BY <1>5 DEF CreateSubsystem
  <2>3. \A c \in Present : c \in Present' /\ project'[c] = project[c]
    BY <1>0, <2>1, <2>2 DEF TypeOK, Present
  <2>4. Mounted' = Mounted /\ Instances' = Instances
    BY <2>2 DEF Mounted, Instances
  <2>5. CASE UNCHANGED task
    BY <1>3, <2>2, <2>3, <2>4, <2>5
  <2>6. ASSUME NEW above \in ParentsIn(p), NEW u \in Tasks \ Open,
               task' = [task EXCEPT ![u] = GeneratedTask(p, above, {})]
        PROVE  \A t \in Open' : WellPlaced(task[t])'
    <3>1. above \in Present /\ project[above] = p
      BY DEF ParentsIn
    <3>2. PICK new : new = GeneratedTask(p, above, {})
      OBVIOUS
    <3>3. \A t \in Open' \ {u} : t \in Open /\ task'[t] = task[t]
      BY <1>0, <2>6 DEF Open, TypeOK
    <3>4. \A t \in Open' \ {u} : WellPlaced(task[t])'
      BY <1>1, <2>2, <2>3, <2>4, <3>3
    <3>5. task'[u] = new
      BY <1>0, <2>6, <3>2 DEF TypeOK
    <3> HIDE DEF WellPlaced
    <3>6. WellPlaced(new)'
      BY <1>4, <2>3, <3>1, <3>2 DEF GeneratedTask, Present
    <3>7. WellPlaced(task[u])'
      BY <3>5, <3>6 DEF WellPlaced
    <3> QED
      BY <3>4, <3>7
  <2> QED
    BY <2>1, <2>5, <2>6
<1>6. ASSUME NEW s \in Subsystems, UpdateSubsystem(s) PROVE \A t \in Open' : WellPlaced(task[t])'
  BY <1>3, <1>6 DEF UpdateSubsystem, Present, Mounted, Instances
<1>7. ASSUME NEW s \in Subsystems, RemoveSubsystem(s) PROVE \A t \in Open' : WellPlaced(task[t])'
  <2> DEFINE gone == Below(s)
  <2>1. /\ project' = [b \in Subsystems |-> IF b \in gone THEN None ELSE project[b]]
        /\ home' = [m \in Mechanisms |-> IF m \in MechanismsIn(gone) THEN None ELSE home[m]]
        /\ part' = [x \in Parts |-> IF x \in PartsIn(gone) THEN None ELSE part[x]]
        /\ task' = [t \in Tasks |-> IF t \in TasksIn(gone) THEN None ELSE task[t]]
        /\ UNCHANGED defined
    BY <1>7 DEF RemoveSubsystem
  <2> HIDE DEF gone
  <2>2. SUFFICES ASSUME NEW t \in Open' PROVE WellPlaced(task[t])'
    OBVIOUS
  <2>3. t \in Open /\ t \notin TasksIn(gone) /\ task'[t] = task[t]
    BY <2>1 DEF Open
  <2>4. /\ task[t].subsystems \cap gone = {}
        /\ task[t].mechanisms \cap MechanismsIn(gone) = {}
        /\ task[t].parts \cap PartsIn(gone) = {}
    BY <2>3 DEF TasksIn
  <2>5. task[t] \in TaskRecords /\ WellPlaced(task[t])
    BY <1>1, <2>3
  <2>6. \A x \in Instances \ PartsIn(gone) : x \in Instances'
    BY <2>1 DEF Instances
  <2>7. \A m \in Mounted \ MechanismsIn(gone) : m \in Mounted' /\ home'[m] = home[m]
    BY <2>1 DEF Mounted
  <2>8. \A c \in Subsystems \ gone : project'[c] = project[c]
    BY <2>1
  <2> QED
    BY <2>1, <2>3, <2>4, <2>5, <2>6, <2>7, <2>8 DEF TaskRecords
<1>8. ASSUME NEW m \in Mechanisms, CreateMechanism(m) PROVE \A t \in Open' : WellPlaced(task[t])'
  <2>1. PICK s \in Present, u \in Tasks \ Open :
          /\ home' = [home EXCEPT ![m] = s]
          /\ task' = [task EXCEPT ![u] = GeneratedTask(project[s], s, {m})]
    BY <1>8 DEF CreateMechanism
  <2>2. m \notin Mounted /\ UNCHANGED <<project, part, defined>>
    BY <1>8 DEF CreateMechanism
  <2>3. \A n \in Mechanisms : home'[n] = IF n = m THEN s ELSE home[n]
    BY <1>0, <2>1 DEF TypeOK
  <2>4. PICK new, p : p = project[s] /\ new = GeneratedTask(p, s, {m})
    OBVIOUS
  <2>5. \A t \in Open' \ {u} : t \in Open /\ task'[t] = task[t]
    BY <1>0, <2>1 DEF Open, TypeOK
  <2>6. task'[u] = new
    BY <1>0, <2>1, <2>4 DEF TypeOK
  <2>7. \A n \in Mounted : n \in Mounted' /\ home'[n] = home[n]
    BY <2>2, <2>3 DEF Mounted
  <2>8. Instances' = Instances
    BY <2>2 DEF Instances
  <2>9. \A t \in Open' \ {u} : WellPlaced(task[t])'
    BY <1>1, <2>2, <2>5, <2>7, <2>8
  <2> HIDE DEF WellPlaced
  <2>10. p \in Projects /\ s \in Subsystems
    BY <1>0, <2>4 DEF TypeOK, Present
  <2>11. WellPlaced(new)'
    BY <1>4, <2>2, <2>3, <2>4, <2>10 DEF GeneratedTask
  <2>12. WellPlaced(task[u])'
    BY <2>6, <2>11 DEF WellPlaced
  <2> QED
    BY <2>9, <2>12
<1>9. ASSUME NEW m \in Mechanisms, UpdateMechanism(m) PROVE \A t \in Open' : WellPlaced(task[t])'
  <2>1. PICK s \in Present :
          /\ project[s] = project[home[m]]
          /\ home' = [home EXCEPT ![m] = s]
          /\ task' = [t \in Tasks |->
               IF t \in Open /\ m \in task[t].mechanisms THEN Follow(t, m, s) ELSE task[t]]
          /\ part' = [x \in Parts |->
               IF x \notin Instances THEN None
               ELSE IF MechanismOf(part[x]) # m THEN part[x]
               ELSE IF part[x].at = None THEN [part[x] EXCEPT !.subsystem = s]
               ELSE [part[x] EXCEPT !.subsystem = s, !.at.subsystem = s]]
    BY <1>9 DEF UpdateMechanism
  <2>2. m \in Mounted /\ UNCHANGED <<project, defined>> /\ s \in Subsystems /\ s # None
    BY <1>9 DEF UpdateMechanism, Present
  <2>3. \A n \in Mechanisms : home'[n] = IF n = m THEN s ELSE home[n]
    BY <1>0, <2>1 DEF TypeOK
  <2>4. Instances' = Instances
    BY <2>1, <2>2, MovedParts
  <2>5. Mounted' = Mounted
    BY <2>2, <2>3 DEF Mounted
  <2>6. ASSUME NEW t \in Open, m \notin task[t].mechanisms PROVE WellPlaced(task[t])'
    <3>1. task'[t] = task[t]
      BY <1>1, <2>1, <2>6
    <3> QED
      BY <1>1, <2>2, <2>3, <2>4, <2>5, <2>6, <3>1 DEF Mounted
  <2>7. ASSUME NEW t \in Open, m \in task[t].mechanisms PROVE WellPlaced(task[t])'
    <3>1. task'[t] = Follow(t, m, s)
      BY <1>1, <2>1, <2>7
    <3>2. task[t] \in TaskRecords /\ WellPlaced(task[t])
      BY <1>1
    <3>3. /\ task'[t].subsystems = {s} \cup {old \in task[t].subsystems : old # home[m] \/ StillThere(t, m)}
          /\ task'[t].mechanisms = task[t].mechanisms /\ task'[t].parts = task[t].parts
          /\ task'[t].project = task[t].project /\ task'[t].makes = task[t].makes
      BY <3>1, <3>2 DEF Follow, TaskRecords
    <3>4. \A n \in task[t].mechanisms \ {m} : home[n] = home[m] => StillThere(t, m)
      BY DEF StillThere
    <3>5. project[s] = task[t].project
      BY <2>1, <2>7, <3>2
    <3>6. \A n \in task[t].mechanisms : n \in Mounted /\ home'[n] \in task'[t].subsystems
      BY <2>2, <2>3, <3>2, <3>3, <3>4 DEF TaskRecords
    <3> QED
      BY <2>2, <2>4, <2>5, <3>2, <3>3, <3>5, <3>6
  <2>8. Open' \subseteq Open
    BY <2>1 DEF Open
  <2> HIDE DEF WellPlaced
  <2> QED
    BY <2>6, <2>7, <2>8
<1>10. ASSUME NEW m \in Mechanisms, RemoveMechanism(m) PROVE \A t \in Open' : WellPlaced(task[t])'
  <2>1. /\ home' = [home EXCEPT ![m] = None] /\ part' = PartsLetGo(m) /\ task' = TasksLetGo(m)
        /\ UNCHANGED <<project, defined>>
    BY <1>10 DEF RemoveMechanism
  <2>2. \A n \in Mechanisms : home'[n] = IF n = m THEN None ELSE home[n]
    BY <1>0, <2>1 DEF TypeOK
  <2>3. Instances' = Instances
    BY <2>1, FreedParts
  <2>4. Mounted' = Mounted \ {m}
    BY <2>2 DEF Mounted
  <2>5. SUFFICES ASSUME NEW t \in Open' PROVE WellPlaced(task[t])'
    OBVIOUS
  <2>6. t \in Open /\ task'[t] = [task[t] EXCEPT !.mechanisms = @ \ {m}]
    BY <2>1 DEF TasksLetGo, Open
  <2>7. task[t] \in TaskRecords /\ WellPlaced(task[t])
    BY <1>1, <2>6
  <2>8. /\ task'[t].mechanisms = task[t].mechanisms \ {m} /\ task'[t].subsystems = task[t].subsystems
        /\ task'[t].parts = task[t].parts /\ task'[t].project = task[t].project /\ task'[t].makes = task[t].makes
    BY <2>6, <2>7 DEF TaskRecords
  <2> QED
    BY <2>1, <2>2, <2>3, <2>4, <2>7, <2>8 DEF TaskRecords
<1>11. ASSUME NEW parts, task' = TasksWithout(parts), NEW t \in Open'
       PROVE  /\ t \in Open
              /\ task'[t].parts = task[t].parts \ parts
              /\ task'[t].mechanisms = task[t].mechanisms /\ task'[t].subsystems = task[t].subsystems
              /\ task'[t].project = task[t].project /\ task'[t].makes = task[t].makes
  <2>1. t \in Open /\ task'[t] = [task[t] EXCEPT !.parts = @ \ parts]
    BY <1>11 DEF TasksWithout, Open
  <2> QED
    BY <1>1, <2>1 DEF TaskRecords
<1>12. ASSUME NEW d \in Definitions, CreateDefinition(d) PROVE \A t \in Open' : WellPlaced(task[t])'
  <2>1. defined' = defined \cup {d} /\ UNCHANGED <<project, home, part>>
    BY <1>12 DEF CreateDefinition
  <2>2. Present' = Present /\ Mounted' = Mounted /\ Instances' = Instances
    BY <2>1 DEF Present, Mounted, Instances
  <2>3. CASE UNCHANGED task
    BY <1>3, <2>1, <2>2, <2>3
  <2>4. ASSUME NEW s \in Present, NEW u \in Tasks \ Open, NEW made \in BOOLEAN,
               task' = [task EXCEPT ![u] =
                 [GeneratedTask(project[s], s, {}) EXCEPT !.makes = IF made THEN d ELSE None]]
        PROVE  \A t \in Open' : WellPlaced(task[t])'
    <3>1. PICK new, p : p = project[s] /\ new = [GeneratedTask(p, s, {}) EXCEPT !.makes = IF made THEN d ELSE None]
      OBVIOUS
    <3>2. task'[u] = new /\ \A t \in Open' \ {u} : t \in Open /\ task'[t] = task[t]
      BY <1>0, <2>4, <3>1 DEF Open, TypeOK
    <3>3. \A t \in Open' \ {u} : WellPlaced(task[t])'
      BY <1>1, <2>1, <2>2, <3>2
    <3> HIDE DEF WellPlaced
    <3>4. p \in Projects /\ s \in Subsystems
      BY <1>0, <3>1 DEF TypeOK, Present
    <3>5. /\ new.subsystems = {s} /\ new.project = p /\ new.mechanisms = {} /\ new.parts = {}
          /\ new.makes \in defined' \cup {None}
      BY <2>1, <3>1 DEF GeneratedTask
    <3>6. WellPlaced(new)'
      BY <1>4, <2>1, <3>1, <3>4, <3>5
    <3>7. WellPlaced(task[u])'
      BY <3>2, <3>6 DEF WellPlaced
    <3> QED
      BY <3>3, <3>7
  <2> QED
    BY <1>12, <2>3, <2>4 DEF CreateDefinition
<1>13. ASSUME NEW d \in Definitions, RemoveDefinition(d) PROVE \A t \in Open' : WellPlaced(task[t])'
  <2> DEFINE gone == {x \in Instances : part[x].of = d}
  <2>1. /\ \A t \in Open : task[t].makes # d
        /\ part' = [x \in Parts |-> IF x \in gone THEN None ELSE part[x]]
        /\ task' = TasksWithout(gone)
        /\ defined' = defined \ {d} /\ UNCHANGED <<project, home>>
    BY <1>13 DEF RemoveDefinition
  <2> HIDE DEF gone
  <2>2. Instances \ gone \subseteq Instances' /\ Mounted' = Mounted
    BY <2>1 DEF Instances, Mounted
  <2>3. SUFFICES ASSUME NEW t \in Open' PROVE WellPlaced(task[t])'
    OBVIOUS
  <2>4. /\ t \in Open
        /\ task'[t].parts = task[t].parts \ gone
        /\ task'[t].mechanisms = task[t].mechanisms /\ task'[t].subsystems = task[t].subsystems
        /\ task'[t].project = task[t].project /\ task'[t].makes = task[t].makes
    BY <1>11, <2>1
  <2> QED
    BY <1>1, <2>1, <2>2, <2>4
<1>14. ASSUME NEW x \in Parts, CreatePart(x) \/ UpdatePart(x) PROVE \A t \in Open' : WellPlaced(task[t])'
  <2>1. PICK record \in PartRecords : part' = [part EXCEPT ![x] = record]
    BY <1>14 DEF CreatePart, UpdatePart
  <2>2. UNCHANGED <<project, home, defined, task>>
    BY <1>14 DEF CreatePart, UpdatePart
  <2>3. Instances \subseteq Instances'
    BY <1>0, <2>1 DEF Instances, TypeOK
  <2> QED
    BY <1>3, <2>2, <2>3 DEF Present, Mounted
<1>15. ASSUME NEW x \in Parts, RemovePart(x) PROVE \A t \in Open' : WellPlaced(task[t])'
  <2>1. /\ part' = [part EXCEPT ![x] = None] /\ task' = TasksWithout({x})
        /\ UNCHANGED <<project, home, defined>>
    BY <1>15 DEF RemovePart
  <2>2. Instances \ {x} \subseteq Instances' /\ Mounted' = Mounted
    BY <1>0, <2>1 DEF Instances, Mounted, TypeOK
  <2>3. SUFFICES ASSUME NEW t \in Open' PROVE WellPlaced(task[t])'
    OBVIOUS
  <2>4. /\ t \in Open
        /\ task'[t].parts = task[t].parts \ {x}
        /\ task'[t].mechanisms = task[t].mechanisms /\ task'[t].subsystems = task[t].subsystems
        /\ task'[t].project = task[t].project /\ task'[t].makes = task[t].makes
    BY <1>11, <2>1
  <2> QED
    BY <1>1, <2>1, <2>2, <2>4
<1>16. ASSUME NEW u \in Tasks, SaveTask(u) PROVE \A t \in Open' : WellPlaced(task[t])'
  <2>1. PICK record \in TaskRecords :
          ValidTask(WithPlaces(record)) /\ task' = [task EXCEPT ![u] = WithPlaces(record)]
    BY <1>16 DEF SaveTask
  <2>2. UNCHANGED <<project, home, defined, part>>
    BY <1>16 DEF SaveTask
  <2>3. task'[u] = WithPlaces(record) /\ \A t \in Open' \ {u} : t \in Open /\ task'[t] = task[t]
    BY <1>0, <2>1 DEF Open, TypeOK
  <2>4. ValidTask(task'[u])
    BY <2>1, <2>3
  <2>5. WellPlaced(task[u])'
    BY <2>2, <2>4 DEF ValidTask, Mounted, Instances
  <2>6. \A t \in Open' \ {u} : WellPlaced(task[t])'
    BY <1>1, <2>2, <2>3 DEF Mounted, Instances
  <2> HIDE DEF WellPlaced
  <2> QED
    BY <2>5, <2>6
<1>17. ASSUME NEW u \in Tasks, RemoveTask(u) PROVE \A t \in Open' : WellPlaced(task[t])'
  <2>1. task' = [task EXCEPT ![u] = None] /\ UNCHANGED <<project, home, defined, part>>
    BY <1>17 DEF RemoveTask
  <2>2. \A t \in Open' : t \in Open /\ task'[t] = task[t]
    BY <1>0, <2>1 DEF Open, TypeOK
  <2> QED
    BY <1>1, <2>1, <2>2 DEF Mounted, Instances
<1>18. ASSUME NEW i \in Purchases, CreatePurchase(i) \/ UpdatePurchase(i) \/ RemovePurchase(i)
       PROVE  UNCHANGED <<project, home, defined, part, task>>
  BY <1>18 DEF CreatePurchase, UpdatePurchase, RemovePurchase
<1>19. CASE UNCHANGED <<project, home, defined, part, task>>
  BY <1>3, <1>19 DEF Present, Mounted, Instances
<1>20. ASSUME NEW i \in Purchases, NEW x \in Parts, Receive(i, x) PROVE \A t \in Open' : WellPlaced(task[t])'
  <2>1. UNCHANGED <<project, home, defined, task>> /\ x \notin Instances
    BY <1>20 DEF Receive
  <2>2. \A y \in Parts \ {x} : part'[y] = part[y]
    BY <1>0, <1>20 DEF Receive, TypeOK
  <2>3. Instances \subseteq Instances'
    BY <2>1, <2>2 DEF Instances
  <2> QED
    BY <1>3, <2>1, <2>3 DEF Present, Mounted
<1> HIDE DEF WellPlaced
<1> QED
  BY <1>5, <1>6, <1>7, <1>8, <1>9, <1>10, <1>12, <1>13, <1>14, <1>15, <1>16, <1>17, <1>18, <1>19, <1>20
     DEF Next

LEMMA StructureReceipts ==
    ASSUME StructureInv, Next
    PROVE  ReceiptsKeepTheirParts'
<1> USE AbsentAssumption, StructureRecordsAssumption
<1>0. TypeOK /\ ReceiptsKeepTheirParts
  BY DEF StructureInv, ReferencesHold
<1>1. \A i \in Purchases :
        /\ i \in Bought => purchase[i].task \in Open /\ purchase[i].of \in defined \cup {None}
        /\ receipts[i] # {} => i \in Bought
        /\ receipts[i] \subseteq Received
        /\ \A x \in receipts[i] : x \in Instances /\ part[x].of = purchase[i].of
  BY <1>0 DEF ReceiptsKeepTheirParts, Received
<1> Bought \subseteq Purchases
  BY DEF Bought
<1>2. ASSUME UNCHANGED <<purchase, receipts>>,
             \A i \in Bought : purchase[i].task \in Open' /\ purchase[i].of \in defined' \cup {None},
             \A x \in Received \cap Instances : x \in Instances' /\ part'[x].of = part[x].of
      PROVE  ReceiptsKeepTheirParts'
  <2>1. Bought' = Bought
    BY <1>2 DEF Bought
  <2> QED
    BY <1>1, <1>2, <2>1 DEF ReceiptsKeepTheirParts
<1>3. ASSUME NEW s \in Subsystems, CreateSubsystem(s) PROVE ReceiptsKeepTheirParts'
  <2>1. Open \subseteq Open'
    BY <1>0, <1>3 DEF CreateSubsystem, GeneratedTask, Open, TypeOK
  <2> QED
    BY <1>1, <1>2, <1>3, <2>1 DEF CreateSubsystem, Instances
<1>4. ASSUME NEW s \in Subsystems, UpdateSubsystem(s) PROVE ReceiptsKeepTheirParts'
  BY <1>1, <1>2, <1>4 DEF UpdateSubsystem, Instances, Open
<1>5. ASSUME NEW s \in Subsystems, RemoveSubsystem(s) PROVE ReceiptsKeepTheirParts'
  <2> DEFINE gone == Below(s)
  <2>1. /\ NotReceived(PartsIn(gone)) /\ NotBoughtFor(TasksIn(gone))
        /\ part' = [x \in Parts |-> IF x \in PartsIn(gone) THEN None ELSE part[x]]
        /\ task' = [t \in Tasks |-> IF t \in TasksIn(gone) THEN None ELSE task[t]]
        /\ UNCHANGED <<defined, purchase, receipts>>
    BY <1>5 DEF RemoveSubsystem
  <2> HIDE DEF gone
  <2>2. \A t \in Open \ TasksIn(gone) : t \in Open'
    BY <2>1 DEF Open
  <2>3. \A x \in Instances \ PartsIn(gone) : x \in Instances' /\ part'[x] = part[x]
    BY <2>1 DEF Instances
  <2> QED
    BY <1>1, <1>2, <2>1, <2>2, <2>3 DEF NotReceived, NotBoughtFor, Bought
<1>6. ASSUME NEW m \in Mechanisms, CreateMechanism(m) PROVE ReceiptsKeepTheirParts'
  <2>1. UNCHANGED <<part, defined, purchase, receipts>>
    BY <1>6 DEF CreateMechanism
  <2>2. Open \subseteq Open'
    BY <1>0, <1>6 DEF CreateMechanism, Open, TypeOK
  <2> QED
    BY <1>1, <1>2, <2>1, <2>2 DEF Instances
<1>7. ASSUME NEW m \in Mechanisms, UpdateMechanism(m) PROVE ReceiptsKeepTheirParts'
  <2>1. PICK s \in Present :
          /\ task' = [t \in Tasks |->
               IF t \in Open /\ m \in task[t].mechanisms THEN Follow(t, m, s) ELSE task[t]]
          /\ part' = [x \in Parts |->
               IF x \notin Instances THEN None
               ELSE IF MechanismOf(part[x]) # m THEN part[x]
               ELSE IF part[x].at = None THEN [part[x] EXCEPT !.subsystem = s]
               ELSE [part[x] EXCEPT !.subsystem = s, !.at.subsystem = s]]
    BY <1>7 DEF UpdateMechanism
  <2>2. s \in Subsystems /\ UNCHANGED <<defined, purchase, receipts>>
    BY <1>7 DEF UpdateMechanism, Present
  <2>3. Instances' = Instances /\ \A x \in Instances : part'[x].of = part[x].of
    BY <2>1, <2>2, MovedParts
  <2>4. ASSUME NEW t \in Open PROVE t \in Open'
    <3>1. task[t] \in TaskRecords /\ t \in Tasks
      BY <1>0 DEF TypeOK, Open
    <3>2. Follow(t, m, s) \in TaskRecords
      BY <2>2, <3>1 DEF Follow, TaskRecords
    <3> QED
      BY <2>1, <3>1, <3>2 DEF Open
  <2> QED
    BY <1>1, <1>2, <2>2, <2>3, <2>4
<1>8. ASSUME NEW m \in Mechanisms, RemoveMechanism(m) PROVE ReceiptsKeepTheirParts'
  <2>1. part' = PartsLetGo(m) /\ task' = TasksLetGo(m) /\ UNCHANGED <<defined, purchase, receipts>>
    BY <1>8 DEF RemoveMechanism
  <2>2. Instances' = Instances /\ \A x \in Instances : part'[x].of = part[x].of
    BY <2>1, FreedParts
  <2>3. ASSUME NEW t \in Open PROVE t \in Open'
    <3>1. task[t] \in TaskRecords /\ t \in Tasks
      BY <1>0 DEF TypeOK, Open
    <3>2. [task[t] EXCEPT !.mechanisms = @ \ {m}] \in TaskRecords
      BY <3>1 DEF TaskRecords
    <3> QED
      BY <2>1, <3>1, <3>2 DEF Open, TasksLetGo
  <2> QED
    BY <1>1, <1>2, <2>1, <2>2, <2>3
<1>9. ASSUME NEW parts, task' = TasksWithout(parts), NEW t \in Open PROVE t \in Open'
  <2>1. task[t] \in TaskRecords /\ t \in Tasks
    BY <1>0 DEF TypeOK, Open
  <2>2. [task[t] EXCEPT !.parts = @ \ parts] \in TaskRecords
    BY <2>1 DEF TaskRecords
  <2> QED
    BY <1>9, <2>1, <2>2 DEF Open, TasksWithout
<1>10. ASSUME NEW d \in Definitions, CreateDefinition(d) PROVE ReceiptsKeepTheirParts'
  <2>1. defined' = defined \cup {d} /\ UNCHANGED <<part, receipts>> /\ Instances' = Instances
    BY <1>10 DEF CreateDefinition, Instances
  <2>2. CASE UNCHANGED <<task, purchase>>
    BY <1>1, <1>2, <2>1, <2>2 DEF Open
  <2>3. ASSUME NEW s \in Present, NEW t \in Tasks \ Open, NEW made \in BOOLEAN,
               task' = [task EXCEPT ![t] =
                 [GeneratedTask(project[s], s, {}) EXCEPT !.makes = IF made THEN d ELSE None]]
        PROVE  t \in Open' /\ Open \subseteq Open'
    <3> DEFINE new == [GeneratedTask(project[s], s, {}) EXCEPT !.makes = IF made THEN d ELSE None]
    <3>1. new \in TaskRecords
      BY <1>0 DEF GeneratedTask, TaskRecords, TypeOK, Present
    <3>2. task' = [task EXCEPT ![t] = new]
      BY <2>3
    <3> HIDE DEF new
    <3> QED
      BY <1>0, <3>1, <3>2 DEF TypeOK, Open
  <2>4. ASSUME NEW t \in Tasks, t \in Open', Open \subseteq Open', NEW i \in Purchases \ Bought,
               purchase' = [purchase EXCEPT ![i] = [task |-> t, of |-> d]]
        PROVE  ReceiptsKeepTheirParts'
    <3>1. \A j \in Purchases : purchase'[j] = IF j = i THEN [task |-> t, of |-> d] ELSE purchase[j]
      BY <1>0, <2>4 DEF TypeOK
    <3>2. receipts[i] = {}
      BY <1>1
    <3>3. \A j \in Bought : j \in Bought' /\ j # i
      BY <3>1 DEF Bought
    <3>4. \A j \in Bought' : j \in Bought \/ j = i
      BY <3>1 DEF Bought
    <3> QED
      BY <1>1, <2>1, <2>4, <3>1, <3>2, <3>3, <3>4 DEF ReceiptsKeepTheirParts
  <2>5. CASE UNCHANGED purchase /\ Open \subseteq Open'
    BY <1>1, <1>2, <2>1, <2>5
  <2> QED
    BY <1>10, <2>2, <2>3, <2>4, <2>5 DEF CreateDefinition
<1>11. ASSUME NEW d \in Definitions, RemoveDefinition(d) PROVE ReceiptsKeepTheirParts'
  <2> DEFINE gone == {x \in Instances : part[x].of = d}
  <2>1. /\ \A i \in Bought : purchase[i].of # d
        /\ NotReceived(gone)
        /\ part' = [x \in Parts |-> IF x \in gone THEN None ELSE part[x]]
        /\ task' = TasksWithout(gone)
        /\ defined' = defined \ {d} /\ UNCHANGED <<purchase, receipts>>
    BY <1>11 DEF RemoveDefinition
  <2> HIDE DEF gone
  <2>2. \A x \in Instances \ gone : x \in Instances' /\ part'[x] = part[x]
    BY <2>1 DEF Instances
  <2>3. Open \subseteq Open'
    BY <1>9, <2>1
  <2> QED
    BY <1>1, <1>2, <2>1, <2>2, <2>3 DEF NotReceived, Bought
<1>12. ASSUME NEW x \in Parts, CreatePart(x) \/ UpdatePart(x) PROVE ReceiptsKeepTheirParts'
  <2>1. PICK record \in PartRecords :
          /\ part' = [part EXCEPT ![x] = record]
          /\ x \in Instances /\ record.of # part[x].of => NotReceived({x})
    BY <1>12 DEF CreatePart, UpdatePart
  <2>2. UNCHANGED <<defined, task, purchase, receipts>>
    BY <1>12 DEF CreatePart, UpdatePart
  <2>3. \A y \in Parts : part'[y] = IF y = x THEN record ELSE part[y]
    BY <1>0, <2>1 DEF TypeOK
  <2>4. \A y \in Received \cap Instances : y \in Instances' /\ part'[y].of = part[y].of
    BY <2>1, <2>3 DEF Instances, NotReceived
  <2> QED
    BY <1>1, <1>2, <2>2, <2>4 DEF Open
<1>13. ASSUME NEW x \in Parts, RemovePart(x) PROVE ReceiptsKeepTheirParts'
  <2>1. /\ part' = [part EXCEPT ![x] = None] /\ task' = TasksWithout({x}) /\ NotReceived({x})
        /\ UNCHANGED <<defined, purchase, receipts>>
    BY <1>13 DEF RemovePart
  <2>2. \A y \in Instances \ {x} : y \in Instances' /\ part'[y] = part[y]
    BY <1>0, <2>1 DEF Instances, TypeOK
  <2>3. Open \subseteq Open'
    BY <1>9, <2>1
  <2> QED
    BY <1>1, <1>2, <2>1, <2>2, <2>3 DEF NotReceived
<1>14. ASSUME NEW t \in Tasks, SaveTask(t) PROVE ReceiptsKeepTheirParts'
  <2>1. UNCHANGED <<defined, part, purchase, receipts>>
    BY <1>14 DEF SaveTask
  <2>2. PICK record \in TaskRecords : task' = [task EXCEPT ![t] = WithPlaces(record)]
    BY <1>14 DEF SaveTask
  <2>3. WithPlaces(record) # None
    BY <1>0, PlacedType
  <2>4. Open \subseteq Open'
    BY <1>0, <2>2, <2>3 DEF Open, TypeOK
  <2> QED
    BY <1>1, <1>2, <2>1, <2>4 DEF Instances
<1>15. ASSUME NEW t \in Tasks, RemoveTask(t) PROVE ReceiptsKeepTheirParts'
  <2>1. task' = [task EXCEPT ![t] = None] /\ NotBoughtFor({t}) /\ UNCHANGED <<defined, part, purchase, receipts>>
    BY <1>15 DEF RemoveTask
  <2>2. Open \ {t} \subseteq Open'
    BY <1>0, <2>1 DEF Open, TypeOK
  <2> QED
    BY <1>1, <1>2, <2>1, <2>2 DEF NotBoughtFor, Bought, Instances
<1>16. ASSUME NEW i \in Purchases, CreatePurchase(i) PROVE ReceiptsKeepTheirParts'
  <2>1. PICK t \in Open, d \in defined \cup {None} : purchase' = [purchase EXCEPT ![i] = [task |-> t, of |-> d]]
    BY <1>16 DEF CreatePurchase
  <2>2. i \notin Bought /\ UNCHANGED <<defined, part, task, receipts>>
    BY <1>16 DEF CreatePurchase
  <2>3. \A j \in Purchases : purchase'[j] = IF j = i THEN [task |-> t, of |-> d] ELSE purchase[j]
    BY <1>0, <2>1 DEF TypeOK
  <2>4. receipts[i] = {}
    BY <1>1, <2>2
  <2>5. (\A j \in Bought : j \in Bought' /\ j # i) /\ (\A j \in Bought' : j \in Bought \/ j = i)
    BY <2>2, <2>3 DEF Bought
  <2> QED
    BY <1>1, <2>2, <2>3, <2>4, <2>5 DEF ReceiptsKeepTheirParts, Open, Instances
<1>17. ASSUME NEW i \in Purchases, UpdatePurchase(i) PROVE ReceiptsKeepTheirParts'
  <2>1. PICK d \in defined \cup {None} : purchase' = [purchase EXCEPT ![i].of = d]
    BY <1>17 DEF UpdatePurchase
  <2>2. i \in Bought /\ receipts[i] = {} /\ UNCHANGED <<defined, part, task, receipts>>
    BY <1>17 DEF UpdatePurchase
  <2>3. \A j \in Purchases \ {i} : purchase'[j] = purchase[j]
    BY <1>0, <2>1 DEF TypeOK
  <2>4. purchase'[i].task = purchase[i].task /\ purchase'[i].of = d
    BY <1>0, <2>1, <2>2 DEF TypeOK, Bought
  <2>5. \A j \in Bought' : j \in Bought
    BY <2>2, <2>3 DEF Bought
  <2>6. \A j \in Bought \ {i} : j \in Bought'
    BY <2>3 DEF Bought
  <2> QED
    BY <1>1, <2>2, <2>3, <2>4, <2>5, <2>6 DEF ReceiptsKeepTheirParts, Open, Instances
<1>18. ASSUME NEW i \in Purchases, RemovePurchase(i) PROVE ReceiptsKeepTheirParts'
  <2>1. receipts[i] = {} /\ purchase' = [purchase EXCEPT ![i] = None] /\ UNCHANGED <<defined, part, task, receipts>>
    BY <1>18 DEF RemovePurchase
  <2>2. \A j \in Purchases : purchase'[j] = IF j = i THEN None ELSE purchase[j]
    BY <1>0, <2>1 DEF TypeOK
  <2>3. Bought' = Bought \ {i}
    BY <2>2 DEF Bought
  <2> QED
    BY <1>1, <2>1, <2>2, <2>3 DEF ReceiptsKeepTheirParts, Open, Instances
<1>19. ASSUME NEW i \in Purchases, NEW x \in Parts, Receive(i, x) PROVE ReceiptsKeepTheirParts'
  <2>1. PICK s \in task[purchase[i].task].subsystems :
          part' = [part EXCEPT ![x] =
            [of |-> purchase[i].of, subsystem |-> s, mechanism |-> None, at |-> None]]
    BY <1>19 DEF Receive
  <2>2. /\ i \in Bought /\ x \notin Instances /\ purchase[i].of \in defined
        /\ receipts' = [receipts EXCEPT ![i] = @ \cup {x}]
        /\ UNCHANGED <<defined, task, purchase>>
    BY <1>19 DEF Receive
  <2> DEFINE record == [of |-> purchase[i].of, subsystem |-> s, mechanism |-> None, at |-> None]
  <2>3. record \in PartRecords /\ record.of = purchase[i].of
    <3>1. task[purchase[i].task] \in TaskRecords
      BY <1>0, <1>1, <2>2 DEF TypeOK, Open
    <3> QED
      BY <1>0, <2>2, <3>1 DEF PartRecords, TypeOK, TaskRecords
  <2>4. part' = [part EXCEPT ![x] = record]
    BY <2>1
  <2> HIDE DEF record
  <2>5. \A y \in Parts : part'[y] = IF y = x THEN record ELSE part[y]
    BY <1>0, <2>4 DEF TypeOK
  <2>6. \A j \in Purchases : receipts'[j] = IF j = i THEN receipts[i] \cup {x} ELSE receipts[j]
    BY <1>0, <2>2 DEF TypeOK
  <2>7. \A y \in Instances : y \in Instances' /\ part'[y] = part[y]
    BY <2>2, <2>5 DEF Instances
  <2>8. x \in Instances' /\ part'[x].of = purchase[i].of
    BY <2>3, <2>5 DEF Instances
  <2>9. Open' = Open /\ Bought' = Bought
    BY <2>2 DEF Open, Bought
  <2> QED
    BY <1>1, <2>2, <2>6, <2>7, <2>8, <2>9 DEF ReceiptsKeepTheirParts
<1> QED
  BY <1>3, <1>4, <1>5, <1>6, <1>7, <1>8, <1>10, <1>11, <1>12, <1>13, <1>14, <1>15, <1>16, <1>17, <1>18, <1>19
     DEF Next

LEMMA StructureStart == Init => StructureInv
<1> SUFFICES ASSUME Init PROVE StructureInv
  OBVIOUS
<1> USE AbsentAssumption, CoresAssumption DEF Init
<1>1. TypeOK
  BY DEF TypeOK
<1>2. SubsystemsFormForest /\ Cores \subseteq Present
  BY DEF SubsystemsFormForest, Present
<1>3. PlacesExist /\ MechanismsAgree
  BY DEF PlacesExist, MechanismsAgree, Mounted, Instances
<1>4. TargetsExist
  BY DEF TargetsExist, Open
<1>5. ReceiptsKeepTheirParts
  BY DEF ReceiptsKeepTheirParts, Bought
<1> QED
  BY <1>1, <1>2, <1>3, <1>4, <1>5 DEF StructureInv, ReferencesHold

LEMMA StructureNext == StructureInv /\ [Next]_vars => StructureInv'
<1> SUFFICES ASSUME StructureInv, [Next]_vars PROVE StructureInv'
  OBVIOUS
<1>1. CASE Next
  BY <1>1, StructureTypes, StructureForest, StructurePlaces, StructureTargets, StructureReceipts
     DEF StructureInv, ReferencesHold
<1>2. CASE UNCHANGED vars
  BY <1>2 DEF vars, StructureInv, TypeOK, SubsystemsFormForest, PlacesExist, MechanismsAgree, ReferencesHold,
              TargetsExist, ReceiptsKeepTheirParts, Present, Mounted, Instances, Open, Bought, Below
<1> QED
  BY <1>1, <1>2

-----------------------------------------------------------------------------
(* The dates (Calendar).                                                   *)

\* Whatever projects something is of, their seasons are there.
DatesInv ==
  /\ Dates!CalendarTypeOK
  /\ Dates!CalendarAgrees
  /\ \A m \in Dates!Planned : ToSet(milestone[m].projects) \subseteq Dates!Known
  /\ \A m \in Dates!Held : ToSet(meeting[m].projects) \subseteq Dates!Known
  /\ \A w \in Workstreams : workstream[w] \in Dates!Known \cup {None}

LEMMA Calendars ==
  /\ CalendarSeason \in [CalendarProjects -> Seasons]
  /\ None \notin Seasons \cup CalendarProjects \cup Milestones \cup Dates!Entries
  BY FacetsAssumption DEF Dates!CalendarAssumption, Dates!CalendarRecordsAssumption

LEMMA ListedProjects ==
    ASSUME NEW list \in Dates!ProjectLists
    PROVE  /\ list \in Seq(CalendarProjects)
           /\ ToSet(list) \subseteq Dates!Known
           /\ list # <<>> => Head(list) \in ToSet(list)
<1>1. PICK n \in 0..2 : list \in [1..n -> Dates!Known]
  BY DEF Dates!ProjectLists, Dates!BoundedSeq, Dates!SeqOf
<1>2. \A i \in 1..n : list[i] \in Dates!Known
  BY <1>1
<1>3. list \in Seq(Dates!Known) /\ Len(list) = n
  BY <1>1
<1>4. Dates!Known \subseteq CalendarProjects
  BY DEF Dates!Known
<1> QED
  BY <1>1, <1>2, <1>3, <1>4 DEF ToSet

LEMMA SameSet == \A list : Dates!ToSet(list) = ToSet(list)
  BY DEF Dates!ToSet, ToSet

\* The season a list of projects has.
LEMMA DerivedSeason ==
    ASSUME NEW list \in Dates!ProjectLists, NEW otherwise \in Seasons
    PROVE  /\ Dates!SeasonFor(list, otherwise) \in Seasons
           /\ Dates!SeasonFor(list, otherwise) = Dates!SeasonFor(list, Dates!SeasonFor(list, otherwise))
<1>1. list # <<>> => Head(list) \in CalendarProjects
  BY ListedProjects DEF Dates!Known
<1> QED
  BY <1>1, Calendars DEF Dates!SeasonFor

LEMMA DatesStart == Dates!CalendarInit => DatesInv
  BY Calendars DEF Dates!CalendarInit, DatesInv, Dates!CalendarTypeOK, Dates!CalendarAgrees, Dates!Planned,
     Dates!Held, Dates!Scheduled

LEMMA DatesNext ==
    ASSUME DatesInv, Dates!CalendarNext
    PROVE  DatesInv'
<1> USE Calendars, SameSet
<1>0. Dates!CalendarTypeOK /\ Dates!CalendarAgrees
  BY DEF DatesInv
<1> DEFINE MilestonesOf == \A m \in Dates!Planned : ToSet(milestone[m].projects) \subseteq Dates!Known
           MeetingsOf == \A m \in Dates!Held : ToSet(meeting[m].projects) \subseteq Dates!Known
           WorkstreamsOf == \A w \in Workstreams : workstream[w] \in Dates!Known \cup {None}
<1>1. MilestonesOf /\ MeetingsOf /\ WorkstreamsOf
  BY DEF DatesInv
<1>2. \A m \in Dates!Planned : milestone[m] \in Dates!Entries /\ m \in Milestones
  BY <1>0 DEF Dates!CalendarTypeOK, Dates!Planned
<1>3. \A m \in Dates!Held : meeting[m] \in Dates!Entries /\ m \in Meetings
  BY <1>0 DEF Dates!CalendarTypeOK, Dates!Held
<1>4. ASSUME NEW s \in Seasons, Dates!CreateSeason(s) PROVE DatesInv'
  <2>1. Dates!Known \subseteq Dates!Known' /\ seasons \subseteq seasons'
    BY <1>4 DEF Dates!CreateSeason, Dates!Known
  <2>2. UNCHANGED <<milestone, markers, meeting, workstream, scheduled, result>>
    BY <1>4 DEF Dates!CreateSeason
  <2>3. Dates!CalendarTypeOK'
    BY <1>0, <1>4, <2>2 DEF Dates!CreateSeason, Dates!CalendarTypeOK
  <2>4. Dates!CalendarAgrees'
    BY <1>0, <2>1, <2>2 DEF Dates!CalendarAgrees, Dates!Planned, Dates!Held, Dates!Scheduled, Dates!OneSeason
  <2> QED
    BY <1>1, <2>1, <2>2, <2>3, <2>4 DEF DatesInv, Dates!Planned, Dates!Held
<1>5. ASSUME NEW m \in Milestones, NEW list \in Dates!ProjectLists, NEW season \in Seasons,
             milestone' = [milestone EXCEPT ![m] = [projects |-> list, season |-> Dates!SeasonFor(list, season)]],
             markers' = [markers EXCEPT ![m] = ToSet(list)],
             UNCHANGED <<seasons, meeting, workstream, scheduled, result>>
      PROVE  DatesInv'
  <2> DEFINE entry == [projects |-> list, season |-> Dates!SeasonFor(list, season)]
  <2>1. entry \in Dates!Entries /\ entry # None /\ ToSet(entry.projects) \subseteq Dates!Known
    BY ListedProjects, DerivedSeason DEF Dates!Entries
  <2>2. entry.season = Dates!SeasonFor(entry.projects, entry.season)
    BY DerivedSeason
  <2>3. /\ \A n \in Milestones : milestone'[n] = IF n = m THEN entry ELSE milestone[n]
        /\ \A n \in Milestones : markers'[n] = IF n = m THEN ToSet(entry.projects) ELSE markers[n]
    BY <1>0, <1>5 DEF Dates!CalendarTypeOK
  <2>4. milestone' \in [Milestones -> Dates!Entries \cup {None}]
    BY <1>0, <1>5, <2>1 DEF Dates!CalendarTypeOK
  <2>5. markers' \in [Milestones -> SUBSET CalendarProjects]
    BY <1>0, <1>5, <2>1 DEF Dates!CalendarTypeOK, Dates!Known
  <2> HIDE DEF entry
  <2>6. Dates!CalendarTypeOK'
    BY <1>0, <1>5, <2>4, <2>5 DEF Dates!CalendarTypeOK
  <2>7. Dates!Planned' = Dates!Planned \cup {m} /\ UNCHANGED <<Dates!Known, Dates!Held, Dates!Scheduled>>
    BY <1>5, <2>1, <2>3 DEF Dates!Planned, Dates!Known, Dates!Held, Dates!Scheduled
  <2>8. Dates!CalendarAgrees'
    BY <1>0, <1>5, <2>2, <2>3, <2>7 DEF Dates!CalendarAgrees, Dates!OneSeason, Dates!Planned
  <2>9. MilestonesOf' /\ MeetingsOf' /\ WorkstreamsOf'
    BY <1>1, <1>5, <2>1, <2>3, <2>7 DEF Dates!Planned
  <2> QED
    BY <2>6, <2>8, <2>9 DEF DatesInv
<1>6. ASSUME NEW m \in Milestones, Dates!CreateMilestone(m) PROVE DatesInv'
  <2>1. PICK list \in Dates!ProjectLists, first \in seasons :
          /\ milestone' = [milestone EXCEPT ![m] = [projects |-> list, season |-> Dates!SeasonFor(list, first)]]
          /\ markers' = [markers EXCEPT ![m] = @ \cup ToSet(list)]
    BY <1>6 DEF Dates!CreateMilestone
  <2>2. markers[m] = {} /\ first \in Seasons
    BY <1>0, <1>6 DEF Dates!CreateMilestone, Dates!CalendarAgrees, Dates!CalendarTypeOK
  <2>3. markers' = [markers EXCEPT ![m] = ToSet(list)]
    BY <2>1, <2>2
  <2> QED
    BY <1>5, <1>6, <2>1, <2>2, <2>3 DEF Dates!CreateMilestone
<1>7. ASSUME NEW m \in Milestones, Dates!UpdateMilestone(m) PROVE DatesInv'
  <2>1. PICK list \in Dates!ProjectLists :
          /\ milestone' = [milestone EXCEPT ![m] =
               [projects |-> list, season |-> Dates!SeasonFor(list, @.season)]]
          /\ markers' = [markers EXCEPT ![m] = Dates!MarkersFor(m, list)]
    BY <1>7 DEF Dates!UpdateMilestone
  <2>2. Dates!MarkersFor(m, list) = ToSet(list)
    BY DEF Dates!MarkersFor
  <2>3. PICK season : season = milestone[m].season
    OBVIOUS
  <2>4. season \in Seasons
    BY <1>2, <1>7, <2>3 DEF Dates!UpdateMilestone, Dates!Entries
  <2>5. milestone' = [milestone EXCEPT ![m] = [projects |-> list, season |-> Dates!SeasonFor(list, season)]]
    BY <2>1, <2>3
  <2> QED
    BY <1>5, <1>7, <2>1, <2>2, <2>4, <2>5 DEF Dates!UpdateMilestone
<1>8. ASSUME NEW m \in Milestones, Dates!RemoveMilestone(m) PROVE DatesInv'
  <2>1. /\ milestone' = [milestone EXCEPT ![m] = None]
        /\ markers' = [markers EXCEPT ![m] = {}]
        /\ result' = [r \in Results |-> IF result[r] = m THEN None ELSE result[r]]
        /\ scheduled' = [t \in Tasks |->
             IF t \in Dates!Scheduled THEN [scheduled[t] EXCEPT !.milestones = @ \ {m}] ELSE None]
        /\ UNCHANGED <<seasons, meeting, workstream>>
    BY <1>8 DEF Dates!RemoveMilestone
  <2>2. /\ \A n \in Milestones : milestone'[n] = IF n = m THEN None ELSE milestone[n]
        /\ \A n \in Milestones : markers'[n] = IF n = m THEN {} ELSE markers[n]
    BY <1>0, <2>1 DEF Dates!CalendarTypeOK
  <2>3. \A t \in Dates!Scheduled :
          /\ scheduled[t] \in Dates!Schedules
          /\ [scheduled[t] EXCEPT !.milestones = @ \ {m}] \in Dates!Schedules
          /\ [scheduled[t] EXCEPT !.milestones = @ \ {m}].milestones = scheduled[t].milestones \ {m}
    BY <1>0 DEF Dates!CalendarTypeOK, Dates!Scheduled, Dates!Schedules
  <2>4. scheduled' \in [Tasks -> Dates!Schedules \cup {None}]
    BY <2>1, <2>3
  <2>5. Dates!CalendarTypeOK'
    BY <1>0, <2>1, <2>4 DEF Dates!CalendarTypeOK
  <2>6. Dates!Planned' = Dates!Planned \ {m} /\ UNCHANGED <<Dates!Known, Dates!Held>>
    BY <2>1, <2>2 DEF Dates!Planned, Dates!Known, Dates!Held
  <2>7. \A t \in Dates!Scheduled' : t \in Dates!Scheduled /\ scheduled'[t].milestones = scheduled[t].milestones \ {m}
    BY <2>1, <2>3 DEF Dates!Scheduled
  <2>8. Dates!CalendarAgrees'
    BY <1>0, <2>1, <2>2, <2>6, <2>7 DEF Dates!CalendarAgrees, Dates!OneSeason, Dates!Planned
  <2>9. MilestonesOf' /\ MeetingsOf' /\ WorkstreamsOf'
    BY <1>1, <2>1, <2>2, <2>6 DEF Dates!Planned
  <2> QED
    BY <2>5, <2>8, <2>9 DEF DatesInv
<1>9. ASSUME NEW r \in Results, Dates!RecordResult(r) PROVE DatesInv'
  <2>1. PICK m \in Dates!Planned : result' = [result EXCEPT ![r] = m]
    BY <1>9 DEF Dates!RecordResult
  <2>2. UNCHANGED <<seasons, milestone, markers, meeting, workstream, scheduled>>
    BY <1>9 DEF Dates!RecordResult
  <2>3. Dates!CalendarTypeOK'
    BY <1>0, <1>2, <2>1, <2>2 DEF Dates!CalendarTypeOK
  <2>4. \A x \in Results : result'[x] = IF x = r THEN m ELSE result[x]
    BY <1>0, <2>1 DEF Dates!CalendarTypeOK
  <2>5. UNCHANGED <<Dates!Planned, Dates!Known, Dates!Held, Dates!Scheduled>>
    BY <2>2 DEF Dates!Planned, Dates!Known, Dates!Held, Dates!Scheduled
  <2>6. Dates!CalendarAgrees'
    BY <1>0, <2>2, <2>4, <2>5 DEF Dates!CalendarAgrees, Dates!OneSeason
  <2> QED
    BY <1>1, <2>2, <2>3, <2>5, <2>6 DEF DatesInv
<1>10. ASSUME NEW m \in Meetings, NEW list \in Seq(CalendarProjects), NEW season,
              Dates!OneSeason(season, list), Dates!SaveMeeting(m, list, season),
              ToSet(list) \subseteq Dates!Known
       PROVE  DatesInv'
  <2> DEFINE entry == [projects |-> list, season |-> season]
  <2>1. meeting' = [meeting EXCEPT ![m] = entry] /\ UNCHANGED <<seasons, milestone, markers, workstream, scheduled, result>>
    BY <1>10 DEF Dates!SaveMeeting
  <2>2. season \in Seasons
    BY <1>0, <1>10 DEF Dates!OneSeason, Dates!CalendarTypeOK
  <2>3. entry \in Dates!Entries /\ entry # None /\ entry.projects = list /\ entry.season = season
    BY <1>10, <2>2 DEF Dates!Entries
  <2> HIDE DEF entry
  <2>4. \A n \in Meetings : meeting'[n] = IF n = m THEN entry ELSE meeting[n]
    BY <1>0, <2>1 DEF Dates!CalendarTypeOK
  <2>5. Dates!CalendarTypeOK'
    BY <1>0, <2>1, <2>3 DEF Dates!CalendarTypeOK
  <2>6. Dates!Held' = Dates!Held \cup {m} /\ UNCHANGED <<Dates!Planned, Dates!Known, Dates!Scheduled>>
    BY <2>1, <2>3, <2>4 DEF Dates!Planned, Dates!Known, Dates!Held, Dates!Scheduled
  <2>7. \A n \in Dates!Held' : Dates!OneSeason(meeting[n].season, meeting[n].projects)'
    BY <1>0, <1>10, <2>1, <2>3, <2>4, <2>6 DEF Dates!CalendarAgrees, Dates!OneSeason, Dates!Held
  <2>8. Dates!CalendarAgrees'
    BY <1>0, <2>1, <2>6, <2>7 DEF Dates!CalendarAgrees
  <2>9. MilestonesOf' /\ MeetingsOf' /\ WorkstreamsOf'
    BY <1>1, <1>10, <2>1, <2>3, <2>4, <2>6 DEF Dates!Held
  <2> QED
    BY <2>5, <2>8, <2>9 DEF DatesInv
<1>11. ASSUME NEW m \in Meetings, Dates!CreateMeeting(m) PROVE DatesInv'
  <2>1. PICK list \in Dates!ProjectLists, season \in seasons :
          Dates!OneSeason(season, list) /\ Dates!SaveMeeting(m, list, season)
    BY <1>11 DEF Dates!CreateMeeting
  <2> QED
    BY <1>10, <2>1, ListedProjects
<1>12. ASSUME NEW m \in Meetings, Dates!UpdateMeeting(m) PROVE DatesInv'
  <2>1. PICK list \in Dates!ProjectLists \cup {meeting[m].projects}, season \in seasons :
          Dates!OneSeason(season, list) /\ Dates!SaveMeeting(m, list, season)
    BY <1>12 DEF Dates!UpdateMeeting, Dates!OneSeason
  <2>2. m \in Dates!Held
    BY <1>12 DEF Dates!UpdateMeeting
  <2>3. list \in Seq(CalendarProjects) /\ ToSet(list) \subseteq Dates!Known
    BY <1>1, <1>3, <2>2, ListedProjects DEF Dates!Entries
  <2> QED
    BY <1>10, <2>1, <2>3
<1>13. ASSUME NEW m \in Meetings, Dates!RemoveMeeting(m) PROVE DatesInv'
  <2>1. meeting' = [meeting EXCEPT ![m] = None] /\ UNCHANGED <<seasons, milestone, markers, workstream, scheduled, result>>
    BY <1>13 DEF Dates!RemoveMeeting
  <2>2. \A n \in Meetings : meeting'[n] = IF n = m THEN None ELSE meeting[n]
    BY <1>0, <2>1 DEF Dates!CalendarTypeOK
  <2>3. Dates!CalendarTypeOK'
    BY <1>0, <2>1 DEF Dates!CalendarTypeOK
  <2>4. Dates!Held' = Dates!Held \ {m} /\ UNCHANGED <<Dates!Planned, Dates!Known, Dates!Scheduled>>
    BY <2>1, <2>2 DEF Dates!Planned, Dates!Known, Dates!Held, Dates!Scheduled
  <2>5. Dates!CalendarAgrees'
    BY <1>0, <2>1, <2>2, <2>4 DEF Dates!CalendarAgrees, Dates!OneSeason, Dates!Held
  <2>6. MilestonesOf' /\ MeetingsOf' /\ WorkstreamsOf'
    BY <1>1, <2>1, <2>2, <2>4 DEF Dates!Held
  <2> QED
    BY <2>3, <2>5, <2>6 DEF DatesInv
<1>14. ASSUME NEW w \in Workstreams, Dates!SaveWorkstream(w) PROVE DatesInv'
  <2>1. PICK p \in Dates!Known : workstream' = [workstream EXCEPT ![w] = p]
    BY <1>14 DEF Dates!SaveWorkstream
  <2>2. UNCHANGED <<seasons, milestone, markers, meeting, scheduled, result>>
    BY <1>14 DEF Dates!SaveWorkstream
  <2>3. Dates!CalendarTypeOK'
    BY <1>0, <2>1, <2>2 DEF Dates!CalendarTypeOK, Dates!Known
  <2>4. UNCHANGED <<Dates!Planned, Dates!Known, Dates!Held, Dates!Scheduled>>
    BY <2>2 DEF Dates!Planned, Dates!Known, Dates!Held, Dates!Scheduled
  <2>5. Dates!CalendarAgrees'
    BY <1>0, <2>2, <2>4 DEF Dates!CalendarAgrees, Dates!OneSeason
  <2>6. WorkstreamsOf'
    BY <1>0, <1>1, <2>1, <2>4 DEF Dates!CalendarTypeOK
  <2> QED
    BY <1>1, <2>2, <2>3, <2>4, <2>5, <2>6 DEF DatesInv
<1>15. ASSUME NEW t \in Tasks, Dates!ScheduleTask(t) PROVE DatesInv'
  <2>1. PICK x \in Dates!Schedules : Dates!Schedulable(x) /\ scheduled' = [scheduled EXCEPT ![t] = x]
    BY <1>15 DEF Dates!ScheduleTask
  <2>2. UNCHANGED <<seasons, milestone, markers, meeting, workstream, result>>
    BY <1>15 DEF Dates!ScheduleTask
  <2>3. Dates!CalendarTypeOK'
    BY <1>0, <2>1, <2>2 DEF Dates!CalendarTypeOK
  <2>4. UNCHANGED <<Dates!Planned, Dates!Known, Dates!Held>>
    BY <2>2 DEF Dates!Planned, Dates!Known, Dates!Held
  <2>5. \A u \in Tasks : scheduled'[u] = IF u = t THEN x ELSE scheduled[u]
    BY <1>0, <2>1 DEF Dates!CalendarTypeOK
  <2>6. \A u \in Dates!Scheduled' : scheduled'[u].milestones \subseteq Dates!Planned
    BY <1>0, <2>1, <2>5 DEF Dates!Scheduled, Dates!Schedulable, Dates!CalendarAgrees
  <2>7. Dates!CalendarAgrees'
    BY <1>0, <2>2, <2>4, <2>6 DEF Dates!CalendarAgrees, Dates!OneSeason
  <2> QED
    BY <1>1, <2>2, <2>3, <2>4, <2>7 DEF DatesInv
<1> QED
  BY <1>4, <1>6, <1>7, <1>8, <1>9, <1>11, <1>12, <1>13, <1>14, <1>15 DEF Dates!CalendarNext

-----------------------------------------------------------------------------
(* The people (Roster).                                                    *)

PeopleInv ==
  /\ People!RosterTypeOK
  /\ People!TeamsAgree
  /\ People!WorkIsStaffed
  /\ People!AnAdministratorRemains

LEMMA Rosters ==
  /\ TeamSeason \in [TeamProjects -> Seasons]
  /\ ProjectOf \in [TeamSubsystems -> TeamProjects]
  /\ None \notin Members \cup Teams \cup Tasks \cup TeamProjects \cup People!MemberRecords \cup People!Duties
  BY FacetsAssumption DEF People!RosterAssumption, People!RosterRecordsAssumption

LEMMA LeastNatural ==
    ASSUME NEW T \in SUBSET Nat, T # {}
    PROVE  \E x \in T : \A y \in T : ~(y < x)
<1> DEFINE R == OpToRel(<, Nat)
<1>1. R = {pair \in Nat \X Nat : pair[1] < pair[2]}
  BY DEF OpToRel
<1>2. IsWellFoundedOn(R, Nat)
  BY NatLessThanWellFounded
<1> HIDE DEF R
<1>3. \E x \in T : \A y \in T : ~(<<y, x>> \in R)
  BY <1>2, WFMin
<1> QED
  BY <1>1, <1>3

LEMMA Smallest ==
    ASSUME NEW positions \in SUBSET Nat, positions # {}
    PROVE  People!First(positions) \in positions
<1>1. PICK x \in positions : \A y \in positions : ~(y < x)
  BY LeastNatural
<1>2. \A y \in positions : x <= y
  BY <1>1
<1> QED
  BY <1>2 DEF People!First

\* Teams as a request may leave them, before their primary members are normalised.
Sound(list) ==
  /\ list \in Seq(People!TeamRecords)
  /\ \A i, j \in DOMAIN list : i # j => list[i].id # list[j].id
  /\ \A i \in DOMAIN list : /\ list[i].members \subseteq People!ActiveIn(list[i].season)
                            /\ list[i].projects \subseteq People!ProjectsOf(list[i].season)

\* A primary member has one primary team in a season, and it is not archived.
LEMMA OnePrimary ==
    ASSUME NEW list \in Seq(People!TeamRecords), NEW m, NEW season, NEW preferred, NEW wanted
    PROVE  People!PrimaryTeam(list, m, season, preferred, wanted)
             \in People!Eligible(list, m, season) \cup {0}
<1> DEFINE eligible == People!Eligible(list, m, season)
           asked == {i \in eligible : m \in wanted /\ list[i].id = preferred}
           held == {i \in eligible : m \in list[i].primaries}
<1>1. eligible \in SUBSET Nat
  BY DEF People!Eligible
<1>2. asked \in SUBSET Nat /\ held \in SUBSET Nat /\ asked \subseteq eligible /\ held \subseteq eligible
  BY <1>1
<1>3. People!PrimaryTeam(list, m, season, preferred, wanted) =
        IF asked # {} THEN People!First(asked)
        ELSE IF held # {} THEN People!First(held)
        ELSE IF eligible # {} THEN People!First(eligible) ELSE 0
  BY DEF People!PrimaryTeam
<1> HIDE DEF asked, held, eligible
<1>4. /\ asked # {} => People!First(asked) \in asked
      /\ held # {} => People!First(held) \in held
      /\ eligible # {} => People!First(eligible) \in eligible
  BY <1>1, <1>2, Smallest
<1>5. People!PrimaryTeam(list, m, season, preferred, wanted) \in eligible \cup {0}
  BY <1>2, <1>3, <1>4
<1> QED
  BY <1>5 DEF eligible

LEMMA Normalized ==
    ASSUME NEW list \in Seq(People!TeamRecords), NEW preferred, NEW wanted, NEW after,
           after = People!NormalizedPrimaries(list, preferred, wanted)
    PROVE  /\ after \in Seq(People!TeamRecords) /\ DOMAIN after = DOMAIN list
           /\ \A i \in DOMAIN list :
                /\ after[i].id = list[i].id /\ after[i].season = list[i].season
                /\ after[i].projects = list[i].projects /\ after[i].members = list[i].members
                /\ after[i].archived = list[i].archived
                /\ after[i].primaries \subseteq list[i].members
                /\ list[i].archived => after[i].primaries = {}
           /\ \A i, j \in DOMAIN list : i # j /\ list[i].season = list[j].season =>
                after[i].primaries \cap after[j].primaries = {}
<1> DEFINE Primary(m, i) == People!PrimaryTeam(list, m, list[i].season, preferred, wanted)
           primaries(i) == {m \in list[i].members : /\ m \in People!People
                                                    /\ People!Student(member[m].role)
                                                    /\ Primary(m, i) = i}
<1>1. \A i \in DOMAIN list : list[i] \in People!TeamRecords /\ i # 0
  OBVIOUS
<1>2. after = [i \in DOMAIN list |-> [list[i] EXCEPT !.primaries = primaries(i)]]
  BY DEF People!NormalizedPrimaries
<1>3. ASSUME NEW i \in DOMAIN list, NEW m \in primaries(i)
      PROVE  ~list[i].archived
  <2>1. Primary(m, i) = i
    OBVIOUS
  <2>2. Primary(m, i) \in People!Eligible(list, m, list[i].season) \cup {0}
    BY OnePrimary
  <2> HIDE DEF Primary, primaries
  <2>3. i \in People!Eligible(list, m, list[i].season)
    BY <1>1, <2>1, <2>2
  <2> QED
    BY <2>3 DEF People!Eligible
<1>4. ASSUME NEW i \in DOMAIN list, NEW j \in DOMAIN list, i # j, list[i].season = list[j].season
      PROVE  primaries(i) \cap primaries(j) = {}
  <2>1. \A m : Primary(m, i) = Primary(m, j)
    BY <1>4
  <2> HIDE DEF Primary
  <2> QED
    BY <1>4, <2>1
<1>5. \A i \in DOMAIN list : primaries(i) \subseteq list[i].members
  OBVIOUS
<1> HIDE DEF primaries, Primary
<1>6. ASSUME NEW i \in DOMAIN list
      PROVE  /\ after[i] \in People!TeamRecords
             /\ after[i].id = list[i].id /\ after[i].season = list[i].season
             /\ after[i].projects = list[i].projects /\ after[i].members = list[i].members
             /\ after[i].archived = list[i].archived
             /\ after[i].primaries = primaries(i)
  <2>1. after[i] = [list[i] EXCEPT !.primaries = primaries(i)]
    BY <1>2
  <2>2. list[i] \in People!TeamRecords /\ primaries(i) \subseteq list[i].members
    BY <1>1, <1>5
  <2> QED
    BY <2>1, <2>2 DEF People!TeamRecords
<1>7. DOMAIN after = DOMAIN list
  BY <1>2
<1>8. after \in Seq(People!TeamRecords)
  <2>1. DOMAIN list = 1..Len(list) /\ Len(list) \in Nat
    OBVIOUS
  <2>2. after \in [1..Len(list) -> People!TeamRecords]
    BY <1>2, <1>6, <2>1
  <2> QED
    BY <2>1, <2>2
<1>9. \A i \in DOMAIN list : list[i].archived => primaries(i) = {}
  BY <1>3
<1> QED
  BY <1>4, <1>5, <1>6, <1>7, <1>8, <1>9

LEMMA NormalizedAgree ==
    ASSUME People!RosterTypeOK, NEW list, Sound(list), NEW preferred, NEW wanted,
           teams' = People!NormalizedPrimaries(list, preferred, wanted), UNCHANGED member
    PROVE  /\ teams' \in Seq(People!TeamRecords)
           /\ People!TeamsAgree'
<1>1. list \in Seq(People!TeamRecords)
  BY DEF Sound
<1>2. /\ teams' \in Seq(People!TeamRecords) /\ DOMAIN teams' = DOMAIN list
      /\ \A i \in DOMAIN list :
           /\ teams'[i].id = list[i].id /\ teams'[i].season = list[i].season
           /\ teams'[i].projects = list[i].projects /\ teams'[i].members = list[i].members
           /\ teams'[i].archived = list[i].archived
           /\ teams'[i].primaries \subseteq list[i].members
           /\ list[i].archived => teams'[i].primaries = {}
      /\ \A i, j \in DOMAIN list : i # j /\ list[i].season = list[j].season =>
           teams'[i].primaries \cap teams'[j].primaries = {}
  <2>1. PICK after : after = People!NormalizedPrimaries(list, preferred, wanted)
    OBVIOUS
  <2>2. teams' = after
    BY <2>1
  <2> QED
    BY <1>1, <2>1, <2>2, Normalized
<1>3. \A k : People!ActiveIn(k)' = People!ActiveIn(k)
  BY DEF People!ActiveIn, People!People
<1> QED
  BY <1>2, <1>3 DEF Sound, People!TeamsAgree, People!ProjectsOf

\* The team of a task is there, of its season and of its project.
HasTeam(list, d) ==
  d.team # None =>
    \E i \in DOMAIN list : /\ list[i].id = d.team
                           /\ list[i].season = TeamSeason[d.project]
                           /\ list[i].projects # {} => d.project \in list[i].projects

LEMMA TeamFound ==
  People!TeamsAgree =>
    \A i \in DOMAIN teams : People!PositionOf(teams[i].id) = i /\ People!TeamOf(teams[i].id) = teams[i]
  BY DEF People!TeamsAgree, People!PositionOf, People!TeamOf

LEMMA TeamFitting ==
  People!TeamsAgree =>
    \A d, archived : /\ People!TeamFits(d, archived) => HasTeam(teams, d)
                     /\ HasTeam(teams, d) => People!TeamFits(d, TRUE)
  BY TeamFound DEF People!TeamFits, HasTeam, People!TeamIds

\* What WorkIsStaffed says, by what the routes check.
StaffThere ==
  \A s \in TeamSubsystems : /\ staff[s].engineer \in People!People \cup {None}
                            /\ staff[s].mentors \subseteq People!People

LEMMA StaffedMeans ==
  People!RosterTypeOK =>
    \A d \in People!Duties :
      People!Staffed(member, d) <=>
        /\ People!On(d) # {} /\ People!On(d) \subseteq People!People
        /\ \A m \in People!On(d) : People!Contributes(member[m].role)
        /\ d.owner # None => People!Student(member[d.owner].role)
        /\ d.mentor # None => member[d.mentor].role = "mentor"
<1> SUFFICES ASSUME People!RosterTypeOK, NEW d \in People!Duties
             PROVE  People!Staffed(member, d) <=>
                      /\ People!On(d) # {} /\ People!On(d) \subseteq People!People
                      /\ \A m \in People!On(d) : People!Contributes(member[m].role)
                      /\ d.owner # None => People!Student(member[d.owner].role)
                      /\ d.mentor # None => member[d.mentor].role = "mentor"
  OBVIOUS
<1>1. People!On(d) \subseteq Members
  BY DEF People!On, People!Duties
<1>2. \A m \in People!On(d) : People!Contributes(People!RoleIn(member, m)) => m \in People!People
  BY <1>1 DEF People!RoleIn, People!Contributes, People!People
<1>3. \A m \in People!People : People!RoleIn(member, m) = member[m].role
  BY DEF People!RoleIn, People!People
<1>4. (d.owner # None => d.owner \in People!On(d)) /\ (d.mentor # None => d.mentor \in People!On(d))
  BY DEF People!On
<1> QED
  BY <1>2, <1>3, <1>4 DEF People!Staffed

LEMMA WorkMeans ==
  People!RosterTypeOK /\ People!TeamsAgree =>
    (People!WorkIsStaffed <=>
       /\ \A t \in People!Assigned : People!Staffed(member, duty[t]) /\ HasTeam(teams, duty[t])
       /\ StaffThere)
<1> SUFFICES ASSUME People!RosterTypeOK, People!TeamsAgree
             PROVE  People!WorkIsStaffed <=>
                      /\ \A t \in People!Assigned : People!Staffed(member, duty[t]) /\ HasTeam(teams, duty[t])
                      /\ StaffThere
  OBVIOUS
<1>1. \A t \in People!Assigned : duty[t] \in People!Duties
  BY DEF People!RosterTypeOK, People!Assigned
<1>2. \A t \in People!Assigned : People!TeamFits(duty[t], TRUE) <=> HasTeam(teams, duty[t])
  BY TeamFitting
<1> QED
  BY <1>1, <1>2, StaffedMeans DEF People!WorkIsStaffed, StaffThere

LEMMA TeamsChanged ==
    ASSUME PeopleInv, NEW list, Sound(list), NEW preferred, NEW wanted,
           teams' = People!NormalizedPrimaries(list, preferred, wanted), UNCHANGED <<member, staff>>,
           duty' \in [Tasks -> People!Duties \cup {None}],
           \A t \in Tasks : duty'[t] # None => People!Staffed(member, duty'[t]) /\ HasTeam(list, duty'[t])
    PROVE  PeopleInv'
<1>0. People!RosterTypeOK /\ People!TeamsAgree /\ People!WorkIsStaffed /\ People!AnAdministratorRemains
  BY DEF PeopleInv
<1>1. teams' \in Seq(People!TeamRecords) /\ People!TeamsAgree'
  BY <1>0, NormalizedAgree
<1>2. People!RosterTypeOK'
  BY <1>0, <1>1 DEF People!RosterTypeOK
<1>3. \A d : HasTeam(list, d) => HasTeam(teams', d)
  <2>1. list \in Seq(People!TeamRecords)
    BY DEF Sound
  <2>2. PICK after : after = People!NormalizedPrimaries(list, preferred, wanted)
    OBVIOUS
  <2>3. /\ teams' = after /\ DOMAIN after = DOMAIN list
        /\ \A i \in DOMAIN list : /\ after[i].id = list[i].id /\ after[i].season = list[i].season
                                  /\ after[i].projects = list[i].projects
    BY <2>1, <2>2, Normalized
  <2> QED
    BY <2>3 DEF HasTeam
<1>4. \A t \in People!Assigned' : People!Staffed(member', duty'[t]) /\ HasTeam(teams', duty'[t])
  BY <1>3 DEF People!Assigned
<1>5. StaffThere'
  BY <1>0 DEF StaffThere, People!WorkIsStaffed, People!People
<1>6. (People!RosterTypeOK /\ People!TeamsAgree =>
         (People!WorkIsStaffed <=>
            /\ \A t \in People!Assigned : People!Staffed(member, duty[t]) /\ HasTeam(teams, duty[t])
            /\ StaffThere))'
  BY WorkMeans, PTL
<1>7. People!WorkIsStaffed'
  BY <1>1, <1>2, <1>4, <1>5, <1>6
<1>8. People!AnAdministratorRemains'
  BY <1>0 DEF People!AnAdministratorRemains, People!People
<1> QED
  BY <1>1, <1>2, <1>7, <1>8 DEF PeopleInv

\* What is true of the tasks before any step.
LEMMA WorkThere ==
  PeopleInv =>
    /\ \A t \in People!Assigned : /\ t \in Tasks /\ duty[t] \in People!Duties
                                  /\ People!Staffed(member, duty[t]) /\ HasTeam(teams, duty[t])
    /\ \A m \in People!People : m \in Members /\ m # None /\ member[m] \in People!MemberRecords
    /\ \A i \in DOMAIN teams : teams[i] \in People!TeamRecords
    /\ Sound(teams)
    /\ StaffThere
<1> SUFFICES ASSUME PeopleInv
             PROVE  /\ \A t \in People!Assigned : /\ t \in Tasks /\ duty[t] \in People!Duties
                                                  /\ People!Staffed(member, duty[t]) /\ HasTeam(teams, duty[t])
                    /\ \A m \in People!People : m \in Members /\ m # None /\ member[m] \in People!MemberRecords
                    /\ \A i \in DOMAIN teams : teams[i] \in People!TeamRecords
                    /\ Sound(teams)
                    /\ StaffThere
  OBVIOUS
<1>1. People!RosterTypeOK /\ People!TeamsAgree /\ People!WorkIsStaffed
  BY DEF PeopleInv
<1>2. \A t \in People!Assigned : /\ t \in Tasks /\ duty[t] \in People!Duties
  BY <1>1 DEF People!RosterTypeOK, People!Assigned
<1>3. \A m \in People!People : m \in Members /\ m # None /\ member[m] \in People!MemberRecords
  BY <1>1, Rosters DEF People!RosterTypeOK, People!People
<1>4. \A i \in DOMAIN teams : teams[i] \in People!TeamRecords
  BY <1>1 DEF People!RosterTypeOK
<1>5. Sound(teams)
  BY <1>1 DEF People!RosterTypeOK, People!TeamsAgree, Sound
<1> QED
  BY <1>1, <1>2, <1>3, <1>4, <1>5, WorkMeans

LEMMA RemovedAt ==
    ASSUME NEW S, NEW list \in Seq(S), NEW k \in DOMAIN list
    PROVE  /\ People!RemoveAt(list, k) \in Seq(S)
           /\ DOMAIN People!RemoveAt(list, k) = 1..(Len(list) - 1)
           /\ \A i \in DOMAIN People!RemoveAt(list, k) :
                People!RemoveAt(list, k)[i] = IF i < k THEN list[i] ELSE list[i + 1]
<1>1. k \in 1..Len(list) /\ Len(list) \in Nat
  OBVIOUS
<1> DEFINE front == SubSeq(list, 1, k - 1)
           back == SubSeq(list, k + 1, Len(list))
<1>2. front \in Seq(S) /\ Len(front) = k - 1 /\ \A i \in 1..(k - 1) : front[i] = list[i]
  BY <1>1
<1>3. back \in Seq(S) /\ Len(back) = Len(list) - k /\ \A i \in 1..(Len(list) - k) : back[i] = list[k + i]
  BY <1>1
<1> HIDE DEF front, back
<1>a. front \o back \in Seq(S)
  BY <1>2, <1>3
<1>b. Len(front \o back) = Len(list) - 1
  BY <1>1, <1>2, <1>3
<1>c. ASSUME NEW i \in 1..(Len(list) - 1)
      PROVE  (front \o back)[i] = IF i < k THEN list[i] ELSE list[i + 1]
  <2>1. CASE i < k
    <3>1. (front \o back)[i] = front[i]
      BY <1>1, <1>2, <1>3, <2>1
    <3> QED
      BY <3>1, <1>1, <1>2, <2>1
  <2>2. CASE ~(i < k)
    <3> DEFINE j == i - (k - 1)
    <3>1. j \in 1..(Len(list) - k) /\ k + j = i + 1
      BY <1>1, <2>2
    <3>2. (front \o back)[i] = back[i - Len(front)] /\ Len(front) = k - 1
      <4>1. i > Len(front) /\ i <= Len(front) + Len(back)
        BY <1>1, <1>2, <1>3, <2>2
      <4> QED
        BY <1>2, <1>3, <4>1
    <3>3. (front \o back)[i] = back[j]
      BY <3>2
    <3> HIDE DEF j
    <3>4. back[j] = list[i + 1]
      BY <1>3, <3>1
    <3> QED
      BY <3>3, <3>4, <2>2
  <2> QED
    BY <2>1, <2>2
<1>4. /\ front \o back \in Seq(S) /\ Len(front \o back) = Len(list) - 1
      /\ \A i \in 1..(Len(list) - 1) : (front \o back)[i] = IF i < k THEN list[i] ELSE list[i + 1]
  BY <1>a, <1>b, <1>c
<1>5. People!RemoveAt(list, k) = front \o back
  BY DEF People!RemoveAt, front, back
<1> QED
  BY <1>4, <1>5

LEMMA TeamsNext ==
    ASSUME PeopleInv, NEW g \in Teams, People!CreateTeam(g) \/ People!PatchTeam(g) \/ People!RemoveTeam(g)
    PROVE  PeopleInv'
<1> USE Rosters
<1>0. People!RosterTypeOK /\ People!TeamsAgree
  BY DEF PeopleInv
<1>1. /\ \A t \in People!Assigned : /\ t \in Tasks /\ duty[t] \in People!Duties
                                    /\ People!Staffed(member, duty[t]) /\ HasTeam(teams, duty[t])
      /\ \A i \in DOMAIN teams : teams[i] \in People!TeamRecords
      /\ Sound(teams)
  BY WorkThere
<1>2. CASE People!CreateTeam(g)
  <2> DEFINE Created(season, members, projects, primaries) ==
               teams' = People!NormalizedPrimaries(
                 Append(teams, [id |-> g, season |-> season, projects |-> projects, members |-> members,
                                primaries |-> primaries, archived |-> FALSE]),
                 g, primaries)
  <2>a. PICK season \in Seasons :
          \E members \in SUBSET People!ActiveIn(season), projects \in SUBSET People!ProjectsOf(season) :
          \E primaries \in SUBSET members : Created(season, members, projects, primaries)
    BY <1>2 DEF People!CreateTeam
  <2>1. PICK members \in SUBSET People!ActiveIn(season), projects \in SUBSET People!ProjectsOf(season) :
          \E primaries \in SUBSET members : Created(season, members, projects, primaries)
    BY <2>a
  <2>b. PICK primaries \in SUBSET members : Created(season, members, projects, primaries)
    BY <2>1
  <2>2. g \notin People!TeamIds(teams) /\ UNCHANGED <<member, duty, staff>>
    BY <1>2 DEF People!CreateTeam
  <2> DEFINE team == [id |-> g, season |-> season, projects |-> projects, members |-> members,
                      primaries |-> primaries, archived |-> FALSE]
             list == Append(teams, team)
  <2>3. /\ team \in People!TeamRecords /\ team.id = g
        /\ team.members \subseteq People!ActiveIn(team.season)
        /\ team.projects \subseteq People!ProjectsOf(team.season)
    BY <2>1 DEF People!TeamRecords, People!ActiveIn, People!People, People!ProjectsOf
  <2>4. teams' = People!NormalizedPrimaries(list, g, primaries)
    BY <2>b
  <2> HIDE DEF team
  <2>5. /\ list \in Seq(People!TeamRecords) /\ DOMAIN list = 1..(Len(teams) + 1) /\ Len(teams) \in Nat
        /\ DOMAIN teams = 1..Len(teams)
        /\ \A i \in DOMAIN teams : i \in DOMAIN list /\ list[i] = teams[i]
        /\ list[Len(teams) + 1] = team
    BY <1>0, <2>3 DEF People!RosterTypeOK
  <2> HIDE DEF list
  <2>6. \A i \in DOMAIN list : i \in DOMAIN teams \/ list[i] = team
    BY <2>5
  <2>7. \A i, j \in DOMAIN list : i # j => list[i].id # list[j].id
    BY <1>1, <2>2, <2>3, <2>5, <2>6 DEF Sound, People!TeamIds
  <2>8. Sound(list)
    BY <1>1, <2>1, <2>3, <2>5, <2>6, <2>7 DEF Sound
  <2>9. \A d : HasTeam(teams, d) => HasTeam(list, d)
    BY <2>5 DEF HasTeam
  <2>10. \A t \in Tasks : duty'[t] # None => People!Staffed(member, duty'[t]) /\ HasTeam(list, duty'[t])
    BY <1>1, <2>2, <2>9 DEF People!Assigned
  <2>11. duty' \in [Tasks -> People!Duties \cup {None}]
    BY <1>0, <2>2 DEF People!RosterTypeOK
  <2> QED
    BY <2>2, <2>4, <2>8, <2>10, <2>11, TeamsChanged
<1>3. CASE People!PatchTeam(g)
  <2> DEFINE Patched(season, archived, members, projects, wanted) ==
        LET primaries == IF wanted = None THEN People!TeamOf(g).primaries ELSE wanted
            updated == [id |-> g, season |-> season, projects |-> projects, members |-> members,
                        primaries |-> primaries, archived |-> archived]
        IN  /\ People!MayBePrimary(primaries, members)
            /\ People!KeepsItsTasks(g, season, projects)
            /\ teams' = People!NormalizedPrimaries(
                 [i \in DOMAIN teams |-> IF teams[i].id = g THEN updated ELSE teams[i]],
                 g, IF wanted = None THEN {} ELSE wanted)
  <2>a. PICK season \in Seasons, archived \in BOOLEAN :
          \E members \in SUBSET People!ActiveIn(season), projects \in SUBSET People!ProjectsOf(season) :
          \E wanted \in (SUBSET members) \cup {None} : Patched(season, archived, members, projects, wanted)
    BY <1>3 DEF People!PatchTeam
  <2>b. PICK members \in SUBSET People!ActiveIn(season), projects \in SUBSET People!ProjectsOf(season) :
          \E wanted \in (SUBSET members) \cup {None} : Patched(season, archived, members, projects, wanted)
    BY <2>a
  <2>1. PICK wanted \in (SUBSET members) \cup {None} : Patched(season, archived, members, projects, wanted)
    BY <2>b
  <2>2. UNCHANGED <<member, duty, staff>>
    BY <1>3 DEF People!PatchTeam
  <2> DEFINE primaries == IF wanted = None THEN People!TeamOf(g).primaries ELSE wanted
             updated == [id |-> g, season |-> season, projects |-> projects, members |-> members,
                         primaries |-> primaries, archived |-> archived]
             list == [i \in DOMAIN teams |-> IF teams[i].id = g THEN updated ELSE teams[i]]
             named == IF wanted = None THEN {} ELSE wanted
  <2>3. /\ People!MayBePrimary(primaries, members)
        /\ People!KeepsItsTasks(g, season, projects)
        /\ teams' = People!NormalizedPrimaries(list, g, named)
    BY <2>1
  <2>4. members \subseteq Members /\ projects \subseteq TeamProjects /\ primaries \subseteq members
    BY <2>1, <2>3 DEF People!MayBePrimary, People!ActiveIn, People!People, People!ProjectsOf
  <2> HIDE DEF primaries, named
  <2>5. /\ updated \in People!TeamRecords /\ updated.id = g
        /\ updated.season = season /\ updated.projects = projects /\ updated.members = members
    BY <2>4 DEF People!TeamRecords
  <2> HIDE DEF updated
  <2>6. DOMAIN list = DOMAIN teams /\ \A i \in DOMAIN teams : list[i] = IF teams[i].id = g THEN updated ELSE teams[i]
    OBVIOUS
  <2>7. list \in Seq(People!TeamRecords)
    <3>1. DOMAIN teams = 1..Len(teams) /\ Len(teams) \in Nat
      BY <1>0 DEF People!RosterTypeOK
    <3>2. list \in [1..Len(teams) -> People!TeamRecords]
      BY <1>1, <2>5, <3>1
    <3> QED
      BY <3>1, <3>2
  <2> HIDE DEF list
  <2>8. Sound(list)
    BY <1>1, <2>1, <2>5, <2>6, <2>7 DEF Sound
  <2>9. \A t \in People!Assigned : HasTeam(list, duty[t])
    BY <1>1, <2>3, <2>5, <2>6 DEF HasTeam, People!KeepsItsTasks
  <2>10. \A t \in Tasks : duty'[t] # None => People!Staffed(member, duty'[t]) /\ HasTeam(list, duty'[t])
    BY <1>1, <2>2, <2>9 DEF People!Assigned
  <2>11. duty' \in [Tasks -> People!Duties \cup {None}]
    BY <1>0, <2>2 DEF People!RosterTypeOK
  <2> QED
    BY <2>2, <2>3, <2>8, <2>10, <2>11, TeamsChanged
<1>4. CASE People!RemoveTeam(g)
  <2> DEFINE k == People!PositionOf(g)
             list == People!RemoveAt(teams, k)
  <2>1. /\ teams' = People!NormalizedPrimaries(list, None, {})
        /\ duty' = [t \in Tasks |->
             IF t \in People!Assigned /\ duty[t].team = g THEN [duty[t] EXCEPT !.team = None] ELSE duty[t]]
        /\ UNCHANGED <<member, staff>>
    BY <1>4 DEF People!RemoveTeam
  <2>2. k \in DOMAIN teams /\ teams[k].id = g
    BY <1>4 DEF People!RemoveTeam, People!TeamIds, People!PositionOf
  <2> HIDE DEF k
  <2>3. /\ list \in Seq(People!TeamRecords) /\ Len(teams) \in Nat
        /\ DOMAIN teams = 1..Len(teams) /\ DOMAIN list = 1..(Len(teams) - 1)
        /\ \A i \in DOMAIN list : list[i] = IF i < k THEN teams[i] ELSE teams[i + 1]
    BY <1>0, <2>2, RemovedAt DEF People!RosterTypeOK
  <2> HIDE DEF list
  <2>4. \A i \in DOMAIN list : \E n \in DOMAIN teams \ {k} : list[i] = teams[n] /\ n = IF i < k THEN i ELSE i + 1
    BY <2>2, <2>3
  <2>5. \A n \in DOMAIN teams \ {k} : \E i \in DOMAIN list : list[i] = teams[n]
    <3> SUFFICES ASSUME NEW n \in DOMAIN teams \ {k} PROVE \E i \in DOMAIN list : list[i] = teams[n]
      OBVIOUS
    <3>1. CASE n < k
      BY <2>2, <2>3, <3>1
    <3>2. CASE ~(n < k)
      <4>1. n - 1 \in DOMAIN list /\ list[n - 1] = teams[n]
        BY <2>2, <2>3, <3>2
      <4> QED
        BY <4>1
    <3> QED
      BY <3>1, <3>2
  <2>6. \A i, j \in DOMAIN list : i # j => list[i].id # list[j].id
    <3> SUFFICES ASSUME NEW i \in DOMAIN list, NEW j \in DOMAIN list, i # j PROVE list[i].id # list[j].id
      OBVIOUS
    <3>1. PICK a \in DOMAIN teams : list[i] = teams[a] /\ a = IF i < k THEN i ELSE i + 1
      BY <2>4
    <3>2. PICK b \in DOMAIN teams : list[j] = teams[b] /\ b = IF j < k THEN j ELSE j + 1
      BY <2>4
    <3>3. a # b
      BY <2>2, <2>3, <3>1, <3>2
    <3> QED
      BY <1>1, <3>1, <3>2, <3>3 DEF Sound
  <2>7. Sound(list)
    BY <1>1, <2>3, <2>4, <2>6 DEF Sound
  <2>8. \A t \in People!Assigned : duty[t].team # g => HasTeam(list, duty[t])
    <3> SUFFICES ASSUME NEW t \in People!Assigned, duty[t].team # g, duty[t].team # None
                 PROVE  HasTeam(list, duty[t])
      BY DEF HasTeam
    <3>1. PICK n \in DOMAIN teams : /\ teams[n].id = duty[t].team
                                    /\ teams[n].season = TeamSeason[duty[t].project]
                                    /\ teams[n].projects # {} => duty[t].project \in teams[n].projects
      BY <1>1 DEF HasTeam
    <3>2. PICK i \in DOMAIN list : list[i] = teams[n]
      BY <2>2, <2>5, <3>1
    <3> QED
      BY <3>1, <3>2 DEF HasTeam
  <2>9. ASSUME NEW t \in Tasks, duty'[t] # None
        PROVE  People!Staffed(member, duty'[t]) /\ HasTeam(list, duty'[t])
    <3>1. CASE duty'[t] = duty[t] /\ t \in People!Assigned /\ duty[t].team # g
      BY <1>1, <2>8, <3>1
    <3>2. CASE t \in People!Assigned /\ duty'[t] = [duty[t] EXCEPT !.team = None]
      <4>1. duty[t] \in People!Duties /\ People!Staffed(member, duty[t])
        BY <1>1, <3>2
      <4>2. /\ duty'[t].team = None /\ duty'[t].owner = duty[t].owner
            /\ duty'[t].mentor = duty[t].mentor /\ duty'[t].helpers = duty[t].helpers
        BY <3>2, <4>1 DEF People!Duties
      <4> QED
        BY <4>1, <4>2 DEF HasTeam, People!Staffed, People!On
    <3> QED
      BY <2>1, <2>9, <3>1, <3>2 DEF People!Assigned
  <2>10. duty' \in [Tasks -> People!Duties \cup {None}]
    <3>1. \A t \in People!Assigned : [duty[t] EXCEPT !.team = None] \in People!Duties
      BY <1>1 DEF People!Duties
    <3> QED
      BY <1>0, <2>1, <3>1 DEF People!RosterTypeOK
  <2> QED
    BY <2>1, <2>7, <2>9, <2>10, TeamsChanged
<1> QED
  BY <1>2, <1>3, <1>4

LEMMA WorkKept ==
    ASSUME People!RosterTypeOK', People!TeamsAgree', StaffThere', People!AnAdministratorRemains',
           \A t \in Tasks : duty'[t] # None => People!Staffed(member', duty'[t]) /\ HasTeam(teams', duty'[t])
    PROVE  PeopleInv'
<1>1. (People!RosterTypeOK /\ People!TeamsAgree =>
         (People!WorkIsStaffed <=>
            /\ \A t \in People!Assigned : People!Staffed(member, duty[t]) /\ HasTeam(teams, duty[t])
            /\ StaffThere))'
  BY WorkMeans, PTL
<1>2. \A t \in People!Assigned' : People!Staffed(member', duty'[t]) /\ HasTeam(teams', duty'[t])
  BY DEF People!Assigned
<1> QED
  BY <1>1, <1>2 DEF PeopleInv

\* A request that only changes tasks.
LEMMA TasksChanged ==
    ASSUME PeopleInv, UNCHANGED <<member, teams, staff>>,
           duty' \in [Tasks -> People!Duties \cup {None}],
           \A t \in Tasks : duty'[t] # None => People!Staffed(member, duty'[t]) /\ HasTeam(teams, duty'[t])
    PROVE  PeopleInv'
<1>0. People!RosterTypeOK /\ People!TeamsAgree /\ People!AnAdministratorRemains
  BY DEF PeopleInv
<1>1. People!RosterTypeOK'
  BY <1>0 DEF People!RosterTypeOK
<1>2. \A k : People!ActiveIn(k)' = People!ActiveIn(k)
  BY DEF People!ActiveIn, People!People
<1>3. People!TeamsAgree'
  BY <1>0, <1>2 DEF People!TeamsAgree, People!ProjectsOf
<1>4. StaffThere' /\ People!AnAdministratorRemains'
  BY <1>0, WorkThere DEF StaffThere, People!People, People!AnAdministratorRemains
<1> QED
  BY <1>1, <1>3, <1>4, WorkKept

LEMMA TaskChanged ==
    ASSUME PeopleInv, UNCHANGED <<member, teams, staff>>, NEW t \in Tasks, NEW d \in People!Duties,
           People!Staffed(member, d), HasTeam(teams, d), duty' = [duty EXCEPT ![t] = d]
    PROVE  PeopleInv'
<1>1. duty \in [Tasks -> People!Duties \cup {None}]
  BY DEF PeopleInv, People!RosterTypeOK
<1>2. \A u \in Tasks : duty'[u] # None => People!Staffed(member, duty'[u]) /\ HasTeam(teams, duty'[u])
  BY <1>1, WorkThere DEF People!Assigned
<1> QED
  BY <1>1, <1>2, TasksChanged

LEMMA PeopleChanged ==
    ASSUME PeopleInv, NEW t \in Tasks, NEW d \in People!Duties, People!ChangePeople(t, d)
    PROVE  PeopleInv'
<1>1. HasTeam(teams, d)
  BY TeamFitting DEF PeopleInv, People!ChangePeople
<1> QED
  BY <1>1, TaskChanged DEF People!ChangePeople

LEMMA TasksNext ==
    ASSUME PeopleInv, NEW t \in Tasks,
           \/ People!AssignTask(t) \/ People!UnassignTask(t)
           \/ People!ClaimTask(t) \/ People!ReleaseTask(t) \/ People!ReassignTask(t)
    PROVE  PeopleInv'
<1>1. People!TeamsAgree /\ duty \in [Tasks -> People!Duties \cup {None}]
  BY DEF PeopleInv, People!RosterTypeOK
<1>2. \A u \in People!Assigned : duty[u] \in People!Duties
  BY <1>1 DEF People!Assigned
<1>3. CASE People!AssignTask(t)
  <2>1. PICK d \in People!Duties : /\ People!Staffed(member, d)
                                   /\ People!TeamFits(d, t \in People!Assigned /\ duty[t].team = d.team)
                                   /\ duty' = [duty EXCEPT ![t] = d]
    BY <1>3 DEF People!AssignTask
  <2>2. HasTeam(teams, d)
    BY <1>1, <2>1, TeamFitting
  <2>3. UNCHANGED <<member, teams, staff>>
    BY <1>3 DEF People!AssignTask
  <2> QED
    BY <2>1, <2>2, <2>3, TaskChanged
<1>4. CASE People!UnassignTask(t)
  <2>1. duty' = [duty EXCEPT ![t] = None] /\ UNCHANGED <<member, teams, staff>>
    BY <1>4 DEF People!UnassignTask
  <2>2. \A u \in Tasks : duty'[u] # None => u \in People!Assigned /\ duty'[u] = duty[u]
    BY <1>1, <2>1 DEF People!Assigned
  <2>3. duty' \in [Tasks -> People!Duties \cup {None}]
    BY <1>1, <2>1
  <2> QED
    BY <2>1, <2>2, <2>3, WorkThere, TasksChanged
<1>5. CASE People!ClaimTask(t)
  <2>1. PICK m \in People!People : People!ChangePeople(t, [duty[t] EXCEPT !.owner = m, !.helpers = @ \cup {m}])
    BY <1>5 DEF People!ClaimTask
  <2>2. duty[t] \in People!Duties /\ m \in Members
    BY <1>2, <1>5 DEF People!ClaimTask, People!People
  <2>3. [duty[t] EXCEPT !.owner = m, !.helpers = @ \cup {m}] \in People!Duties
    BY <2>2 DEF People!Duties
  <2> QED
    BY <2>1, <2>3, PeopleChanged
<1>6. CASE People!ReleaseTask(t)
  <2>1. People!ChangePeople(t, [duty[t] EXCEPT !.owner = None, !.helpers = @ \ {duty[t].owner}])
    BY <1>6 DEF People!ReleaseTask
  <2>2. duty[t] \in People!Duties
    BY <1>2, <1>6 DEF People!ReleaseTask
  <2>3. [duty[t] EXCEPT !.owner = None, !.helpers = @ \ {duty[t].owner}] \in People!Duties
    BY <2>2 DEF People!Duties
  <2> QED
    BY <2>1, <2>3, PeopleChanged
<1>7. CASE People!ReassignTask(t)
  <2> DEFINE helpers(m) == ((IF duty[t].owner = m THEN duty[t].helpers
                             ELSE duty[t].helpers \ {duty[t].owner}) \cup {m}) \ {None}
  <2>1. PICK m \in {n \in People!People : People!Student(member[n].role)} \cup {None} :
          People!ChangePeople(t, [duty[t] EXCEPT !.owner = m,
            !.helpers = ((IF duty[t].owner = m THEN @ ELSE @ \ {duty[t].owner}) \cup {m}) \ {None}])
    BY <1>7 DEF People!ReassignTask
  <2>2. duty[t] \in People!Duties /\ m \in Members \cup {None}
    BY <1>2, <1>7 DEF People!ReassignTask, People!People
  <2>3. helpers(m) \in SUBSET Members
    BY <2>2 DEF People!Duties
  <2>4. People!ChangePeople(t, [duty[t] EXCEPT !.owner = m, !.helpers = helpers(m)])
    BY <2>1
  <2> HIDE DEF helpers
  <2>5. [duty[t] EXCEPT !.owner = m, !.helpers = helpers(m)] \in People!Duties
    BY <2>2, <2>3 DEF People!Duties
  <2> QED
    BY <2>4, <2>5, PeopleChanged
<1> QED
  BY <1>3, <1>4, <1>5, <1>6, <1>7

LEMMA GenerateNext ==
    ASSUME PeopleInv, NEW t \in Tasks, NEW s \in TeamSubsystems, People!GenerateTask(t, s)
    PROVE  PeopleInv'
<1> USE Rosters
<1>1. People!RosterTypeOK
  BY DEF PeopleInv
<1> DEFINE engineer == IF People!Fits(staff[s].engineer, s, {"student", "lead"}) THEN staff[s].engineer ELSE None
           mentors == {m \in staff[s].mentors : People!Fits(m, s, {"mentor"})}
           owner(actor, mentor) == IF engineer = None /\ mentor = None /\ People!Fits(actor, s, {"student", "lead"})
                                   THEN actor ELSE engineer
           guide(actor, mentor) == IF engineer = None /\ mentor = None /\ People!Fits(actor, s, {"mentor"})
                                   THEN actor ELSE mentor
           generated(actor, mentor) ==
             [project |-> ProjectOf[s], team |-> None, owner |-> owner(actor, mentor),
              mentor |-> guide(actor, mentor), helpers |-> {owner(actor, mentor)} \ {None}]
           Generated(actor, mentor) ==
             /\ owner(actor, mentor) # None \/ guide(actor, mentor) # None
             /\ duty' = [duty EXCEPT ![t] = generated(actor, mentor)]
<1>2. PICK actor \in People!People : \E mentor \in IF mentors = {} THEN {None} ELSE mentors : Generated(actor, mentor)
  BY DEF People!GenerateTask
<1>3. PICK mentor \in IF mentors = {} THEN {None} ELSE mentors : Generated(actor, mentor)
  BY <1>2
<1>4. UNCHANGED <<member, teams, staff>>
  BY DEF People!GenerateTask
<1>5. \A m, roles : People!Fits(m, s, roles) => m \in People!People /\ m \in Members /\ member[m].role \in roles
  BY DEF People!Fits, People!People
<1>6. owner(actor, mentor) # None =>
        owner(actor, mentor) \in People!People /\ member[owner(actor, mentor)].role \in {"student", "lead"}
  BY <1>5
<1>7. guide(actor, mentor) # None =>
        guide(actor, mentor) \in People!People /\ member[guide(actor, mentor)].role = "mentor"
  BY <1>3, <1>5
<1> DEFINE o == owner(actor, mentor)
           g == guide(actor, mentor)
           d == generated(actor, mentor)
<1>8. d = [project |-> ProjectOf[s], team |-> None, owner |-> o, mentor |-> g, helpers |-> {o} \ {None}]
  OBVIOUS
<1>9. (o # None \/ g # None) /\ duty' = [duty EXCEPT ![t] = d]
  BY <1>3
<1>10. /\ o # None => o \in People!People /\ member[o].role \in {"student", "lead"}
       /\ g # None => g \in People!People /\ member[g].role = "mentor"
  BY <1>6, <1>7
<1> HIDE DEF o, g, d
<1>11. \A m \in People!People : m \in Members /\ member[m] # None
  BY DEF People!People
<1>12. d \in People!Duties
  BY <1>8, <1>10, <1>11 DEF People!Duties
<1>13. People!On(d) = {o, g} \ {None}
  BY <1>8 DEF People!On
<1>14. People!Staffed(member, d)
  BY <1>8, <1>9, <1>10, <1>11, <1>13 DEF People!Staffed, People!RoleIn, People!Contributes, People!Student
<1>15. HasTeam(teams, d)
  BY <1>8 DEF HasTeam
<1> QED
  BY <1>4, <1>9, <1>12, <1>14, <1>15, TaskChanged

LEMMA StaffNext ==
    ASSUME PeopleInv, NEW s \in TeamSubsystems, People!StaffSubsystem(s)
    PROVE  PeopleInv'
<1>0. People!RosterTypeOK /\ People!TeamsAgree /\ People!AnAdministratorRemains
  BY DEF PeopleInv
<1>1. PICK engineer \in People!ActiveIn(TeamSeason[ProjectOf[s]]) \cup {None},
           mentors \in SUBSET People!ActiveIn(TeamSeason[ProjectOf[s]]) :
        staff' = [staff EXCEPT ![s] = [engineer |-> engineer, mentors |-> mentors]]
  BY DEF People!StaffSubsystem
<1>2. UNCHANGED <<member, teams, duty>>
  BY DEF People!StaffSubsystem
<1>3. engineer \in People!People \cup {None} /\ mentors \subseteq People!People
  BY DEF People!ActiveIn
<1>4. People!People \subseteq Members /\ People!People' = People!People
  BY <1>2 DEF People!People
<1>5. People!RosterTypeOK'
  BY <1>0, <1>1, <1>2, <1>3, <1>4 DEF People!RosterTypeOK
<1>6. StaffThere'
  BY <1>0, <1>1, <1>3, <1>4, WorkThere DEF StaffThere, People!RosterTypeOK
<1>7. \A k : People!ActiveIn(k)' = People!ActiveIn(k)
  BY <1>2, <1>4 DEF People!ActiveIn
<1>8. People!TeamsAgree' /\ People!AnAdministratorRemains'
  BY <1>0, <1>2, <1>4, <1>7 DEF People!TeamsAgree, People!ProjectsOf, People!AnAdministratorRemains
<1> QED
  BY <1>2, <1>5, <1>6, <1>8, WorkThere, WorkKept DEF People!Assigned

LEMMA SameRoles ==
    ASSUME NEW before, NEW after, NEW d, People!Staffed(before, d),
           \A n \in People!On(d) : People!RoleIn(after, n) = People!RoleIn(before, n)
    PROVE  People!Staffed(after, d)
<1>1. (d.owner # None => d.owner \in People!On(d)) /\ (d.mentor # None => d.mentor \in People!On(d))
  BY DEF People!On
<1> QED
  BY <1>1 DEF People!Staffed

LEMMA CreateMemberNext ==
    ASSUME PeopleInv, NEW m \in Members, People!CreateMember(m)
    PROVE  PeopleInv'
<1> USE Rosters
<1>0. People!RosterTypeOK /\ People!TeamsAgree /\ People!AnAdministratorRemains
  BY DEF PeopleInv
<1>1. PICK record \in People!MemberRecords : member' = [member EXCEPT ![m] = record]
  BY DEF People!CreateMember
<1>2. UNCHANGED <<teams, duty, staff>> /\ m \notin People!People
  BY DEF People!CreateMember
<1>3. People!RosterTypeOK'
  BY <1>0, <1>1, <1>2 DEF People!RosterTypeOK
<1>4. \A n \in People!People : n # m /\ member'[n] = member[n] /\ n \in People!People'
  BY <1>0, <1>1, <1>2 DEF People!People, People!RosterTypeOK
<1>5. \A k : People!ActiveIn(k) \subseteq People!ActiveIn(k)'
  BY <1>4 DEF People!ActiveIn
<1>6. People!TeamsAgree'
  BY <1>0, <1>2, <1>5 DEF People!TeamsAgree, People!ProjectsOf
<1>7. StaffThere' /\ People!AnAdministratorRemains'
  BY <1>0, <1>2, <1>4, WorkThere DEF StaffThere, People!AnAdministratorRemains
<1>8. ASSUME NEW t \in People!Assigned PROVE People!Staffed(member', duty[t])
  <2>1. duty[t] \in People!Duties /\ People!Staffed(member, duty[t])
    BY WorkThere
  <2>2. People!On(duty[t]) \subseteq People!People
    BY <1>0, <2>1, StaffedMeans
  <2>3. \A n \in People!On(duty[t]) : People!RoleIn(member', n) = People!RoleIn(member, n)
    BY <1>4, <2>2 DEF People!RoleIn
  <2> QED
    BY <2>1, <2>3, SameRoles
<1> QED
  BY <1>2, <1>3, <1>6, <1>7, <1>8, WorkThere, WorkKept DEF People!Assigned

LEMMA UpdateMemberNext ==
    ASSUME PeopleInv, NEW m \in Members, People!UpdateMember(m)
    PROVE  PeopleInv'
<1> USE Rosters
<1>0. People!RosterTypeOK /\ People!TeamsAgree /\ People!AnAdministratorRemains
  BY DEF PeopleInv
<1>1. PICK record \in People!MemberRecords :
        /\ member' = [member EXCEPT ![m] = record]
        /\ People!MayBecome(m, record)
        /\ record.role # member[m].role => People!TasksCanDo(m, member', duty)
  BY DEF People!UpdateMember
<1>2. UNCHANGED <<teams, duty, staff>> /\ m \in People!People
  BY DEF People!UpdateMember
<1>3. People!RosterTypeOK'
  BY <1>0, <1>1, <1>2 DEF People!RosterTypeOK
<1>4. /\ \A n \in People!People : n \in People!People'
      /\ \A n \in Members : member'[n] = IF n = m THEN record ELSE member[n]
      /\ member[m] # None /\ record # None
  BY <1>0, <1>1, <1>2 DEF People!People, People!RosterTypeOK
<1>5. \A i \in DOMAIN teams, n \in Members :
        n \in teams[i].members => n \in People!People /\ teams[i].season \in member'[n].active
  BY <1>0, <1>1, <1>4 DEF People!TeamsAgree, People!ActiveIn, People!MayBecome
<1>6. \A i \in DOMAIN teams, k \in Seasons :
        teams[i].season = k => teams[i].members \subseteq People!ActiveIn(k)'
  BY <1>4, <1>5, WorkThere DEF People!ActiveIn, People!TeamRecords
<1>a. People!TeamsAgree'
  BY <1>0, <1>2, <1>6, WorkThere DEF People!TeamsAgree, People!ProjectsOf, People!TeamRecords
<1>7. StaffThere'
  BY <1>2, <1>4, WorkThere DEF StaffThere
<1>8. People!AnAdministratorRemains'
  <2>1. CASE record.role = "admin"
    BY <1>2, <1>4, <2>1 DEF People!AnAdministratorRemains
  <2>2. CASE record.role # "admin" /\ member[m].role # "admin"
    BY <1>0, <1>4, <2>2, WorkThere DEF People!AnAdministratorRemains
  <2>3. CASE record.role # "admin" /\ member[m].role = "admin"
    BY <1>1, <1>4, <2>3, WorkThere DEF People!AnAdministratorRemains, People!MayBecome, People!NotTheLastAdmin
  <2> QED
    BY <2>1, <2>2, <2>3
<1>9. ASSUME NEW t \in People!Assigned PROVE People!Staffed(member', duty[t])
  <2>1. People!Staffed(member, duty[t])
    BY WorkThere
  <2>2. CASE m \in People!On(duty[t]) /\ record.role # member[m].role
    BY <1>1, <2>2 DEF People!TasksCanDo
  <2>3. CASE ~(m \in People!On(duty[t]) /\ record.role # member[m].role)
    <3>1. People!On(duty[t]) \subseteq Members
      BY WorkThere DEF People!On, People!Duties
    <3>2. \A n \in People!On(duty[t]) : People!RoleIn(member', n) = People!RoleIn(member, n)
      BY <1>4, <2>3, <3>1 DEF People!RoleIn
    <3> QED
      BY <2>1, <3>2, SameRoles
  <2> QED
    BY <2>2, <2>3
<1> QED
  BY <1>2, <1>3, <1>a, <1>7, <1>8, <1>9, WorkThere, WorkKept DEF People!Assigned

LEMMA RemoveMemberNext ==
    ASSUME PeopleInv, NEW m \in Members, People!RemoveMember(m)
    PROVE  PeopleInv'
<1> USE Rosters
<1>0. People!RosterTypeOK /\ People!TeamsAgree /\ People!AnAdministratorRemains
  BY DEF PeopleInv
<1> DEFINE left(d) == People!Without(d, m)
           tasks == [t \in Tasks |-> IF t \in People!Assigned THEN left(duty[t]) ELSE None]
           kept(i) == [teams[i] EXCEPT !.members = @ \ {m}, !.primaries = @ \ {m}]
<1>1. /\ m \in People!People /\ People!NotTheLastAdmin(m)
      /\ member' = [member EXCEPT ![m] = None]
      /\ People!TasksCanDo(m, member', duty') /\ duty' = tasks
      /\ teams' = [i \in DOMAIN teams |-> kept(i)]
      /\ staff' = [s \in TeamSubsystems |->
           [engineer |-> IF staff[s].engineer = m THEN None ELSE staff[s].engineer,
            mentors |-> staff[s].mentors \ {m}]]
  BY DEF People!RemoveMember
<1>2. \A n \in Members : member'[n] = IF n = m THEN None ELSE member[n]
  BY <1>0, <1>1 DEF People!RosterTypeOK
<1>3. People!People' = People!People \ {m}
  BY <1>2, WorkThere DEF People!People
<1>4. ASSUME NEW d \in People!Duties
      PROVE  /\ left(d) \in People!Duties
             /\ left(d).team = d.team /\ left(d).project = d.project
             /\ m \notin People!On(d) => left(d) = d
  <2>1. left(d) = [d EXCEPT !.owner = IF d.owner = m THEN None ELSE d.owner,
                            !.mentor = IF d.mentor = m THEN None ELSE d.mentor, !.helpers = d.helpers \ {m}]
    BY DEF People!Without
  <2>2. left(d) = [project |-> d.project, team |-> d.team, owner |-> IF d.owner = m THEN None ELSE d.owner,
                   mentor |-> IF d.mentor = m THEN None ELSE d.mentor, helpers |-> d.helpers \ {m}]
    BY <2>1 DEF People!Duties
  <2> HIDE DEF left
  <2>3. left(d) \in People!Duties /\ left(d).team = d.team /\ left(d).project = d.project
    BY <2>2 DEF People!Duties
  <2>4. m # None
    OBVIOUS
  <2>5. m \notin People!On(d) => d.owner # m /\ d.mentor # m /\ d.helpers \ {m} = d.helpers
    BY <2>4 DEF People!On
  <2>6. m \notin People!On(d) => left(d) = d
    BY <2>2, <2>5 DEF People!Duties
  <2> QED
    BY <2>3, <2>6
<1> HIDE DEF left
<1>5. /\ duty' \in [Tasks -> People!Duties \cup {None}]
      /\ \A t \in Tasks : duty'[t] # None => t \in People!Assigned /\ duty'[t] = left(duty[t])
  BY <1>1, <1>4, WorkThere
<1>6. ASSUME NEW i \in DOMAIN teams
      PROVE  /\ teams'[i] \in People!TeamRecords
             /\ teams'[i].id = teams[i].id /\ teams'[i].season = teams[i].season
             /\ teams'[i].projects = teams[i].projects /\ teams'[i].archived = teams[i].archived
             /\ teams'[i].members = teams[i].members \ {m} /\ teams'[i].primaries = teams[i].primaries \ {m}
  BY <1>1, WorkThere DEF People!TeamRecords
<1>7. teams' \in Seq(People!TeamRecords) /\ DOMAIN teams' = DOMAIN teams
  <2>1. DOMAIN teams = 1..Len(teams) /\ Len(teams) \in Nat
    BY <1>0 DEF People!RosterTypeOK
  <2>2. DOMAIN teams' = DOMAIN teams
    BY <1>1
  <2>3. teams' \in [1..Len(teams) -> People!TeamRecords]
    BY <1>1, <1>6, <2>1
  <2> QED
    BY <2>1, <2>2, <2>3
<1>8. People!RosterTypeOK'
  BY <1>0, <1>1, <1>5, <1>7 DEF People!RosterTypeOK
<1>9. \A i \in DOMAIN teams, k \in Seasons :
        teams[i].season = k => teams[i].members \ {m} \subseteq People!ActiveIn(k)'
  BY <1>0, <1>2, <1>3, WorkThere DEF People!TeamsAgree, People!ActiveIn
<1>10. People!TeamsAgree'
  BY <1>0, <1>6, <1>7, <1>9, WorkThere DEF People!TeamsAgree, People!ProjectsOf, People!TeamRecords
<1>11. StaffThere'
  BY <1>1, <1>3, WorkThere DEF StaffThere
<1>12. People!AnAdministratorRemains'
  <2>1. \E n \in People!People \ {m} : member[n].role = "admin"
    BY <1>0, <1>1 DEF People!AnAdministratorRemains, People!NotTheLastAdmin
  <2> QED
    BY <1>2, <1>3, <2>1, WorkThere DEF People!AnAdministratorRemains
<1>13. ASSUME NEW t \in Tasks, duty'[t] # None PROVE People!Staffed(member', duty'[t]) /\ HasTeam(teams', duty'[t])
  <2>1. /\ t \in People!Assigned /\ duty[t] \in People!Duties /\ duty'[t] = left(duty[t])
        /\ People!Staffed(member, duty[t]) /\ HasTeam(teams, duty[t])
    BY <1>5, <1>13, WorkThere
  <2>2. HasTeam(teams', duty'[t])
    BY <1>4, <1>6, <1>7, <2>1 DEF HasTeam
  <2>3. CASE m \in People!On(duty[t])
    BY <1>1, <2>1, <2>2, <2>3 DEF People!TasksCanDo
  <2>4. CASE m \notin People!On(duty[t])
    <3>1. duty'[t] = duty[t] /\ People!On(duty[t]) \subseteq Members
      BY <1>4, <2>1, <2>4 DEF People!On, People!Duties
    <3>2. \A n \in People!On(duty[t]) : People!RoleIn(member', n) = People!RoleIn(member, n)
      BY <1>2, <2>4, <3>1 DEF People!RoleIn
    <3>3. People!Staffed(member', duty[t])
      BY <2>1, <3>2, SameRoles
    <3> QED
      BY <2>2, <3>1, <3>3
  <2> QED
    BY <2>3, <2>4
<1> QED
  BY <1>8, <1>10, <1>11, <1>12, <1>13, WorkKept

LEMMA PeopleNext ==
    ASSUME PeopleInv, People!RosterNext
    PROVE  PeopleInv'
  BY TeamsNext, TasksNext, GenerateNext, StaffNext, CreateMemberNext, UpdateMemberNext, RemoveMemberNext
     DEF People!RosterNext

LEMMA PeopleStart ==
    ASSUME People!RosterInit
    PROVE  PeopleInv
<1> USE Rosters
<1>1. PICK admins \in (SUBSET Members) \ {{}}, active \in (SUBSET Seasons) \ {{}} :
        member = [n \in Members |-> IF n \in admins THEN [role |-> "admin", active |-> active] ELSE None]
  BY DEF People!RosterInit
<1>2. /\ teams = <<>> /\ duty = [t \in Tasks |-> None]
      /\ staff = [s \in TeamSubsystems |-> [engineer |-> None, mentors |-> {}]]
  BY DEF People!RosterInit
<1> DEFINE admin == [role |-> "admin", active |-> active]
<1>3. admin \in People!MemberRecords
  BY <1>1, FacetsAssumption DEF People!MemberRecords, People!RosterAssumption
<1>4. \A n \in Members : member[n] = (IF n \in admins THEN admin ELSE None)
  BY <1>1
<1>5. admin.role = "admin"
  OBVIOUS
<1> HIDE DEF admin
<1>6. People!RosterTypeOK
  BY <1>1, <1>2, <1>3, <1>4 DEF People!RosterTypeOK, admin
<1>7. People!TeamsAgree
  BY <1>2 DEF People!TeamsAgree
<1>8. People!WorkIsStaffed
  BY <1>2 DEF People!WorkIsStaffed, People!Assigned
<1>9. People!AnAdministratorRemains
  <2>1. admin # None
    BY <1>3
  <2>2. PICK n \in Members : n \in admins
    BY <1>1
  <2> QED
    BY <1>4, <1>5, <2>1, <2>2 DEF People!AnAdministratorRemains, People!People
<1> QED
  BY <1>6, <1>7, <1>8, <1>9 DEF PeopleInv

-----------------------------------------------------------------------------
(* Sums over finite sets.                                                  *)

LEMMA EveryNatural ==
    ASSUME NEW T \in SUBSET Nat, 0 \in T, \A n \in T : n + 1 \in T
    PROVE  T = Nat
<1> SUFFICES ASSUME Nat \ T # {} PROVE FALSE
  OBVIOUS
<1>1. PICK least \in Nat \ T : \A n \in Nat \ T : ~(n < least)
  BY LeastNatural
<1>2. least # 0 /\ least - 1 \in Nat /\ least - 1 < least
  BY <1>1
<1>3. least - 1 \in T
  BY <1>1, <1>2
<1>4. (least - 1) + 1 = least
  BY <1>1
<1> QED
  BY <1>1, <1>3, <1>4

\* A total is taken one member at a time.
Picked(U) == CHOOSE x \in U : TRUE
Totalled(f, g, U) == IF U = {} THEN 0 ELSE f[Picked(U)] + g[U \ {Picked(U)}]
Totals(f, S, g) == g = [U \in SUBSET S |-> Totalled(f, g, U)]

LEMMA SumIs == \A f, S : Buying!SumFunctionOnSet(f, S) = (CHOOSE g : Totals(f, S, g))[S]
  BY DEF Buying!SumFunctionOnSet, Buying!FoldFunctionOnSet, Buying!MapThenFoldSet, Totals, Totalled, Picked

LEMMA OneLess ==
    ASSUME NEW U, IsFiniteSet(U), U # {}
    PROVE  /\ Picked(U) \in U
           /\ IsFiniteSet(U \ {Picked(U)})
           /\ Cardinality(U) \in Nat \ {0}
           /\ Cardinality(U \ {Picked(U)}) = Cardinality(U) - 1
<1>1. Picked(U) \in U
  BY DEF Picked
<1>2. /\ IsFiniteSet(U \ {Picked(U)})
      /\ Cardinality(U \ {Picked(U)}) = Cardinality(U) - 1
  BY <1>1, FS_RemoveElement
<1>3. Cardinality(U) \in Nat /\ Cardinality(U) # 0
  BY FS_CardinalityType, FS_EmptySet
<1> QED
  BY <1>1, <1>2, <1>3

LEMMA TotalsExist ==
    ASSUME NEW f, NEW S, IsFiniteSet(S)
    PROVE  \E g : Totals(f, S, g)
<1> DEFINE upTo(n) == {U \in SUBSET S : Cardinality(U) <= n}
           T == {n \in Nat : \E g : g = [U \in upTo(n) |-> Totalled(f, g, U)]}
<1>1. \A U \in SUBSET S : IsFiniteSet(U) /\ Cardinality(U) \in Nat
  BY FS_Subset, FS_CardinalityType
<1>2. 0 \in T
  <2>1. \A U \in upTo(0) : U = {}
    BY <1>1, FS_EmptySet
  <2>2. \A g : \A U \in upTo(0) : Totalled(f, g, U) = 0
    BY <2>1 DEF Totalled
  <2> HIDE DEF upTo
  <2>3. PICK g : g = [U \in upTo(0) |-> 0]
    OBVIOUS
  <2>4. g = [U \in upTo(0) |-> Totalled(f, g, U)]
    BY <2>2, <2>3
  <2> QED
    BY <2>4
<1>3. ASSUME NEW n \in T PROVE n + 1 \in T
  <2>1. PICK g : g = [U \in upTo(n) |-> Totalled(f, g, U)]
    OBVIOUS
  <2>a. n + 1 \in Nat
    OBVIOUS
  <2> DEFINE h == [U \in upTo(n + 1) |-> Totalled(f, g, U)]
  <2>2. ASSUME NEW U \in upTo(n + 1) PROVE Totalled(f, h, U) = Totalled(f, g, U)
    <3>1. CASE U = {}
      BY <3>1 DEF Totalled
    <3>2. CASE U # {}
      <4> DEFINE V == U \ {Picked(U)}
      <4>1. IsFiniteSet(V) /\ Cardinality(V) = Cardinality(U) - 1 /\ Cardinality(U) \in Nat
        BY <1>1, <3>2, OneLess
      <4>2. V \in upTo(n) /\ V \in upTo(n + 1)
        BY <4>1
      <4>3. h[V] = g[V]
        BY <2>1, <4>2
      <4> HIDE DEF h
      <4> QED
        BY <3>2, <4>3 DEF Totalled
    <3> QED
      BY <3>1, <3>2
  <2>3. h = [U \in upTo(n + 1) |-> Totalled(f, h, U)]
    <3>1. \A U \in upTo(n + 1) : Totalled(f, h, U) = Totalled(f, g, U)
      BY <2>2
    <3> QED
      BY <3>1
  <2> HIDE DEF h, upTo
  <2> QED
    BY <2>3, <2>a
<1>4. Cardinality(S) \in T
  <2> HIDE DEF T
  <2>1. T \in SUBSET Nat
    BY DEF T
  <2>2. T = Nat
    BY <1>2, <1>3, <2>1, EveryNatural
  <2> QED
    BY <2>2, FS_CardinalityType
<1>5. upTo(Cardinality(S)) = SUBSET S
  BY FS_Subset
<1> QED
  BY <1>4, <1>5 DEF Totals

\* Totals only depend on what is summed.
LEMMA TotalsAgree ==
    ASSUME NEW S, IsFiniteSet(S), NEW f, NEW e, NEW A, NEW B, NEW g, NEW h,
           Totals(f, A, g), Totals(e, B, h), S \subseteq A, S \subseteq B, \A x \in S : f[x] = e[x]
    PROVE  g[S] = h[S]
<1> DEFINE T == {n \in Nat : \A U \in SUBSET S : Cardinality(U) = n => g[U] = h[U]}
<1>1. \A U \in SUBSET S : IsFiniteSet(U) /\ Cardinality(U) \in Nat
  BY FS_Subset, FS_CardinalityType
<1>2. \A U \in SUBSET S : g[U] = Totalled(f, g, U) /\ h[U] = Totalled(e, h, U)
  BY DEF Totals
<1>3. 0 \in T
  BY <1>1, <1>2, FS_EmptySet DEF Totalled
<1>4. ASSUME NEW n \in T PROVE n + 1 \in T
  <2> SUFFICES ASSUME NEW U \in SUBSET S, Cardinality(U) = n + 1 PROVE g[U] = h[U]
    OBVIOUS
  <2>a. n \in Nat /\ IsFiniteSet(U)
    BY <1>1
  <2>1. U # {}
    BY <2>a, FS_EmptySet
  <2> DEFINE V == U \ {Picked(U)}
  <2>2. Picked(U) \in S /\ V \in SUBSET S /\ Cardinality(V) = n
    BY <1>1, <2>1, OneLess
  <2>3. g[V] = h[V] /\ f[Picked(U)] = e[Picked(U)]
    BY <2>2
  <2> QED
    BY <1>2, <2>1, <2>3 DEF Totalled
<1>5. Cardinality(S) \in T
  <2> HIDE DEF T
  <2>1. T \in SUBSET Nat
    BY DEF T
  <2>2. T = Nat
    BY <1>3, <1>4, <2>1, EveryNatural
  <2> QED
    BY <2>2, FS_CardinalityType
<1> QED
  BY <1>5

LEMMA SumChosen ==
    ASSUME NEW f, NEW S, IsFiniteSet(S)
    PROVE  \E g : Totals(f, S, g) /\ Buying!SumFunctionOnSet(f, S) = g[S]
<1>1. Totals(f, S, CHOOSE g : Totals(f, S, g))
  BY TotalsExist
<1> QED
  BY <1>1, SumIs

LEMMA SumSame ==
    ASSUME NEW S, IsFiniteSet(S), NEW f, NEW e, \A x \in S : f[x] = e[x]
    PROVE  Buying!SumFunctionOnSet(f, S) = Buying!SumFunctionOnSet(e, S)
<1>1. PICK g : Totals(f, S, g) /\ Buying!SumFunctionOnSet(f, S) = g[S]
  BY SumChosen
<1>2. PICK h : Totals(e, S, h) /\ Buying!SumFunctionOnSet(e, S) = h[S]
  BY SumChosen
<1> QED
  BY <1>1, <1>2, TotalsAgree

LEMMA SumEmpty == \A f : Buying!SumFunctionOnSet(f, {}) = 0
<1> SUFFICES ASSUME NEW f PROVE Buying!SumFunctionOnSet(f, {}) = 0
  OBVIOUS
<1>1. IsFiniteSet({})
  BY FS_EmptySet
<1>2. PICK g : Totals(f, {}, g) /\ Buying!SumFunctionOnSet(f, {}) = g[{}]
  BY <1>1, SumChosen
<1> QED
  BY <1>2 DEF Totals, Totalled

LEMMA SumPicked ==
    ASSUME NEW f, NEW S, IsFiniteSet(S), S # {}
    PROVE  Buying!SumFunctionOnSet(f, S) = f[Picked(S)] + Buying!SumFunctionOnSet(f, S \ {Picked(S)})
<1> DEFINE R == S \ {Picked(S)}
<1>1. IsFiniteSet(R) /\ R \subseteq S
  BY OneLess
<1>2. PICK g : Totals(f, S, g) /\ Buying!SumFunctionOnSet(f, S) = g[S]
  BY SumChosen
<1>3. PICK h : Totals(f, R, h) /\ Buying!SumFunctionOnSet(f, R) = h[R]
  BY <1>1, SumChosen
<1> HIDE DEF R
<1>4. g[R] = h[R]
  BY <1>1, <1>2, <1>3, TotalsAgree
<1>5. g[S] = f[Picked(S)] + g[R]
  BY <1>2 DEF Totals, Totalled, R
<1> QED
  BY <1>2, <1>3, <1>4, <1>5 DEF R

LEMMA SumNatural ==
    ASSUME NEW f, NEW S, IsFiniteSet(S), \A x \in S : f[x] \in Nat
    PROVE  Buying!SumFunctionOnSet(f, S) \in Nat
<1> DEFINE T == {n \in Nat : \A U \in SUBSET S : Cardinality(U) = n => Buying!SumFunctionOnSet(f, U) \in Nat}
<1>1. \A U \in SUBSET S : IsFiniteSet(U) /\ Cardinality(U) \in Nat
  BY FS_Subset, FS_CardinalityType
<1>2. 0 \in T
  BY <1>1, SumEmpty, FS_EmptySet
<1>3. ASSUME NEW n \in T PROVE n + 1 \in T
  <2> SUFFICES ASSUME NEW U \in SUBSET S, Cardinality(U) = n + 1 PROVE Buying!SumFunctionOnSet(f, U) \in Nat
    OBVIOUS
  <2>a. n \in Nat /\ IsFiniteSet(U)
    BY <1>1
  <2>1. U # {}
    BY <2>a, FS_EmptySet
  <2> DEFINE V == U \ {Picked(U)}
  <2>2. Picked(U) \in S /\ V \in SUBSET S /\ Cardinality(V) = n
    BY <1>1, <2>1, OneLess
  <2>3. Buying!SumFunctionOnSet(f, V) \in Nat /\ f[Picked(U)] \in Nat
    BY <2>2
  <2>4. Buying!SumFunctionOnSet(f, U) = f[Picked(U)] + Buying!SumFunctionOnSet(f, V)
    BY <1>1, <2>1, SumPicked
  <2> QED
    BY <2>3, <2>4
<1>4. Cardinality(S) \in T
  <2> HIDE DEF T
  <2>1. T \in SUBSET Nat
    BY DEF T
  <2>2. T = Nat
    BY <1>2, <1>3, <2>1, EveryNatural
  <2> QED
    BY <2>2, FS_CardinalityType
<1> QED
  BY <1>4

LEMMA SumAdded ==
    ASSUME NEW f, NEW S, IsFiniteSet(S), \A x \in S : f[x] \in Nat, NEW x \in S
    PROVE  Buying!SumFunctionOnSet(f, S) = f[x] + Buying!SumFunctionOnSet(f, S \ {x})
<1> DEFINE total(U) == Buying!SumFunctionOnSet(f, U)
           T == {n \in Nat : \A U \in SUBSET S, y \in S :
                   Cardinality(U) = n /\ y \in U => total(U) = f[y] + total(U \ {y})}
<1>1. \A U \in SUBSET S : IsFiniteSet(U) /\ Cardinality(U) \in Nat /\ total(U) \in Nat
  <2> SUFFICES ASSUME NEW U \in SUBSET S PROVE IsFiniteSet(U) /\ Cardinality(U) \in Nat /\ total(U) \in Nat
    OBVIOUS
  <2>1. IsFiniteSet(U) /\ Cardinality(U) \in Nat
    BY FS_Subset, FS_CardinalityType
  <2>2. \A z \in U : f[z] \in Nat
    OBVIOUS
  <2> QED
    BY <2>1, <2>2, SumNatural
<1>2. \A U \in SUBSET S : U # {} => total(U) = f[Picked(U)] + total(U \ {Picked(U)})
  BY <1>1, SumPicked
<1>3. 0 \in T
  BY <1>1, FS_EmptySet
<1> HIDE DEF total
<1>4. ASSUME NEW n \in T PROVE n + 1 \in T
  <2> SUFFICES ASSUME NEW U \in SUBSET S, NEW y \in S, Cardinality(U) = n + 1, y \in U
               PROVE  total(U) = f[y] + total(U \ {y})
    OBVIOUS
  <2> DEFINE c == Picked(U)
  <2>1. c \in U /\ total(U) = f[c] + total(U \ {c}) /\ Cardinality(U \ {c}) = n
    BY <1>1, <1>2, OneLess
  <2>a. n \in Nat /\ IsFiniteSet(U)
    BY <1>1
  <2>2. Cardinality(U \ {y}) = n
    <3>1. Cardinality(U \ {y}) = Cardinality(U) - 1
      BY <2>a, FS_RemoveElement
    <3> QED
      BY <2>a, <3>1
  <2> HIDE DEF c
  <2>3. CASE c = y
    BY <2>1, <2>3
  <2>4. CASE c # y
    <3>1. total(U \ {c}) = f[y] + total((U \ {c}) \ {y})
      BY <2>1, <2>4
    <3>2. total(U \ {y}) = f[c] + total((U \ {y}) \ {c})
      BY <2>1, <2>2, <2>4
    <3>3. (U \ {c}) \ {y} = (U \ {y}) \ {c}
      OBVIOUS
    <3>4. total((U \ {c}) \ {y}) \in Nat /\ f[c] \in Nat /\ f[y] \in Nat
      BY <1>1, <2>1
    <3> QED
      BY <2>1, <3>1, <3>2, <3>3, <3>4
  <2> QED
    BY <2>3, <2>4
<1>5. Cardinality(S) \in T
  <2> HIDE DEF T
  <2>1. T \in SUBSET Nat
    BY DEF T
  <2>2. T = Nat
    BY <1>3, <1>4, <2>1, EveryNatural
  <2> QED
    BY <2>2, FS_CardinalityType
<1> QED
  BY <1>5 DEF total

-----------------------------------------------------------------------------
(* What is bought (Purchasing).                                            *)

\* A decision needs a quote, and there is always an end to purchases and receipts.
BuyingInv ==
  /\ Buying!PurchasingTypeOK
  /\ Buying!OnlyApprovedIsReceived
  /\ Buying!StockMatchesReceipts
  /\ Buying!MaterialsStay
  /\ \A i \in Buying!Requested : item[i].approval # "pending" => item[i].quoted
  /\ IsFiniteSet(Buying!Requested)
  /\ \A i \in Purchases : IsFiniteSet(Buying!Operated(i))

LEMMA Purchased ==
  /\ None \notin Materials \cup Definitions \cup Places \cup Nat \cup {"nothing"}
             \cup Buying!Items \cup Buying!Stock
  /\ MaxQuantity \in Nat \ {0}
  BY FacetsAssumption DEF Buying!PurchasingAssumption, Buying!PurchasingRecordsAssumption

\* The purchases that bring a material, which is in ReceivedInto.
Into(m) == {i \in Buying!Requested : Buying!BringsMaterial(item[i]) /\ item[i].material = m}

LEMMA SumsReceived ==
  BuyingInv =>
    /\ \A i \in Purchases : /\ Buying!ReceivedOf(i) \in Nat
                            /\ Buying!Operated(i) = {} => Buying!ReceivedOf(i) = 0
    /\ \A m \in Materials : IsFiniteSet(Into(m)) /\ Into(m) \subseteq Purchases /\ Buying!ReceivedInto(m) \in Nat
<1> SUFFICES ASSUME BuyingInv
             PROVE  /\ \A i \in Purchases : /\ Buying!ReceivedOf(i) \in Nat
                                            /\ Buying!Operated(i) = {} => Buying!ReceivedOf(i) = 0
                    /\ \A m \in Materials : /\ IsFiniteSet(Into(m)) /\ Into(m) \subseteq Purchases
                                            /\ Buying!ReceivedInto(m) \in Nat
  OBVIOUS
<1>0. receipt \in [Purchases -> [Operations -> 1..MaxQuantity \cup {None}]]
  BY DEF BuyingInv, Buying!PurchasingTypeOK
<1>1. ASSUME NEW i \in Purchases
      PROVE  Buying!ReceivedOf(i) \in Nat /\ (Buying!Operated(i) = {} => Buying!ReceivedOf(i) = 0)
  <2>1. \A o \in Buying!Operated(i) : receipt[i][o] \in Nat
    BY <1>0, Purchased DEF Buying!Operated
  <2>2. IsFiniteSet(Buying!Operated(i))
    BY DEF BuyingInv
  <2>3. Buying!SumFunctionOnSet(receipt[i], Buying!Operated(i)) \in Nat
    BY <2>1, <2>2, SumNatural
  <2> QED
    BY <2>3, SumEmpty DEF Buying!ReceivedOf
<1>2. ASSUME NEW m \in Materials
      PROVE  IsFiniteSet(Into(m)) /\ Into(m) \subseteq Purchases /\ Buying!ReceivedInto(m) \in Nat
  <2> DEFINE F == [i \in Purchases |-> Buying!ReceivedOf(i)]
  <2>1. IsFiniteSet(Into(m)) /\ Into(m) \subseteq Purchases
    <3>1. Into(m) \in SUBSET Buying!Requested
      BY DEF Into
    <3>2. IsFiniteSet(Buying!Requested)
      BY DEF BuyingInv
    <3> QED
      BY <3>1, <3>2, FS_Subset DEF Buying!Requested
  <2>2. \A i \in Into(m) : F[i] \in Nat
    BY <1>1, <2>1
  <2> HIDE DEF F
  <2>3. Buying!SumFunctionOnSet(F, Into(m)) \in Nat
    BY <2>1, <2>2, SumNatural
  <2> QED
    BY <2>1, <2>3 DEF Buying!ReceivedInto, Into, F
<1> QED
  BY <1>1, <1>2

\* A purchase of which nothing was received does not count.
LEMMA SumWithout ==
    ASSUME NEW f, NEW S, NEW R, IsFiniteSet(S), IsFiniteSet(R), \A x \in S \cup R : f[x] \in Nat,
           NEW i, f[i] = 0, S \ {i} = R \ {i}
    PROVE  Buying!SumFunctionOnSet(f, S) = Buying!SumFunctionOnSet(f, R)
<1>1. ASSUME NEW U, IsFiniteSet(U), \A x \in U : f[x] \in Nat
      PROVE  Buying!SumFunctionOnSet(f, U) = Buying!SumFunctionOnSet(f, U \ {i})
  <2>1. CASE i \in U
    <3>1. Buying!SumFunctionOnSet(f, U) = f[i] + Buying!SumFunctionOnSet(f, U \ {i})
      BY <1>1, <2>1, SumAdded
    <3>2. Buying!SumFunctionOnSet(f, U \ {i}) \in Nat
      <4>1. IsFiniteSet(U \ {i})
        BY <1>1, FS_RemoveElement
      <4> QED
        BY <1>1, <4>1, SumNatural
    <3> QED
      BY <3>1, <3>2
  <2>2. CASE i \notin U
    <3>1. U \ {i} = U
      BY <2>2
    <3> QED
      BY <3>1
  <2> QED
    BY <2>1, <2>2
<1>2. Buying!SumFunctionOnSet(f, S) = Buying!SumFunctionOnSet(f, S \ {i})
  BY <1>1
<1>3. Buying!SumFunctionOnSet(f, R) = Buying!SumFunctionOnSet(f, R \ {i})
  BY <1>1
<1> QED
  BY <1>2, <1>3

\* A request that changes one purchase, and no receipt.
LEMMA PurchaseChanged ==
    ASSUME BuyingInv, NEW i \in Purchases, NEW record \in Buying!Items \cup {None},
           item' = [item EXCEPT ![i] = record], UNCHANGED <<receipt, created, material, counted, used>>,
           madeOf' \in [Definitions -> Materials \cup {"nothing", None}],
           \A d \in Buying!Known : d \in Buying!Known',
           \A d \in Definitions : madeOf'[d] # None => madeOf'[d] \in Buying!Stocked \cup {"nothing"},
           record = None => Buying!Operated(i) = {},
           record # None => /\ record.definition \in Buying!Known' \cup {None}
                            /\ record.material \in Buying!Stocked \cup {None}
                            /\ record.approval # "pending" => record.quoted
                            /\ record.order \in {"ordered", "shipped", "delivered"} => record.approval = "approved"
                            /\ \/ Buying!Operated(i) = {}
                               \/ /\ item[i] # None /\ record.service = item[i].service
                                  /\ record.definition = item[i].definition
                                  /\ record.material = item[i].material
                                  /\ record.quantity = item[i].quantity
                                  /\ record.approval = item[i].approval
                                  /\ record.order # "not-ordered"
    PROVE  BuyingInv'
<1> USE Purchased
<1>1. /\ Buying!PurchasingTypeOK /\ Buying!OnlyApprovedIsReceived
      /\ Buying!StockMatchesReceipts /\ Buying!MaterialsStay
      /\ \A j \in Buying!Requested : item[j].approval # "pending" => item[j].quoted
      /\ IsFiniteSet(Buying!Requested)
      /\ \A j \in Purchases : IsFiniteSet(Buying!Operated(j))
  BY DEF BuyingInv
<1>2. \A j \in Purchases : item'[j] = IF j = i THEN record ELSE item[j]
  BY <1>1 DEF Buying!PurchasingTypeOK
<1>3. Buying!Requested' = IF record = None THEN Buying!Requested \ {i} ELSE Buying!Requested \cup {i}
  BY <1>2 DEF Buying!Requested
<1>4. Buying!PurchasingTypeOK'
  BY <1>1 DEF Buying!PurchasingTypeOK
<1>5. \A j \in Purchases : Buying!Operated(j)' = Buying!Operated(j) /\ Buying!ReceivedOf(j)' = Buying!ReceivedOf(j)
  BY DEF Buying!Operated, Buying!ReceivedOf
<1>6. \A j \in Buying!Requested : j \in Purchases /\ item[j] \in Buying!Items
  BY <1>1 DEF Buying!Requested, Buying!PurchasingTypeOK
<1>7. Buying!Stocked' = Buying!Stocked
  BY DEF Buying!Stocked
<1>8. Buying!Operated(i) = {} => Buying!ReceivedOf(i) = 0 /\ created[i] = 0
  BY <1>1, SumsReceived DEF Buying!StockMatchesReceipts
<1>9. Buying!OnlyApprovedIsReceived'
  <2> SUFFICES ASSUME NEW j \in Buying!Requested'
               PROVE  /\ item'[j].order \in {"ordered", "shipped", "delivered"} =>
                           item'[j].approval = "approved" /\ item'[j].quoted
                      /\ Buying!Operated(j)' # {} =>
                           item'[j].order \notin {"not-ordered"} /\ item'[j].approval = "approved"
                      /\ Buying!ReceivedOf(j)' <= item'[j].quantity
    BY DEF Buying!OnlyApprovedIsReceived
  <2>1. CASE j # i
    BY <1>1, <1>2, <1>3, <1>5, <1>6, <2>1 DEF Buying!OnlyApprovedIsReceived
  <2>2. CASE j = i /\ Buying!Operated(i) = {}
    <3>1. record # None /\ record \in Buying!Items
      BY <1>3, <2>2
    <3>2. record.quantity >= 0 /\ record.approval \in Buying!Approvals
      BY <3>1 DEF Buying!Items
    <3> QED
      BY <1>2, <1>5, <1>8, <2>2, <3>1, <3>2
  <2>3. CASE j = i /\ Buying!Operated(i) # {}
    <3>1. record # None /\ item[i] # None /\ i \in Buying!Requested
      BY <1>3, <2>3 DEF Buying!Requested
    <3> QED
      BY <1>1, <1>2, <1>5, <2>3, <3>1 DEF Buying!OnlyApprovedIsReceived
  <2> QED
    BY <2>1, <2>2, <2>3
<1>10. \A m \in Materials : Buying!ReceivedInto(m)' = Buying!ReceivedInto(m)
  <2> SUFFICES ASSUME NEW m \in Materials PROVE Buying!ReceivedInto(m)' = Buying!ReceivedInto(m)
    OBVIOUS
  <2> DEFINE F == [j \in Purchases |-> Buying!ReceivedOf(j)]
  <2>1. F' = F
    BY <1>5
  <2>2. IsFiniteSet(Into(m)) /\ Into(m) \subseteq Purchases /\ \A j \in Purchases : F[j] \in Nat
    BY SumsReceived
  <2>3. Into(m)' \ {i} = Into(m) \ {i}
    BY <1>2, <1>3, <1>6 DEF Into
  <2>4. IsFiniteSet(Into(m)') /\ Into(m)' \subseteq Purchases
    <3>1. Into(m)' \subseteq Into(m) \cup {i}
      BY <2>3
    <3>2. IsFiniteSet(Into(m) \cup {i})
      BY <2>2, FS_AddElement
    <3> QED
      BY <2>2, <3>1, <3>2, FS_Subset
  <2>5. Buying!SumFunctionOnSet(F, Into(m)') = Buying!SumFunctionOnSet(F, Into(m))
    <3>1. CASE Buying!Operated(i) = {}
      <4>1. F[i] = 0
        BY <1>8, <3>1
      <4> HIDE DEF F
      <4> QED
        BY <2>2, <2>3, <2>4, <4>1, SumWithout
    <3>2. CASE Buying!Operated(i) # {}
      <4>1. Into(m)' = Into(m)
        BY <1>2, <1>3, <3>2 DEF Into, Buying!BringsMaterial, Buying!Requested
      <4> QED
        BY <4>1
    <3> QED
      BY <3>1, <3>2
  <2>6. Buying!ReceivedInto(m) = Buying!SumFunctionOnSet(F, Into(m))
    BY DEF Buying!ReceivedInto, Into
  <2>7. Buying!ReceivedInto(m)' = Buying!SumFunctionOnSet(F', Into(m)')
    BY DEF Buying!ReceivedInto, Into
  <2> QED
    BY <2>1, <2>5, <2>6, <2>7
<1>11. Buying!StockMatchesReceipts'
  <2>1. ASSUME NEW j \in Buying!Requested'
        PROVE  created'[j] = IF Buying!BringsParts(item'[j]) THEN Buying!ReceivedOf(j)' ELSE 0
    <3>1. CASE j # i
      BY <1>1, <1>2, <1>3, <1>5, <1>6, <3>1 DEF Buying!StockMatchesReceipts
    <3>2. CASE j = i /\ Buying!Operated(i) = {}
      BY <1>5, <1>8, <3>2
    <3>3. CASE j = i /\ Buying!Operated(i) # {}
      <4>1. record # None /\ item[i] # None /\ i \in Buying!Requested
        BY <1>3, <3>3 DEF Buying!Requested
      <4> QED
        BY <1>1, <1>2, <1>5, <3>3, <4>1 DEF Buying!StockMatchesReceipts, Buying!BringsParts
    <3> QED
      BY <3>1, <3>2, <3>3
  <2>2. \A j \in Purchases \ Buying!Requested' : Buying!Operated(j)' = {} /\ created'[j] = 0
    BY <1>1, <1>3, <1>5, <1>8 DEF Buying!StockMatchesReceipts
  <2>3. \A m \in Buying!Stocked' : material'[m].onHand = counted'[m] + Buying!ReceivedInto(m)'
    BY <1>1, <1>7, <1>10 DEF Buying!StockMatchesReceipts, Buying!Stocked
  <2> QED
    BY <2>1, <2>2, <2>3 DEF Buying!StockMatchesReceipts
<1>12. Buying!MaterialsStay'
  BY <1>1, <1>2, <1>3, <1>6, <1>7 DEF Buying!MaterialsStay, Buying!Linked, Buying!Known
<1>13. \A j \in Buying!Requested' : item'[j].approval # "pending" => item'[j].quoted
  BY <1>1, <1>2, <1>3, <1>6
<1>14. IsFiniteSet(Buying!Requested')
  BY <1>1, <1>3, FS_AddElement, FS_RemoveElement
<1> QED
  BY <1>1, <1>4, <1>5, <1>9, <1>11, <1>12, <1>13, <1>14 DEF BuyingInv

\* A request that changes neither purchases nor receipts.
LEMMA MaterialsChanged ==
    ASSUME BuyingInv, UNCHANGED <<item, receipt, created>>,
           material' \in [Materials -> Buying!Stock \cup {None}], counted' \in [Materials -> Int],
           madeOf' \in [Definitions -> Materials \cup {"nothing", None}],
           used' \subseteq Buying!Stocked',
           \A i \in Buying!Requested : /\ item[i].definition \in Buying!Known' \cup {None}
                                       /\ item[i].material \in Buying!Stocked' \cup {None},
           \A d \in Definitions : madeOf'[d] # None => madeOf'[d] \in Buying!Stocked' \cup {"nothing"},
           \A m \in Materials : material'[m] # None =>
             material'[m].onHand = counted'[m] + Buying!ReceivedInto(m)
    PROVE  BuyingInv'
<1>1. /\ Buying!PurchasingTypeOK /\ Buying!OnlyApprovedIsReceived
      /\ Buying!StockMatchesReceipts /\ Buying!MaterialsStay
      /\ \A j \in Buying!Requested : item[j].approval # "pending" => item[j].quoted
      /\ IsFiniteSet(Buying!Requested)
      /\ \A j \in Purchases : IsFiniteSet(Buying!Operated(j))
  BY DEF BuyingInv
<1>2. Buying!Requested' = Buying!Requested
  BY DEF Buying!Requested
<1>3. \A j : Buying!Operated(j)' = Buying!Operated(j) /\ Buying!ReceivedOf(j)' = Buying!ReceivedOf(j)
  BY DEF Buying!Operated, Buying!ReceivedOf
<1>4. \A m : Buying!ReceivedInto(m)' = Buying!ReceivedInto(m)
  BY <1>2, <1>3 DEF Buying!ReceivedInto
<1>5. Buying!PurchasingTypeOK'
  BY <1>1 DEF Buying!PurchasingTypeOK, Buying!Stocked
<1>6. Buying!OnlyApprovedIsReceived'
  BY <1>1, <1>2, <1>3 DEF Buying!OnlyApprovedIsReceived
<1>7. Buying!StockMatchesReceipts'
  BY <1>1, <1>2, <1>3, <1>4 DEF Buying!StockMatchesReceipts, Buying!Stocked
<1>8. Buying!MaterialsStay'
  BY <1>2 DEF Buying!MaterialsStay, Buying!Linked, Buying!Known
<1> QED
  BY <1>1, <1>2, <1>3, <1>5, <1>6, <1>7, <1>8 DEF BuyingInv

LEMMA MaterialsNext ==
    ASSUME BuyingInv,
           \/ \E m \in Materials : Buying!CountMaterial(m) \/ Buying!RemoveMaterial(m)
           \/ Buying!PlanManufacturing
           \/ \E d \in Definitions : Buying!SaveDefinition(d) \/ Buying!RemoveDefinition(d)
    PROVE  BuyingInv'
<1> USE Purchased
<1>1. /\ Buying!PurchasingTypeOK /\ Buying!StockMatchesReceipts /\ Buying!MaterialsStay
  BY DEF BuyingInv
<1>2. /\ material \in [Materials -> Buying!Stock \cup {None}] /\ counted \in [Materials -> Int]
      /\ madeOf \in [Definitions -> Materials \cup {"nothing", None}] /\ used \subseteq Materials
  BY <1>1 DEF Buying!PurchasingTypeOK
<1>3. /\ \A i \in Buying!Requested : /\ item[i].definition \in Buying!Known \cup {None}
                                     /\ item[i].material \in Buying!Stocked \cup {None}
      /\ \A d \in Definitions : madeOf[d] # None => madeOf[d] \in Buying!Stocked \cup {"nothing"}
      /\ used \subseteq Buying!Stocked
      /\ \A m \in Materials : material[m] # None => material[m].onHand = counted[m] + Buying!ReceivedInto(m)
  BY <1>1 DEF Buying!MaterialsStay, Buying!Linked, Buying!StockMatchesReceipts, Buying!Known, Buying!Stocked
<1>4. ASSUME NEW m \in Materials, Buying!CountMaterial(m) PROVE BuyingInv'
  <2>1. PICK q \in 0..MaxQuantity, at \in Places :
          /\ material' = [material EXCEPT ![m] = [onHand |-> q, place |-> at]]
          /\ counted' = [counted EXCEPT ![m] = q - Buying!ReceivedInto(m)]
    BY <1>4 DEF Buying!CountMaterial
  <2>2. UNCHANGED <<item, receipt, created, madeOf, used>>
    BY <1>4 DEF Buying!CountMaterial
  <2> DEFINE stock == [onHand |-> q, place |-> at]
  <2>3. stock \in Buying!Stock /\ stock.onHand = q /\ stock # None /\ q \in Nat
    BY DEF Buying!Stock
  <2>4. Buying!ReceivedInto(m) \in Nat
    BY SumsReceived
  <2> HIDE DEF stock
  <2>5. material' = [material EXCEPT ![m] = stock]
    BY <2>1 DEF stock
  <2>6. material' \in [Materials -> Buying!Stock \cup {None}] /\ counted' \in [Materials -> Int]
    BY <1>2, <2>1, <2>3, <2>4, <2>5
  <2>7. Buying!Stocked' = Buying!Stocked \cup {m} /\ Buying!Known' = Buying!Known
    BY <1>2, <2>2, <2>3, <2>5 DEF Buying!Stocked, Buying!Known
  <2>8. \A n \in Materials : material'[n] # None => material'[n].onHand = counted'[n] + Buying!ReceivedInto(n)
    <3> SUFFICES ASSUME NEW n \in Materials, material'[n] # None
                 PROVE  material'[n].onHand = counted'[n] + Buying!ReceivedInto(n)
      OBVIOUS
    <3>1. CASE n = m
      <4>1. material'[n] = stock /\ counted'[n] = q - Buying!ReceivedInto(m)
        BY <1>2, <2>1, <2>5, <3>1
      <4> QED
        BY <2>3, <2>4, <3>1, <4>1
    <3>2. CASE n # m
      BY <1>2, <1>3, <2>1, <2>5, <3>2
    <3> QED
      BY <3>1, <3>2
  <2> QED
    BY <1>2, <1>3, <2>2, <2>6, <2>7, <2>8, MaterialsChanged
<1>5. ASSUME NEW m \in Materials, Buying!RemoveMaterial(m) PROVE BuyingInv'
  <2>1. /\ material' = [material EXCEPT ![m] = None] /\ counted' = [counted EXCEPT ![m] = 0]
        /\ UNCHANGED <<item, receipt, created, madeOf, used>>
        /\ m \notin used /\ \A i \in Buying!Requested : item[i].material # m
        /\ \A d \in Buying!Known : madeOf[d] # m
    BY <1>5 DEF Buying!RemoveMaterial, Buying!Unreferenced
  <2>2. material' \in [Materials -> Buying!Stock \cup {None}] /\ counted' \in [Materials -> Int]
    BY <1>2, <2>1
  <2>3. Buying!Stocked' = Buying!Stocked \ {m} /\ Buying!Known' = Buying!Known
    BY <1>2, <2>1 DEF Buying!Stocked, Buying!Known
  <2>4. \A n \in Materials : material'[n] # None => n # m /\ material'[n] = material[n] /\ counted'[n] = counted[n]
    BY <1>2, <2>1
  <2>5. \A d \in Definitions : madeOf'[d] # None => madeOf'[d] \in Buying!Stocked' \cup {"nothing"}
    BY <1>3, <2>1, <2>3 DEF Buying!Known
  <2> QED
    BY <1>2, <1>3, <2>1, <2>2, <2>3, <2>4, <2>5, MaterialsChanged
<1>6. CASE Buying!PlanManufacturing
  <2>1. UNCHANGED <<item, receipt, created, material, counted, madeOf>> /\ used' \subseteq Buying!Stocked
    BY <1>6 DEF Buying!PlanManufacturing
  <2>2. Buying!Stocked' = Buying!Stocked /\ Buying!Known' = Buying!Known
    BY <2>1 DEF Buying!Stocked, Buying!Known
  <2> QED
    BY <1>2, <1>3, <2>1, <2>2, MaterialsChanged
<1>7. ASSUME NEW d \in Definitions, Buying!SaveDefinition(d) PROVE BuyingInv'
  <2>1. PICK m \in Buying!Stocked \cup {"nothing"} : madeOf' = [madeOf EXCEPT ![d] = m]
    BY <1>7 DEF Buying!SaveDefinition
  <2>2. UNCHANGED <<item, receipt, created, material, counted, used>>
    BY <1>7 DEF Buying!SaveDefinition
  <2>3. m \in Materials \cup {"nothing"}
    BY DEF Buying!Stocked
  <2>4. madeOf' \in [Definitions -> Materials \cup {"nothing", None}]
    BY <1>2, <2>1, <2>3
  <2>5. Buying!Stocked' = Buying!Stocked
    BY <2>2 DEF Buying!Stocked
  <2>6. m # None
    BY <2>3
  <2>7. Buying!Known \subseteq Buying!Known'
    BY <1>2, <2>1, <2>6 DEF Buying!Known
  <2>8. \A e \in Definitions : madeOf'[e] # None => madeOf'[e] \in Buying!Stocked' \cup {"nothing"}
    BY <1>2, <1>3, <2>1, <2>5
  <2> QED
    BY <1>2, <1>3, <2>2, <2>4, <2>5, <2>7, <2>8, MaterialsChanged
<1>8. ASSUME NEW d \in Definitions, Buying!RemoveDefinition(d) PROVE BuyingInv'
  <2>1. /\ madeOf' = [madeOf EXCEPT ![d] = None]
        /\ UNCHANGED <<item, receipt, created, material, counted, used>>
        /\ \A i \in Buying!Requested : item[i].definition # d
    BY <1>8 DEF Buying!RemoveDefinition
  <2>2. madeOf' \in [Definitions -> Materials \cup {"nothing", None}]
    BY <1>2, <2>1
  <2>3. Buying!Stocked' = Buying!Stocked /\ Buying!Known' = Buying!Known \ {d}
    BY <1>2, <2>1 DEF Buying!Stocked, Buying!Known
  <2>4. \A e \in Definitions : madeOf'[e] # None => madeOf'[e] \in Buying!Stocked' \cup {"nothing"}
    BY <1>2, <1>3, <2>1, <2>3
  <2> QED
    BY <1>2, <1>3, <2>1, <2>2, <2>3, <2>4, MaterialsChanged
<1> QED
  BY <1>4, <1>5, <1>6, <1>7, <1>8

LEMMA PurchasesNext ==
    ASSUME BuyingInv, NEW i \in Purchases,
           \/ Buying!RequestPurchase(i) \/ Buying!PatchPurchase(i) \/ Buying!RemovePurchase(i)
           \/ Buying!Decide(i) \/ Buying!Transition(i)
           \/ \E d \in Definitions : Buying!AcquireDefinition(d, i)
    PROVE  BuyingInv'
<1> USE Purchased
<1>1. /\ Buying!PurchasingTypeOK /\ Buying!OnlyApprovedIsReceived
      /\ Buying!StockMatchesReceipts /\ Buying!MaterialsStay
      /\ \A j \in Buying!Requested : item[j].approval # "pending" => item[j].quoted
  BY DEF BuyingInv
<1>2. /\ item \in [Purchases -> Buying!Items \cup {None}]
      /\ madeOf \in [Definitions -> Materials \cup {"nothing", None}]
      /\ \A d \in Definitions : madeOf[d] # None => madeOf[d] \in Buying!Stocked \cup {"nothing"}
  BY <1>1 DEF Buying!PurchasingTypeOK, Buying!MaterialsStay, Buying!Known
<1>3. i \notin Buying!Requested => Buying!Operated(i) = {}
  BY <1>1 DEF Buying!StockMatchesReceipts
<1>4. i \in Buying!Requested =>
        /\ item[i] \in Buying!Items /\ item[i] # None
        /\ item[i].definition \in Buying!Known \cup {None} /\ item[i].material \in Buying!Stocked \cup {None}
        /\ item[i].approval # "pending" => item[i].quoted
        /\ item[i].order \in {"ordered", "shipped", "delivered"} => item[i].approval = "approved"
        /\ Buying!Operated(i) # {} => item[i].order # "not-ordered"
  BY <1>1, <1>2 DEF Buying!Requested, Buying!MaterialsStay, Buying!Linked, Buying!OnlyApprovedIsReceived
<1>5. UNCHANGED madeOf => Buying!Known' = Buying!Known
  BY DEF Buying!Known
<1>6. CASE Buying!RequestPurchase(i)
  <2>1. PICK record \in Buying!Items : /\ record.approval = "pending" /\ record.order = "not-ordered"
                                       /\ Buying!Linked(record) /\ item' = [item EXCEPT ![i] = record]
    BY <1>6 DEF Buying!RequestPurchase
  <2>2. UNCHANGED <<receipt, created, material, counted, madeOf, used>> /\ i \notin Buying!Requested
    BY <1>6 DEF Buying!RequestPurchase
  <2> QED
    BY <1>2, <1>3, <1>5, <2>1, <2>2, PurchaseChanged DEF Buying!Linked
<1>7. CASE Buying!PatchPurchase(i)
  <2>1. PICK d \in Definitions \cup {None}, m \in Materials \cup {None}, q \in 1..MaxQuantity, c \in BOOLEAN :
          /\ Buying!Linked([item[i] EXCEPT !.definition = d, !.material = m, !.quantity = q, !.quoted = c])
          /\ item' = [item EXCEPT ![i] =
               [item[i] EXCEPT !.definition = d, !.material = m, !.quantity = q, !.quoted = c]]
    BY <1>7 DEF Buying!PatchPurchase
  <2>2. /\ UNCHANGED <<receipt, created, material, counted, madeOf, used>> /\ i \in Buying!Requested
        /\ item[i].approval = "pending" /\ item[i].order = "not-ordered"
    BY <1>7 DEF Buying!PatchPurchase, Buying!Editable
  <2> DEFINE record == [item[i] EXCEPT !.definition = d, !.material = m, !.quantity = q, !.quoted = c]
  <2>3. record \in Buying!Items /\ record.approval = "pending" /\ record.order = "not-ordered"
    BY <1>4, <2>2 DEF Buying!Items
  <2>4. Buying!Linked(record) /\ item' = [item EXCEPT ![i] = record]
    BY <2>1
  <2> HIDE DEF record
  <2> QED
    BY <1>2, <1>4, <1>5, <2>2, <2>3, <2>4, PurchaseChanged DEF Buying!Linked
<1>8. CASE Buying!RemovePurchase(i)
  <2>1. /\ item' = [item EXCEPT ![i] = None] /\ Buying!Operated(i) = {}
        /\ UNCHANGED <<receipt, created, material, counted, madeOf, used>>
    BY <1>8 DEF Buying!RemovePurchase
  <2> QED
    BY <1>2, <1>5, <2>1, PurchaseChanged
<1>9. CASE Buying!Decide(i)
  <2>1. PICK decision \in {"approved", "rejected"} : item' = [item EXCEPT ![i].approval = decision]
    BY <1>9 DEF Buying!Decide
  <2>2. /\ UNCHANGED <<receipt, created, material, counted, madeOf, used>> /\ i \in Buying!Requested
        /\ item[i].quoted /\ item[i].order = "not-ordered"
    BY <1>9 DEF Buying!Decide
  <2> DEFINE record == [item[i] EXCEPT !.approval = decision]
  <2>3. /\ record \in Buying!Items /\ record.quoted /\ record.order = "not-ordered"
        /\ record.definition = item[i].definition /\ record.material = item[i].material
    BY <1>4, <2>2 DEF Buying!Items, Buying!Approvals
  <2>4. item' = [item EXCEPT ![i] = record]
    BY <2>1
  <2> HIDE DEF record
  <2> QED
    BY <1>2, <1>4, <1>5, <2>2, <2>3, <2>4, PurchaseChanged
<1>10. CASE Buying!Transition(i)
  <2>1. PICK to \in Buying!Orders : Buying!OrderStep(i, to) /\ item' = [item EXCEPT ![i].order = to]
    BY <1>10 DEF Buying!Transition
  <2>2. UNCHANGED <<receipt, created, material, counted, madeOf, used>> /\ i \in Buying!Requested
    BY <1>10 DEF Buying!Transition
  <2> DEFINE record == [item[i] EXCEPT !.order = to]
  <2>3. /\ record \in Buying!Items /\ record.order = to /\ record.approval = item[i].approval
        /\ record.definition = item[i].definition /\ record.material = item[i].material
        /\ record.service = item[i].service /\ record.quantity = item[i].quantity
        /\ record.quoted = item[i].quoted
    BY <1>4, <2>2 DEF Buying!Items
  <2>4. item' = [item EXCEPT ![i] = record]
    BY <2>1
  <2>5. /\ to # "not-ordered"
        /\ to \in {"ordered", "shipped", "delivered"} => item[i].approval = "approved"
    BY <1>4, <2>1, <2>2 DEF Buying!OrderStep, Buying!NextOrder
  <2> HIDE DEF record
  <2> QED
    BY <1>2, <1>4, <1>5, <2>2, <2>3, <2>4, <2>5, PurchaseChanged
<1>11. ASSUME NEW d \in Definitions, Buying!AcquireDefinition(d, i) PROVE BuyingInv'
  <2>1. PICK m \in Buying!Stocked \cup {"nothing"}, service \in BOOLEAN :
          /\ madeOf' = [madeOf EXCEPT ![d] = m]
          /\ item' = [item EXCEPT ![i] =
               [service |-> service, definition |-> d, material |-> IF m = "nothing" THEN None ELSE m,
                quantity |-> 1, quoted |-> FALSE, approval |-> "pending", order |-> "not-ordered"]]
    BY <1>11 DEF Buying!AcquireDefinition
  <2>2. /\ UNCHANGED <<receipt, created, material, counted, used>>
        /\ d \notin Buying!Known /\ i \notin Buying!Requested
    BY <1>11 DEF Buying!AcquireDefinition
  <2> DEFINE record == [service |-> service, definition |-> d, material |-> IF m = "nothing" THEN None ELSE m,
                        quantity |-> 1, quoted |-> FALSE, approval |-> "pending", order |-> "not-ordered"]
  <2>3. /\ record \in Buying!Items /\ record.approval = "pending" /\ record.order = "not-ordered"
        /\ record.definition = d /\ record.material \in Buying!Stocked \cup {None}
    BY DEF Buying!Items, Buying!Approvals, Buying!Orders, Buying!Stocked
  <2>4. item' = [item EXCEPT ![i] = record]
    BY <2>1
  <2>5. m # None /\ m \in Materials \cup {"nothing"}
    BY DEF Buying!Stocked
  <2>6. Buying!Known' = Buying!Known \cup {d}
    BY <1>2, <2>1, <2>5 DEF Buying!Known
  <2>7. /\ madeOf' \in [Definitions -> Materials \cup {"nothing", None}]
        /\ \A e \in Definitions : madeOf'[e] # None => madeOf'[e] \in Buying!Stocked \cup {"nothing"}
    BY <1>2, <2>1, <2>5
  <2> HIDE DEF record
  <2> QED
    BY <1>2, <1>3, <2>2, <2>3, <2>4, <2>6, <2>7, PurchaseChanged
<1> QED
  BY <1>6, <1>7, <1>8, <1>9, <1>10, <1>11

LEMMA ReceiveNext ==
    ASSUME BuyingInv, NEW i \in Purchases, NEW o \in Operations, NEW q \in 1..MaxQuantity, NEW at \in Places,
           Buying!Receive(i, o, q, at)
    PROVE  BuyingInv'
<1> USE Purchased
<1>1. /\ Buying!PurchasingTypeOK /\ Buying!OnlyApprovedIsReceived
      /\ Buying!StockMatchesReceipts /\ Buying!MaterialsStay
      /\ \A j \in Buying!Requested : item[j].approval # "pending" => item[j].quoted
      /\ IsFiniteSet(Buying!Requested)
      /\ \A j \in Purchases : IsFiniteSet(Buying!Operated(j))
  BY DEF BuyingInv
<1>2. /\ receipt \in [Purchases -> [Operations -> 1..MaxQuantity \cup {None}]]
      /\ created \in [Purchases -> Nat] /\ material \in [Materials -> Buying!Stock \cup {None}]
      /\ item \in [Purchases -> Buying!Items \cup {None}]
  BY <1>1 DEF Buying!PurchasingTypeOK
<1>3. /\ i \in Buying!Requested /\ o \notin Buying!Operated(i)
      /\ item[i].order \in {"ordered", "shipped", "delivered"}
      /\ Buying!ReceivedOf(i) + q <= item[i].quantity
      /\ created' = [created EXCEPT ![i] = IF Buying!BringsParts(item[i]) THEN @ + q ELSE @]
      /\ receipt' = [receipt EXCEPT ![i][o] = q]
      /\ UNCHANGED <<item, counted, madeOf, used>>
  BY DEF Buying!Receive, Buying!Fits
<1>4. q \in Nat /\ q # None /\ item[i] \in Buying!Items
  BY <1>2, <1>3 DEF Buying!Requested
\* The receipts.
<1>5. receipt' \in [Purchases -> [Operations -> 1..MaxQuantity \cup {None}]]
  <2>1. [receipt[i] EXCEPT ![o] = q] \in [Operations -> 1..MaxQuantity \cup {None}]
    BY <1>2
  <2>2. receipt' = [receipt EXCEPT ![i] = [receipt[i] EXCEPT ![o] = q]]
    BY <1>3
  <2> QED
    BY <1>2, <2>1, <2>2
<1>6. /\ \A j \in Purchases : j # i => receipt'[j] = receipt[j]
      /\ \A p \in Operations : receipt'[i][p] = IF p = o THEN q ELSE receipt[i][p]
  BY <1>2, <1>3
<1>7. /\ \A j \in Purchases : j # i => Buying!Operated(j)' = Buying!Operated(j)
      /\ Buying!Operated(i)' = Buying!Operated(i) \cup {o}
  BY <1>4, <1>6 DEF Buying!Operated
<1>8. \A j \in Purchases : IsFiniteSet(Buying!Operated(j)')
  BY <1>1, <1>7, FS_AddElement
<1>9. \A j \in Purchases : Buying!ReceivedOf(j)' = IF j = i THEN Buying!ReceivedOf(i) + q ELSE Buying!ReceivedOf(j)
  <2>1. \A j \in Purchases : j # i => Buying!ReceivedOf(j)' = Buying!ReceivedOf(j)
    BY <1>6, <1>7 DEF Buying!ReceivedOf
  <2>2. Buying!ReceivedOf(i)' = Buying!ReceivedOf(i) + q
    <3> DEFINE f == receipt'[i]
               S == Buying!Operated(i) \cup {o}
    <3>1. IsFiniteSet(S) /\ o \in S /\ S \ {o} = Buying!Operated(i)
      BY <1>1, <1>3, FS_AddElement
    <3>2. \A p \in S : f[p] \in Nat
      BY <1>2, <1>4, <1>6 DEF Buying!Operated
    <3>3. f[o] = q /\ \A p \in Buying!Operated(i) : f[p] = receipt[i][p]
      BY <1>3, <1>6 DEF Buying!Operated
    <3>4. Buying!ReceivedOf(i)' = Buying!SumFunctionOnSet(f, S)
      BY <1>7 DEF Buying!ReceivedOf
    <3> HIDE DEF f, S
    <3>5. Buying!SumFunctionOnSet(f, S) = f[o] + Buying!SumFunctionOnSet(f, S \ {o})
      BY <3>1, <3>2, SumAdded
    <3>6. Buying!SumFunctionOnSet(f, Buying!Operated(i)) = Buying!SumFunctionOnSet(receipt[i], Buying!Operated(i))
      BY <1>1, <3>3, SumSame
    <3>7. Buying!ReceivedOf(i) = Buying!SumFunctionOnSet(receipt[i], Buying!Operated(i))
      BY DEF Buying!ReceivedOf
    <3>8. Buying!ReceivedOf(i) \in Nat
      BY SumsReceived
    <3>9. Buying!ReceivedOf(i)' = q + Buying!ReceivedOf(i)
      BY <3>1, <3>3, <3>4, <3>5, <3>6, <3>7
    <3> QED
      BY <1>4, <3>8, <3>9
  <2> QED
    BY <2>1, <2>2
\* The purchases are as they were.
<1>10. Buying!Requested' = Buying!Requested /\ Buying!Known' = Buying!Known
  BY <1>3 DEF Buying!Requested, Buying!Known
<1>11. \A m : Into(m)' = Into(m)
  BY <1>3, <1>10 DEF Into
<1>12. \A m \in Materials :
         Buying!ReceivedInto(m)' = Buying!ReceivedInto(m) + (IF i \in Into(m) THEN q ELSE 0)
  <2> SUFFICES ASSUME NEW m \in Materials
               PROVE  Buying!ReceivedInto(m)' = Buying!ReceivedInto(m) + (IF i \in Into(m) THEN q ELSE 0)
    OBVIOUS
  <2> DEFINE F == [j \in Purchases |-> Buying!ReceivedOf(j)]
             E == [j \in Purchases |-> IF j = i THEN Buying!ReceivedOf(i) + q ELSE Buying!ReceivedOf(j)]
  <2>1. F' = E
    BY <1>9
  <2>2. /\ IsFiniteSet(Into(m)) /\ Into(m) \subseteq Purchases
        /\ \A j \in Purchases : Buying!ReceivedOf(j) \in Nat
    BY SumsReceived
  <2>3. \A j \in Purchases : F[j] \in Nat /\ E[j] \in Nat /\ (j # i => E[j] = F[j])
    BY <1>4, <2>2
  <2>4. E[i] = F[i] + q
    OBVIOUS
  <2>5. Buying!ReceivedInto(m) = Buying!SumFunctionOnSet(F, Into(m))
    BY DEF Buying!ReceivedInto, Into
  <2>6. Buying!ReceivedInto(m)' = Buying!SumFunctionOnSet(F', Into(m)')
    BY DEF Buying!ReceivedInto, Into
  <2>7. Buying!ReceivedInto(m)' = Buying!SumFunctionOnSet(E, Into(m))
    BY <1>11, <2>1, <2>6
  <2> HIDE DEF F, E
  <2>8. CASE i \in Into(m)
    <3> DEFINE R == Into(m) \ {i}
    <3>1. IsFiniteSet(R)
      BY <2>2, FS_RemoveElement
    <3>2. \A j \in Into(m) : F[j] \in Nat /\ E[j] \in Nat
      BY <2>2, <2>3
    <3>3. Buying!SumFunctionOnSet(F, Into(m)) = F[i] + Buying!SumFunctionOnSet(F, R)
      BY <2>2, <2>8, <3>2, SumAdded
    <3>4. Buying!SumFunctionOnSet(E, Into(m)) = E[i] + Buying!SumFunctionOnSet(E, R)
      BY <2>2, <2>8, <3>2, SumAdded
    <3>5. \A j \in R : E[j] = F[j] /\ F[j] \in Nat
      BY <2>2, <2>3
    <3> HIDE DEF R
    <3>6. Buying!SumFunctionOnSet(E, R) = Buying!SumFunctionOnSet(F, R)
      BY <3>1, <3>5, SumSame
    <3>7. Buying!SumFunctionOnSet(F, R) \in Nat
      BY <3>1, <3>5, SumNatural
    <3>8. F[i] \in Nat
      BY <2>3
    <3> QED
      BY <1>4, <2>4, <2>5, <2>7, <2>8, <3>3, <3>4, <3>6, <3>7, <3>8
  <2>9. CASE i \notin Into(m)
    <3>1. \A j \in Into(m) : E[j] = F[j]
      BY <2>2, <2>3, <2>9
    <3>2. Buying!SumFunctionOnSet(E, Into(m)) = Buying!SumFunctionOnSet(F, Into(m))
      BY <2>2, <3>1, SumSame
    <3>3. Buying!ReceivedInto(m) \in Nat
      BY SumsReceived
    <3> QED
      BY <2>5, <2>7, <2>9, <3>2, <3>3
  <2> QED
    BY <2>8, <2>9
\* The stock.
<1>13. /\ material' \in [Materials -> Buying!Stock \cup {None}]
       /\ Buying!Stocked' = Buying!Stocked
       /\ \A m \in Buying!Stocked :
            material'[m].onHand = material[m].onHand + (IF i \in Into(m) THEN q ELSE 0)
  <2>1. \A m \in Buying!Stocked : material[m] \in Buying!Stock /\ m \in Materials /\ material[m].onHand \in Nat
    BY <1>2 DEF Buying!Stocked, Buying!Stock
  <2>2. CASE Buying!BringsMaterial(item[i])
    <3> DEFINE n == item[i].material
               stock == [onHand |-> material[n].onHand + q,
                         place |-> IF material[n].onHand = 0 THEN at ELSE material[n].place]
    <3>1. n \in Buying!Stocked /\ material' = [material EXCEPT ![n] = stock]
      BY <2>2 DEF Buying!Receive
    <3>2. stock \in Buying!Stock /\ stock.onHand = material[n].onHand + q
      BY <1>4, <2>1, <3>1 DEF Buying!Stock
    <3>3. \A m : i \in Into(m) <=> m = n
      BY <1>3, <2>2 DEF Into
    <3> HIDE DEF n, stock
    <3>4. stock # None /\ n \in Materials
      BY <2>1, <3>1, <3>2
    <3>5. \A m \in Materials : material'[m] = IF m = n THEN stock ELSE material[m]
      BY <1>2, <3>1
    <3>6. material' \in [Materials -> Buying!Stock \cup {None}]
      BY <1>2, <3>1, <3>2
    <3>7. Buying!Stocked' = Buying!Stocked
      BY <3>1, <3>4, <3>5 DEF Buying!Stocked
    <3> QED
      BY <2>1, <3>2, <3>3, <3>5, <3>6, <3>7
  <2>3. CASE ~Buying!BringsMaterial(item[i])
    <3>1. UNCHANGED material
      BY <2>3 DEF Buying!Receive
    <3>2. \A m : i \notin Into(m)
      BY <2>3 DEF Into
    <3>3. Buying!Stocked' = Buying!Stocked
      BY <3>1 DEF Buying!Stocked
    <3> QED
      BY <1>2, <2>1, <3>1, <3>2, <3>3
  <2> QED
    BY <2>2, <2>3
<1>14. /\ created' \in [Purchases -> Nat]
       /\ \A j \in Purchases : created'[j] = IF j = i /\ Buying!BringsParts(item[i]) THEN created[i] + q ELSE created[j]
  BY <1>2, <1>3, <1>4
<1>15. Buying!PurchasingTypeOK'
  BY <1>1, <1>3, <1>5, <1>13, <1>14 DEF Buying!PurchasingTypeOK
<1>16. Buying!OnlyApprovedIsReceived'
  BY <1>1, <1>3, <1>7, <1>9, <1>10 DEF Buying!OnlyApprovedIsReceived, Buying!Requested
<1>17. Buying!StockMatchesReceipts'
  <2>1. \A j \in Buying!Requested :
          created'[j] = IF Buying!BringsParts(item[j]) THEN Buying!ReceivedOf(j)' ELSE 0
    BY <1>1, <1>9, <1>14 DEF Buying!StockMatchesReceipts, Buying!Requested
  <2>2. \A j \in Purchases \ Buying!Requested : Buying!Operated(j)' = {} /\ created'[j] = 0
    BY <1>1, <1>3, <1>7, <1>14 DEF Buying!StockMatchesReceipts
  <2>3. \A m \in Buying!Stocked : material'[m].onHand = counted[m] + Buying!ReceivedInto(m)'
    <3> SUFFICES ASSUME NEW m \in Buying!Stocked PROVE material'[m].onHand = counted[m] + Buying!ReceivedInto(m)'
      OBVIOUS
    <3>1. m \in Materials /\ material[m] \in Buying!Stock
      BY <1>2 DEF Buying!Stocked
    <3>2. counted[m] \in Int /\ Buying!ReceivedInto(m) \in Nat
      BY <1>1, <3>1, SumsReceived DEF Buying!PurchasingTypeOK
    <3>3. material[m].onHand = counted[m] + Buying!ReceivedInto(m)
      BY <1>1 DEF Buying!StockMatchesReceipts
    <3> QED
      BY <1>4, <1>12, <1>13, <3>1, <3>2, <3>3
  <2> QED
    BY <1>3, <1>10, <1>13, <2>1, <2>2, <2>3 DEF Buying!StockMatchesReceipts
<1>18. Buying!MaterialsStay'
  BY <1>1, <1>3, <1>10, <1>13 DEF Buying!MaterialsStay, Buying!Linked
<1> QED
  BY <1>1, <1>3, <1>8, <1>10, <1>15, <1>16, <1>17, <1>18 DEF BuyingInv

LEMMA BuyingNext ==
    ASSUME BuyingInv, Buying!PurchasingNext
    PROVE  BuyingInv'
  BY PurchasesNext, ReceiveNext, MaterialsNext DEF Buying!PurchasingNext

LEMMA BuyingStart ==
    ASSUME Buying!PurchasingInit
    PROVE  BuyingInv
<1> USE Purchased DEF Buying!PurchasingInit
<1>1. Buying!PurchasingTypeOK
  BY DEF Buying!PurchasingTypeOK
<1>2. Buying!Requested = {} /\ Buying!Stocked = {} /\ Buying!Known = {} /\ used = {}
  BY DEF Buying!Requested, Buying!Stocked, Buying!Known
<1>3. \A i \in Purchases : Buying!Operated(i) = {} /\ created[i] = 0
  BY DEF Buying!Operated
<1>4. IsFiniteSet({})
  BY FS_EmptySet
<1> QED
  BY <1>1, <1>2, <1>3, <1>4
     DEF BuyingInv, Buying!OnlyApprovedIsReceived, Buying!StockMatchesReceipts, Buying!MaterialsStay

\* After a decision nothing of a purchase changes but its order, which only goes forward.
LEMMA DecisionsKept ==
    ASSUME Buying!PurchasingTypeOK, Buying!PurchasingNext,
           NEW i \in Purchases, item[i] # None, item[i].approval # "pending", item'[i] # None
    PROVE  /\ [item'[i] EXCEPT !.order = item[i].order] = item[i]
           /\ item[i].order # "not-ordered" => item'[i].order # "not-ordered"
<1>1. item \in [Purchases -> Buying!Items \cup {None}]
  BY DEF Buying!PurchasingTypeOK
<1>2. item[i] \in Buying!Items
  BY <1>1
<1>3. CASE item'[i] = item[i]
  BY <1>2, <1>3 DEF Buying!Items
<1>4. ASSUME NEW to \in Buying!Orders, Buying!OrderStep(i, to), item'[i] = [item[i] EXCEPT !.order = to]
      PROVE  /\ [item'[i] EXCEPT !.order = item[i].order] = item[i]
             /\ item[i].order # "not-ordered" => item'[i].order # "not-ordered"
  <2>1. item'[i].order = to /\ [item'[i] EXCEPT !.order = item[i].order] = item[i]
    BY <1>2, <1>4 DEF Buying!Items
  <2>2. to # "not-ordered"
    BY <1>4 DEF Buying!OrderStep, Buying!NextOrder
  <2> QED
    BY <2>1, <2>2
<1>5. ASSUME NEW j \in Purchases,
             \/ Buying!RequestPurchase(j) \/ Buying!PatchPurchase(j) \/ Buying!RemovePurchase(j) \/ Buying!Decide(j)
             \/ \E d \in Definitions : Buying!AcquireDefinition(d, j)
      PROVE  item'[i] = item[i]
  <2>1. \E record : item' = [item EXCEPT ![j] = record]
    <3>1. CASE Buying!Decide(j)
      <4>1. PICK decision \in {"approved", "rejected"} : item' = [item EXCEPT ![j].approval = decision]
        BY <3>1 DEF Buying!Decide
      <4> QED
        BY <4>1
    <3> QED
      BY <1>5, <3>1 DEF Buying!RequestPurchase, Buying!PatchPurchase, Buying!RemovePurchase, Buying!AcquireDefinition
  <2>2. CASE i # j
    BY <1>1, <2>1, <2>2
  <2>3. CASE i = j
    <3>1. item[j] # None /\ item'[j] # None /\ item[j].approval # "pending"
      BY <2>3
    <3> QED
      BY <1>1, <1>5, <3>1 DEF Buying!RequestPurchase, Buying!PatchPurchase, Buying!RemovePurchase, Buying!Decide,
                              Buying!AcquireDefinition, Buying!Requested, Buying!Editable
  <2> QED
    BY <2>2, <2>3
<1>6. ASSUME NEW j \in Purchases, Buying!Transition(j)
      PROVE  \/ item'[i] = item[i]
             \/ \E to \in Buying!Orders : Buying!OrderStep(i, to) /\ item'[i] = [item[i] EXCEPT !.order = to]
  <2>1. PICK to \in Buying!Orders : Buying!OrderStep(j, to) /\ item' = [item EXCEPT ![j].order = to]
    BY <1>6 DEF Buying!Transition
  <2> QED
    BY <1>1, <2>1
<1>7. CASE UNCHANGED item
  BY <1>3, <1>7
<1>8. CASE \E j \in Purchases : Buying!RequestPurchase(j) \/ Buying!PatchPurchase(j) \/ Buying!RemovePurchase(j)
  BY <1>3, <1>5, <1>8
<1>9. CASE \E j \in Purchases : Buying!Decide(j) \/ Buying!Transition(j)
  BY <1>3, <1>4, <1>5, <1>6, <1>9
<1>10. CASE \E d \in Definitions, j \in Purchases : Buying!AcquireDefinition(d, j)
  BY <1>3, <1>5, <1>10
<1>11. CASE \E j \in Purchases, o \in Operations, q \in 1..MaxQuantity, at \in Places : Buying!Receive(j, o, q, at)
  BY <1>7, <1>11 DEF Buying!Receive
<1>12. CASE \E m \in Materials : Buying!CountMaterial(m) \/ Buying!RemoveMaterial(m)
  BY <1>7, <1>12 DEF Buying!CountMaterial, Buying!RemoveMaterial
<1>13. CASE Buying!PlanManufacturing
  BY <1>7, <1>13 DEF Buying!PlanManufacturing
<1>14. CASE \E d \in Definitions : Buying!SaveDefinition(d) \/ Buying!RemoveDefinition(d)
  BY <1>7, <1>14 DEF Buying!SaveDefinition, Buying!RemoveDefinition
<1> QED
  BY <1>8, <1>9, <1>10, <1>11, <1>12, <1>13, <1>14 DEF Buying!PurchasingNext

-----------------------------------------------------------------------------
(* The workspace: a request changes one facet.                             *)

WorkspaceInv == StructureInv /\ BuyingInv /\ PeopleInv /\ DatesInv

LEMMA StructureIsNext == StructureStep => Next /\ UNCHANGED <<buying, people, dates>>
  BY DEF StructureStep, OnStructure, Next

LEMMA BuyingIsNext == BuyingStep => Buying!PurchasingNext /\ UNCHANGED <<structure, people, dates>>
  BY DEF BuyingStep, OnBuying, Buying!PurchasingNext

LEMMA PeopleIsNext == PeopleStep => People!RosterNext /\ UNCHANGED <<structure, buying, dates>>
  BY DEF PeopleStep, OnPeople, People!RosterNext

LEMMA DatesIsNext == DatesStep => Dates!CalendarNext /\ UNCHANGED <<structure, buying, people>>
  BY DEF DatesStep, OnDates, Dates!CalendarNext

LEMMA BuyingKept == BuyingInv /\ UNCHANGED buying => BuyingInv'
<1> SUFFICES ASSUME BuyingInv, UNCHANGED buying PROVE BuyingInv'
  OBVIOUS
<1>1. UNCHANGED <<item, receipt, created, material, counted, madeOf, used>>
  BY DEF buying
<1>2. \A i : Buying!Operated(i)' = Buying!Operated(i) /\ Buying!ReceivedOf(i)' = Buying!ReceivedOf(i)
  BY <1>1 DEF Buying!Operated, Buying!ReceivedOf
<1>3. Buying!Requested' = Buying!Requested
  BY <1>1 DEF Buying!Requested
<1>4. \A m : Buying!ReceivedInto(m)' = Buying!ReceivedInto(m)
  BY <1>1, <1>2, <1>3 DEF Buying!ReceivedInto
<1> QED
  BY <1>1, <1>2, <1>3, <1>4
     DEF BuyingInv, Buying!PurchasingTypeOK, Buying!OnlyApprovedIsReceived, Buying!StockMatchesReceipts,
         Buying!MaterialsStay, Buying!Linked, Buying!Stocked, Buying!Known

LEMMA PeopleKept == PeopleInv /\ UNCHANGED people => PeopleInv'
<1> SUFFICES ASSUME PeopleInv, UNCHANGED people PROVE PeopleInv'
  OBVIOUS
<1>1. UNCHANGED <<member, teams, duty, staff>>
  BY DEF people
<1>2. duty \in [Tasks -> People!Duties \cup {None}]
  BY DEF PeopleInv, People!RosterTypeOK
<1> QED
  BY <1>1, <1>2, WorkThere, TasksChanged DEF People!Assigned

LEMMA DatesKept == DatesInv /\ UNCHANGED dates => DatesInv'
<1> SUFFICES ASSUME DatesInv, UNCHANGED dates PROVE DatesInv'
  OBVIOUS
<1>1. UNCHANGED <<seasons, milestone, markers, meeting, workstream, scheduled, result>>
  BY DEF dates
<1>2. /\ Dates!Planned' = Dates!Planned /\ Dates!Held' = Dates!Held
      /\ Dates!Scheduled' = Dates!Scheduled /\ Dates!Known' = Dates!Known
  BY <1>1 DEF Dates!Planned, Dates!Held, Dates!Known, Dates!Scheduled
<1>3. Dates!CalendarTypeOK'
  BY <1>1 DEF DatesInv, Dates!CalendarTypeOK
<1>4. Dates!CalendarAgrees'
  BY <1>1, <1>2 DEF DatesInv, Dates!CalendarAgrees, Dates!OneSeason
<1> QED
  BY <1>1, <1>2, <1>3, <1>4 DEF DatesInv

LEMMA WorkspaceStart == WorkspaceInit => WorkspaceInv
  BY StructureStart, BuyingStart, PeopleStart, DatesStart DEF WorkspaceInit, WorkspaceInv

LEMMA WorkspaceStep == WorkspaceInv /\ [WorkspaceNext]_workspaceVars => WorkspaceInv'
<1> SUFFICES ASSUME WorkspaceInv, [WorkspaceNext]_workspaceVars PROVE WorkspaceInv'
  OBVIOUS
<1>1. StructureInv /\ BuyingInv /\ PeopleInv /\ DatesInv
  BY DEF WorkspaceInv
<1>2. UNCHANGED structure => StructureInv'
  BY <1>1, StructureNext DEF structure
<1>3. CASE StructureStep
  BY <1>1, <1>3, StructureIsNext, StructureNext, BuyingKept, PeopleKept, DatesKept DEF WorkspaceInv
<1>4. CASE BuyingStep
  BY <1>1, <1>2, <1>4, BuyingIsNext, BuyingNext, PeopleKept, DatesKept DEF WorkspaceInv
<1>5. CASE PeopleStep
  BY <1>1, <1>2, <1>5, PeopleIsNext, PeopleNext, BuyingKept, DatesKept DEF WorkspaceInv
<1>6. CASE DatesStep
  BY <1>1, <1>2, <1>6, DatesIsNext, DatesNext, BuyingKept, PeopleKept DEF WorkspaceInv
<1>7. CASE UNCHANGED workspaceVars
  BY <1>1, <1>2, <1>7, BuyingKept, PeopleKept, DatesKept DEF workspaceVars, WorkspaceInv
<1> QED
  BY <1>3, <1>4, <1>5, <1>6, <1>7 DEF WorkspaceNext

THEOREM WorkspaceInvariant == WorkspaceSpec => []WorkspaceInv
  BY WorkspaceStart, WorkspaceStep, PTL DEF WorkspaceSpec

LEMMA StructureIsShown ==
    ASSUME StructureInv
    PROVE  /\ \A s \in Present :
                /\ s \in ShownSubsystems({project[s]})
                /\ \A m \in Mounted : home[m] = s => m \in ShownMechanisms({project[s]})
                /\ \A x \in Instances : SubsystemOf(part[x]) = s => x \in ShownParts({project[s]})
           /\ \A t \in Open : t \in ShownTasks({task[t].project})
           /\ \A i \in Bought : \E p \in Projects : i \in ShownPurchases({p})
<1> USE AbsentAssumption
<1>0. TypeOK /\ PlacesExist /\ MechanismsAgree /\ TargetsExist /\ ReceiptsKeepTheirParts
  BY DEF StructureInv, ReferencesHold
<1>1. \A s \in Present : s \in ShownSubsystems({project[s]}) /\ s # None
  BY <1>0 DEF ShownSubsystems, Present
<1>2. \A s \in Present : \A m \in Mounted : home[m] = s => m \in ShownMechanisms({project[s]})
  BY <1>1 DEF ShownMechanisms
<1>3. ASSUME NEW s \in Present, NEW x \in Instances, SubsystemOf(part[x]) = s
      PROVE  x \in ShownParts({project[s]})
  <2>1. MechanismOf(part[x]) # None => MechanismOf(part[x]) \in Mounted /\ home[MechanismOf(part[x])] = s
    BY <1>0, <1>1, <1>3 DEF PlacesExist, MechanismsAgree
  <2>2. MechanismOf(part[x]) \in ShownMechanisms({project[s]}) \cup {None}
    BY <1>2, <2>1
  <2> QED
    BY <1>1, <1>3, <2>2 DEF ShownParts
<1>4. ASSUME NEW t \in Open PROVE task[t].project \in Projects /\ t \in ShownTasks({task[t].project})
  <2>1. task[t] \in TaskRecords
    BY <1>0 DEF TypeOK, Open
  <2>2. task[t].project \in Projects /\ task[t].subsystems \subseteq Subsystems
    BY <2>1 DEF TaskRecords
  <2>3. \A s \in task[t].subsystems : project[s] = task[t].project
    BY <1>0 DEF TargetsExist
  <2>4. task[t].subsystems # {}
    BY <1>0 DEF TargetsExist
  <2>5. PICK s \in task[t].subsystems : TRUE
    BY <2>4
  <2>6. task[t].project # None
    BY <2>2
  <2>7. s \in ShownSubsystems({task[t].project})
    BY <2>2, <2>3, <2>6 DEF ShownSubsystems, Present
  <2> QED
    BY <2>2, <2>7 DEF ShownTasks
<1>5. ASSUME NEW i \in Bought PROVE \E p \in Projects : i \in ShownPurchases({p})
  <2>1. purchase[i].task \in Open
    BY <1>0 DEF ReceiptsKeepTheirParts, Bought
  <2> QED
    BY <1>4, <2>1 DEF ShownPurchases
<1> QED
  BY <1>1, <1>2, <1>3, <1>4, <1>5

LEMMA PeopleAreShown ==
    ASSUME PeopleInv
    PROVE  /\ \A i \in DOMAIN teams : i \in ShownTeams([season |-> teams[i].season, project |-> None])
           /\ \A m \in People!People : \E k \in Seasons : m \in ShownMembers([season |-> k, project |-> None])
<1> USE Rosters
<1>1. ASSUME NEW i \in DOMAIN teams PROVE i \in ShownTeams([season |-> teams[i].season, project |-> None])
  <2> DEFINE selection == [season |-> teams[i].season, project |-> None]
  <2>1. selection.season = teams[i].season /\ selection.project = None
    OBVIOUS
  <2> HIDE DEF selection
  <2>2. ActiveTeams(selection) = {p \in TeamProjects : teams[i].season \in {None, TeamSeason[p]}}
    BY <2>1 DEF ActiveTeams, ActiveProjects
  <2>3. teams[i].projects \subseteq People!ProjectsOf(teams[i].season)
    BY WorkThere DEF Sound
  <2>4. teams[i].projects \subseteq ActiveTeams(selection)
    BY <2>2, <2>3 DEF People!ProjectsOf
  <2>5. i \in ShownTeams(selection)
    BY <2>1, <2>4 DEF ShownTeams, Concerns
  <2> QED
    BY <2>5 DEF selection
<1>2. ASSUME NEW m \in People!People PROVE \E k \in Seasons : m \in ShownMembers([season |-> k, project |-> None])
  <2>1. member[m] \in People!MemberRecords
    BY WorkThere
  <2>2. PICK k \in Seasons : k \in member[m].active
    BY <2>1 DEF People!MemberRecords
  <2>3. m \in ShownMembers([season |-> k, project |-> None])
    BY <2>2 DEF ShownMembers
  <2> QED
    BY <2>3
<1> QED
  BY <1>1, <1>2

LEMMA EntryIsShown ==
    ASSUME NEW record, NEW season \in Seasons, record.season = season,
           record.projects \in Seq(CalendarProjects), ToSet(record.projects) \subseteq Dates!Known,
           record.projects # <<>> => CalendarSeason[Head(record.projects)] = season
    PROVE  InScope(record, [season |-> season, project |-> None])
<1> USE Calendars
<1> DEFINE selection == [season |-> season, project |-> None]
<1>1. selection.season = season /\ selection.project = None
  OBVIOUS
<1> HIDE DEF selection
<1>2. Dates!Known \subseteq CalendarProjects
  BY DEF Dates!Known
<1>3. ActiveDates(selection) = {p \in Dates!Known : season \in {None, CalendarSeason[p]}}
  BY <1>1, <1>2 DEF ActiveDates, ActiveProjects
<1>4. CASE record.projects = <<>>
  BY <1>1, <1>4 DEF InScope, Concerns, ToSet, selection
<1>5. CASE record.projects # <<>>
  <2>1. Head(record.projects) \in ToSet(record.projects)
    BY <1>5 DEF ToSet
  <2>2. Head(record.projects) \in ActiveDates(selection)
    BY <1>3, <1>5, <2>1
  <2> QED
    BY <1>1, <2>1, <2>2 DEF InScope, Concerns, selection
<1> QED
  BY <1>4, <1>5

LEMMA DatesAreShown ==
    ASSUME DatesInv
    PROVE  /\ \A m \in Dates!Planned :
                /\ m \in ShownMilestones([season |-> milestone[m].season, project |-> None])
                /\ \A t \in Dates!Scheduled :
                     scheduled[t].project \in ToSet(milestone[m].projects) => t \in TasksForMilestone(m)
           /\ \A m \in Dates!Held : m \in ShownMeetings([season |-> meeting[m].season, project |-> None])
           /\ \A w \in {x \in Workstreams : workstream[x] # None} :
                w \in ShownWorkstreams([season |-> CalendarSeason[workstream[w]], project |-> workstream[w]])
           /\ \A t \in Dates!Scheduled :
                MilestonesForTask(t) = {m \in Dates!Planned : t \in TasksForMilestone(m)}
<1> USE Calendars, SameSet
<1>0. Dates!CalendarTypeOK /\ Dates!CalendarAgrees
  BY DEF DatesInv
<1>1. ASSUME NEW m \in Dates!Planned
      PROVE  m \in ShownMilestones([season |-> milestone[m].season, project |-> None])
  <2>1. milestone[m] \in Dates!Entries
    BY <1>0 DEF Dates!CalendarTypeOK, Dates!Planned
  <2>2. milestone[m].season \in Seasons /\ milestone[m].projects \in Seq(CalendarProjects)
    BY <2>1 DEF Dates!Entries
  <2>3. milestone[m].season = Dates!SeasonFor(milestone[m].projects, milestone[m].season)
    BY <1>0 DEF Dates!CalendarAgrees
  <2>4. milestone[m].projects # <<>> => CalendarSeason[Head(milestone[m].projects)] = milestone[m].season
    BY <2>3 DEF Dates!SeasonFor
  <2>5. ToSet(milestone[m].projects) \subseteq Dates!Known
    BY DEF DatesInv
  <2> QED
    BY <2>2, <2>4, <2>5, EntryIsShown DEF ShownMilestones
<1>2. ASSUME NEW m \in Dates!Held
      PROVE  m \in ShownMeetings([season |-> meeting[m].season, project |-> None])
  <2>1. meeting[m] \in Dates!Entries
    BY <1>0 DEF Dates!CalendarTypeOK, Dates!Held
  <2>2. meeting[m].season \in Seasons /\ meeting[m].projects \in Seq(CalendarProjects)
    BY <2>1 DEF Dates!Entries
  <2>3. \A p \in ToSet(meeting[m].projects) : CalendarSeason[p] = meeting[m].season
    BY <1>0 DEF Dates!CalendarAgrees, Dates!OneSeason
  <2>4. meeting[m].projects # <<>> => Head(meeting[m].projects) \in ToSet(meeting[m].projects)
    BY <2>2 DEF ToSet
  <2>5. ToSet(meeting[m].projects) \subseteq Dates!Known
    BY DEF DatesInv
  <2> QED
    BY <2>2, <2>3, <2>4, <2>5, EntryIsShown DEF ShownMeetings
<1>3. ASSUME NEW w \in Workstreams, workstream[w] # None
      PROVE  w \in ShownWorkstreams([season |-> CalendarSeason[workstream[w]], project |-> workstream[w]])
  <2>1. workstream[w] \in Dates!Known
    BY <1>3 DEF DatesInv
  <2> QED
    BY <2>1 DEF ShownWorkstreams, ActiveDates, ActiveProjects
<1>4. \A m \in Milestones : markers[m] = IF m \in Dates!Planned THEN ToSet(milestone[m].projects) ELSE {}
  BY <1>0 DEF Dates!CalendarAgrees
<1>5. ASSUME NEW m \in Dates!Planned, NEW t \in Dates!Scheduled, scheduled[t].project \in ToSet(milestone[m].projects)
      PROVE  t \in TasksForMilestone(m)
  <2>1. scheduled[t].project \in markers[m]
    BY <1>4, <1>5 DEF Dates!Planned
  <2>2. [kind |-> "project", id |-> scheduled[t].project] \in Targets(t) \cap Requirements(m)
    BY <2>1 DEF Targets, Requirements
  <2> QED
    BY <2>2 DEF TasksForMilestone
<1>6. ASSUME NEW t \in Dates!Scheduled
      PROVE  MilestonesForTask(t) = {m \in Dates!Planned : t \in TasksForMilestone(m)}
  <2>1. \A m \in Milestones : Requirements(m) # {} => m \in Dates!Planned
    BY <1>4 DEF Requirements
  <2>2. scheduled[t].milestones \subseteq Dates!Planned /\ Dates!Planned \subseteq Milestones
    BY <1>0 DEF Dates!CalendarAgrees, Dates!Planned
  <2>3. \A m : [kind |-> "milestone", id |-> m] \in Targets(t) <=> m \in scheduled[t].milestones
    <3> SUFFICES ASSUME NEW m PROVE [kind |-> "milestone", id |-> m] \in Targets(t) <=> m \in scheduled[t].milestones
      OBVIOUS
    <3>1. [kind |-> "milestone", id |-> m] # [kind |-> "project", id |-> scheduled[t].project]
      <4>1. [kind |-> "milestone", id |-> m].kind # [kind |-> "project", id |-> scheduled[t].project].kind
        OBVIOUS
      <4> QED
        BY <4>1
    <3>2. \A n : [kind |-> "milestone", id |-> m] = [kind |-> "milestone", id |-> n] => m = n
      <4>1. \A n : [kind |-> "milestone", id |-> n].id = n
        OBVIOUS
      <4> QED
        BY <4>1
    <3> QED
      BY <3>1, <3>2 DEF Targets
  <2>4. \A m : t \in TasksForMilestone(m) <=> Targets(t) \cap Requirements(m) # {} \/ m \in scheduled[t].milestones
    BY <2>3 DEF TasksForMilestone
  <2> QED
    BY <2>1, <2>2, <2>4 DEF MilestonesForTask
<1> QED
  BY <1>1, <1>2, <1>3, <1>5, <1>6

-----------------------------------------------------------------------------
\* Every record of every facet keeps its type, whatever requests come (store.ts).
THEOREM TypesHold == WorkspaceSpec => []WorkspaceTypesOK
<1>1. WorkspaceInv => WorkspaceTypesOK
  BY DEF WorkspaceInv, StructureInv, BuyingInv, PeopleInv, DatesInv, WorkspaceTypesOK
<1> QED
  BY <1>1, WorkspaceInvariant, PTL

\* The subsystems stay a forest, and what is in a place stays in one that exists,
\* through every creation, move and removal (updateSubsystem, removeSubsystem).
THEOREM StructureAlwaysHolds == WorkspaceSpec => []StructureHolds
<1>1. WorkspaceInv => StructureHolds
  BY DEF WorkspaceInv, StructureInv, StructureHolds
<1> QED
  BY <1>1, WorkspaceInvariant, PTL

\* Tasks and purchases name what there is, and no removal takes a received part away.
THEOREM ReferencesAlwaysHold == WorkspaceSpec => []ReferencesHold
<1>1. WorkspaceInv => ReferencesHold
  BY DEF WorkspaceInv, StructureInv
<1> QED
  BY <1>1, WorkspaceInvariant, PTL

\* What was received adds up: in pieces, repeated, counted by hand in between, for any
\* numbers of purchases and receipts (createPurchaseReceipt).
THEOREM ReceiptsAlwaysAddUp == WorkspaceSpec => []ReceiptsAddUp
<1>1. WorkspaceInv => ReceiptsAddUp
  BY DEF WorkspaceInv, BuyingInv, ReceiptsAddUp
<1> QED
  BY <1>1, WorkspaceInvariant, PTL

\* Teams, members and the people of tasks agree, and an administrator remains.
THEOREM PeopleAlwaysAgree == WorkspaceSpec => []PeopleAgree
<1>1. WorkspaceInv => PeopleAgree
  BY DEF WorkspaceInv, PeopleInv, PeopleAgree
<1> QED
  BY <1>1, WorkspaceInvariant, PTL

\* Milestones, their markers, meetings and schedules agree.
THEOREM CalendarAlwaysAgrees == WorkspaceSpec => []CalendarAgrees
<1>1. WorkspaceInv => CalendarAgrees
  BY DEF WorkspaceInv, DatesInv, CalendarAgrees
<1> QED
  BY <1>1, WorkspaceInvariant, PTL

\* No record is out of reach of every selection (bootstrapSelection.ts).
THEOREM NothingIsEverHidden == WorkspaceSpec => []NothingIsHidden
<1>1. WorkspaceInv => NothingIsHidden
  BY StructureIsShown, PeopleAreShown, DatesAreShown DEF WorkspaceInv, NothingIsHidden
<1> QED
  BY <1>1, WorkspaceInvariant, PTL

\* What was decided on is what is bought (assessGenericPatch, validatePurchaseTransition).
THEOREM DecisionsAlwaysStand == WorkspaceSpec => DecisionsStand
<1> DEFINE Stands == \A i \in Purchases :
             item[i] # None /\ item[i].approval # "pending" /\ item'[i] # None =>
               /\ [item'[i] EXCEPT !.order = item[i].order] = item[i]
               /\ item[i].order # "not-ordered" => item'[i].order # "not-ordered"
<1>1. ASSUME WorkspaceInv, [WorkspaceNext]_workspaceVars
      PROVE  [Stands]_(Buying!purchasingVars)
  <2>1. CASE BuyingStep
    <3>1. Buying!PurchasingTypeOK /\ Buying!PurchasingNext
      BY <1>1, <2>1, BuyingIsNext DEF WorkspaceInv, BuyingInv
    <3>2. Stands
      BY <3>1, DecisionsKept
    <3> QED
      BY <3>2
  <2>2. CASE UNCHANGED buying
    BY <2>2 DEF buying, Buying!purchasingVars
  <2> QED
    BY <1>1, <2>1, <2>2, StructureIsNext, PeopleIsNext, DatesIsNext DEF WorkspaceNext, workspaceVars
<1>2. WorkspaceSpec => [][Stands]_(Buying!purchasingVars)
  BY <1>1, WorkspaceInvariant, PTL DEF WorkspaceSpec
<1> QED
  BY <1>2 DEF DecisionsStand, Buying!DecisionsStand
=============================================================================
