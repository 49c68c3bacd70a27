-------------------------- MODULE WorkspaceRecords --------------------------
(***************************************************************************)
(* The records of the workspace snapshot: the robot's structure            *)
(* (Hierarchy), what is bought for it (Purchasing), who works on it        *)
(* (Roster) and when (Calendar).  The four are facets of the one snapshot  *)
(* that src/data/store.ts keeps: each models every request that changes    *)
(* its facet, those of the other facets' requests included that reach into *)
(* it, so that no property of one depends on a step of another.  They are  *)
(* therefore explored one facet per behaviour.                             *)
(***************************************************************************)
EXTENDS Hierarchy

CONSTANTS
  Materials, Operations, Places, MaxQuantity,              \* of Purchasing
  Members, Teams, Roles, Seasons, TeamProjects, TeamSeason,      \* of Roster
  TeamSubsystems, ProjectOf,
  CalendarProjects, CalendarSeason,                              \* of Calendar
  Milestones, Meetings, Workstreams, Results

VARIABLES
  item, receipt, created, material, counted, madeOf, used,
  member, teams, duty, staff,
  seasons, milestone, markers, meeting, workstream, scheduled, result,
  facet        \* the one this behaviour changes

Buying == INSTANCE Purchasing
People == INSTANCE Roster
  WITH Projects <- TeamProjects, SeasonOf <- TeamSeason, Subsystems <- TeamSubsystems
Dates == INSTANCE Calendar WITH Projects <- CalendarProjects, SeasonOf <- CalendarSeason

ASSUME FacetsAssumption ==
  /\ Buying!PurchasingAssumption /\ Buying!PurchasingRecordsAssumption
  /\ People!RosterAssumption /\ People!RosterRecordsAssumption
  /\ Dates!CalendarAssumption /\ Dates!CalendarRecordsAssumption

structure == vars
buying == <<item, receipt, created, material, counted, madeOf, used>>
people == <<member, teams, duty, staff>>
dates == <<seasons, milestone, markers, meeting, workstream, scheduled, result>>

WorkspaceInit ==
  /\ facet \in {"structure", "buying", "people", "dates"}
  /\ Init /\ Buying!PurchasingInit /\ People!RosterInit /\ Dates!CalendarInit
  /\ facet # "people" => \A m \in Members : member[m] # None /\ member[m].active = Seasons
  /\ facet # "dates" => seasons = Seasons

OnStructure == facet = "structure" /\ UNCHANGED <<facet, buying, people, dates>>
OnBuying == facet = "buying" /\ UNCHANGED <<facet, structure, people, dates>>
OnPeople == facet = "people" /\ UNCHANGED <<facet, structure, buying, dates>>
OnDates == facet = "dates" /\ UNCHANGED <<facet, structure, buying, people>>

StructureStep ==
  \/ \E s \in Subsystems : OnStructure /\ CreateSubsystem(s)
  \/ \E s \in Subsystems : OnStructure /\ UpdateSubsystem(s)
  \/ \E s \in Subsystems : OnStructure /\ RemoveSubsystem(s)
  \/ \E m \in Mechanisms : OnStructure /\ CreateMechanism(m)
  \/ \E m \in Mechanisms : OnStructure /\ UpdateMechanism(m)
  \/ \E m \in Mechanisms : OnStructure /\ RemoveMechanism(m)
  \/ \E d \in Definitions : OnStructure /\ CreateDefinition(d)
  \/ \E d \in Definitions : OnStructure /\ RemoveDefinition(d)
  \/ \E x \in Parts : OnStructure /\ CreatePart(x)
  \/ \E x \in Parts : OnStructure /\ UpdatePart(x)
  \/ \E x \in Parts : OnStructure /\ RemovePart(x)
  \/ \E t \in Tasks : OnStructure /\ SaveTask(t)
  \/ \E t \in Tasks : OnStructure /\ RemoveTask(t)
  \/ \E i \in Purchases : OnStructure /\ CreatePurchase(i)
  \/ \E i \in Purchases : OnStructure /\ UpdatePurchase(i)
  \/ \E i \in Purchases : OnStructure /\ RemovePurchase(i)
  \/ \E i \in Purchases, x \in Parts : OnStructure /\ Receive(i, x)

BuyingStep ==
  \/ \E i \in Purchases : OnBuying /\ Buying!RequestPurchase(i)
  \/ \E i \in Purchases : OnBuying /\ Buying!PatchPurchase(i)
  \/ \E i \in Purchases : OnBuying /\ Buying!RemovePurchase(i)
  \/ \E i \in Purchases : OnBuying /\ Buying!Decide(i)
  \/ \E i \in Purchases : OnBuying /\ Buying!Transition(i)
  \/ \E i \in Purchases, o \in Operations, q \in 1..MaxQuantity, at \in Places :
       OnBuying /\ Buying!Receive(i, o, q, at)
  \/ \E m \in Materials : OnBuying /\ Buying!CountMaterial(m)
  \/ \E m \in Materials : OnBuying /\ Buying!RemoveMaterial(m)
  \/ OnBuying /\ Buying!PlanManufacturing
  \/ \E d \in Definitions : OnBuying /\ Buying!SaveDefinition(d)
  \/ \E d \in Definitions : OnBuying /\ Buying!RemoveDefinition(d)
  \/ \E d \in Definitions, i \in Purchases : OnBuying /\ Buying!AcquireDefinition(d, i)

PeopleStep ==
  \/ \E g \in Teams : OnPeople /\ People!CreateTeam(g)
  \/ \E g \in Teams : OnPeople /\ People!PatchTeam(g)
  \/ \E g \in Teams : OnPeople /\ People!RemoveTeam(g)
  \/ \E t \in Tasks : OnPeople /\ People!AssignTask(t)
  \/ \E t \in Tasks : OnPeople /\ People!UnassignTask(t)
  \/ \E t \in Tasks : OnPeople /\ People!ClaimTask(t)
  \/ \E t \in Tasks : OnPeople /\ People!ReleaseTask(t)
  \/ \E t \in Tasks : OnPeople /\ People!ReassignTask(t)
  \/ \E t \in Tasks, s \in TeamSubsystems : OnPeople /\ People!GenerateTask(t, s)
  \/ \E s \in TeamSubsystems : OnPeople /\ People!StaffSubsystem(s)
  \/ \E m \in Members : OnPeople /\ People!CreateMember(m)
  \/ \E m \in Members : OnPeople /\ People!UpdateMember(m)
  \/ \E m \in Members : OnPeople /\ People!RemoveMember(m)

DatesStep ==
  \/ \E s \in Seasons : OnDates /\ Dates!CreateSeason(s)
  \/ \E m \in Milestones : OnDates /\ Dates!CreateMilestone(m)
  \/ \E m \in Milestones : OnDates /\ Dates!UpdateMilestone(m)
  \/ \E m \in Milestones : OnDates /\ Dates!RemoveMilestone(m)
  \/ \E r \in Results : OnDates /\ Dates!RecordResult(r)
  \/ \E m \in Meetings : OnDates /\ Dates!CreateMeeting(m)
  \/ \E m \in Meetings : OnDates /\ Dates!UpdateMeeting(m)
  \/ \E m \in Meetings : OnDates /\ Dates!RemoveMeeting(m)
  \/ \E w \in Workstreams : OnDates /\ Dates!SaveWorkstream(w)
  \/ \E t \in Tasks : OnDates /\ Dates!ScheduleTask(t)

WorkspaceNext == StructureStep \/ BuyingStep \/ PeopleStep \/ DatesStep

workspaceVars == <<structure, buying, people, dates, facet>>

WorkspaceSpec == WorkspaceInit /\ [][WorkspaceNext]_workspaceVars

-----------------------------------------------------------------------------
\* Every record of every facet stays of its type.
WorkspaceTypesOK ==
  TypeOK /\ Buying!PurchasingTypeOK /\ People!RosterTypeOK /\ Dates!CalendarTypeOK

\* Subsystems stay a forest of one project's trees each, and every mechanism
\* and part stays in a place that exists (Hierarchy).
StructureHolds == SubsystemsFormForest /\ PlacesExist

\* Only what was approved is received, and no more of it than was ordered;
\* stock is what was counted plus what was received; what is to be bought or
\* made has its material (Purchasing).
ReceiptsAddUp ==
  Buying!OnlyApprovedIsReceived /\ Buying!StockMatchesReceipts /\ Buying!MaterialsStay

\* What was decided on is what is bought (Purchasing).
DecisionsStand == Buying!DecisionsStand

\* Teams agree with the roster, every task keeps people who may do it, and someone can
\* still administer the workspace (Roster).
PeopleAgree == People!TeamsAgree /\ People!WorkIsStaffed /\ People!AnAdministratorRemains

\* Milestones, meetings and what is scheduled against them agree (Calendar).
CalendarAgrees == Dates!CalendarAgrees
=============================================================================
