------------------------------- MODULE Roster -------------------------------
(***************************************************************************)
(* The people of the workspace and what they are put on: members, teams    *)
(* ("responsible groups") with one primary team per student and season,    *)
(* the people of subsystems, and the people and team of tasks              *)
(* (src/data/store.ts, src/routes/registerRoutes.ts,                       *)
(* src/domain/taskLinks.ts).                                               *)
(*                                                                         *)
(* One action is one accepted request; a refused one is a disabled action. *)
(* Abstractions: of a member only the role and the seasons are kept, of a  *)
(* task only its project, team and people; who makes a request is left     *)
(* out, but for the member a generated task falls back to.                 *)
(***************************************************************************)
EXTENDS Naturals, Sequences, FiniteSets, SequencesExt

CONSTANTS
  Members, Teams, Tasks, Subsystems,   \* ids
  Projects, Seasons,
  SeasonOf,       \* project -> its season, which never changes
  ProjectOf,      \* subsystem -> its project
  Roles,          \* the roles members are given
  None

RosterAssumption ==
  /\ "admin" \in Roles
  /\ Roles \subseteq {"student", "lead", "mentor", "admin", "external"}
  /\ SeasonOf \in [Projects -> Seasons]
  /\ ProjectOf \in [Subsystems -> Projects]
  /\ None \notin Members \cup Teams \cup Tasks

VARIABLES
  member,    \* member -> [role, active: the seasons], or None
  teams,     \* the array of teams, in order of creation
  duty,      \* task -> [project, team, owner, mentor, helpers], or None
  staff      \* subsystem -> [engineer, mentors]

rosterVars == <<member, teams, duty, staff>>

People == {m \in Members : member[m] # None}
Assigned == {t \in Tasks : duty[t] # None}
TeamIds(list) == {list[i].id : i \in DOMAIN list}
PositionOf(g) == CHOOSE i \in DOMAIN teams : teams[i].id = g
TeamOf(g) == teams[PositionOf(g)]

RoleIn(people, m) == IF people[m] = None THEN "none" ELSE people[m].role
Contributes(role) == role \in {"student", "lead", "mentor"}
Student(role) == role \in {"student", "lead"}

\* the workspace starts with administrators
RosterInit ==
  /\ \E admins \in (SUBSET Members) \ {{}}, active \in (SUBSET Seasons) \ {{}} :
       member = [n \in Members |-> IF n \in admins THEN [role |-> "admin", active |-> active] ELSE None]
  /\ teams = <<>>
  /\ duty = [t \in Tasks |-> None]
  /\ staff = [s \in Subsystems |-> [engineer |-> None, mentors |-> {}]]

-----------------------------------------------------------------------------
(* Teams.  A student has one primary team per season: the one a request    *)
(* asks for, or else the first that has it, or else the first there is.    *)

Eligible(list, m, season) ==
  {i \in DOMAIN list : /\ ~list[i].archived
                       /\ list[i].season = season
                       /\ m \in list[i].members
                       /\ season \in member[m].active}

TeamRecords ==
  [id : Teams, season : Seasons, projects : SUBSET Projects, members : SUBSET Members,
   primaries : SUBSET Members, archived : BOOLEAN]

First(positions) == CHOOSE i \in positions : \A j \in positions : i <= j

PrimaryTeam(list, m, season, preferred, wanted) ==
  LET eligible == Eligible(list, m, season)
      asked == {i \in eligible : m \in wanted /\ list[i].id = preferred}
      held == {i \in eligible : m \in list[i].primaries}
  IN  IF asked # {} THEN First(asked)
      ELSE IF held # {} THEN First(held)
      ELSE IF eligible # {} THEN First(eligible) ELSE 0

WithPrimariesOf(list, preferred, wanted) ==    \* mutant: the other teams keep theirs
  [i \in DOMAIN list |->
     IF list[i].id = preferred /\ wanted # {} THEN [list[i] EXCEPT !.primaries = wanted] ELSE list[i]]

\* normalizeResponsibleGroupPrimaries
NormalizedPrimaries(list, preferred, wanted) ==
  [i \in DOMAIN list |->
     [list[i] EXCEPT !.primaries =
        {m \in list[i].members : /\ m \in People
                                 /\ Student(member[m].role)
                                 /\ PrimaryTeam(list, m, list[i].season, preferred, wanted) = i}]]

ActiveIn(season) == {m \in People : season \in member[m].active}
ProjectsOf(season) == {p \in Projects : SeasonOf[p] = season}
MayBePrimary(primaries, members) ==
  primaries \subseteq {m \in members \cap People : Student(member[m].role)}

CreateTeam(g) ==
  /\ g \notin TeamIds(teams)
  /\ \E season \in Seasons :
     \E members \in SUBSET ActiveIn(season), projects \in SUBSET ProjectsOf(season) :
     \E primaries \in SUBSET members :
       /\ MayBePrimary(primaries, members)
       /\ teams' = NormalizedPrimaries(
            Append(teams, [id |-> g, season |-> season, projects |-> projects, members |-> members,
                           primaries |-> primaries, archived |-> FALSE]),
            g, primaries)
  /\ UNCHANGED <<member, duty, staff>>

\* "Team changes cannot invalidate existing task ownership."
KeepsItsTasks(g, season, projects) ==
  \A t \in Assigned : duty[t].team = g =>
    /\ SeasonOf[duty[t].project] = season
    /\ projects # {} => duty[t].project \in projects

\* A patch that leaves the primary members out keeps those there were.
PatchTeam(g) ==
  /\ g \in TeamIds(teams)
  /\ \E season \in Seasons, archived \in BOOLEAN :
     \E members \in SUBSET ActiveIn(season), projects \in SUBSET ProjectsOf(season) :
     \E wanted \in (SUBSET members) \cup {None} :
       LET primaries == IF wanted = None THEN TeamOf(g).primaries ELSE wanted
           updated == [id |-> g, season |-> season, projects |-> projects, members |-> members,
                       primaries |-> primaries, archived |-> archived]
       IN  /\ MayBePrimary(primaries, members)
           /\ KeepsItsTasks(g, season, projects)
           /\ teams' = NormalizedPrimaries(
                [i \in DOMAIN teams |-> IF teams[i].id = g THEN updated ELSE teams[i]],
                g, IF wanted = None THEN {} ELSE wanted)
  /\ UNCHANGED <<member, duty, staff>>

RemoveTeam(g) ==      \* ids are unique: there is one team to filter out
  /\ g \in TeamIds(teams)
  /\ teams' = NormalizedPrimaries(RemoveAt(teams, PositionOf(g)), None, {})
  /\ duty' = [t \in Tasks |->
       IF t \in Assigned /\ duty[t].team = g THEN [duty[t] EXCEPT !.team = None] ELSE duty[t]]
  /\ UNCHANGED <<member, staff>>

-----------------------------------------------------------------------------
(* Tasks and subsystems.                                                   *)

\* validateTaskPeople
On(d) == ({d.owner, d.mentor} \cup d.helpers) \ {None}
Staffed(people, d) ==
  /\ On(d) # {}
  /\ \A m \in On(d) : Contributes(RoleIn(people, m))
  /\ d.owner # None => Student(RoleIn(people, d.owner))
  /\ d.mentor # None => RoleIn(people, d.mentor) = "mentor"

\* of validateTaskLinks, the responsible group's part
TeamFits(d, mayBeArchived) ==
  d.team # None =>
    /\ d.team \in TeamIds(teams)
    /\ TeamOf(d.team).archived => mayBeArchived
    /\ TeamOf(d.team).season = SeasonOf[d.project]
    /\ TeamOf(d.team).projects # {} => d.project \in TeamOf(d.team).projects

Duties ==
  [project : Projects, team : Teams \cup {None}, owner : Members \cup {None},
   mentor : Members \cup {None}, helpers : SUBSET Members]

\* Create a task, or change it; a task may stay with a team archived since.
AssignTask(t) ==
  /\ \E d \in Duties :
       /\ Staffed(member, d)
       /\ TeamFits(d, t \in Assigned /\ duty[t].team = d.team)
       /\ duty' = [duty EXCEPT ![t] = d]
  /\ UNCHANGED <<member, teams, staff>>

\* A task keeps its team, archived since or not, when only its people change.
ChangePeople(t, d) ==
  /\ Staffed(member, d)
  /\ TeamFits(d, TRUE)
  /\ duty' = [duty EXCEPT ![t] = d]
  /\ UNCHANGED <<member, teams, staff>>

ClaimTask(t) ==      \* by a student, when nobody else has it
  /\ t \in Assigned
  /\ \E m \in People : /\ Student(member[m].role)
                      /\ duty[t].owner \in {None, m}
                      /\ ChangePeople(t, [duty[t] EXCEPT !.owner = m, !.helpers = @ \cup {m}])

ReleaseTask(t) ==    \* by its owner, or by who manages assignments
  /\ t \in Assigned
  /\ ChangePeople(t, [duty[t] EXCEPT !.owner = None, !.helpers = @ \ {duty[t].owner}])

ReassignTask(t) ==
  /\ t \in Assigned
  /\ \E m \in {n \in People : Student(member[n].role)} \cup {None} :
       ChangePeople(t, [duty[t] EXCEPT !.owner = m,
         !.helpers = ((IF duty[t].owner = m THEN @ ELSE @ \ {duty[t].owner}) \cup {m}) \ {None}])

\* generatedTaskPeople: the subsystem's engineer and one of its mentors, if
\* they still may, or else whoever makes the request
Fits(m, s, roles) ==
  m \in People /\ member[m].role \in roles /\ SeasonOf[ProjectOf[s]] \in member[m].active

GenerateTask(t, s) ==
  /\ t \notin Assigned
  /\ \E actor \in People :
       LET engineer == IF Fits(staff[s].engineer, s, {"student", "lead"}) THEN staff[s].engineer ELSE None
           mentors == {m \in staff[s].mentors : Fits(m, s, {"mentor"})}
       IN  \E mentor \in IF mentors = {} THEN {None} ELSE mentors :
             LET nobody == engineer = None /\ mentor = None
                 owner == IF nobody /\ Fits(actor, s, {"student", "lead"}) THEN actor ELSE engineer
                 guide == IF nobody /\ Fits(actor, s, {"mentor"}) THEN actor ELSE mentor
             IN  /\ owner # None \/ guide # None
                 /\ duty' = [duty EXCEPT ![t] =
                      [project |-> ProjectOf[s], team |-> None, owner |-> owner, mentor |-> guide,
                       helpers |-> {owner} \ {None}]]
  /\ UNCHANGED <<member, teams, staff>>

UnassignTask(t) ==       \* removeTask
  /\ t \in Assigned
  /\ duty' = [duty EXCEPT ![t] = None]
  /\ UNCHANGED <<member, teams, staff>>

\* validateSubsystemPeople
StaffSubsystem(s) ==
  /\ \E engineer \in ActiveIn(SeasonOf[ProjectOf[s]]) \cup {None},
        mentors \in SUBSET ActiveIn(SeasonOf[ProjectOf[s]]) :
       staff' = [staff EXCEPT ![s] = [engineer |-> engineer, mentors |-> mentors]]
  /\ UNCHANGED <<member, teams, duty>>

-----------------------------------------------------------------------------
(* Members.                                                                *)

\* a member is active in one season at least, and only in seasons there are
MemberRecords == [role : Roles, active : (SUBSET Seasons) \ {{}}]

RosterRecordsAssumption == None \notin MemberRecords \cup Duties \cup Projects

CreateMember(m) ==
  /\ m \notin People
  /\ \E record \in MemberRecords : member' = [member EXCEPT ![m] = record]
  /\ UNCHANGED <<teams, duty, staff>>

\* "The final administrator cannot be demoted", nor deleted.
NotTheLastAdmin(m) ==
  member[m].role = "admin" => \E n \in People \ {m} : member[n].role = "admin"

\* assertMemberTaskPeople: the tasks a person is on can do with the change
TasksCanDo(m, people, tasks) ==
  \A t \in Assigned : m \in On(duty[t]) => Staffed(people, tasks[t])

\* what the route lets a member become
MayBecome(m, record) ==
  /\ record.role # "admin" => NotTheLastAdmin(m)
  /\ \A i \in DOMAIN teams : m \in teams[i].members => teams[i].season \in record.active

UpdateMember(m) ==
  /\ m \in People
  /\ \E record \in MemberRecords :
       LET people == [member EXCEPT ![m] = record]
       IN  /\ MayBecome(m, record)
           /\ record.role # member[m].role => TasksCanDo(m, people, duty)
           /\ member' = people
  /\ UNCHANGED <<teams, duty, staff>>

Without(d, m) ==
  [d EXCEPT !.owner = IF @ = m THEN None ELSE @, !.mentor = IF @ = m THEN None ELSE @,
            !.helpers = @ \ {m}]

RemoveMember(m) ==
  /\ m \in People
  /\ NotTheLastAdmin(m)
  /\ LET people == [member EXCEPT ![m] = None]
         tasks == [t \in Tasks |-> IF t \in Assigned THEN Without(duty[t], m) ELSE None]
     IN  /\ TasksCanDo(m, people, tasks)
         /\ member' = people
         /\ duty' = tasks
  /\ teams' = [i \in DOMAIN teams |->
       [teams[i] EXCEPT !.members = @ \ {m}, !.primaries = @ \ {m}]]
  /\ staff' = [s \in Subsystems |->
       [engineer |-> IF staff[s].engineer = m THEN None ELSE staff[s].engineer,
        mentors |-> staff[s].mentors \ {m}]]

RosterNext ==
  \/ \E g \in Teams : CreateTeam(g) \/ PatchTeam(g) \/ RemoveTeam(g)
  \/ \E t \in Tasks : AssignTask(t) \/ UnassignTask(t)
  \/ \E t \in Tasks : ClaimTask(t) \/ ReleaseTask(t) \/ ReassignTask(t)
  \/ \E t \in Tasks, s \in Subsystems : GenerateTask(t, s)
  \/ \E s \in Subsystems : StaffSubsystem(s)
  \/ \E m \in Members : CreateMember(m) \/ UpdateMember(m) \/ RemoveMember(m)

RosterSpec == RosterInit /\ [][RosterNext]_rosterVars

-----------------------------------------------------------------------------
RosterTypeOK ==
  /\ member \in [Members -> MemberRecords \cup {None}]
  /\ teams \in Seq(TeamRecords)
  /\ duty \in [Tasks -> Duties \cup {None}]
  /\ staff \in [Subsystems -> [engineer : Members \cup {None}, mentors : SUBSET Members]]

\* Teams agree with the roster, whatever role, season, team or member was
\* changed since: their members exist and are active in the team's season,
\* their projects are of it, and nobody has two primary teams in one season
\* or an archived one.
TeamsAgree ==
  /\ \A i, j \in DOMAIN teams : i # j => teams[i].id # teams[j].id
  /\ \A i \in DOMAIN teams :
       /\ teams[i].members \subseteq ActiveIn(teams[i].season)
       /\ teams[i].projects \subseteq ProjectsOf(teams[i].season)
       /\ teams[i].primaries \subseteq teams[i].members
       /\ teams[i].archived => teams[i].primaries = {}
  /\ \A i, j \in DOMAIN teams : i # j /\ teams[i].season = teams[j].season =>
       teams[i].primaries \cap teams[j].primaries = {}

\* Every task keeps people who may do it, and a team of its own season and
\* project, through role changes, removals of members and changes of teams;
\* so do subsystems keep to members there are.
WorkIsStaffed ==
  /\ \A t \in Assigned :
       /\ On(duty[t]) # {} /\ On(duty[t]) \subseteq People
       /\ \A m \in On(duty[t]) : Contributes(member[m].role)
       /\ duty[t].owner # None => Student(member[duty[t].owner].role)
       /\ duty[t].mentor # None => member[duty[t].mentor].role = "mentor"
       /\ TeamFits(duty[t], TRUE)
  /\ \A s \in Subsystems :
       /\ staff[s].engineer \in People \cup {None}
       /\ staff[s].mentors \subseteq People

\* Whatever is demoted and deleted, in whatever order, someone can still
\* administer the workspace.
AnAdministratorRemains == \E m \in People : member[m].role = "admin"
=============================================================================
