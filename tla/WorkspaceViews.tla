---------------------------- MODULE WorkspaceViews ----------------------------
(***************************************************************************)
(* What the workspace shows of its records                                 *)
(* (src/routes/helpers/bootstrapSelection.ts, src/data/store.ts): the      *)
(* bootstrap of a selected season and project, from which the clients fill *)
(* all their pages, and the matching of tasks with milestones.  Nothing of *)
(* it is stored: a record that no selection shows still counts in every    *)
(* rule, and can no longer be reached.                                     *)
(*                                                                         *)
(* A selection is a season and a project, None for one that is not         *)
(* selected; whose records to show, which can be selected as well, is left *)
(* out.                                                                    *)
(***************************************************************************)
EXTENDS WorkspaceRecords, SequencesExt

\* activeProjectIds, among projects with their seasons: a project outside of
\* the selected season selects nothing
ActiveProjects(selection, projects, seasonOf) ==
  LET inSeason == {p \in projects : selection.season \in {None, seasonOf[p]}}
  IN  IF selection.project \in inSeason THEN {selection.project} ELSE inSeason

\* the projects of a record that concerns all of them, when it names none
Concerns(projects, active) == projects = {} \/ projects \cap active # {}

-----------------------------------------------------------------------------
(* The structure.  Its projects are all of one season.                      *)

ShownSubsystems(active) == {s \in Present : project[s] \in active}
ShownMechanisms(active) == {m \in Mounted : home[m] \in ShownSubsystems(active)}

ShownOnMechanisms(active) ==     \* mutant: a part is looked for on a mechanism
  {x \in Instances : /\ SubsystemOf(part[x]) \in ShownSubsystems(active)
                     /\ MechanismOf(part[x]) \in ShownMechanisms(active)}
ShownParts(active) ==
  {x \in Instances : /\ SubsystemOf(part[x]) \in ShownSubsystems(active)
                     /\ MechanismOf(part[x]) \in ShownMechanisms(active) \cup {None}}

ShownTasks(active) ==
  {t \in Open : /\ task[t].project \in active
                /\ task[t].subsystems \cap ShownSubsystems(active) # {}}
ShownPurchases(active) == {i \in Bought : purchase[i].task \in ShownTasks(active)}

-----------------------------------------------------------------------------
(* People.                                                                  *)

ActiveTeams(selection) == ActiveProjects(selection, TeamProjects, TeamSeason)

ShownTeams(selection) ==
  {i \in DOMAIN teams : /\ selection.season \in {None, teams[i].season}
                        /\ Concerns(teams[i].projects, ActiveTeams(selection))}
ShownMembers(selection) ==
  {m \in People!People : selection.season \in {None} \cup member[m].active}

-----------------------------------------------------------------------------
(* Dates.                                                                   *)

ActiveDates(selection) == ActiveProjects(selection, Dates!Known, CalendarSeason)

\* of milestones and meetings alike: isSeasonScopedByProjectLinks, then their projects
InScope(record, selection) ==
  /\ selection.season \in {None, record.season}
  /\ Concerns(ToSet(record.projects), ActiveDates(selection))

ShownMilestones(selection) == {m \in Dates!Planned : InScope(milestone[m], selection)}
ShownMeetings(selection) == {m \in Dates!Held : InScope(meeting[m], selection)}
ShownWorkstreams(selection) == {w \in Workstreams : workstream[w] \in ActiveDates(selection)}

\* flattenTaskTargets, of a task's project and schedule
Targets(t) ==
  {[kind |-> "project", id |-> scheduled[t].project]}
    \cup {[kind |-> "milestone", id |-> m] : m \in scheduled[t].milestones}

\* the requirements of a milestone are its scope markers, one for each project
Requirements(m) == {[kind |-> "project", id |-> p] : p \in markers[m]}

\* getMilestonesForTask and getTasksForMilestone
MilestonesForTask(t) ==
  {m \in Milestones : Targets(t) \cap Requirements(m) # {}} \cup scheduled[t].milestones
TasksForMilestone(m) ==
  {t \in Dates!Scheduled : \/ Targets(t) \cap Requirements(m) # {}
                           \/ [kind |-> "milestone", id |-> m] \in Targets(t)}

-----------------------------------------------------------------------------
\* Whatever was moved, removed or given away, no record with a place of its
\* own is out of reach: what is in a project's subsystems, and the tasks,
\* purchases and workstreams of the project, are shown where the project is
\* selected; teams, members, milestones and meetings where their season is;
\* and a milestone that is listed for a task, or lists it, is there to be
\* opened.
NothingIsHidden ==
  /\ \A s \in Present :
       /\ s \in ShownSubsystems({project[s]})
       /\ \A m \in Mounted : home[m] = s => m \in ShownMechanisms({project[s]})
       /\ \A x \in Instances : SubsystemOf(part[x]) = s => x \in ShownParts({project[s]})
  /\ \A t \in Open : t \in ShownTasks({task[t].project})
  /\ \A i \in Bought : \E p \in Projects : i \in ShownPurchases({p})
  /\ \A i \in DOMAIN teams : i \in ShownTeams([season |-> teams[i].season, project |-> None])
  /\ \A m \in People!People : \E k \in Seasons : m \in ShownMembers([season |-> k, project |-> None])
  /\ \A m \in Dates!Planned :
       /\ m \in ShownMilestones([season |-> milestone[m].season, project |-> None])
       /\ \A t \in Dates!Scheduled :
            scheduled[t].project \in ToSet(milestone[m].projects) => t \in TasksForMilestone(m)
  /\ \A m \in Dates!Held : m \in ShownMeetings([season |-> meeting[m].season, project |-> None])
  /\ \A w \in {x \in Workstreams : workstream[x] # None} :
       w \in ShownWorkstreams([season |-> CalendarSeason[workstream[w]], project |-> workstream[w]])
  /\ \A t \in Dates!Scheduled :
       MilestonesForTask(t) = {m \in Dates!Planned : t \in TasksForMilestone(m)}
=============================================================================
