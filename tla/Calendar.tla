------------------------------ MODULE Calendar ------------------------------
(***************************************************************************)
(* Seasons, milestones, meetings and workstreams, and the tasks scheduled  *)
(* against them (src/data/store.ts, src/routes/registerRoutes.ts,          *)
(* src/routes/meetingRoutes.ts, src/domain/taskLinks.ts).  A milestone     *)
(* carries a scope marker, a milestone requirement of its own, for each of *)
(* its projects; its season is derived from them.                          *)
(*                                                                         *)
(* One action is one accepted request.  Abstractions: dates, titles and    *)
(* colours are left out; a season comes with one project of each type, so  *)
(* the projects there are follow from the seasons: a request for another   *)
(* project always finds that its type is taken and is refused.  What moving*)
(* a workstream does to completed tasks is in TaskCompletion.              *)
(***************************************************************************)
EXTENDS Naturals, Sequences, FiniteSets, SequencesExt

CONSTANTS
  Seasons, Projects, Milestones, Meetings, Workstreams, Tasks, Results,   \* ids
  SeasonOf,     \* project -> the season it comes with
  None

CalendarAssumption ==
  /\ SeasonOf \in [Projects -> Seasons]
  /\ None \notin Seasons \cup Projects \cup Milestones

VARIABLES
  seasons,      \* the seasons there are
  milestone,    \* milestone -> [projects, season], or None; projects is a sequence
  markers,      \* milestone -> the projects its scope markers name
  meeting,      \* meeting -> [projects, season], or None
  workstream,   \* workstream -> its project, or None
  scheduled,    \* task -> [project, workstreams, milestones, meetings], or None
  result        \* test result -> the milestone it is about, or None

calendarVars == <<seasons, milestone, markers, meeting, workstream, scheduled, result>>

Entries == [projects : Seq(Projects), season : Seasons]    \* of milestones and meetings

CalendarRecordsAssumption == None \notin Entries

Planned == {m \in Milestones : milestone[m] # None}
Held == {m \in Meetings : meeting[m] # None}
Known == {p \in Projects : SeasonOf[p] \in seasons}
Scheduled == {t \in Tasks : scheduled[t] # None}

\* lists of projects, without repetition
ProjectLists == {list \in BoundedSeq(Known, 2) : IsInjective(list)}

CalendarInit ==
  /\ seasons \in (SUBSET Seasons) \ {{}}
  /\ milestone = [m \in Milestones |-> None]
  /\ markers = [m \in Milestones |-> {}]
  /\ meeting = [m \in Meetings |-> None]
  /\ workstream = [w \in Workstreams |-> None]
  /\ scheduled = [t \in Tasks |-> None]
  /\ result = [r \in Results |-> None]

CreateSeason(s) ==
  /\ s \notin seasons
  /\ seasons' = seasons \cup {s}
  /\ UNCHANGED <<milestone, markers, meeting, workstream, scheduled, result>>

-----------------------------------------------------------------------------
(* Milestones.                                                             *)

SeasonOfFirst(projects, otherwise) ==    \* mutant: without projects there is no season
  IF projects = <<>> THEN None ELSE SeasonOf[Head(projects)]
\* the season of the first project, or else the one there was before
SeasonFor(projects, otherwise) == IF projects = <<>> THEN otherwise ELSE SeasonOf[Head(projects)]

CreateMilestone(m) ==
  /\ m \notin Planned
  /\ \E projects \in ProjectLists, first \in seasons :
       /\ milestone' = [milestone EXCEPT ![m] =
            [projects |-> projects, season |-> SeasonFor(projects, first)]]
       /\ markers' = [markers EXCEPT ![m] = @ \cup ToSet(projects)]
  /\ UNCHANGED <<seasons, meeting, workstream, scheduled, result>>

\* updateMilestone publishes the record, then the markers: those no longer
\* wanted are dropped and the missing ones added.
MarkersKept(m, projects) == markers[m] \cup ToSet(projects)      \* mutant: none is dropped
MarkersFor(m, projects) == (markers[m] \cap ToSet(projects)) \cup ToSet(projects)

UpdateMilestone(m) ==
  /\ m \in Planned
  /\ \E projects \in ProjectLists :
       /\ milestone' = [milestone EXCEPT ![m] =
            [projects |-> projects, season |-> SeasonFor(projects, @.season)]]
       /\ markers' = [markers EXCEPT ![m] = MarkersFor(m, projects)]
  /\ UNCHANGED <<seasons, meeting, workstream, scheduled, result>>

RemoveMilestone(m) ==
  /\ m \in Planned
  /\ milestone' = [milestone EXCEPT ![m] = None]
  /\ markers' = [markers EXCEPT ![m] = {}]
  /\ result' = [r \in Results |-> IF result[r] = m THEN None ELSE result[r]]
  /\ scheduled' = [t \in Tasks |->
       IF t \in Scheduled THEN [scheduled[t] EXCEPT !.milestones = @ \ {m}] ELSE None]
  /\ UNCHANGED <<seasons, meeting, workstream>>

RecordResult(r) ==      \* createTestResult on a milestone
  /\ result[r] = None
  /\ \E m \in Planned : result' = [result EXCEPT ![r] = m]
  /\ UNCHANGED <<seasons, milestone, markers, meeting, workstream, scheduled>>

-----------------------------------------------------------------------------
(* Meetings: the season asked for, or the first project's, or the one there *)
(* was; every project has to be of it.                                     *)

OneSeason(season, projects) ==
  /\ season \in seasons
  /\ \A p \in ToSet(projects) : SeasonOf[p] = season

SaveMeeting(m, projects, season) ==
  /\ meeting' = [meeting EXCEPT ![m] = [projects |-> projects, season |-> season]]
  /\ UNCHANGED <<seasons, milestone, markers, workstream, scheduled, result>>

CreateMeeting(m) ==
  /\ m \notin Held
  /\ \E projects \in ProjectLists, season \in seasons :
       OneSeason(season, projects) /\ SaveMeeting(m, projects, season)

\* a patch of the season alone is checked against the projects there are
UpdateMeeting(m) ==
  /\ m \in Held
  /\ \E projects \in ProjectLists \cup {meeting[m].projects}, asked \in seasons \cup {None} :
       LET season == IF asked # None THEN asked ELSE SeasonFor(projects, meeting[m].season)
       IN  OneSeason(season, projects) /\ SaveMeeting(m, projects, season)

RemoveMeeting(m) ==       \* tasks keep their references to it
  /\ m \in Held
  /\ meeting' = [meeting EXCEPT ![m] = None]
  /\ UNCHANGED <<seasons, milestone, markers, workstream, scheduled, result>>

-----------------------------------------------------------------------------
(* Workstreams and tasks.                                                  *)

SaveWorkstream(w) ==      \* create it, or move it to another project
  /\ \E p \in Known : workstream' = [workstream EXCEPT ![w] = p]
  /\ UNCHANGED <<seasons, milestone, markers, meeting, scheduled, result>>

\* of validateTaskLinks, the project's, the workstreams' and the schedule's part
Schedulable(x) ==
  /\ x.project \in Known
  /\ \A w \in x.workstreams : workstream[w] = x.project
  /\ x.milestones \subseteq Planned
  /\ x.meetings \subseteq Held

Schedules ==
  [project : Projects, workstreams : SUBSET Workstreams,
   milestones : SUBSET Milestones, meetings : SUBSET Meetings]

ScheduleTask(t) ==        \* create the task, or update it
  /\ \E x \in Schedules :
       /\ Schedulable(x)
       /\ scheduled' = [scheduled EXCEPT ![t] = x]
  /\ UNCHANGED <<seasons, milestone, markers, meeting, workstream, result>>

CalendarNext ==
  \/ \E s \in Seasons : CreateSeason(s)
  \/ \E m \in Milestones : CreateMilestone(m) \/ UpdateMilestone(m) \/ RemoveMilestone(m)
  \/ \E r \in Results : RecordResult(r)
  \/ \E m \in Meetings : CreateMeeting(m) \/ UpdateMeeting(m) \/ RemoveMeeting(m)
  \/ \E w \in Workstreams : SaveWorkstream(w)
  \/ \E t \in Tasks : ScheduleTask(t)

CalendarSpec == CalendarInit /\ [][CalendarNext]_calendarVars

-----------------------------------------------------------------------------
CalendarTypeOK ==
  /\ seasons \subseteq Seasons
  /\ milestone \in [Milestones -> Entries \cup {None}]
  /\ markers \in [Milestones -> SUBSET Projects]
  /\ meeting \in [Meetings -> Entries \cup {None}]
  /\ workstream \in [Workstreams -> Projects \cup {None}]
  /\ scheduled \in [Tasks -> Schedules \cup {None}]
  /\ result \in [Results -> Milestones \cup {None}]

\* The calendar agrees with itself after any sequence of edits, removals and
\* reuse of ids: a milestone's scope markers name exactly its projects, so
\* that one created under a removed one's id inherits nothing; its season and
\* a meeting's are those of their projects; and no task or test result refers
\* to a milestone that is gone.
CalendarAgrees ==
  /\ \A m \in Milestones : markers[m] = IF m \in Planned THEN ToSet(milestone[m].projects) ELSE {}
  /\ \A m \in Planned : milestone[m].season = SeasonFor(milestone[m].projects, milestone[m].season)
  /\ \A m \in Held : OneSeason(meeting[m].season, meeting[m].projects)
  /\ \A t \in Scheduled : scheduled[t].milestones \subseteq Planned
  /\ \A r \in Results : result[r] \in Planned \cup {None}
=============================================================================
