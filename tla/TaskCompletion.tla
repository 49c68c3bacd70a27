--------------------------- MODULE TaskCompletion ---------------------------
(***************************************************************************)
(* How a task becomes complete and stays so (src/data/store.ts, with       *)
(* src/domain/workflows.ts and taskDependencyState.ts).  A task may be     *)
(* completed when it has a work log, the documentation it requires, a      *)
(* mentor's passing review of its present scope, no blocking risk and no   *)
(* hard dependency left waiting.  All of those are separate records that   *)
(* other requests create, edit and delete, before and after.              *)
(*                                                                         *)
(* One action is one accepted request on the published snapshot; requests  *)
(* are atomic here because SnapshotStore.tla shows that they are.  A       *)
(* request that is refused (a 4xx, or a thrown 409 that drops the draft)   *)
(* changes nothing and is a disabled action.                               *)
(*                                                                         *)
(* Abstractions: a task's scope is its set of parts and whether it needs   *)
(* documentation; work logs are counted per task and documents (artifacts) *)
(* per subject; people, dates and texts are left out; dependencies are on  *)
(* a task's status or a part's physical location; draft and submitted      *)
(* reports, which no rule reads, are left out; a risk that no review       *)
(* raised has no source.                                                   *)
(***************************************************************************)
EXTENDS Integers, Sequences, FiniteSets, SequencesExt, FiniteSetsExt

CONSTANTS
  Tasks,         \* ids a task can have; a deleted task's id is free again
  Parts,         \* ids of part instances
  Definitions,   \* part definitions
  Revisions,     \* what a definition's revision field can hold
  Places,        \* kinds of physical location of a part
  Risks, Findings, Dependencies,     \* ids of those records
  None,
  Scopes,        \* <<parts, requiresDocumentation>>: the scopes a task can be given
  RequiredStates,   \* the task states a dependency can require
  MaxSequence,   \* bound on the review sequence
  MaxLogs,       \* bound on the work logs of a task
  MaxDocs,       \* bound on the documents of a subject
  MaxRequests    \* bound on pending QA requests

ASSUME NoneAssumption ==
  None \notin Tasks \cup Parts \cup Definitions \cup Revisions \cup Risks \cup Dependencies
ASSUME TasksAssumption == IsFiniteSet(Tasks)
ASSUME KindsAssumption == Tasks \cap Parts = {}
ASSUME ScopesAssumption == Scopes \subseteq (SUBSET Parts) \X BOOLEAN
ASSUME RequiredAssumption ==
  RequiredStates \subseteq {"not-started", "in-progress", "waiting-for-qa", "complete"}
ASSUME BoundAssumption == {MaxSequence, MaxLogs, MaxDocs, MaxRequests} \subseteq Nat

VARIABLES
  status,        \* task -> its status, or "absent"
  taskParts,     \* task -> the parts it targets
  needsDocs,     \* task -> requiresDocumentation
  scope,         \* task -> completionScopeReviewOrder
  logs,          \* task -> how many work logs it has
  docs,          \* task or part -> how many artifacts target it
  definition,    \* part -> its definition, None when there is no such part
  place,         \* part -> its location
  revision,      \* definition -> its current revision
  sequence,      \* qaReviewSequence
  reviews,       \* reviewed QA reports
  requests,      \* pending QA requests, newest first
  risks, findings, dependencies      \* id -> record, or None

taskVars == <<status, taskParts, needsDocs, scope>>
evidence == <<logs, docs>>
partVars == <<definition, place, revision>>
reviewVars == <<sequence, reviews>>
vars == <<taskVars, evidence, partVars, reviewVars, requests, risks, findings, dependencies>>

Statuses == {"not-started", "in-progress", "waiting-for-qa", "complete"}
Existing == {t \in Tasks : status[t] # "absent"}
PresentParts == {p \in Parts : definition[p] # None}
UsersOf(parts) == {t \in Existing : taskParts[t] \cap parts # {}}

Init ==
  /\ status = [t \in Tasks |-> "absent"]
  /\ taskParts = [t \in Tasks |-> {}]
  /\ needsDocs = [t \in Tasks |-> FALSE]
  /\ scope = [t \in Tasks |-> 0]
  /\ logs = [t \in Tasks |-> 0]
  /\ docs = [x \in Tasks \cup Parts |-> 0]
  /\ definition \in [Parts -> Definitions]
  /\ place \in [Parts -> Places]
  /\ revision \in [Definitions -> Revisions]
  /\ sequence = 0
  /\ reviews = {}
  /\ requests = <<>>
  /\ risks = [r \in Risks |-> None]
  /\ findings = [f \in Findings |-> None]
  /\ dependencies = [d \in Dependencies |-> None]

-----------------------------------------------------------------------------
(* What the rules read.                                                    *)

CurrentReviewOrder ==
  Max({sequence} \cup {scope[t] : t \in Tasks} \cup {r.order : r \in reviews})
NextReviewOrder == CurrentReviewOrder + 1

\* task.isBlocked, and the hasBlockingRisk of updateTask
Blocked(t) ==
  \E r \in Risks : /\ risks[r] # None
                   /\ risks[r].blocks
                   /\ risks[r].status # "resolved"
                   /\ t \in risks[r].targets

Satisfied(dependency) ==
  \/ ~dependency.hard
  \/ /\ dependency.ref \in Tasks
     /\ status[dependency.ref] = dependency.required
  \/ /\ dependency.ref \in PresentParts
     /\ place[dependency.ref] = dependency.required

\* the task's hard dependencies that do not hold
WaitingOn(t) ==
  {d \in Dependencies : /\ dependencies[d] # None
                        /\ dependencies[d].task = t
                        /\ ~Satisfied(dependencies[d])}

\* A review covers a task when it inspected every part of it, each at the
\* revision its definition has now.
Covers(review, t) ==
  \A p \in taskParts[t] :
     /\ p \in review.inspected
     /\ p \in PresentParts
     /\ review.revisions[definition[p]] = revision[definition[p]]

Applicable(review) ==
  /\ review.task \in Existing
  /\ review.order > scope[review.task]

MentorPass(t) ==
  LET candidates == {r \in reviews : r.task = t /\ r.order > scope[t]}
  IN  \E latest \in candidates :
         /\ \A r \in candidates : r.order <= latest.order
         /\ latest.result = "pass"
         /\ Covers(latest, t)

CanFinalize(t) ==
  /\ logs[t] > 0
  /\ needsDocs[t] => docs[t] > 0
  /\ MentorPass(t)

\* markTaskCompletionScopeChanged: the tasks need a new review from here on;
\* a complete one would have to be finalizable all the same.
MarkScope(changed) ==
  scope' = [t \in Tasks |-> IF t \in changed THEN CurrentReviewOrder ELSE scope[t]]

CompletionOutlives(changed) ==
  \A t \in changed :
     status[t] = "complete" => /\ ~Blocked(t)
                               /\ WaitingOn(t)' = {}
                               /\ CanFinalize(t)'

\* replaceCurrentSnapshot refuses a snapshot in which a task that was and
\* stays complete has a dependency that did not wait before and does now.
CompletedUnguarded == TRUE     \* mutant: the guard is forgotten
CompletedNotBlocked ==
  \A t \in Tasks :
     status[t] = "complete" /\ status'[t] = "complete" => WaitingOn(t)' \subseteq WaitingOn(t)

-----------------------------------------------------------------------------
(* Tasks.                                                                   *)

CreateTask(t) ==
  /\ t \notin Existing
  /\ \E s \in Statuses \ {"complete"}, p \in SUBSET PresentParts, d \in BOOLEAN :
       /\ <<p, d>> \in Scopes
       /\ status' = [status EXCEPT ![t] = s]
       /\ taskParts' = [taskParts EXCEPT ![t] = p]
       /\ needsDocs' = [needsDocs EXCEPT ![t] = d]
  /\ scope' = [scope EXCEPT ![t] = 0]
  /\ UNCHANGED <<evidence, partVars, reviewVars, requests, risks, findings, dependencies>>

\* updateTask, for a patch and for claim, release and reassign, which leave
\* the scope alone.  What completion needs is looked up in the snapshot as it
\* was, with the updated task's own fields.
UpdateTask(t) ==
  /\ t \in Existing
  /\ \E s \in Statuses, p \in SUBSET PresentParts, d \in BOOLEAN :
       /\ <<p, d>> \in Scopes \cup {<<taskParts[t], needsDocs[t]>>}
       /\ LET changed == p # taskParts[t] \/ d # needsDocs[t]
          IN  /\ status' = [status EXCEPT ![t] = s]
              /\ taskParts' = [taskParts EXCEPT ![t] = p]
              /\ needsDocs' = [needsDocs EXCEPT ![t] = d]
              /\ MarkScope(IF changed THEN {t} ELSE {})
              /\ UNCHANGED <<evidence, partVars, reviewVars, requests, risks, findings, dependencies>>
              /\ s = "complete" /\ (status[t] # "complete" \/ changed) =>
                   /\ ~Blocked(t)
                   /\ WaitingOn(t) = {}
                   /\ CanFinalize(t)'
  /\ CompletedNotBlocked

\* A task goes with its work logs, the reviews and requests that target it,
\* its own dependencies and its place among the targets of risks; not while
\* corrective history hangs on it.  Artifacts and others' dependencies on it
\* stay.
HasOwnCorrectiveLinks(t) ==     \* mutant: only the task's own reviews are looked at
  \E r \in reviews : r.task = t /\ r.followUpTask # None
HasCorrectiveLinks(t) ==
  \/ \E r \in reviews : \/ r.task = t /\ (r.followUpTask # None \/ r.followUpRisk # None)
                        \/ r.followUpTask = t
  \/ \E f \in Findings : /\ findings[f] # None
                         /\ \/ findings[f].task = t
                            \/ \E r \in reviews : r.task = t /\ r.order = findings[f].review
  \/ \E r \in Risks : risks[r] # None /\ risks[r].mitigation = t

WithoutTarget(t) ==
  [r \in Risks |-> IF risks[r] = None THEN None ELSE [risks[r] EXCEPT !.targets = @ \ {t}]]

\* Mutant: a deleted task's logs stay for the next holder of its id.
RemoveTaskKeepingLogs(t) ==
  /\ t \in Existing
  /\ status' = [status EXCEPT ![t] = "absent"]
  /\ taskParts' = [taskParts EXCEPT ![t] = {}]
  /\ scope' = [scope EXCEPT ![t] = 0]
  /\ reviews' = {r \in reviews : r.task # t}
  /\ UNCHANGED <<needsDocs, evidence, partVars, sequence, requests, risks, findings, dependencies>>

\* the pending requests that target none of the removed tasks, in their order
RequestsWithout(gone) ==
  LET kept[i \in 0..Len(requests)] ==
        IF i = 0 THEN <<>>
        ELSE IF requests[i].task \in gone THEN kept[i - 1] ELSE Append(kept[i - 1], requests[i])
  IN  kept[Len(requests)]

RemoveTasks(gone) ==
  /\ gone \subseteq Existing
  /\ \A t \in gone : ~HasCorrectiveLinks(t)
  /\ status' = [t \in Tasks |-> IF t \in gone THEN "absent" ELSE status[t]]
  /\ taskParts' = [t \in Tasks |-> IF t \in gone THEN {} ELSE taskParts[t]]
  /\ needsDocs' = [t \in Tasks |-> t \notin gone /\ needsDocs[t]]
  /\ scope' = [t \in Tasks |-> IF t \in gone THEN 0 ELSE scope[t]]
  /\ logs' = [t \in Tasks |-> IF t \in gone THEN 0 ELSE logs[t]]
  /\ reviews' = {r \in reviews : r.task \notin gone}
  /\ requests' = RequestsWithout(gone)
  /\ dependencies' = [d \in Dependencies |->
       IF dependencies[d] # None /\ dependencies[d].task \in gone THEN None ELSE dependencies[d]]
  /\ UNCHANGED <<docs, place, revision, sequence, findings>>

RemoveTask(t) ==
  /\ RemoveTasks({t})
  /\ risks' = WithoutTarget(t)
  /\ UNCHANGED definition
  /\ CompletedNotBlocked

\* A subsystem goes with its parts and with the tasks on it or on those; it
\* leaves the removed tasks among the targets of risks.
RemoveSubsystem(gone, parts) ==
  /\ parts \subseteq PresentParts /\ UsersOf(parts) \subseteq gone
  /\ RemoveTasks(gone)
  /\ definition' = [p \in Parts |-> IF p \in parts THEN None ELSE definition[p]]
  /\ UNCHANGED risks
  /\ CompletedNotBlocked

-----------------------------------------------------------------------------
(* Work logs and documents.                                                *)

AddWorkLog(t) ==
  /\ t \in Existing
  /\ logs[t] < MaxLogs
  /\ logs' = [logs EXCEPT ![t] = @ + 1]
  /\ UNCHANGED <<taskVars, docs, partVars, reviewVars, requests, risks, findings, dependencies>>

\* assertCompletedTaskRetainsWorkLog
RetainsWorkLog(t) == status[t] = "complete" => logs[t] > 1

MoveWorkLog(t, u) ==
  /\ {t, u} \subseteq Existing /\ t # u
  /\ logs[t] > 0 /\ logs[u] < MaxLogs
  /\ RetainsWorkLog(t)
  /\ logs' = [logs EXCEPT ![t] = @ - 1, ![u] = @ + 1]
  /\ UNCHANGED <<taskVars, docs, partVars, reviewVars, requests, risks, findings, dependencies>>

RemoveWorkLog(t) ==
  /\ logs[t] > 0
  /\ RetainsWorkLog(t)
  /\ logs' = [logs EXCEPT ![t] = @ - 1]
  /\ UNCHANGED <<taskVars, docs, partVars, reviewVars, requests, risks, findings, dependencies>>

\* tasksAffectedByArtifact, for an artifact on x
AffectedBy(x) == {t \in Existing : x = t \/ x \in taskParts[t]}

\* create, retarget or delete an artifact: docs1 is the count afterwards
ChangeDocs(docs1, affected) ==
  /\ docs' = docs1
  /\ MarkScope(affected)
  /\ UNCHANGED <<status, taskParts, needsDocs, logs, partVars, reviewVars, requests, risks,
                 findings, dependencies>>
  /\ CompletionOutlives(affected)

AddArtifact(x) ==
  /\ x \in Existing \cup PresentParts
  /\ docs[x] < MaxDocs
  /\ ChangeDocs([docs EXCEPT ![x] = @ + 1], AffectedBy(x))

RetargetArtifact(x, y) ==
  /\ y \in Existing \cup PresentParts /\ x # y
  /\ docs[x] > 0 /\ docs[y] < MaxDocs
  /\ ChangeDocs([docs EXCEPT ![x] = @ - 1, ![y] = @ + 1], AffectedBy(x) \cup AffectedBy(y))

RemoveArtifact(x) ==
  /\ docs[x] > 0
  /\ ChangeDocs([docs EXCEPT ![x] = @ - 1], AffectedBy(x))

-----------------------------------------------------------------------------
(* Parts.                                                                   *)

PartsOf(d) == {p \in Parts : definition[p] = d}

ReviseDefinitionUnmarked(d) ==     \* mutant: the users' scope is not marked
  /\ \E v \in Revisions \ {revision[d]} : revision' = [revision EXCEPT ![d] = v]
  /\ UNCHANGED <<taskVars, evidence, definition, place, reviewVars, requests, risks, findings,
                 dependencies>>
ReviseDefinition(d) ==
  /\ \E v \in Revisions \ {revision[d]} : revision' = [revision EXCEPT ![d] = v]
  /\ MarkScope(UsersOf(PartsOf(d)))
  /\ UNCHANGED <<status, taskParts, needsDocs, evidence, definition, place, reviewVars, requests,
                 risks, findings, dependencies>>
  /\ CompletionOutlives(UsersOf(PartsOf(d)))
  /\ CompletedNotBlocked

\* updatePartInstance: another definition, another location
ReassignPart(p) ==
  /\ p \in PresentParts
  /\ \E d \in Definitions \ {definition[p]} : definition' = [definition EXCEPT ![p] = d]
  /\ MarkScope(UsersOf({p}))
  /\ UNCHANGED <<status, taskParts, needsDocs, evidence, place, revision, reviewVars, requests,
                 risks, findings, dependencies>>
  /\ CompletionOutlives(UsersOf({p}))
  /\ CompletedNotBlocked

MovePart(p) ==
  /\ p \in PresentParts
  /\ \E l \in Places \ {place[p]} : place' = [place EXCEPT ![p] = l]
  /\ UNCHANGED <<taskVars, evidence, definition, revision, reviewVars, requests, risks, findings,
                 dependencies>>
  /\ CompletedNotBlocked

CreatePart(p) ==
  /\ p \notin PresentParts
  /\ \E d \in Definitions, l \in Places :
       /\ definition' = [definition EXCEPT ![p] = d]
       /\ place' = [place EXCEPT ![p] = l]
  /\ UNCHANGED <<taskVars, evidence, revision, reviewVars, requests, risks, findings, dependencies>>

\* removePartInstance, and removePartDefinition for all parts of one
RemoveParts(gone) ==
  /\ gone # {} /\ gone \subseteq PresentParts
  /\ \/ Cardinality(gone) = 1
     \/ \E d \in Definitions : gone = PartsOf(d)
  /\ definition' = [p \in Parts |-> IF p \in gone THEN None ELSE definition[p]]
  /\ taskParts' = [t \in Tasks |-> taskParts[t] \ gone]
  /\ MarkScope(UsersOf(gone))
  /\ UNCHANGED <<status, needsDocs, evidence, place, revision, reviewVars, requests, risks,
                 findings, dependencies>>
  /\ CompletionOutlives(UsersOf(gone))
  /\ CompletedNotBlocked

-----------------------------------------------------------------------------
(* QA requests and reviews.                                                *)

\* A second request for a task is the same request or a conflict.
CreateQaRequest(t, q) ==
  /\ Len(requests) < MaxRequests
  /\ q \subseteq PresentParts
  /\ IF t = None
     THEN UNCHANGED status
     ELSE /\ status[t] = "in-progress"
          /\ \A i \in DOMAIN requests : requests[i].task # t
          /\ ~Blocked(t)
          /\ WaitingOn(t) = {}
          /\ status' = [status EXCEPT ![t] = "waiting-for-qa"]
  /\ requests' = <<[task |-> t, parts |-> q]>> \o requests
  /\ UNCHANGED <<taskParts, needsDocs, scope, evidence, partVars, reviewVars, risks, findings,
                 dependencies>>
  /\ CompletedNotBlocked

\* The request a review answers: the one it names, else the newest that
\* shares a target with it.  0: none.
Answered(t, q, named) ==
  LET sharing == {i \in DOMAIN requests : \/ t # None /\ requests[i].task = t
                                          \/ requests[i].parts \cap q # {}}
  IN  IF named # 0 THEN named
      ELSE IF sharing = {} THEN 0 ELSE Min(sharing)

\* captureInspectedPartInstanceIds: the parts a review names, itself or
\* through the request it names, and all parts of every task it names or
\* that uses one of those parts.
Inspected(t, q, named) ==
  LET request == IF named = 0 THEN [task |-> t, parts |-> {}] ELSE requests[named]
      direct == q \cup request.parts
      tasks == {u \in Existing : u \in {t, request.task} \/ taskParts[u] \cap direct # {}}
  IN  (direct \cap PresentParts) \cup UNION {taskParts[u] : u \in tasks}

\* captureTargetRevisions
RevisionsOf(parts) ==
  [d \in Definitions |-> IF parts \cap PartsOf(d) # {} THEN revision[d] ELSE None]

Review(t, q, named, result, u, r) ==
  LET inspected == Inspected(t, q, named)
  IN  [order |-> NextReviewOrder, task |-> t, result |-> result, inspected |-> inspected,
       revisions |-> RevisionsOf(inspected), followUpTask |-> u, followUpRisk |-> r]

\* createQaReportRecord with an approval, and the end of submitQaReport
RecordClearingMarks(review, t, q, named) ==     \* mutant: a review uses the scope marks up
  /\ sequence < MaxSequence
  /\ named = 0
  /\ reviews' = reviews \cup {review}
  /\ sequence' = review.order
  /\ scope' = [u \in Tasks |-> 0]
  /\ UNCHANGED <<evidence, partVars, requests, dependencies>>
Record(review, t, q, named) ==
  /\ sequence < MaxSequence
  /\ named \in 0..Len(requests)
  /\ q \subseteq PresentParts
  /\ reviews' = reviews \cup {review}
  /\ sequence' = review.order
  /\ requests' = LET i == Answered(t, q, named)
                 IN  IF i = 0 THEN requests ELSE RemoveAt(requests, i)
  /\ UNCHANGED <<scope, evidence, partVars, dependencies>>

\* A pass completes the task when nothing else is missing.
ApproveTask(t, q, named) ==
  /\ status[t] = "waiting-for-qa"
  /\ ~Blocked(t)
  /\ WaitingOn(t) = {}
  /\ Record(Review(t, q, named, "pass", None, None), t, q, named)
  /\ UNCHANGED <<taskParts, needsDocs, risks, findings>>
  /\ status' = IF CanFinalize(t)' THEN [status EXCEPT ![t] = "complete"] ELSE status
  /\ CompletedNotBlocked

\* Anything else leaves a corrective task u with the scope of t, a finding f
\* and, for another iteration, a risk r that blocks t until u is done.
RejectTask(t, q, named, u, f, r) ==
  /\ t \in Existing /\ u \notin Existing
  /\ findings[f] = None
  /\ r # None => risks[r] = None
  /\ Record(Review(t, q, named, IF r = None THEN "minor-fix" ELSE "iteration-worthy", u, r),
            t, q, named)
  /\ status' = [status EXCEPT ![u] = "not-started"]
  /\ taskParts' = [taskParts EXCEPT ![u] = taskParts[t]]
  /\ needsDocs' = [needsDocs EXCEPT ![u] = needsDocs[t]]
  /\ risks' = IF r = None THEN risks
              ELSE [risks EXCEPT ![r] = [status |-> "open", blocks |-> TRUE, targets |-> {t},
                                         mitigation |-> u, source |-> NextReviewOrder]]
  /\ findings' = [findings EXCEPT ![f] = [review |-> NextReviewOrder, target |-> t, task |-> u,
                                          risk |-> r, status |-> "open"]]
  /\ CompletedNotBlocked

\* A review of parts only belongs to no task's completion.
ReviewParts(q, named, result) ==
  /\ q # {}
  /\ Record(Review(None, q, named, result, None, None), None, q, named)
  /\ UNCHANGED <<status, taskParts, needsDocs, risks, findings>>

-----------------------------------------------------------------------------
(* Findings, retests and tests.                                             *)

\* createReportFinding on its own: the corrective task is the reviewed task
\* or one that shares its scope, the risk the one the review raised.
AddFinding(f, review, u, r) ==
  /\ findings[f] = None
  /\ review \in reviews
  /\ u \in Existing \cup {None}
  /\ r # None => /\ risks[r] # None
                 /\ review.followUpRisk = r
                 /\ risks[r].source = review.order
                 /\ review.task \in risks[r].targets
                 /\ risks[r].mitigation = u
  /\ findings' = [findings EXCEPT ![f] = [review |-> review.order, target |-> review.task,
                                          task |-> u, risk |-> r, status |-> "open"]]
  /\ UNCHANGED <<taskVars, evidence, partVars, reviewVars, requests, risks, dependencies>>

\* riskBelongsToFinding: raised by the same review, still mitigated by the
\* same task, still on the finding's target, and no other finding's.
OwnRisk(f) ==
  LET r == findings[f].risk
  IN  /\ r # None
      /\ risks[r] # None
      /\ \E review \in reviews : review.order = findings[f].review /\ review.followUpRisk = r
      /\ risks[r].source = findings[f].review
      /\ risks[r].mitigation = findings[f].task
      /\ findings[f].target \in risks[r].targets
      /\ \A g \in Findings \ {f} : findings[g] # None => findings[g].risk # r

RetestFinding(f, result) ==
  /\ findings[f] # None
  /\ sequence < MaxSequence
  /\ LET outcome == IF result = "pass" THEN "resolved" ELSE "open"
     IN  /\ findings' = [findings EXCEPT ![f].status = outcome]
         /\ risks' = IF OwnRisk(f) THEN [risks EXCEPT ![findings[f].risk].status = outcome]
                                   ELSE risks
  /\ sequence' = NextReviewOrder
  /\ UNCHANGED <<taskVars, evidence, partVars, reviews, requests, dependencies>>

CreateTestResult ==
  /\ sequence < MaxSequence
  /\ sequence' = NextReviewOrder
  /\ UNCHANGED <<taskVars, evidence, partVars, reviews, requests, risks, findings, dependencies>>

-----------------------------------------------------------------------------
(* Risks.                                                                   *)

CreateRisk(r) ==
  /\ risks[r] = None
  /\ \E s \in {"open", "resolved"}, b \in BOOLEAN, targets \in SUBSET Existing,
        m \in Existing \cup {None} :
       risks' = [risks EXCEPT ![r] = [status |-> s, blocks |-> b, targets |-> targets,
                                      mitigation |-> m, source |-> 0]]
  /\ UNCHANGED <<taskVars, evidence, partVars, reviewVars, requests, findings, dependencies>>

UpdateRisk(r) ==
  /\ risks[r] # None
  /\ \E s \in {"open", "resolved"}, b \in BOOLEAN, targets \in SUBSET Existing,
        m \in Existing \cup {None} :
       risks' = [risks EXCEPT ![r].status = s, ![r].blocks = b, ![r].targets = targets,
                              ![r].mitigation = m]
  /\ UNCHANGED <<taskVars, evidence, partVars, reviewVars, requests, findings, dependencies>>

\* assertRisksHaveNoCorrectiveFindingLinks
RemoveRisk(r) ==
  /\ risks[r] # None
  /\ \A review \in reviews : review.followUpRisk # r
  /\ \A f \in Findings : findings[f] # None => findings[f].risk # r
  /\ risks' = [risks EXCEPT ![r] = None]
  /\ UNCHANGED <<taskVars, evidence, partVars, reviewVars, requests, findings, dependencies>>

-----------------------------------------------------------------------------
(* Dependencies.                                                            *)

\* the tasks that u depends on, dependency "excluded" apart
Prerequisites(u, excluded) ==
  {dependencies[d].ref : d \in {e \in Dependencies \ {excluded} :
      /\ dependencies[e] # None
      /\ dependencies[e].hard
      /\ dependencies[e].task = u
      /\ dependencies[e].ref \in Tasks}}

\* wouldCreateHardTaskDependencyCycle
WouldCreateCycle(t, prerequisite, excluded) ==
  LET visited[n \in 0..Cardinality(Tasks)] ==
        IF n = 0 THEN {prerequisite}
        ELSE visited[n - 1] \cup UNION {Prerequisites(u, excluded) : u \in visited[n - 1]}
  IN  t \in visited[Cardinality(Tasks)]

\* what the routes let a dependency be
Proposable ==
  {x \in [task : Existing, hard : BOOLEAN, ref : Existing, required : RequiredStates] : x.task # x.ref}
  \cup [task : Existing, hard : BOOLEAN, ref : PresentParts, required : Places]

SaveDependency(d, x) ==
  /\ x \in Proposable
  /\ x.ref \in Tasks /\ x.hard => ~WouldCreateCycle(x.task, x.ref, d)
  /\ dependencies' = [dependencies EXCEPT ![d] = x]
  /\ UNCHANGED <<taskVars, evidence, partVars, reviewVars, requests, risks, findings>>
  \* assertCompletedTaskDependencyIsSatisfied
  /\ status[x.task] = "complete" => d \notin WaitingOn(x.task)'
  /\ CompletedNotBlocked

CreateDependency(d) == dependencies[d] = None /\ \E x \in Proposable : SaveDependency(d, x)
UpdateDependency(d) == dependencies[d] # None /\ \E x \in Proposable : SaveDependency(d, x)

RemoveDependency(d) ==
  /\ dependencies[d] # None
  /\ dependencies' = [dependencies EXCEPT ![d] = None]
  /\ UNCHANGED <<taskVars, evidence, partVars, reviewVars, requests, risks, findings>>

-----------------------------------------------------------------------------
TaskStep ==
  \/ \E t \in Tasks : CreateTask(t) \/ UpdateTask(t) \/ RemoveTask(t)
  \/ \E gone \in SUBSET Tasks, parts \in SUBSET Parts : RemoveSubsystem(gone, parts)

EvidenceStep ==
  \/ \E t \in Tasks : AddWorkLog(t) \/ RemoveWorkLog(t) \/ \E u \in Tasks : MoveWorkLog(t, u)
  \/ \E x \in Tasks \cup Parts : \/ AddArtifact(x)
                                 \/ RemoveArtifact(x)
                                 \/ \E y \in Tasks \cup Parts : RetargetArtifact(x, y)

PartStep ==
  \/ \E d \in Definitions : ReviseDefinition(d)
  \/ \E p \in Parts : ReassignPart(p) \/ MovePart(p) \/ CreatePart(p)
  \/ \E gone \in SUBSET Parts : RemoveParts(gone)

ReviewStep ==
  \E q \in SUBSET Parts, named \in 0..MaxRequests :
     \/ \E t \in Tasks : ApproveTask(t, q, named)
     \/ \E t, u \in Tasks, f \in Findings, r \in Risks \cup {None} :
           RejectTask(t, q, named, u, f, r)
     \/ \E result \in {"pass", "minor-fix"} : ReviewParts(q, named, result)

RequestStep == \E t \in Tasks \cup {None}, q \in SUBSET Parts : CreateQaRequest(t, q)

FindingStep ==
  \/ \E f \in Findings, review \in reviews, u \in Tasks \cup {None}, r \in Risks \cup {None} :
        AddFinding(f, review, u, r)
  \/ \E f \in Findings, result \in {"pass", "fail"} : RetestFinding(f, result)
  \/ CreateTestResult

RiskStep == \E r \in Risks : CreateRisk(r) \/ UpdateRisk(r) \/ RemoveRisk(r)

DependencyStep ==
  \E d \in Dependencies : CreateDependency(d) \/ UpdateDependency(d) \/ RemoveDependency(d)

Next ==
  \/ TaskStep \/ EvidenceStep \/ PartStep \/ ReviewStep
  \/ RequestStep \/ FindingStep \/ RiskStep \/ DependencyStep

Spec == Init /\ [][Next]_vars

-----------------------------------------------------------------------------
(* Properties.                                                             *)

Risk == [status : {"open", "resolved"}, blocks : BOOLEAN, targets : SUBSET Tasks,
         mitigation : Tasks \cup {None}, source : 0..MaxSequence]
Finding == [review : 1..MaxSequence, target : Tasks \cup {None}, task : Tasks \cup {None},
            risk : Risks \cup {None}, status : {"open", "resolved"}]
QaReview == [order : 1..MaxSequence, task : Tasks \cup {None},
             result : {"pass", "minor-fix", "iteration-worthy"}, inspected : SUBSET Parts,
             revisions : [Definitions -> Revisions \cup {None}],
             followUpTask : Tasks \cup {None}, followUpRisk : Risks \cup {None}]
Dependency == [task : Tasks, hard : BOOLEAN, ref : Tasks \cup Parts,
               required : Statuses \cup Places]

ASSUME RecordsAssumption == None \notin Risk \cup Finding \cup Dependency

\* The types of the variables; the records of absent tasks are clean, every
\* review has its own order and none is ahead of the sequence.
TypeOK ==
  /\ status \in [Tasks -> Statuses \cup {"absent"}]
  /\ taskParts \in [Tasks -> SUBSET PresentParts]
  /\ needsDocs \in [Tasks -> BOOLEAN]
  /\ scope \in [Tasks -> 0..sequence]
  /\ logs \in [Tasks -> 0..MaxLogs]
  /\ docs \in [Tasks \cup Parts -> 0..MaxDocs]
  /\ definition \in [Parts -> Definitions \cup {None}]
  /\ place \in [Parts -> Places]
  /\ revision \in [Definitions -> Revisions]
  /\ sequence \in 0..MaxSequence
  /\ reviews \subseteq QaReview
  /\ \A r \in reviews : r.order <= sequence /\ \A s \in reviews : s.order = r.order => s = r
  /\ requests \in Seq([task : Tasks \cup {None}, parts : SUBSET Parts])
  /\ risks \in [Risks -> Risk \cup {None}]
  /\ findings \in [Findings -> Finding \cup {None}]
  /\ dependencies \in [Dependencies -> Dependency \cup {None}]
  /\ \A t \in Tasks \ Existing : taskParts[t] = {} /\ scope[t] = 0 /\ logs[t] = 0

\* As long as a task is complete it has a work log, the documentation it
\* requires, and a mentor's pass newer than any change of its scope that
\* covers all its parts at the revisions they have now: nothing that other
\* requests do to logs, artifacts, parts, definitions, tasks or reviews can
\* take the ground away from under a completion.
CompletedWorkIsBacked ==
  \A t \in Tasks : status[t] = "complete" =>
    /\ logs[t] > 0
    /\ needsDocs[t] => docs[t] > 0
    /\ \E r \in reviews : /\ r.task = t /\ r.order > scope[t] /\ r.result = "pass"
                          /\ Covers(r, t)

\* A complete task never waits on a hard dependency, whatever happens to the
\* tasks and parts it depends on and however its dependencies are edited; and
\* no task depends on itself through hard dependencies, of whatever order of
\* creating, retargeting, hardening and deleting, and across reuse of the ids
\* of deleted tasks.
DependenciesHold ==
  \A t \in Tasks :
     /\ status[t] = "complete" => WaitingOn(t) = {}
     /\ \A u \in Prerequisites(t, None) : ~WouldCreateCycle(t, u, None)

\* What a review found and had corrected stays on record: the review, the
\* corrective task and the risk a finding names exist, and so do those a
\* review names.
CorrectiveHistoryIntact ==
  /\ \A f \in Findings : findings[f] # None =>
       /\ \E r \in reviews : r.order = findings[f].review
       /\ findings[f].task \in Existing \cup {None}
       /\ findings[f].risk # None => risks[findings[f].risk] # None
  /\ \A r \in reviews : /\ r.followUpTask \in Existing \cup {None}
                        /\ r.followUpRisk # None => risks[r.followUpRisk] # None

\* A review that no longer counts for its task, because the scope changed
\* after it or the task was deleted, never counts again: not when a revision
\* is put back, nor when a task gets the id of a deleted one.
ObsoleteReviewsStayObsolete ==
  [][\A r \in reviews \cap reviews' : ~Applicable(r) => ~Applicable(r)']_vars

\* A reviewed submission "closes only its request" (test/qaLifecycle.test.ts):
\* a task's pending request goes with the task or by a review of that task or
\* of no task, never by the review of another task.
ClosesOnlyItsRequest ==
  [][\A t \in Tasks :
       (\E i \in DOMAIN requests : requests[i].task = t) =>
          \/ \E i \in DOMAIN requests' : requests'[i].task = t
          \/ status'[t] = "absent"
          \/ \E r \in reviews' \ reviews : r.task \in {t, None}]_vars
=============================================================================
