-------------------------- MODULE MCTaskCompletion --------------------------
\* Instances of TaskCompletion and TaskViews for TLC.  Ids are
\* interchangeable, as are the revisions and the places.
EXTENDS TaskViews, TLC

CONSTANT corrective      \* a task that only the corrective runs use

Interchangeable ==
  Permutations(Tasks \ {corrective}) \cup Permutations(Parts) \cup Permutations(Places)
    \cup Permutations(Risks) \cup Permutations(Findings) \cup Permutations(Dependencies)
    \cup {f @@ g : f \in Permutations(Definitions), g \in Permutations(Revisions)}

\* every scope, or tasks that target no part and need no documentation
AnyScope == (SUBSET Parts) \X BOOLEAN
PlainScope == {<<{}, FALSE>>}

Finished == {"complete"}
FinishedOrNot == {"complete", "in-progress"}

\* One task with all that its completion rests on; or two with what reviews
\* leave behind, for which parts, documents and logs make no difference.
OneTask ==
  /\ status[corrective] = "absent" /\ docs[corrective] = 0
  /\ requests = <<>>
  /\ \A r \in Risks : risks[r] = None
  /\ \A f \in Findings : findings[f] = None
Corrections ==
  /\ \A t \in Tasks : /\ logs[t] = 0 /\ taskParts[t] = {} /\ ~needsDocs[t]
                      /\ status[t] \in {"absent", "not-started", "waiting-for-qa"}
  /\ \A x \in DOMAIN docs : docs[x] = 0
  /\ \A d, e \in Definitions : revision[d] = revision[e]
  /\ PresentParts = Parts
  /\ \A r \in reviews : r.inspected = {} /\ r.task # None
  /\ \A i \in DOMAIN requests : requests[i].parts = {}
OneTaskOrCorrections == OneTask \/ Corrections
=============================================================================
