------------------------------ MODULE CadImport ------------------------------
(***************************************************************************)
(* STEP imports, mapping reviews and finalization over the CAD tables      *)
(* (src/cad/cadImportService.ts, cadMappingEngine.ts,                      *)
(* cadHierarchyApplyService.ts and routes/cadSnapshotActionRoutes.ts, with *)
(* the statements of cadPrismaStore.ts).                                   *)
(*                                                                         *)
(* Every statement is awaited and none but the finalization is in a        *)
(* transaction, so each is a step, between which other requests run; reads *)
(* that follow each other are one step.  Any statement may fail.  An       *)
(* import is known by its parse: import, run and snapshot p belong         *)
(* together.  A source is the same in every file, and the rules name it;   *)
(* all imports are of one project and season.  A review decides source by  *)
(* source; what it decides is chosen when it gets there.  Left out:        *)
(* warnings, the kind suggested for what no rule maps, projectless uploads *)
(* and rules made or changed by hand.                                      *)
(***************************************************************************)
EXTENDS StepParserPool, CadHierarchy

CONSTANTS
    Graphs,           \* what parsers make of files
    Reviews,          \* POST .../mappings/apply and .../hierarchy-review/apply
    Finals,           \* POST .../finalize
    Mechanism,        \* a mechanism of the project
    Decisions         \* what a review may decide of a source

\* Requests are told apart, and None is no import.
ASSUME RequestsAssumption ==
    /\ Parses \cap Reviews = {} /\ Parses \cap Finals = {} /\ Reviews \cap Finals = {}
    /\ None \notin Parses

\* A file is finite; parents and holders are nodes of the same file.
ASSUME FilesAssumption ==
    /\ IsFiniteSet(Nodes) /\ None \notin Sources \cup {Mechanism}
    /\ \A g \in Graphs : IsGraph(g)

VARIABLES
    at,          \* where each request is
    runs,        \* CadImportRun.status; "none" before there is one
    snapshots,   \* CadSnapshot.status; "none" before there is one
    graphs,      \* the stored assembly nodes and parts of each snapshot
    mappings,    \* CadSnapshotMapping of each snapshot and source
    rules,       \* the active mapping rules
    importing,   \* the rules each import read and the sources it has yet to map
    review,      \* what each review read and where it is
    final,       \* what each finalization is of
    planned,     \* whether the mechanism exists, and which parts match exactly one planned
    crossed      \* the snapshots with a request that met another: for the properties

tables == <<runs, snapshots, graphs, mappings, rules>>
requests == <<importing, review, final>>
pool == <<stage, active, waiters>>
cad == <<at, tables, requests, planned, crossed>>

NoReview == [of |-> None, was |-> "none", todo |-> {}, source |-> None, decision |-> None,
             unresolved |-> FALSE]
NoFinal == [of |-> None, strict |-> FALSE, passed |-> FALSE]
Unmapped == [kind |-> "UNMAPPED", target |-> None, status |-> "NEEDS_REVIEW"]

\* What a mapping may be: decided, unmapped, or proposed by a rule.
Proposed(kind, target) == [kind |-> kind, target |-> target, status |-> "PROPOSED"]
MappingRecords ==
    Decisions \cup {Unmapped} \cup {Proposed(d.kind, d.target) : d \in Decisions}

ASSUME MappingsAssumption == None \notin MappingRecords

CadInit ==
    /\ Init
    /\ at = [q \in Parses \cup Reviews \cup Finals |-> "idle"]
    /\ runs = [p \in Parses |-> "none"]
    /\ snapshots = [p \in Parses |-> "none"]
    /\ graphs = [p \in Parses |-> NoGraph]
    /\ mappings = [p \in Parses |-> [s \in Sources |-> None]]
    /\ rules = {}
    /\ importing = [p \in Parses |-> [rules |-> {}, left |-> {}]]
    /\ review = [r \in Reviews |-> NoReview]
    /\ final = [f \in Finals |-> NoFinal]
    /\ planned = {Mechanism}
    /\ crossed = {}

Goto(q, place) == at' = [at EXCEPT ![q] = place]

Unresolved(p) == \E s \in Sources : mappings[p][s] # None /\ mappings[p][s].status = "NEEDS_REVIEW"
SnapshotStatus(unresolved) == IF unresolved THEN "mapping_review" ELSE "mapped"
RunStatus(unresolved) == IF unresolved THEN "MAPPING_REVIEW" ELSE "MAPPED"

(***************************************************************************)
(* runStepImport                                                           *)
(***************************************************************************)
Upload(p) ==
    /\ at[p] = "idle"
    /\ Goto(p, "created")
    /\ runs' = [runs EXCEPT ![p] = "PENDING"]
    /\ UNCHANGED <<pool, snapshots, graphs, mappings, rules, requests, planned, crossed>>

BeginParsing(p) ==
    /\ at[p] = "created"
    /\ Goto(p, "parsing")
    /\ runs' = [runs EXCEPT ![p] = "PARSING"]
    /\ UNCHANGED <<pool, snapshots, graphs, mappings, rules, requests, planned, crossed>>

\* parseStepFileWithTimeout; its deadlines need no guard.
Parse(p) ==
    /\ at[p] = "parsing"
    /\ TakeSlot(p) \/ Refuse(p) \/ Wait(p) \/ Finish(p) \/ TimeOutParsing(p) \/ TimeOutWaiting(p)
    /\ UNCHANGED cad

CreateSnapshot(p) ==
    /\ at[p] = "parsing"
    /\ stage[p] = "parsed"
    /\ Goto(p, "storing")
    /\ snapshots' = [snapshots EXCEPT ![p] = "parsed"]
    /\ UNCHANGED <<pool, runs, graphs, mappings, rules, requests, planned, crossed>>

\* createAssemblyNodes, createPartDefinitions and createPartInstances.
StoreGraph(p) ==
    /\ at[p] = "storing"
    /\ Goto(p, "reading")
    /\ \E g \in Graphs : Acyclic(g) /\ graphs' = [graphs EXCEPT ![p] = g]
    /\ UNCHANGED <<pool, runs, snapshots, mappings, rules, requests, planned, crossed>>

\* activeRulesForSnapshot
ReadRules(p) ==
    /\ at[p] = "reading"
    /\ Goto(p, "mapping")
    /\ importing' = [importing EXCEPT ![p] = [rules |-> rules, left |-> SourcesOf(graphs[p])]]
    /\ UNCHANGED <<pool, tables, review, final, planned, crossed>>

Matches(p, s) == {rule \in importing[p].rules : rule.source = s}

\* applyMappingRules, for the next source.
MapSource(p) == \E s \in importing[p].left :
    /\ at[p] = "mapping"
    /\ mappings' = [mappings EXCEPT ![p][s] =
           IF Cardinality(Matches(p, s)) = 1
           THEN LET rule == CHOOSE rule \in Matches(p, s) : TRUE
                IN Proposed(rule.kind, rule.target)
           ELSE Unmapped]
    /\ importing' = [importing EXCEPT ![p].left = @ \ {s}]
    /\ UNCHANGED <<pool, at, runs, snapshots, graphs, rules, review, final, planned, crossed>>

\* What the import found, whatever has been reviewed since.
LeftOpen(p) == \E s \in SourcesOf(graphs[p]) : Cardinality(Matches(p, s)) # 1

CloseSnapshot(p) ==
    /\ at[p] = "mapping"
    /\ importing[p].left = {}
    /\ Goto(p, "closing")
    /\ snapshots' = [snapshots EXCEPT ![p] = SnapshotStatus(LeftOpen(p))]
    /\ UNCHANGED <<pool, runs, graphs, mappings, rules, requests, planned, crossed>>

CloseRun(p) ==
    /\ at[p] = "closing"
    /\ Goto(p, "done")
    /\ runs' = [runs EXCEPT ![p] = RunStatus(LeftOpen(p))]
    /\ UNCHANGED <<pool, snapshots, graphs, mappings, rules, requests, planned, crossed>>

\* The parse fails, its result is refused or a statement fails; the failure is recorded.
Fail(p) ==
    /\ \/ at[p] = "parsing" /\ stage[p] \in Ended
       \/ at[p] \in {"storing", "reading", "mapping", "closing"}
    /\ Goto(p, "failed")
    /\ runs' = [runs EXCEPT ![p] = "FAILED"]
    /\ UNCHANGED <<pool, snapshots, graphs, mappings, rules, requests, planned, crossed>>

\* A statement fails before the try, or recording the failure fails as well.
BreakOff(q) ==
    /\ \/ q \in Parses /\ at[q] = "created"
       \/ q \in Parses /\ at[q] = "parsing" /\ stage[q] \in Ended
       \/ at[q] \in {"storing", "reading", "mapping", "closing"}
       \/ at[q] \in {"reviewing", "superseding", "updating", "syncing", "syncingRun"}
       \/ at[q] = "finalizing"
    /\ Goto(q, "broken")
    /\ UNCHANGED <<pool, tables, requests, planned, crossed>>

(***************************************************************************)
(* Reviews: applyMappingUpdates                                            *)
(***************************************************************************)
Under(p) == {r \in Reviews : review[r].of = p /\ at[r] \notin {"answered", "idle"}}
Finalizing(p) == {f \in Finals : final[f].of = p /\ at[f] \notin {"answered", "idle"}}
Meets(p) == at[p] # "done" \/ Under(p) # {} \/ Finalizing(p) # {}
Cross(p, met) == crossed' = IF met THEN crossed \cup {p} ELSE crossed

\* Faulty: what does not exist yet is created.
OpenReviewOfAll(r) == \E p \in Parses :
    /\ at[r] = "idle"
    /\ snapshots[p] # "none"
    /\ Goto(r, "reviewing")
    /\ review' = [review EXCEPT ![r] = [NoReview EXCEPT !.of = p, !.was = snapshots[p],
                                        !.todo = Sources]]
    /\ Cross(p, Meets(p) \/ snapshots[p] = "finalized")
    /\ UNCHANGED <<pool, tables, importing, final, planned>>

\* The mappings that exist are read; others cannot be decided.
OpenReview(r) == \E p \in Parses :
    /\ at[r] = "idle"
    /\ snapshots[p] # "none"
    /\ Goto(r, "reviewing")
    /\ review' = [review EXCEPT ![r] = [NoReview EXCEPT !.of = p, !.was = snapshots[p],
                                        !.todo = {s \in Sources : mappings[p][s] # None}]]
    /\ Cross(p, Meets(p) \/ snapshots[p] = "finalized")
    /\ UNCHANGED <<pool, tables, importing, final, planned>>

Decided(r, s, d) ==
    /\ mappings' = [mappings EXCEPT ![review[r].of][s] = d]
    /\ review' = [review EXCEPT ![r].todo = @ \ {s}, ![r].source = None, ![r].decision = None]
    /\ Goto(r, "reviewing")

Suits(s, d) == IF s \in Parts THEN d.kind \in {"PART_DEFINITION", "IGNORE", "UNMAPPED"}
                              ELSE d.kind # "PART_DEFINITION"

Decide(r) == \E s \in review[r].todo, d \in Decisions :
    /\ at[r] = "reviewing"
    /\ Suits(s, d) /\ ~InvalidTarget(d, planned)
    /\ Decided(r, s, d)
    /\ UNCHANGED <<pool, runs, snapshots, graphs, rules, importing, final, planned, crossed>>

Rule(r, s, d) == [by |-> r, source |-> s, kind |-> d.kind, target |-> d.target]

\* applyToFuture: createMappingRule
AddRule(r) == \E s \in review[r].todo, d \in Decisions :
    /\ at[r] = "reviewing"
    /\ Suits(s, d) /\ ~InvalidTarget(d, planned)
    /\ Goto(r, "superseding")
    /\ rules' = rules \cup {Rule(r, s, d)}
    /\ review' = [review EXCEPT ![r].source = s, ![r].decision = d]
    /\ UNCHANGED <<pool, runs, snapshots, graphs, mappings, importing, final, planned, crossed>>

\* Faulty: only older rules to the same kind of target give way.
SupersedeSameKind(r) ==
    /\ at[r] = "superseding"
    /\ Goto(r, "updating")
    /\ rules' = {rule \in rules : rule.source # review[r].source \/ rule.by = r
                                  \/ rule.kind # review[r].decision.kind}
    /\ UNCHANGED <<pool, runs, snapshots, graphs, mappings, requests, planned, crossed>>

\* supersedeMatchingRules: whatever else is active for the source gives way.
Supersede(r) ==
    /\ at[r] = "superseding"
    /\ Goto(r, "updating")
    /\ rules' = {rule \in rules : rule.source # review[r].source \/ rule.by = r}
    /\ UNCHANGED <<pool, runs, snapshots, graphs, mappings, requests, planned, crossed>>

UpdateMapping(r) ==
    /\ at[r] = "updating"
    /\ Decided(r, review[r].source, review[r].decision)
    /\ UNCHANGED <<pool, runs, snapshots, graphs, rules, importing, final, planned, crossed>>

(***************************************************************************)
(* syncSnapshotLifecycleAfterMappingUpdates                                *)
(***************************************************************************)
ListMappings(r) ==
    /\ at[r] = "reviewing"
    /\ Goto(r, IF review[r].was = "finalized" THEN "answered" ELSE "syncing")
    /\ review' = [review EXCEPT ![r].todo = {}, ![r].unresolved = Unresolved(review[r].of)]
    /\ UNCHANGED <<pool, tables, importing, final, planned, crossed>>

\* Written only if it differs from what the review read when it began.
SyncSnapshot(r) ==
    LET status == SnapshotStatus(review[r].unresolved)
    IN /\ at[r] = "syncing"
       /\ Goto(r, "syncingRun")
       /\ snapshots' = [snapshots EXCEPT ![review[r].of] =
              IF review[r].was = status THEN @ ELSE status]
       /\ UNCHANGED <<pool, runs, graphs, mappings, rules, requests, planned, crossed>>

SyncRun(r) ==
    /\ at[r] = "syncingRun"
    /\ Goto(r, "answered")
    /\ runs' = [runs EXCEPT ![review[r].of] = RunStatus(review[r].unresolved)]
    /\ UNCHANGED <<pool, snapshots, graphs, mappings, rules, requests, planned, crossed>>

(***************************************************************************)
(* POST .../finalize, one at a time: it has the snapshot lock of app.ts.   *)
(***************************************************************************)
Check(f) == \E p \in Parses, allowUnresolved \in BOOLEAN :
    LET refused ==
            \/ MissingTargets(mappings[p], planned) # {}
            \/ HierarchyIssues(graphs[p], mappings[p], planned) # {} /\ ~allowUnresolved
    IN /\ at[f] = "idle" /\ \A o \in Finals : at[o] # "finalizing"
       /\ snapshots[p] # "none"
       /\ Goto(f, IF refused THEN "answered" ELSE "finalizing")
       /\ final' = [final EXCEPT ![f] = [of |-> p, strict |-> ~allowUnresolved, passed |-> FALSE]]
       /\ Cross(p, Meets(p))
       /\ UNCHANGED <<pool, tables, importing, review, planned>>

\* Faulty: the run is left as it is.
FinalizeSnapshot(f) ==
    /\ at[f] = "finalizing"
    /\ Goto(f, "answered")
    /\ snapshots' = [snapshots EXCEPT ![final[f].of] = "finalized"]
    /\ final' = [final EXCEPT ![f].passed = TRUE]
    /\ UNCHANGED <<pool, runs, graphs, mappings, rules, importing, review, planned, crossed>>

\* finalizeSnapshot, a transaction
Finalize(f) ==
    /\ at[f] = "finalizing"
    /\ Goto(f, "answered")
    /\ snapshots' = [snapshots EXCEPT ![final[f].of] = "finalized"]
    /\ runs' = [runs EXCEPT ![final[f].of] = "FINALIZED"]
    /\ final' = [final EXCEPT ![f].passed = TRUE]
    /\ UNCHANGED <<pool, graphs, mappings, rules, importing, review, planned, crossed>>

\* The mechanism is removed or added again, planned parts come and go.
Replan == \E now \in SUBSET (Parts \cup {Mechanism}) :
    /\ planned' = now
    /\ UNCHANGED <<pool, at, tables, requests, crossed>>

CadNext ==
    \/ \E p \in Parses : Upload(p)
    \/ \E p \in Parses : BeginParsing(p)
    \/ \E p \in Parses : Parse(p)
    \/ \E p \in Parses : CreateSnapshot(p)
    \/ \E p \in Parses : StoreGraph(p)
    \/ \E p \in Parses : ReadRules(p)
    \/ \E p \in Parses : MapSource(p)
    \/ \E p \in Parses : CloseSnapshot(p)
    \/ \E p \in Parses : CloseRun(p)
    \/ \E p \in Parses : Fail(p)
    \/ \E q \in Parses \cup Reviews \cup Finals : BreakOff(q)
    \/ \E r \in Reviews : OpenReview(r)
    \/ \E r \in Reviews : Decide(r)
    \/ \E r \in Reviews : AddRule(r)
    \/ \E r \in Reviews : Supersede(r)
    \/ \E r \in Reviews : UpdateMapping(r)
    \/ \E r \in Reviews : ListMappings(r)
    \/ \E r \in Reviews : SyncSnapshot(r)
    \/ \E r \in Reviews : SyncRun(r)
    \/ \E f \in Finals : Check(f)
    \/ \E f \in Finals : Finalize(f)
    \/ Replan

\* What an import does without the child's answer: it arrives at the pool, its timers fire,
\* its statements are answered.
Import(p) ==
    \/ at[p] = "parsing" /\ (TakeSlot(p) \/ Refuse(p) \/ Wait(p)) /\ UNCHANGED cad
    \/ (TimeOutParsing(p) \/ TimeOutWaiting(p)) /\ UNCHANGED cad
    \/ BeginParsing(p) \/ CreateSnapshot(p) \/ StoreGraph(p) \/ ReadRules(p) \/ MapSource(p)
    \/ CloseSnapshot(p) \/ CloseRun(p) \/ Fail(p) \/ BreakOff(p)
Revise(r) ==
    Decide(r) \/ AddRule(r) \/ Supersede(r) \/ UpdateMapping(r) \/ ListMappings(r)
        \/ SyncSnapshot(r) \/ SyncRun(r) \/ BreakOff(r)

CadFairness ==
    /\ \A p \in Parses : WF_<<pool, cad>>(Import(p))
    /\ \A r \in Reviews : WF_<<pool, cad>>(Revise(r))
    /\ \A f \in Finals : WF_<<pool, cad>>(Finalize(f))

CadSpec == CadInit /\ [][CadNext]_<<pool, cad>>
(***************************************************************************)
(* Properties.                                                             *)
(***************************************************************************)
\* At rest, and if no two requests met on it, an imported snapshot says of its mappings
\* what they are, and its run says the same: whatever was reviewed or finalized since.
RecordsAgree == \A p \in Parses \ crossed :
    at[p] = "done" /\ Under(p) = {} /\ Finalizing(p) = {} =>
        IF snapshots[p] = "finalized" THEN runs[p] = "FINALIZED"
        ELSE /\ snapshots[p] = SnapshotStatus(Unresolved(p))
             /\ runs[p] = RunStatus(Unresolved(p))

\* A mapping that exists changes by a review that still has to decide it, and by nothing
\* else: what a person decided while the import ran is not mapped over.
ReviewsStand == [][\A p \in Parses, s \in Sources :
    mappings[p][s] \notin {None, mappings'[p][s]} =>
        \E r \in Reviews : review[r].of = p /\ s \in review[r].todo]_<<pool, cad>>

\* Once no review is between its rule and the ones that it supersedes, and none broke off
\* there, a source has one rule at most, so that the next import finds no conflict.
RulesNeverConflict ==
    (\A r \in Reviews : at[r] \notin {"superseding", "broken"}) =>
        \A s \in Sources : Cardinality({rule \in rules : rule.source = s}) <= 1

\* A snapshot that was finalized without leave to skip issues, and that no other request
\* met, is reviewed: parts lie in subsystems, component assemblies belong to mechanisms.
FinalizedIsReviewed == \A f \in Finals :
    at[f] = "answered" /\ final[f].passed /\ final[f].strict /\ final[f].of \notin crossed =>
        Reviewed(graphs[final[f].of], mappings[final[f].of])

\* Every upload, review and finalization ends, behind full queues and failing statements:
\* again and again none is under way.
EveryCadRequestEnds == []<>(\A q \in DOMAIN at :
    at[q] \in {"idle", "done", "failed", "answered", "broken"})
=============================================================================
