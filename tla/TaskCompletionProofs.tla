------------------------ MODULE TaskCompletionProofs ------------------------
(***************************************************************************)
(* What TaskCompletion guarantees for any tasks, parts, reviews and        *)
(* dependencies.  The search for cycles is a recursive function over the   *)
(* naturals; what it finds is characterized by sets of tasks that are      *)
(* closed under prerequisites (Closed), and so is what keeps cycles out    *)
(* (Acyclic), so that numbers are left behind after the first section.     *)
(***************************************************************************)
EXTENDS TaskViews, FiniteSetTheorems, WellFoundedInduction, TLAPS

-----------------------------------------------------------------------------
(***************************************************************************)
(* Induction over sets of naturals, and functions defined by recursion.    *)
(***************************************************************************)
LEMMA LeastNatural ==
    ASSUME NEW T \in SUBSET Nat, T # {}
    PROVE  \E x \in T : \A y \in T : ~(y < x)
<1> DEFINE R == OpToRel(<, Nat)
<1>1. R = {pair \in Nat \X Nat : pair[1] < pair[2]}
  BY DEF OpToRel
<1>2. IsWellFoundedOn(R, Nat)
  BY NatLessThanWellFounded
<1> HIDE DEF R
<1>3. \E x \in T : \A y \in T : ~(<<y, x>> \in R)
  BY <1>2, WFMin
<1> QED
  BY <1>1, <1>3

LEMMA Induction ==
    ASSUME NEW S \in SUBSET Nat, 0 \in S, \A n \in S : n + 1 \in S
    PROVE  S = Nat
<1> SUFFICES ASSUME Nat \ S # {} PROVE FALSE
  OBVIOUS
<1>1. PICK x \in Nat \ S : \A y \in Nat \ S : ~(y < x)
  BY LeastNatural
<1>2. x # 0 /\ x - 1 \in Nat
  BY <1>1
<1>3. x - 1 \in S
  BY <1>1, <1>2
<1> QED
  BY <1>1, <1>2, <1>3

\* A step repeated K times from a start: the function that recursion defines exists.
IsRun(f, K, start, step) ==
    f = [n \in 0..K |-> IF n = 0 THEN start ELSE step[<<n, f[n - 1]>>]]

LEMMA Recursion ==
    ASSUME NEW S, NEW start \in S, NEW step \in [(Nat \X S) -> S], NEW K \in Nat
    PROVE  \E f \in [0..K -> S] : IsRun(f, K, start, step)
<1> USE DEF IsRun
<1> DEFINE D == {k \in Nat : \E f \in [0..k -> S] : IsRun(f, k, start, step)}
<1>1. 0 \in D
  <2> DEFINE f == [n \in 0..0 |-> start]
  <2>1. f \in [0..0 -> S] /\ IsRun(f, 0, start, step)
    OBVIOUS
  <2> QED
    BY <2>1
<1>2. ASSUME NEW k \in D PROVE k + 1 \in D
  <2>1. PICK f \in [0..k -> S] : IsRun(f, k, start, step)
    OBVIOUS
  <2> DEFINE g == [n \in 0..(k + 1) |-> IF n = k + 1 THEN step[<<n, f[k]>>] ELSE f[n]]
  <2>2. step[<<k + 1, f[k]>>] \in S
    <3>1. f[k] \in S
      OBVIOUS
    <3> QED
      BY <3>1
  <2>3. g \in [0..(k + 1) -> S]
    BY <2>2
  <2>4. ASSUME NEW n \in 0..(k + 1)
        PROVE  g[n] = IF n = 0 THEN start ELSE step[<<n, g[n - 1]>>]
    <3>1. CASE n = k + 1
      <4>1. g[n] = step[<<n, f[k]>>] /\ n # 0
        BY <3>1
      <4>2. g[n - 1] = f[k]
        BY <3>1
      <4> HIDE DEF g
      <4> QED
        BY <4>1, <4>2
    <3>2. CASE n # k + 1
      <4>1. n \in 0..k /\ (n # 0 => n - 1 \in 0..k /\ n - 1 # k + 1 /\ n - 1 \in 0..(k + 1))
        BY <3>2
      <4>2. f[n] = IF n = 0 THEN start ELSE step[<<n, f[n - 1]>>]
        BY <4>1, <2>1
      <4> QED
        BY <4>1, <4>2, <3>2
    <3> QED
      BY <3>1, <3>2
  <2> HIDE DEF g
  <2>5. IsRun(g, k + 1, start, step)
    BY <2>3, <2>4
  <2>6. k + 1 \in Nat
    OBVIOUS
  <2> HIDE DEF IsRun
  <2> QED
    BY <2>3, <2>5, <2>6
<1> HIDE DEF D
<1>3. D = Nat
  <2>1. D \in SUBSET Nat
    BY DEF D
  <2> QED
    BY <1>1, <1>2, <2>1, Induction
<1> QED
  BY <1>3 DEF D

-----------------------------------------------------------------------------
(***************************************************************************)
(* The search for cycles.                                                  *)
(***************************************************************************)
Closed(C, excluded) == \A u \in C : Prerequisites(u, excluded) \subseteq C

\* What the search reaches from a task is the least set of tasks with it that is closed under
\* prerequisites: in as many rounds as there are tasks nothing is left to find.
LEMMA SearchIsComplete ==
    ASSUME NEW p \in Tasks, NEW excluded
    PROVE  \E R \in SUBSET Tasks :
              /\ p \in R /\ Closed(R, excluded)
              /\ \A t : WouldCreateCycle(t, p, excluded) <=> t \in R
              /\ \A C \in SUBSET Tasks : p \in C /\ Closed(C, excluded) => R \subseteq C
<1> DEFINE K == Cardinality(Tasks)
           Round(v) == v \cup UNION {Prerequisites(u, excluded) : u \in v}
           Rounds(f) == f = [n \in 0..K |-> IF n = 0 THEN {p} ELSE Round(f[n - 1])]
           visited == CHOOSE f : Rounds(f)
<1>1. K \in Nat
  BY TasksAssumption, FS_CardinalityType
<1>2. \A t : WouldCreateCycle(t, p, excluded) <=> t \in visited[K]
  BY DEF WouldCreateCycle
<1>3. \A v \in SUBSET Tasks : Round(v) \in SUBSET Tasks
  BY DEF Prerequisites
<1>4. \E f : Rounds(f)
  <2> DEFINE S == SUBSET Tasks
             start == {p}
             step == [x \in Nat \X S |-> Round(x[2])]
  <2>1. step \in [(Nat \X S) -> S]
    BY <1>3
  <2>2. \A n \in Nat, v \in S : step[<<n, v>>] = Round(v)
    OBVIOUS
  <2>0. start \in S
    OBVIOUS
  <2> HIDE DEF S, start, step, Round, K
  <2>3. PICK f \in [0..K -> S] : IsRun(f, K, start, step)
    BY <1>1, <2>0, <2>1, Recursion
  <2>4. \A n \in 0..K : n # 0 => n - 1 \in 0..K /\ n \in Nat
    BY <1>1
  <2>5. \A n \in 0..K : f[n] = IF n = 0 THEN {p} ELSE Round(f[n - 1])
    BY <2>2, <2>3, <2>4 DEF start, IsRun
  <2> QED
    BY <2>3, <2>5
<1>5. Rounds(visited)
  BY <1>4
<1> HIDE DEF visited, Round, K
<1>6. visited[0] = {p} /\ \A n \in 0..K : n + 1 \in 0..K => visited[n + 1] = Round(visited[n])
  <2>1. visited[0] = {p}
    BY <1>1, <1>5
  <2>2. ASSUME NEW n \in 0..K, n + 1 \in 0..K PROVE visited[n + 1] = Round(visited[n])
    <3>1. n + 1 # 0 /\ (n + 1) - 1 = n
      BY <1>1
    <3>2. visited[n + 1] = IF n + 1 = 0 THEN {p} ELSE Round(visited[(n + 1) - 1])
      BY <1>5, <2>2
    <3> QED
      BY <3>1, <3>2
  <2> QED
    BY <2>1, <2>2
<1>7. \A n \in 0..K : visited[n] \in SUBSET Tasks /\ p \in visited[n]
  <2> DEFINE T == {n \in Nat : n \in 0..K => visited[n] \in SUBSET Tasks /\ p \in visited[n]}
  <2>1. 0 \in T
    BY <1>6
  <2>2. ASSUME NEW n \in T PROVE n + 1 \in T
    BY <1>1, <1>3, <1>6 DEF Round
  <2> HIDE DEF T
  <2>3. T = Nat
    <3>1. T \in SUBSET Nat
      BY DEF T
    <3> QED
      BY <2>1, <2>2, <3>1, Induction
  <2> QED
    BY <2>3 DEF T
<1>8. ASSUME NEW C \in SUBSET Tasks, p \in C, Closed(C, excluded)
      PROVE  visited[K] \subseteq C
  <2> DEFINE T == {n \in Nat : n \in 0..K => visited[n] \subseteq C}
  <2>1. 0 \in T
    BY <1>6, <1>8
  <2>2. ASSUME NEW n \in T PROVE n + 1 \in T
    BY <1>1, <1>6, <1>8 DEF Round, Closed
  <2> HIDE DEF T
  <2>3. T = Nat
    <3>1. T \in SUBSET Nat
      BY DEF T
    <3> QED
      BY <2>1, <2>2, <3>1, Induction
  <2> QED
    BY <1>1, <2>3 DEF T
\* A round that finds nothing is the last, and there are no more rounds that find something
\* than there are tasks.
<1>9. ASSUME NEW n \in 0..K PROVE IsFiniteSet(visited[n]) /\ Cardinality(visited[n]) \in 0..K
  BY <1>7, TasksAssumption, FS_Subset, FS_CardinalityType DEF K
<1>10. \A n \in 0..K : Closed(visited[n], excluded) \/ Cardinality(visited[n]) > n
  <2> DEFINE T == {n \in Nat : n \in 0..K =>
                      Closed(visited[n], excluded) \/ Cardinality(visited[n]) > n}
  <2>1. 0 \in T
    BY <1>6, FS_Singleton
  <2>2. ASSUME NEW n \in T, n + 1 \in 0..K
        PROVE  Closed(visited[n + 1], excluded) \/ Cardinality(visited[n + 1]) > n + 1
    <3>1. n \in 0..K /\ visited[n + 1] = Round(visited[n])
      BY <1>1, <1>6, <2>2
    <3>2. CASE Closed(visited[n], excluded)
      <4>1. Round(visited[n]) = visited[n]
        BY <3>2 DEF Round, Closed
      <4> QED
        BY <3>1, <3>2, <4>1
    <3>3. CASE ~Closed(visited[n], excluded)
      <4>1. visited[n] \subseteq visited[n + 1] /\ visited[n] # visited[n + 1]
        BY <3>1, <3>3 DEF Round, Closed
      <4>2. Cardinality(visited[n]) < Cardinality(visited[n + 1])
        <5>1. IsFiniteSet(visited[n + 1])
          BY <1>9, <2>2
        <5>2. Cardinality(visited[n]) <= Cardinality(visited[n + 1])
              /\ Cardinality(visited[n]) # Cardinality(visited[n + 1])
          BY <4>1, <5>1, FS_Subset
        <5> QED
          BY <1>9, <2>2, <3>1, <5>2
      <4>3. Cardinality(visited[n]) > n
        BY <3>1, <3>3
      <4> QED
        BY <1>9, <2>2, <3>1, <4>2, <4>3
    <3> QED
      BY <3>2, <3>3
  <2>3. \A n \in T : n + 1 \in T
    BY <2>2
  <2> HIDE DEF T
  <2>4. T = Nat
    <3>1. T \in SUBSET Nat
      BY DEF T
    <3> QED
      BY <2>1, <2>3, <3>1, Induction
  <2> QED
    BY <2>4 DEF T
<1>11. Closed(visited[K], excluded)
  BY <1>1, <1>9, <1>10
<1> QED
  BY <1>1, <1>2, <1>7, <1>8, <1>11

-----------------------------------------------------------------------------
(***************************************************************************)
(* Types.                                                                  *)
(***************************************************************************)
\* No review and no scope mark is ahead of the sequence.
LEMMA SequenceLeads == TypeOK => CurrentReviewOrder = sequence
<1> SUFFICES ASSUME TypeOK PROVE CurrentReviewOrder = sequence
  OBVIOUS
<1> DEFINE S == {sequence} \cup {scope[t] : t \in Tasks} \cup {r.order : r \in reviews}
<1>1. sequence \in S /\ sequence \in Nat /\ \A x \in S : x \in Nat /\ x <= sequence
  BY BoundAssumption DEF TypeOK, QaReview
<1>2. CurrentReviewOrder = CHOOSE x \in S : \A y \in S : x >= y
  BY DEF CurrentReviewOrder, Max
<1> HIDE DEF S
<1>3. CurrentReviewOrder \in S /\ \A y \in S : CurrentReviewOrder >= y
  BY <1>1, <1>2
<1> QED
  BY <1>1, <1>3

PendingRequest == [task : Tasks \cup {None}, parts : SUBSET Parts]

LEMMA WithoutType ==
    ASSUME TypeOK, NEW gone PROVE RequestsWithout(gone) \in Seq(PendingRequest)
<1> DEFINE K == Len(requests)
           S == Seq(PendingRequest)
           start == <<>>
           Kept(n, q) == IF requests[n].task \in gone THEN q ELSE Append(q, requests[n])
           Runs(f) == f = [n \in 0..K |-> IF n = 0 THEN start ELSE Kept(n, f[n - 1])]
           step == [x \in Nat \X S |-> IF x[1] \in 1..K THEN Kept(x[1], x[2]) ELSE x[2]]
           kept == CHOOSE f : Runs(f)
<1>1. requests \in S
  BY DEF TypeOK, PendingRequest
<1>2. K \in Nat /\ start \in S
  BY <1>1
<1>3. step \in [(Nat \X S) -> S]
  <2>1. ASSUME NEW n \in Nat, NEW q \in S PROVE (IF n \in 1..K THEN Kept(n, q) ELSE q) \in S
    BY <1>1
  <2> HIDE DEF Kept, S, K
  <2> QED
    BY <2>1
<1>4. \A n \in 1..K, q \in S : step[<<n, q>>] = Kept(n, q)
  <2> HIDE DEF Kept, S
  <2> QED
    BY <1>2
<1>5. RequestsWithout(gone) = kept[K]
  BY DEF RequestsWithout
<1> HIDE DEF S, start, step, Kept, K
<1>6. PICK f \in [0..K -> S] : IsRun(f, K, start, step)
  BY <1>2, <1>3, Recursion
<1>7. \A n \in 0..K : n # 0 => n \in 1..K /\ n - 1 \in 0..K
  BY <1>2
<1>8. \A n \in 0..K : f[n] = IF n = 0 THEN start ELSE Kept(n, f[n - 1])
  BY <1>4, <1>6, <1>7 DEF IsRun
<1>9. Runs(f)
  BY <1>6, <1>8
<1>10. Runs(kept)
  BY <1>9
<1> HIDE DEF kept
<1>11. kept[0] = start /\ \A n \in 0..K : n + 1 \in 0..K => kept[n + 1] = Kept(n + 1, kept[n])
  <2>1. ASSUME NEW n \in 0..K, n + 1 \in 0..K PROVE kept[n + 1] = Kept(n + 1, kept[n])
    <3>1. n + 1 # 0 /\ (n + 1) - 1 = n
      BY <1>2
    <3>2. kept[n + 1] = IF n + 1 = 0 THEN start ELSE Kept(n + 1, kept[(n + 1) - 1])
      BY <1>10, <2>1
    <3> QED
      BY <3>1, <3>2
  <2> QED
    BY <1>2, <1>10, <2>1
<1> DEFINE T == {n \in Nat : n \in 0..K => kept[n] \in S}
<1>12. 0 \in T
  BY <1>2, <1>11
<1>13. ASSUME NEW n \in T PROVE n + 1 \in T
  <2> SUFFICES ASSUME n + 1 \in 0..K PROVE kept[n + 1] \in S
    OBVIOUS
  <2>1. n \in 0..K /\ n + 1 \in 1..K
    BY <1>2
  <2>2. step[<<n + 1, kept[n]>>] \in S
    BY <1>3, <2>1
  <2> QED
    BY <1>4, <1>11, <2>1, <2>2
<1>14. T = Nat
  <2>1. T \in SUBSET Nat
    OBVIOUS
  <2> HIDE DEF T
  <2> QED
    BY <1>12, <1>13, <2>1, Induction
<1> QED
  BY <1>2, <1>5, <1>14 DEF S

LEMMA RemoveAtType ==
    ASSUME NEW S, NEW s \in Seq(S), NEW i \in 1..Len(s) PROVE RemoveAt(s, i) \in Seq(S)
  BY DEF RemoveAt

\* A review answers a request that is pending.
LEMMA AnsweredType ==
    ASSUME TypeOK, NEW t, NEW q, NEW named \in 0..Len(requests)
    PROVE  Answered(t, q, named) \in 0..Len(requests)
<1> DEFINE S == {i \in DOMAIN requests : \/ t # None /\ requests[i].task = t
                                         \/ requests[i].parts \cap q # {}}
<1>1. (\A i \in S : i \in 0..Len(requests)) /\ Len(requests) \in Nat
  BY DEF TypeOK
<1>2. Answered(t, q, named) =
         IF named # 0 THEN named ELSE IF S = {} THEN 0 ELSE CHOOSE x \in S : \A y \in S : x =< y
  BY DEF Answered, Min
<1> HIDE DEF S
<1>3. S # {} => \E x \in S : \A y \in S : x =< y
  <2> SUFFICES ASSUME S # {} PROVE \E x \in S : \A y \in S : x =< y
    OBVIOUS
  <2>1. S \in SUBSET Nat
    BY <1>1
  <2>2. PICK x \in S : \A y \in S : ~(y < x)
    BY <2>1, LeastNatural
  <2> QED
    BY <2>1, <2>2
<1> DEFINE first == CHOOSE x \in S : \A y \in S : x =< y
<1>4. S # {} => first \in S
  BY <1>3
<1> HIDE DEF first
<1>5. S # {} => first \in 0..Len(requests)
  BY <1>1, <1>4
<1> QED
  BY <1>1, <1>2, <1>5 DEF first

LEMMA TypeInit == Init => TypeOK
  BY BoundAssumption, NoneAssumption
     DEF Init, TypeOK, PresentParts, Existing, Statuses

\* Changes of the tasks alone, of their parts, and of what they are marked with.
LEMMA TaskTypes ==
    ASSUME TypeOK, NEW t \in Tasks, CreateTask(t) \/ UpdateTask(t) PROVE TypeOK'
<1>1. CurrentReviewOrder = sequence /\ sequence \in Nat
  BY SequenceLeads, BoundAssumption DEF TypeOK
<1>2. PresentParts' = PresentParts
  BY DEF CreateTask, UpdateTask, partVars, PresentParts
<1>3. CASE CreateTask(t)
  BY <1>1, <1>2, <1>3
     DEF CreateTask, TypeOK, Existing, Statuses, evidence, partVars, reviewVars
<1>4. CASE UpdateTask(t)
  BY <1>1, <1>2, <1>4
     DEF UpdateTask, MarkScope, TypeOK, Existing, Statuses, evidence, partVars, reviewVars
<1> QED
  BY <1>3, <1>4

LEMMA RemovalTypes ==
    ASSUME TypeOK, NEW gone, RemoveTasks(gone),
           \A t \in Tasks \ gone : taskParts[t] \subseteq PresentParts',
           definition' \in [Parts -> Definitions \cup {None}],
           risks' \in [Risks -> Risk \cup {None}]
    PROVE  TypeOK'
<1>1. requests' \in Seq(PendingRequest)
  BY WithoutType DEF RemoveTasks
<1>2. status' \in [Tasks -> Statuses \cup {"absent"}]
      /\ \A t \in Tasks : status'[t] # "absent" => status[t] # "absent" /\ t \notin gone
  BY DEF RemoveTasks, TypeOK
<1>3. \A t \in Tasks : taskParts'[t] \subseteq PresentParts'
  BY DEF RemoveTasks, TypeOK
<1>4. \A t \in Tasks \ Existing' : taskParts'[t] = {} /\ scope'[t] = 0 /\ logs'[t] = 0
  BY DEF RemoveTasks, TypeOK, Existing
<1>5. /\ needsDocs' \in [Tasks -> BOOLEAN] /\ scope' \in [Tasks -> 0..sequence']
      /\ logs' \in [Tasks -> 0..MaxLogs]
      /\ dependencies' \in [Dependencies -> Dependency \cup {None}]
  BY BoundAssumption DEF RemoveTasks, TypeOK
<1>6. /\ reviews' \subseteq QaReview
      /\ \A r \in reviews' : r.order <= sequence' /\ \A s \in reviews' : s.order = r.order => s = r
  BY DEF RemoveTasks, TypeOK
<1>7. taskParts' = [t \in Tasks |-> IF t \in gone THEN {} ELSE taskParts[t]]
      /\ UNCHANGED <<docs, place, revision, sequence, findings>>
  BY DEF RemoveTasks
<1> QED
  BY <1>1, <1>2, <1>3, <1>4, <1>5, <1>6, <1>7 DEF TypeOK, PendingRequest

LEMMA RemoveTypes ==
    ASSUME TypeOK,
           \/ \E t \in Tasks : RemoveTask(t)
           \/ \E gone \in SUBSET Tasks, parts \in SUBSET Parts : RemoveSubsystem(gone, parts)
    PROVE  TypeOK'
<1>1. ASSUME NEW t \in Tasks, RemoveTask(t) PROVE TypeOK'
  <2>1. \A x \in Risk : [x EXCEPT !.targets = @ \ {t}] \in Risk
    BY DEF Risk
  <2>2. WithoutTarget(t) \in [Risks -> Risk \cup {None}]
    BY <2>1 DEF WithoutTarget, TypeOK
  <2> QED
    BY <1>1, <2>2, RemovalTypes DEF RemoveTask, TypeOK, PresentParts
<1>2. ASSUME NEW gone \in SUBSET Tasks, NEW parts \in SUBSET Parts, RemoveSubsystem(gone, parts)
      PROVE  TypeOK'
  <2>1. \A t \in Tasks \ gone : taskParts[t] \subseteq PresentParts'
    <3>1. ASSUME NEW t \in Tasks \ gone, NEW p \in taskParts[t] PROVE p \in PresentParts'
      <4>1. t \in Existing /\ p \in PresentParts
        BY <3>1 DEF TypeOK
      <4>2. p \notin parts
        BY <1>2, <4>1 DEF RemoveSubsystem, UsersOf
      <4> QED
        BY <1>2, <4>1, <4>2 DEF RemoveSubsystem, PresentParts
    <3> QED
      BY <3>1
  <2> QED
    BY <1>2, <2>1, RemovalTypes DEF RemoveSubsystem, TypeOK
<1> QED
  BY <1>1, <1>2

LEMMA EvidenceTypes == ASSUME TypeOK, EvidenceStep PROVE TypeOK'
<1>1. CurrentReviewOrder = sequence /\ sequence \in Nat
  BY SequenceLeads, BoundAssumption DEF TypeOK
<1>2. PresentParts' = PresentParts
  BY DEF EvidenceStep, AddWorkLog, RemoveWorkLog, MoveWorkLog, AddArtifact, RemoveArtifact,
         RetargetArtifact, ChangeDocs, partVars, PresentParts
<1>3. ASSUME NEW t \in Tasks, NEW u \in Tasks, AddWorkLog(t) \/ RemoveWorkLog(t) \/ MoveWorkLog(t, u)
      PROVE  TypeOK'
  <2>1. MaxLogs \in Nat /\ logs \in [Tasks -> 0..MaxLogs]
    BY BoundAssumption DEF TypeOK
  <2>2. logs' \in [Tasks -> 0..MaxLogs] /\ \A x \in Tasks \ Existing : logs'[x] = logs[x]
    <3>1. CASE AddWorkLog(t)
      BY <2>1, <3>1 DEF AddWorkLog
    <3>2. CASE RemoveWorkLog(t)
      BY <2>1, <3>2 DEF RemoveWorkLog, TypeOK
    <3>3. CASE MoveWorkLog(t, u)
      BY <2>1, <3>3 DEF MoveWorkLog
    <3> QED
      BY <1>3, <3>1, <3>2, <3>3
  <2>3. UNCHANGED <<taskVars, docs, partVars, reviewVars, requests, risks, findings, dependencies>>
    BY <1>3 DEF AddWorkLog, RemoveWorkLog, MoveWorkLog
  <2> QED
    BY <1>2, <2>2, <2>3 DEF TypeOK, Existing, taskVars, partVars, reviewVars
<1>4. ASSUME NEW docs1 \in [Tasks \cup Parts -> 0..MaxDocs], NEW affected \in SUBSET Existing,
             ChangeDocs(docs1, affected)
      PROVE  TypeOK'
  BY <1>1, <1>2, <1>4 DEF ChangeDocs, MarkScope, TypeOK, Existing, partVars, reviewVars
<1>5. ASSUME NEW x \in Tasks \cup Parts, NEW y \in Tasks \cup Parts,
             AddArtifact(x) \/ RemoveArtifact(x) \/ RetargetArtifact(x, y)
      PROVE  TypeOK'
  <2>1. \A z : AffectedBy(z) \in SUBSET Existing
    BY DEF AffectedBy
  <2>2. MaxDocs \in Nat /\ docs \in [Tasks \cup Parts -> 0..MaxDocs]
    BY BoundAssumption DEF TypeOK
  <2>3. CASE AddArtifact(x)
    <3>1. [docs EXCEPT ![x] = @ + 1] \in [Tasks \cup Parts -> 0..MaxDocs]
      BY <2>2, <2>3 DEF AddArtifact
    <3> QED
      BY <1>4, <2>1, <2>3, <3>1 DEF AddArtifact
  <2>4. CASE RemoveArtifact(x)
    <3>1. [docs EXCEPT ![x] = @ - 1] \in [Tasks \cup Parts -> 0..MaxDocs]
      BY <2>2, <2>4 DEF RemoveArtifact
    <3> QED
      BY <1>4, <2>1, <2>4, <3>1 DEF RemoveArtifact
  <2>5. CASE RetargetArtifact(x, y)
    <3>1. [docs EXCEPT ![x] = @ - 1, ![y] = @ + 1] \in [Tasks \cup Parts -> 0..MaxDocs]
      BY <2>2, <2>5 DEF RetargetArtifact
    <3>2. AffectedBy(x) \cup AffectedBy(y) \in SUBSET Existing
      BY <2>1
    <3> QED
      BY <1>4, <2>5, <3>1, <3>2 DEF RetargetArtifact
  <2> QED
    BY <1>5, <2>3, <2>4, <2>5
<1> QED
  BY <1>3, <1>5 DEF EvidenceStep

LEMMA PartTypes == ASSUME TypeOK, PartStep PROVE TypeOK'
<1>1. CurrentReviewOrder = sequence /\ sequence \in Nat
  BY SequenceLeads, BoundAssumption DEF TypeOK
<1>2. \A parts : UsersOf(parts) \subseteq Existing
  BY DEF UsersOf
<1> USE NoneAssumption DEF TypeOK, Existing, PresentParts, MarkScope, taskVars, evidence, reviewVars
<1>3. ASSUME NEW d \in Definitions, ReviseDefinition(d) PROVE TypeOK'
  BY <1>1, <1>2, <1>3 DEF ReviseDefinition
<1>4. ASSUME NEW p \in Parts, ReassignPart(p) PROVE TypeOK'
  <2>1. PresentParts' = PresentParts /\ definition' \in [Parts -> Definitions \cup {None}]
    BY <1>4 DEF ReassignPart
  <2> HIDE DEF PresentParts
  <2> QED
    BY <1>1, <1>2, <1>4, <2>1 DEF ReassignPart
<1>5. ASSUME NEW p \in Parts, MovePart(p) PROVE TypeOK'
  BY <1>5 DEF MovePart
<1>6. ASSUME NEW p \in Parts, CreatePart(p) PROVE TypeOK'
  <2>1. PresentParts \subseteq PresentParts' /\ definition' \in [Parts -> Definitions \cup {None}]
    BY <1>6 DEF CreatePart
  <2> HIDE DEF PresentParts
  <2> QED
    BY <1>6, <2>1 DEF CreatePart
<1>7. ASSUME NEW gone \in SUBSET Parts, RemoveParts(gone) PROVE TypeOK'
  <2>1. PresentParts' = PresentParts \ gone /\ definition' \in [Parts -> Definitions \cup {None}]
    BY <1>7 DEF RemoveParts
  <2> HIDE DEF PresentParts
  <2> QED
    BY <1>1, <1>2, <1>7, <2>1 DEF RemoveParts
<1> QED
  BY <1>3, <1>4, <1>5, <1>6, <1>7 DEF PartStep

\* A recorded review is one more, at the next place in the sequence.
LEMMA RecordTypes ==
    ASSUME TypeOK, NEW t \in Tasks \cup {None}, NEW q, NEW named,
           NEW result \in {"pass", "minor-fix", "iteration-worthy"},
           NEW u \in Tasks \cup {None}, NEW r \in Risks \cup {None},
           Record(Review(t, q, named, result, u, r), t, q, named)
    PROVE  /\ sequence' = NextReviewOrder /\ NextReviewOrder = sequence + 1
           /\ sequence' \in 1..MaxSequence /\ sequence' \in 0..MaxSequence
           /\ scope' \in [Tasks -> 0..sequence']
           /\ Review(t, q, named, result, u, r) \in QaReview
           /\ Review(t, q, named, result, u, r).order = sequence'
           /\ reviews' = reviews \cup {Review(t, q, named, result, u, r)}
           /\ reviews' \subseteq QaReview
           /\ \A x \in reviews' : x.order <= sequence' /\ \A y \in reviews' : y.order = x.order => y = x
           /\ requests' \in Seq(PendingRequest)
           /\ UNCHANGED <<scope, logs, docs, definition, place, revision, dependencies>>
<1> DEFINE new == Review(t, q, named, result, u, r)
           inspected == Inspected(t, q, named)
<1>1. CurrentReviewOrder = sequence /\ sequence \in Nat /\ MaxSequence \in Nat
  BY SequenceLeads, BoundAssumption DEF TypeOK
<1>2. sequence < MaxSequence /\ NextReviewOrder = sequence + 1
  BY <1>1 DEF Record, NextReviewOrder
<1>3. inspected \subseteq Parts
  BY DEF Inspected, TypeOK, PresentParts, Existing
<1>4. RevisionsOf(inspected) \in [Definitions -> Revisions \cup {None}]
  BY DEF RevisionsOf, TypeOK
<1>5. new = [order |-> NextReviewOrder, task |-> t, result |-> result, inspected |-> inspected,
             revisions |-> RevisionsOf(inspected), followUpTask |-> u, followUpRisk |-> r]
  BY DEF Review
<1> HIDE DEF inspected
<1>6. new \in QaReview /\ new.order = sequence + 1
  BY <1>1, <1>2, <1>3, <1>4, <1>5 DEF QaReview
<1>7. sequence' = sequence + 1 /\ reviews' = reviews \cup {new}
      /\ UNCHANGED <<scope, logs, docs, definition, place, revision, dependencies>>
  BY <1>6 DEF Record, evidence, partVars
<1>8. requests' \in Seq(PendingRequest)
  <2>1. Answered(t, q, named) \in 0..Len(requests)
    BY AnsweredType DEF Record
  <2>2. requests \in Seq(PendingRequest)
    BY DEF TypeOK, PendingRequest
  <2> QED
    BY <2>1, <2>2, RemoveAtType DEF Record
<1> HIDE DEF new
<1>9. \A x \in reviews : x.order <= sequence /\ x.order \in Nat
  BY BoundAssumption DEF TypeOK, QaReview
<1>10. scope' \in [Tasks -> 0..sequence']
  BY <1>1, <1>7 DEF TypeOK
<1> QED
  BY <1>1, <1>2, <1>6, <1>7, <1>8, <1>9, <1>10 DEF TypeOK, new

LEMMA ReviewTypes ==
    ASSUME TypeOK, NEW q \in SUBSET Parts, NEW named \in 0..MaxRequests,
           \/ \E t \in Tasks : ApproveTask(t, q, named)
           \/ \E t, u \in Tasks, f \in Findings, r \in Risks \cup {None} :
                 RejectTask(t, q, named, u, f, r)
           \/ \E result \in {"pass", "minor-fix"} : ReviewParts(q, named, result)
    PROVE  TypeOK'
<1>1. ASSUME NEW t \in Tasks, ApproveTask(t, q, named) PROVE TypeOK'
  <2> DEFINE new == Review(t, q, named, "pass", None, None)
  <2>1. Record(new, t, q, named)
    BY <1>1 DEF ApproveTask
  <2>2. /\ sequence' = NextReviewOrder
        /\ sequence' \in 1..MaxSequence /\ sequence' \in 0..MaxSequence
        /\ scope' \in [Tasks -> 0..sequence']
        /\ reviews' \subseteq QaReview
        /\ \A x \in reviews' : x.order <= sequence' /\ \A y \in reviews' : y.order = x.order => y = x
        /\ requests' \in Seq(PendingRequest)
        /\ UNCHANGED <<scope, logs, docs, definition, place, revision, dependencies>>
    BY <2>1, RecordTypes
  <2>3. status' \in [Tasks -> Statuses \cup {"absent"}]
        /\ \A x \in Tasks : status'[x] = "absent" <=> status[x] = "absent"
    BY <1>1 DEF ApproveTask, TypeOK, Statuses
  <2>4. UNCHANGED <<taskParts, needsDocs, risks, findings>>
    BY <1>1 DEF ApproveTask
  <2> QED
    BY <2>2, <2>3, <2>4 DEF TypeOK, PendingRequest, PresentParts, Existing
<1>2. ASSUME NEW t \in Tasks, NEW u \in Tasks, NEW f \in Findings, NEW r \in Risks \cup {None},
             RejectTask(t, q, named, u, f, r)
      PROVE  TypeOK'
  <2> DEFINE result == IF r = None THEN "minor-fix" ELSE "iteration-worthy"
  <2>1. Record(Review(t, q, named, result, u, r), t, q, named)
        /\ result \in {"pass", "minor-fix", "iteration-worthy"}
    BY <1>2 DEF RejectTask
  <2> HIDE DEF result
  <2>2. /\ sequence' = NextReviewOrder
        /\ sequence' \in 1..MaxSequence /\ sequence' \in 0..MaxSequence
        /\ scope' \in [Tasks -> 0..sequence']
        /\ reviews' \subseteq QaReview
        /\ \A x \in reviews' : x.order <= sequence' /\ \A y \in reviews' : y.order = x.order => y = x
        /\ requests' \in Seq(PendingRequest)
        /\ UNCHANGED <<scope, logs, docs, definition, place, revision, dependencies>>
    BY <2>1, RecordTypes
  <2>3. NextReviewOrder \in 1..MaxSequence /\ NextReviewOrder \in 0..MaxSequence
    BY <2>2
  <2>4. risks' \in [Risks -> Risk \cup {None}]
    <3>1. [status |-> "open", blocks |-> TRUE, targets |-> {t}, mitigation |-> u,
           source |-> NextReviewOrder] \in Risk
      BY <2>3 DEF Risk
    <3> QED
      BY <1>2, <3>1 DEF RejectTask, TypeOK
  <2>5. findings' \in [Findings -> Finding \cup {None}]
    <3>1. [review |-> NextReviewOrder, target |-> t, task |-> u, risk |-> r, status |-> "open"]
             \in Finding
      BY <2>3 DEF Finding
    <3> QED
      BY <1>2, <3>1 DEF RejectTask, TypeOK
  <2>6. /\ status' = [status EXCEPT ![u] = "not-started"]
        /\ taskParts' = [taskParts EXCEPT ![u] = taskParts[t]]
        /\ needsDocs' = [needsDocs EXCEPT ![u] = needsDocs[t]]
    BY <1>2 DEF RejectTask
  <2> QED
    BY <2>2, <2>4, <2>5, <2>6, BoundAssumption
       DEF TypeOK, PendingRequest, PresentParts, Existing, Statuses
<1>3. ASSUME NEW result \in {"pass", "minor-fix"}, ReviewParts(q, named, result) PROVE TypeOK'
  <2>1. Record(Review(None, q, named, result, None, None), None, q, named)
    BY <1>3 DEF ReviewParts
  <2>2. /\ sequence' = NextReviewOrder
        /\ sequence' \in 1..MaxSequence /\ sequence' \in 0..MaxSequence
        /\ scope' \in [Tasks -> 0..sequence']
        /\ reviews' \subseteq QaReview
        /\ \A x \in reviews' : x.order <= sequence' /\ \A y \in reviews' : y.order = x.order => y = x
        /\ requests' \in Seq(PendingRequest)
        /\ UNCHANGED <<scope, logs, docs, definition, place, revision, dependencies>>
    BY <2>1, RecordTypes
  <2>3. UNCHANGED <<status, taskParts, needsDocs, risks, findings>>
    BY <1>3 DEF ReviewParts
  <2> QED
    BY <2>2, <2>3, BoundAssumption DEF TypeOK, PendingRequest, PresentParts, Existing
<1> QED
  BY <1>1, <1>2, <1>3

LEMMA OtherTypes ==
    ASSUME TypeOK, RequestStep \/ FindingStep \/ RiskStep \/ DependencyStep PROVE TypeOK'
<1>1. CurrentReviewOrder = sequence /\ sequence \in Nat /\ MaxSequence \in Nat
  BY SequenceLeads, BoundAssumption DEF TypeOK
<1> USE DEF PresentParts, Existing, taskVars, evidence, partVars, reviewVars
<1>2. ASSUME NEW t \in Tasks \cup {None}, NEW q \in SUBSET Parts, CreateQaRequest(t, q)
      PROVE  TypeOK'
  <2>1. [task |-> t, parts |-> q] \in PendingRequest
    BY DEF PendingRequest
  <2>2. requests \in Seq(PendingRequest)
    BY DEF TypeOK, PendingRequest
  <2>3. requests' \in Seq(PendingRequest)
    BY <1>2, <2>1, <2>2 DEF CreateQaRequest
  <2>4. status' \in [Tasks -> Statuses \cup {"absent"}]
        /\ \A x \in Tasks : status'[x] = "absent" <=> status[x] = "absent"
    BY <1>2 DEF CreateQaRequest, TypeOK, Statuses
  <2>5. UNCHANGED <<taskParts, needsDocs, scope, evidence, partVars, reviewVars, risks, findings,
                    dependencies>>
    BY <1>2 DEF CreateQaRequest
  <2> QED
    BY <2>3, <2>4, <2>5 DEF TypeOK, PendingRequest
<1>3. ASSUME NEW f \in Findings, NEW review \in reviews, NEW u \in Tasks \cup {None},
             NEW r \in Risks \cup {None}, AddFinding(f, review, u, r)
      PROVE  TypeOK'
  <2>1. review \in QaReview
    BY DEF TypeOK
  <2>2. [review |-> review.order, target |-> review.task, task |-> u, risk |-> r,
         status |-> "open"] \in Finding
    BY <2>1 DEF QaReview, Finding
  <2> QED
    BY <1>3, <2>2 DEF AddFinding, TypeOK
<1>4. ASSUME NEW f \in Findings, NEW result, RetestFinding(f, result) PROVE TypeOK'
  <2> DEFINE outcome == IF result = "pass" THEN "resolved" ELSE "open"
  <2>1. findings[f] \in Finding /\ [findings[f] EXCEPT !.status = outcome] \in Finding
    BY <1>4 DEF RetestFinding, TypeOK, Finding
  <2>2. ASSUME OwnRisk(f)
        PROVE  /\ findings[f].risk \in Risks
               /\ [risks[findings[f].risk] EXCEPT !.status = outcome] \in Risk
    <3>1. findings[f].risk \in Risks
      BY <2>1, <2>2 DEF OwnRisk, Finding
    <3>2. risks[findings[f].risk] \in Risk
      BY <2>2, <3>1 DEF OwnRisk, TypeOK
    <3> QED
      BY <3>1, <3>2 DEF Risk
  <2> HIDE DEF outcome
  <2>3. findings' \in [Findings -> Finding \cup {None}] /\ risks' \in [Risks -> Risk \cup {None}]
    BY <1>4, <2>1, <2>2 DEF RetestFinding, TypeOK, outcome
  <2>4. sequence' = sequence + 1 /\ sequence' \in 0..MaxSequence
    BY <1>1, <1>4 DEF RetestFinding, NextReviewOrder
  <2>5. UNCHANGED <<taskVars, evidence, partVars, reviews, requests, dependencies>>
    BY <1>4 DEF RetestFinding
  <2>6. scope' \in [Tasks -> 0..sequence'] /\ \A r \in reviews' : r.order <= sequence'
    BY <1>1, <2>4, <2>5 DEF TypeOK, QaReview
  <2> QED
    BY <2>3, <2>4, <2>5, <2>6 DEF TypeOK
<1>5. ASSUME CreateTestResult PROVE TypeOK'
  <2>1. sequence' = sequence + 1 /\ sequence' \in 0..MaxSequence
    BY <1>1, <1>5 DEF CreateTestResult, NextReviewOrder
  <2>2. UNCHANGED <<taskVars, evidence, partVars, reviews, requests, risks, findings, dependencies>>
    BY <1>5 DEF CreateTestResult
  <2>3. scope' \in [Tasks -> 0..sequence'] /\ \A r \in reviews' : r.order <= sequence'
    BY <1>1, <2>1, <2>2 DEF TypeOK, QaReview
  <2> QED
    BY <2>1, <2>2, <2>3 DEF TypeOK
<1>6. ASSUME NEW r \in Risks, CreateRisk(r) \/ UpdateRisk(r) \/ RemoveRisk(r) PROVE TypeOK'
  <2>1. risks' \in [Risks -> Risk \cup {None}]
    <3>1. CASE CreateRisk(r)
      BY <1>1, <3>1 DEF CreateRisk, TypeOK, Risk
    <3>2. CASE UpdateRisk(r)
      <4>1. risks[r] \in Risk
        BY <3>2 DEF UpdateRisk, TypeOK
      <4>2. PICK s \in {"open", "resolved"}, b \in BOOLEAN, targets \in SUBSET Existing,
                 m \in Existing \cup {None} :
                risks' = [risks EXCEPT ![r].status = s, ![r].blocks = b, ![r].targets = targets,
                                       ![r].mitigation = m]
        BY <3>2 DEF UpdateRisk
      <4>3. [risks[r] EXCEPT !.status = s, !.blocks = b, !.targets = targets, !.mitigation = m]
               \in Risk
        BY <4>1 DEF Risk
      <4> QED
        BY <4>2, <4>3 DEF TypeOK
    <3>3. CASE RemoveRisk(r)
      BY <3>3 DEF RemoveRisk, TypeOK
    <3> QED
      BY <1>6, <3>1, <3>2, <3>3
  <2>2. UNCHANGED <<taskVars, evidence, partVars, reviewVars, requests, findings, dependencies>>
    BY <1>6 DEF CreateRisk, UpdateRisk, RemoveRisk
  <2> QED
    BY <2>1, <2>2 DEF TypeOK
<1>7. ASSUME NEW d \in Dependencies,
             CreateDependency(d) \/ UpdateDependency(d) \/ RemoveDependency(d)
      PROVE  TypeOK'
  <2>1. Proposable \subseteq Dependency
    BY RequiredAssumption DEF Proposable, Dependency, Statuses
  <2>2. dependencies' \in [Dependencies -> Dependency \cup {None}]
    BY <1>7, <2>1
       DEF CreateDependency, UpdateDependency, RemoveDependency, SaveDependency, TypeOK
  <2>3. UNCHANGED <<taskVars, evidence, partVars, reviewVars, requests, risks, findings>>
    BY <1>7 DEF CreateDependency, UpdateDependency, RemoveDependency, SaveDependency
  <2> QED
    BY <2>2, <2>3 DEF TypeOK
<1> QED
  BY <1>2, <1>3, <1>4, <1>5, <1>6, <1>7
     DEF RequestStep, FindingStep, RiskStep, DependencyStep

LEMMA TypeNext == ASSUME TypeOK, [Next]_vars PROVE TypeOK'
<1>1. CASE UNCHANGED vars
  BY <1>1 DEF TypeOK, vars, taskVars, evidence, partVars, reviewVars, Existing, PresentParts
<1> QED
  BY <1>1, TaskTypes, RemoveTypes, EvidenceTypes, PartTypes, ReviewTypes, OtherTypes
     DEF Next, TaskStep, ReviewStep

-----------------------------------------------------------------------------
(***************************************************************************)
(* Reviews, and what they found and had corrected.                         *)
(***************************************************************************)
\* A review goes with its task, so that a task with the id of a deleted one starts without.
ReviewsOfTasks == \A r \in reviews : r.task \in Existing \cup {None}

\* What a step does to the records that corrective history consists of.
HistoryKept ==
    /\ Existing \subseteq Existing'
    /\ \A r \in Risks : risks[r] # None => risks'[r] # None
    /\ reviews \subseteq reviews'

LEMMA RemovalHistory ==
    ASSUME TypeOK, ReviewsOfTasks, CorrectiveHistoryIntact,
           NEW gone \in SUBSET Tasks, RemoveTasks(gone),
           \A r \in Risks : risks[r] # None => risks'[r] # None
    PROVE  ReviewsOfTasks' /\ CorrectiveHistoryIntact'
<1>1. /\ reviews' = {r \in reviews : r.task \notin gone} /\ findings' = findings
      /\ \A t \in gone : ~HasCorrectiveLinks(t)
  BY DEF RemoveTasks
<1>2. Existing' = Existing \ gone
  BY DEF RemoveTasks, Existing, TypeOK
<1>3. ReviewsOfTasks'
  BY <1>1, <1>2, NoneAssumption DEF ReviewsOfTasks
<1>4. ASSUME NEW r \in reviews'
      PROVE  /\ r.followUpTask \in Existing' \cup {None}
             /\ r.followUpRisk # None => risks'[r.followUpRisk] # None
  <2>1. r \in QaReview /\ r \in reviews
    BY <1>1 DEF TypeOK
  <2>2. r.followUpTask \notin gone
    BY <1>1, <2>1 DEF HasCorrectiveLinks
  <2>3. r.followUpRisk # None => r.followUpRisk \in Risks
    BY <2>1 DEF QaReview
  <2> QED
    BY <1>2, <2>1, <2>2, <2>3 DEF CorrectiveHistoryIntact
<1>5. ASSUME NEW f \in Findings, findings[f] # None
      PROVE  /\ \E r \in reviews' : r.order = findings[f].review
             /\ findings[f].task \in Existing' \cup {None}
             /\ findings[f].risk # None => risks'[findings[f].risk] # None
  <2>1. findings[f] \in Finding
    BY <1>5 DEF TypeOK
  <2>2. PICK r \in reviews : r.order = findings[f].review
    BY <1>5 DEF CorrectiveHistoryIntact
  <2>3. r.task \notin gone /\ findings[f].task \notin gone
    BY <1>1, <1>5, <2>2 DEF HasCorrectiveLinks
  <2>4. findings[f].risk # None => findings[f].risk \in Risks
    BY <2>1 DEF Finding
  <2> QED
    BY <1>1, <1>2, <1>5, <2>2, <2>3, <2>4 DEF CorrectiveHistoryIntact
<1> QED
  BY <1>1, <1>3, <1>4, <1>5 DEF CorrectiveHistoryIntact

\* A step that only adds to history keeps it, if what it adds is sound.
LEMMA AddedHistory ==
    ASSUME TypeOK, ReviewsOfTasks, CorrectiveHistoryIntact, HistoryKept,
           \A r \in reviews' \ reviews :
              /\ r.task \in Existing' \cup {None}
              /\ r.followUpTask \in Existing' \cup {None}
              /\ r.followUpRisk # None => risks'[r.followUpRisk] # None,
           \A f \in Findings : findings'[f] # None =>
              \/ /\ findings[f] # None
                 /\ findings'[f].review = findings[f].review
                 /\ findings'[f].task = findings[f].task
                 /\ findings'[f].risk = findings[f].risk
              \/ /\ \E r \in reviews' : r.order = findings'[f].review
                 /\ findings'[f].task \in Existing' \cup {None}
                 /\ findings'[f].risk # None => risks'[findings'[f].risk] # None
    PROVE  ReviewsOfTasks' /\ CorrectiveHistoryIntact'
<1>1. ReviewsOfTasks'
  BY DEF ReviewsOfTasks, HistoryKept
<1>2. ASSUME NEW r \in reviews'
      PROVE  /\ r.followUpTask \in Existing' \cup {None}
             /\ r.followUpRisk # None => risks'[r.followUpRisk] # None
  <2>1. r \in reviews /\ r.followUpRisk # None => r.followUpRisk \in Risks
    BY DEF TypeOK, QaReview
  <2> QED
    BY <2>1 DEF CorrectiveHistoryIntact, HistoryKept
<1>3. ASSUME NEW f \in Findings, findings[f] # None
      PROVE  /\ \E r \in reviews' : r.order = findings[f].review
             /\ findings[f].task \in Existing' \cup {None}
             /\ findings[f].risk # None => risks'[findings[f].risk] # None
  <2>1. findings[f] \in Finding
    BY <1>3 DEF TypeOK
  <2>2. findings[f].risk # None => findings[f].risk \in Risks
    BY <2>1 DEF Finding
  <2> QED
    BY <1>3, <2>2 DEF CorrectiveHistoryIntact, HistoryKept
<1>4. ASSUME NEW f \in Findings, findings'[f] # None
      PROVE  /\ \E r \in reviews' : r.order = findings'[f].review
             /\ findings'[f].task \in Existing' \cup {None}
             /\ findings'[f].risk # None => risks'[findings'[f].risk] # None
  BY <1>3, <1>4
<1> QED
  BY <1>1, <1>2, <1>4 DEF CorrectiveHistoryIntact

LEMMA SameHistory ==
    ASSUME TypeOK, ReviewsOfTasks, CorrectiveHistoryIntact, HistoryKept, findings' = findings,
           reviews' = reviews
    PROVE  ReviewsOfTasks' /\ CorrectiveHistoryIntact'
  BY AddedHistory

LEMMA HistoryNext ==
    ASSUME TypeOK, TypeOK', ReviewsOfTasks, CorrectiveHistoryIntact, [Next]_vars
    PROVE  ReviewsOfTasks' /\ CorrectiveHistoryIntact'
<1> DEFINE Kept == ReviewsOfTasks' /\ CorrectiveHistoryIntact'
<1>1. ASSUME UNCHANGED <<status, reviews, findings, risks>> PROVE Kept
  BY <1>1, SameHistory DEF HistoryKept, Existing
<1>2. ASSUME NEW t \in Tasks, CreateTask(t) \/ UpdateTask(t) PROVE Kept
  <2>1. Existing \subseteq Existing'
    BY <1>2 DEF CreateTask, UpdateTask, TypeOK, Existing, Statuses
  <2> QED
    BY <1>2, <2>1, SameHistory DEF CreateTask, UpdateTask, reviewVars, HistoryKept
<1>3. ASSUME NEW t \in Tasks, RemoveTask(t) PROVE Kept
  <2>1. \A r \in Risks : risks[r] # None => risks'[r] # None
    <3>1. ASSUME NEW r \in Risks, risks[r] # None PROVE risks'[r] # None
      <4>1. risks[r] \in Risk
        BY <3>1 DEF TypeOK
      <4>2. [risks[r] EXCEPT !.targets = @ \ {t}] \in Risk
        BY <4>1 DEF Risk
      <4> QED
        BY <1>3, <3>1, <4>2, RecordsAssumption DEF RemoveTask, WithoutTarget
    <3> QED
      BY <3>1
  <2> QED
    BY <1>3, <2>1, RemovalHistory DEF RemoveTask
<1>4. ASSUME NEW gone \in SUBSET Tasks, NEW parts \in SUBSET Parts, RemoveSubsystem(gone, parts)
      PROVE  Kept
  BY <1>4, RemovalHistory DEF RemoveSubsystem
<1>5. CASE EvidenceStep \/ PartStep
  BY <1>1, <1>5
     DEF EvidenceStep, AddWorkLog, RemoveWorkLog, MoveWorkLog, AddArtifact, RemoveArtifact,
         RetargetArtifact, ChangeDocs, PartStep, ReviseDefinition, ReassignPart, MovePart,
         CreatePart, RemoveParts, taskVars, reviewVars
<1>6. ASSUME NEW t \in Tasks, NEW q \in SUBSET Parts, NEW named, ApproveTask(t, q, named) PROVE Kept
  <2> DEFINE new == Review(t, q, named, "pass", None, None)
  <2>1. Record(new, t, q, named) /\ status[t] = "waiting-for-qa" /\ UNCHANGED <<risks, findings>>
    BY <1>6 DEF ApproveTask
  <2>2. new.task = t /\ new.followUpTask = None /\ new.followUpRisk = None
    BY DEF Review
  <2>3. reviews' = reviews \cup {new}
    BY <2>1 DEF Record
  <2>4. Existing' = Existing /\ t \in Existing
    BY <1>6, <2>1 DEF ApproveTask, Existing, TypeOK
  <2> HIDE DEF new
  <2> QED
    BY <2>1, <2>2, <2>3, <2>4, AddedHistory DEF HistoryKept
<1>7. ASSUME NEW t \in Tasks, NEW u \in Tasks, NEW f \in Findings, NEW r \in Risks \cup {None},
             NEW q \in SUBSET Parts, NEW named, RejectTask(t, q, named, u, f, r)
      PROVE  Kept
  <2> DEFINE new == Review(t, q, named, IF r = None THEN "minor-fix" ELSE "iteration-worthy", u, r)
             finding == [review |-> NextReviewOrder, target |-> t, task |-> u, risk |-> r,
                         status |-> "open"]
             risk == [status |-> "open", blocks |-> TRUE, targets |-> {t}, mitigation |-> u,
                      source |-> NextReviewOrder]
  <2>1. new.task = t /\ new.followUpTask = u /\ new.followUpRisk = r /\ new.order = NextReviewOrder
    BY DEF Review
  <2>2. /\ reviews' = reviews \cup {new} /\ t \in Existing
        /\ status' = [status EXCEPT ![u] = "not-started"]
        /\ findings' = [findings EXCEPT ![f] = finding]
        /\ risks' = IF r = None THEN risks ELSE [risks EXCEPT ![r] = risk]
    BY <1>7 DEF RejectTask, Record
  <2>3. u \in Existing' /\ Existing \subseteq Existing'
    BY <2>2 DEF Existing, TypeOK
  <2>4. r # None => risk \in Risk
    <3>1. r # None => risks'[r] = risk /\ r \in Risks
      BY <2>2 DEF TypeOK
    <3>2. ASSUME r # None PROVE risk \in Risk
      <4>1. NextReviewOrder \in Nat /\ NextReviewOrder <= MaxSequence
        <5>1. sequence' = NextReviewOrder
          BY <1>7 DEF RejectTask, Record, Review
        <5> QED
          BY <5>1, BoundAssumption DEF TypeOK
      <4> QED
        BY <4>1, BoundAssumption DEF Risk
    <3> QED
      BY <3>2
  <2>5. finding.review = NextReviewOrder /\ finding.task = u /\ finding.risk = r
    OBVIOUS
  <2> HIDE DEF new, finding, risk
  <2>6. r # None => risks'[r] # None
    BY <2>2, <2>4, RecordsAssumption DEF TypeOK
  <2>7. \A x \in Risks : risks[x] # None => risks'[x] # None
    BY <2>2, <2>4, RecordsAssumption DEF TypeOK
  <2>8. \A g \in Findings : findings'[g] = IF g = f THEN finding ELSE findings[g]
    BY <2>2 DEF TypeOK
  <2> QED
    BY <2>1, <2>2, <2>3, <2>5, <2>6, <2>7, <2>8, AddedHistory DEF HistoryKept
<1>8. ASSUME NEW q \in SUBSET Parts, NEW named, NEW result, ReviewParts(q, named, result) PROVE Kept
  <2> DEFINE new == Review(None, q, named, result, None, None)
  <2>1. reviews' = reviews \cup {new} /\ UNCHANGED <<status, risks, findings>>
    BY <1>8 DEF ReviewParts, Record
  <2>2. new.task = None /\ new.followUpTask = None /\ new.followUpRisk = None
    BY DEF Review
  <2> HIDE DEF new
  <2> QED
    BY <2>1, <2>2, AddedHistory DEF HistoryKept, Existing
<1>9. ASSUME NEW t \in Tasks \cup {None}, NEW q \in SUBSET Parts, CreateQaRequest(t, q) PROVE Kept
  <2>1. Existing \subseteq Existing'
    BY <1>9 DEF CreateQaRequest, TypeOK, Existing
  <2> QED
    BY <1>9, <2>1, SameHistory DEF CreateQaRequest, reviewVars, HistoryKept
<1>10. ASSUME NEW f \in Findings, NEW review \in reviews, NEW u \in Tasks \cup {None},
              NEW r \in Risks \cup {None}, AddFinding(f, review, u, r)
       PROVE  Kept
  <2> DEFINE finding == [review |-> review.order, target |-> review.task, task |-> u, risk |-> r,
                         status |-> "open"]
  <2>1. finding.review = review.order /\ finding.task = u /\ finding.risk = r
    OBVIOUS
  <2>2. /\ findings' = [findings EXCEPT ![f] = finding]
        /\ UNCHANGED <<status, reviews, risks>> /\ u \in Existing \cup {None}
        /\ r # None => risks[r] # None
    BY <1>10 DEF AddFinding, taskVars, reviewVars
  <2> HIDE DEF finding
  <2>3. \A g \in Findings : findings'[g] = IF g = f THEN finding ELSE findings[g]
    BY <2>2 DEF TypeOK
  <2> QED
    BY <2>1, <2>2, <2>3, AddedHistory DEF HistoryKept, Existing
<1>11. ASSUME NEW f \in Findings, NEW result, RetestFinding(f, result) PROVE Kept
  <2> DEFINE outcome == IF result = "pass" THEN "resolved" ELSE "open"
  <2>1. /\ findings[f] # None /\ UNCHANGED <<status, reviews>>
        /\ findings' = [findings EXCEPT ![f].status = outcome]
        /\ \/ risks' = risks
           \/ OwnRisk(f) /\ risks' = [risks EXCEPT ![findings[f].risk].status = outcome]
    BY <1>11 DEF RetestFinding, taskVars
  <2>2. findings[f] \in Finding
    BY <2>1 DEF TypeOK
  <2>3. \A g \in Findings : /\ findings'[g] # None => findings[g] # None
                            /\ findings[g] # None =>
                                  /\ findings'[g].review = findings[g].review
                                  /\ findings'[g].task = findings[g].task
                                  /\ findings'[g].risk = findings[g].risk
    BY <2>1, <2>2 DEF TypeOK, Finding
  <2>4. \A r \in Risks : risks[r] # None => risks'[r] # None
    <3>1. ASSUME NEW x \in Risks, risks' = [risks EXCEPT ![x].status = outcome], risks[x] # None,
                 NEW r \in Risks, risks[r] # None
          PROVE  risks'[r] # None
      <4>1. risks[x] \in Risk
        BY <3>1 DEF TypeOK
      <4>2. [risks[x] EXCEPT !.status = outcome] \in Risk
        BY <4>1 DEF Risk
      <4> QED
        BY <3>1, <4>2, RecordsAssumption DEF TypeOK
    <3>2. OwnRisk(f) => findings[f].risk \in Risks /\ risks[findings[f].risk] # None
      BY <2>2 DEF OwnRisk, Finding
    <3> QED
      BY <2>1, <3>1, <3>2
  <2> QED
    BY <2>1, <2>3, <2>4, AddedHistory DEF HistoryKept, Existing
<1>12. CASE CreateTestResult
  BY <1>1, <1>12 DEF CreateTestResult, taskVars
<1>13. ASSUME NEW r \in Risks, CreateRisk(r) \/ UpdateRisk(r) PROVE Kept
  <2>1. \A x \in Risks : x # r => risks'[x] = risks[x]
    BY <1>13 DEF CreateRisk, UpdateRisk, TypeOK
  <2>2. risks[r] # None => risks'[r] # None
    <3>1. ASSUME UpdateRisk(r) PROVE risks'[r] # None
      <4>1. risks[r] \in Risk
        BY <3>1 DEF UpdateRisk, TypeOK
      <4>2. PICK s \in {"open", "resolved"}, b \in BOOLEAN, targets \in SUBSET Existing,
                 m \in Existing \cup {None} :
                risks' = [risks EXCEPT ![r].status = s, ![r].blocks = b, ![r].targets = targets,
                                       ![r].mitigation = m]
        BY <3>1 DEF UpdateRisk
      <4>3. [risks[r] EXCEPT !.status = s, !.blocks = b, !.targets = targets, !.mitigation = m]
               \in Risk
        BY <4>1 DEF Risk, Existing
      <4> QED
        BY <4>2, <4>3, RecordsAssumption DEF TypeOK
    <3> QED
      BY <1>13, <3>1 DEF CreateRisk
  <2>3. UNCHANGED <<status, reviews, findings>>
    BY <1>13 DEF CreateRisk, UpdateRisk, taskVars, reviewVars
  <2> QED
    BY <2>1, <2>2, <2>3, SameHistory DEF HistoryKept, Existing
<1>14. ASSUME NEW r \in Risks, RemoveRisk(r) PROVE Kept
  <2>1. /\ risks' = [risks EXCEPT ![r] = None] /\ UNCHANGED <<status, reviews, findings>>
        /\ \A review \in reviews : review.followUpRisk # r
        /\ \A f \in Findings : findings[f] # None => findings[f].risk # r
    BY <1>14 DEF RemoveRisk, taskVars, reviewVars
  <2>2. \A x \in Risks : x # r => risks'[x] = risks[x]
    BY <2>1 DEF TypeOK
  <2>3. \A x \in reviews : x.followUpRisk # None => x.followUpRisk \in Risks
    BY DEF TypeOK, QaReview
  <2>4. \A f \in Findings : findings[f] # None /\ findings[f].risk # None => findings[f].risk \in Risks
    BY DEF TypeOK, Finding
  <2> QED
    BY <2>1, <2>2, <2>3, <2>4 DEF ReviewsOfTasks, CorrectiveHistoryIntact, Existing
<1>15. CASE DependencyStep
  BY <1>1, <1>15
     DEF DependencyStep, CreateDependency, UpdateDependency, RemoveDependency, SaveDependency,
         taskVars, reviewVars
<1>16. CASE UNCHANGED vars
  BY <1>1, <1>16 DEF vars, taskVars, reviewVars
<1> QED
  BY <1>2, <1>3, <1>4, <1>5, <1>6, <1>7, <1>8, <1>9, <1>10, <1>11, <1>12, <1>13, <1>14, <1>15, <1>16
     DEF Next, TaskStep, ReviewStep, RequestStep, FindingStep, RiskStep

-----------------------------------------------------------------------------
(***************************************************************************)
(* What completed work rests on.                                           *)
(***************************************************************************)
Backed(t) ==
    /\ logs[t] > 0
    /\ needsDocs[t] => docs[t] > 0
    /\ \E r \in reviews : /\ r.task = t /\ r.order > scope[t] /\ r.result = "pass"
                          /\ Covers(r, t)

\* What a step leaves of what the completion of t rests on.
Untouched(t) ==
    /\ status[t] = "complete"
    /\ logs[t] > 0 => logs'[t] > 0
    /\ needsDocs'[t] = needsDocs[t] /\ docs'[t] = docs[t]
    /\ taskParts'[t] = taskParts[t] /\ scope'[t] = scope[t]
    /\ \A r \in reviews : r.task = t => r \in reviews'
    /\ \A p \in taskParts[t] : /\ definition'[p] = definition[p]
                               /\ revision'[definition[p]] = revision[definition[p]]

LEMMA UntouchedBacked ==
    ASSUME TypeOK, NEW t \in Tasks, Backed(t), Untouched(t) PROVE Backed(t)'
<1>1. PICK r \in reviews : r.task = t /\ r.order > scope[t] /\ r.result = "pass" /\ Covers(r, t)
  BY DEF Backed
<1>2. taskParts[t] \subseteq PresentParts
  BY DEF TypeOK
<1>3. Covers(r, t)'
  BY <1>1, <1>2 DEF Covers, Untouched, PresentParts
<1> QED
  BY <1>1, <1>3 DEF Backed, Untouched

LEMMA FinalBacked == \A t \in Tasks : CanFinalize(t) => Backed(t)
  BY DEF CanFinalize, MentorPass, Backed

LEMMA FinalBackedNext == (\A t \in Tasks : CanFinalize(t) => Backed(t))'
  BY FinalBacked, PTL

\* Marking the scope of tasks that stay complete needs a review that cannot be there: what a
\* change affects is not complete.
LEMMA TouchedOrFinal ==
    ASSUME TypeOK, TypeOK', [Next]_vars, NEW t \in Tasks, status'[t] = "complete"
    PROVE  Untouched(t) \/ CanFinalize(t)'
<1>1. TypeOK /\ TypeOK'
  OBVIOUS
<1>2. ASSUME status[t] = "complete", UNCHANGED <<needsDocs, docs, taskParts, scope, definition, revision>>,
             reviews \subseteq reviews', logs' = logs
      PROVE  Untouched(t)
  BY <1>2 DEF Untouched
<1>3. ASSUME NEW u \in Tasks, CreateTask(u) PROVE Untouched(t)
  BY <1>3 DEF CreateTask, TypeOK, Untouched, evidence, partVars, reviewVars
<1>4. ASSUME NEW u \in Tasks, UpdateTask(u) PROVE Untouched(t) \/ CanFinalize(t)'
  <2>1. CASE t # u
    BY <1>4, <2>1 DEF UpdateTask, MarkScope, TypeOK, Untouched, evidence, partVars, reviewVars
  <2>2. CASE t = u
    <3>1. PICK s \in Statuses, p \in SUBSET PresentParts, d \in BOOLEAN :
             /\ status' = [status EXCEPT ![t] = s]
             /\ taskParts' = [taskParts EXCEPT ![t] = p]
             /\ needsDocs' = [needsDocs EXCEPT ![t] = d]
             /\ MarkScope(IF p # taskParts[t] \/ d # needsDocs[t] THEN {t} ELSE {})
             /\ UNCHANGED <<evidence, partVars, reviewVars>>
             /\ s = "complete" /\ (status[t] # "complete" \/ p # taskParts[t] \/ d # needsDocs[t])
                  => CanFinalize(t)'
      BY <1>4, <2>2 DEF UpdateTask
    <3>2. s = "complete"
      BY <3>1 DEF TypeOK
    <3>3. CASE status[t] # "complete" \/ p # taskParts[t] \/ d # needsDocs[t]
      BY <3>1, <3>2, <3>3
    <3>4. CASE status[t] = "complete" /\ p = taskParts[t] /\ d = needsDocs[t]
      BY <3>1, <3>4 DEF MarkScope, TypeOK, Untouched, evidence, partVars, reviewVars
    <3> QED
      BY <3>3, <3>4
  <2> QED
    BY <2>1, <2>2
<1>5. ASSUME NEW gone, RemoveTasks(gone),
             \A p \in Parts : (definition'[p] # definition[p]) => UsersOf({p}) \subseteq gone
      PROVE  Untouched(t)
  <2>1. t \notin gone /\ status[t] = "complete" /\ t \in Existing
    BY <1>5 DEF RemoveTasks, TypeOK, Existing
  <2>2. \A p \in taskParts[t] : definition'[p] = definition[p]
    BY <1>5, <2>1 DEF UsersOf, TypeOK, PresentParts
  <2> QED
    BY <1>5, <2>1, <2>2 DEF RemoveTasks, Untouched, TypeOK
<1>6. ASSUME NEW u \in Tasks, RemoveTask(u) PROVE Untouched(t)
  BY <1>5, <1>6 DEF RemoveTask
<1>7. ASSUME NEW gone \in SUBSET Tasks, NEW parts \in SUBSET Parts, RemoveSubsystem(gone, parts)
      PROVE  Untouched(t)
  <2>1. \A p \in Parts : definition'[p] # definition[p] => p \in parts
    BY <1>7 DEF RemoveSubsystem, TypeOK
  <2>2. \A p \in parts : UsersOf({p}) \subseteq gone
    BY <1>7 DEF RemoveSubsystem, UsersOf
  <2>3. RemoveTasks(gone)
    BY <1>7 DEF RemoveSubsystem
  <2> QED
    BY <1>5, <2>1, <2>2, <2>3
<1>8. ASSUME NEW u \in Tasks, NEW v \in Tasks, AddWorkLog(u) \/ RemoveWorkLog(u) \/ MoveWorkLog(u, v)
      PROVE  Untouched(t)
  <2>1. UNCHANGED <<status, needsDocs, docs, taskParts, scope, definition, revision, reviews>>
    BY <1>8 DEF AddWorkLog, RemoveWorkLog, MoveWorkLog, taskVars, partVars, reviewVars
  <2>2. logs[t] > 0 => logs'[t] > 0
    <3>1. logs \in [Tasks -> Nat] /\ status[t] = "complete"
      BY <1>8, <2>1, BoundAssumption DEF TypeOK
    <3>2. CASE AddWorkLog(u)
      BY <3>1, <3>2 DEF AddWorkLog
    <3>3. CASE RemoveWorkLog(u)
      BY <3>1, <3>3 DEF RemoveWorkLog, RetainsWorkLog
    <3>4. CASE MoveWorkLog(u, v)
      BY <3>1, <3>4 DEF MoveWorkLog, RetainsWorkLog
    <3> QED
      BY <1>8, <3>2, <3>3, <3>4
  <2> QED
    BY <2>1, <2>2 DEF Untouched
\* a step that marks the tasks it affects, and leaves alone what the others rest on
<1>9. ASSUME NEW changed \in SUBSET Existing, MarkScope(changed), CompletionOutlives(changed),
             UNCHANGED <<status, needsDocs, logs, reviews>>,
             t \notin changed =>
                /\ docs'[t] = docs[t] /\ taskParts'[t] = taskParts[t]
                /\ \A p \in taskParts[t] : /\ definition'[p] = definition[p]
                                           /\ revision'[definition[p]] = revision[definition[p]]
      PROVE  Untouched(t) \/ CanFinalize(t)'
  <2>1. CASE t \in changed
    BY <1>9, <2>1 DEF CompletionOutlives
  <2>2. CASE t \notin changed
    BY <1>9, <2>2 DEF MarkScope, Untouched, TypeOK
  <2> QED
    BY <2>1, <2>2
<1>10. ASSUME NEW x \in Tasks \cup Parts, NEW y \in Tasks \cup Parts,
              AddArtifact(x) \/ RemoveArtifact(x) \/ RetargetArtifact(x, y)
       PROVE  Untouched(t) \/ CanFinalize(t)'
  <2>1. ASSUME NEW affected \in SUBSET Existing, NEW docs1, ChangeDocs(docs1, affected),
               t \notin affected => docs1[t] = docs[t]
        PROVE  Untouched(t) \/ CanFinalize(t)'
    BY <1>9, <2>1 DEF ChangeDocs, partVars, reviewVars
  <2>2. t \in Existing
    BY <1>10 DEF AddArtifact, RemoveArtifact, RetargetArtifact, ChangeDocs, Existing
  <2>3. AffectedBy(x) \subseteq Existing /\ AffectedBy(y) \subseteq Existing
    BY DEF AffectedBy
  <2>4. (t \notin AffectedBy(x) => t # x) /\ (t \notin AffectedBy(y) => t # y)
    BY <2>2 DEF AffectedBy
  <2>5. docs \in [Tasks \cup Parts -> 0..MaxDocs]
    BY DEF TypeOK
  <2>6. CASE AddArtifact(x)
    BY <2>1, <2>3, <2>4, <2>5, <2>6 DEF AddArtifact
  <2>7. CASE RemoveArtifact(x)
    BY <2>1, <2>3, <2>4, <2>5, <2>7 DEF RemoveArtifact
  <2>8. CASE RetargetArtifact(x, y)
    <3>1. AffectedBy(x) \cup AffectedBy(y) \in SUBSET Existing
      BY <2>3
    <3> QED
      BY <2>1, <2>4, <2>5, <2>8, <3>1 DEF RetargetArtifact
  <2> QED
    BY <1>10, <2>6, <2>7, <2>8
<1>11. CASE PartStep
  <2>1. status'[t] = status[t] /\ t \in Existing
    BY <1>11 DEF PartStep, ReviseDefinition, ReassignPart, MovePart, CreatePart, RemoveParts,
                 taskVars, Existing
  <2>2. \A parts : t \notin UsersOf(parts) => taskParts[t] \cap parts = {}
    BY <2>1 DEF UsersOf
  <2>3. \A parts : UsersOf(parts) \in SUBSET Existing
    BY DEF UsersOf
  <2>4. taskParts[t] \subseteq Parts
    BY DEF TypeOK, PresentParts
  <2>5. ASSUME NEW d \in Definitions, ReviseDefinition(d) PROVE Untouched(t) \/ CanFinalize(t)'
    <3> DEFINE changed == UsersOf(PartsOf(d))
    <3>1. t \notin changed => \A p \in taskParts[t] : definition[p] # d
      BY <2>2, <2>4 DEF PartsOf
    <3>2. /\ MarkScope(changed) /\ CompletionOutlives(changed)
          /\ UNCHANGED <<status, needsDocs, logs, reviews, docs, taskParts, definition>>
      BY <2>5 DEF ReviseDefinition, evidence, reviewVars
    <3>3. \A p \in taskParts[t] : definition[p] # d => revision'[definition[p]] = revision[definition[p]]
      <4>1. \A p \in taskParts[t] : definition[p] \in Definitions
        BY DEF TypeOK, PresentParts
      <4> QED
        BY <2>5, <4>1 DEF ReviseDefinition, TypeOK
    <3>4. changed \in SUBSET Existing
      BY <2>3
    <3> HIDE DEF changed
    <3> QED
      BY <1>9, <3>1, <3>2, <3>3, <3>4
  <2>6. ASSUME NEW p \in Parts, ReassignPart(p) PROVE Untouched(t) \/ CanFinalize(t)'
    <3>1. t \notin UsersOf({p}) => \A x \in taskParts[t] : definition'[x] = definition[x]
      BY <2>2, <2>4, <2>6 DEF ReassignPart, TypeOK
    <3>2. /\ MarkScope(UsersOf({p})) /\ CompletionOutlives(UsersOf({p}))
          /\ UNCHANGED <<status, needsDocs, logs, reviews, docs, taskParts, revision>>
      BY <2>6 DEF ReassignPart, evidence, reviewVars
    <3> QED
      BY <1>9, <2>3, <3>1, <3>2
  <2>7. ASSUME NEW p \in Parts, MovePart(p) PROVE Untouched(t)
    BY <1>2, <2>1, <2>7 DEF MovePart, taskVars, evidence, reviewVars
  <2>8. ASSUME NEW p \in Parts, CreatePart(p) PROVE Untouched(t)
    <3>1. \A x \in taskParts[t] : definition'[x] = definition[x]
      BY <2>8 DEF CreatePart, TypeOK, PresentParts
    <3> QED
      BY <2>1, <2>8, <3>1 DEF CreatePart, taskVars, evidence, reviewVars, Untouched
  <2>9. ASSUME NEW gone \in SUBSET Parts, RemoveParts(gone) PROVE Untouched(t) \/ CanFinalize(t)'
    <3>1. t \notin UsersOf(gone) =>
             taskParts'[t] = taskParts[t] /\ \A x \in taskParts[t] : definition'[x] = definition[x]
      BY <2>2, <2>4, <2>9 DEF RemoveParts, TypeOK
    <3>2. /\ MarkScope(UsersOf(gone)) /\ CompletionOutlives(UsersOf(gone))
          /\ UNCHANGED <<status, needsDocs, logs, reviews, docs, revision>>
      BY <2>9 DEF RemoveParts, evidence, reviewVars
    <3> QED
      BY <1>9, <2>3, <3>1, <3>2
  <2> QED
    BY <1>11, <2>5, <2>6, <2>7, <2>8, <2>9 DEF PartStep
<1>12. ASSUME NEW u \in Tasks, NEW q \in SUBSET Parts, NEW named, ApproveTask(u, q, named)
       PROVE  Untouched(t) \/ CanFinalize(t)'
  <2>1. status[t] = "complete" \/ CanFinalize(t)'
    BY <1>12 DEF ApproveTask, TypeOK
  <2>2. UNCHANGED <<needsDocs, docs, taskParts, scope, definition, revision, logs>>
        /\ reviews \subseteq reviews'
    BY <1>12 DEF ApproveTask, Record, evidence, partVars
  <2> QED
    BY <1>2, <2>1, <2>2
<1>13. ASSUME NEW x \in Tasks, NEW u \in Tasks, NEW f \in Findings, NEW r \in Risks \cup {None},
              NEW q \in SUBSET Parts, NEW named, RejectTask(x, q, named, u, f, r)
       PROVE  Untouched(t)
  <2>1. /\ UNCHANGED <<docs, scope, definition, revision, logs>> /\ reviews \subseteq reviews'
        /\ status' = [status EXCEPT ![u] = "not-started"]
        /\ taskParts' = [taskParts EXCEPT ![u] = taskParts[x]]
        /\ needsDocs' = [needsDocs EXCEPT ![u] = needsDocs[x]]
    BY <1>13 DEF RejectTask, Record, evidence, partVars
  <2>2. t # u /\ status[t] = "complete"
    BY <2>1 DEF TypeOK
  <2> QED
    BY <2>1, <2>2 DEF Untouched, TypeOK
<1>14. ASSUME NEW q \in SUBSET Parts, NEW named, NEW result, ReviewParts(q, named, result)
       PROVE  Untouched(t)
  <2>1. UNCHANGED <<status, taskParts, needsDocs, docs, scope, definition, revision, logs>>
        /\ reviews \subseteq reviews'
    BY <1>14 DEF ReviewParts, Record, evidence, partVars
  <2> QED
    BY <1>2, <2>1
<1>15. ASSUME NEW u \in Tasks \cup {None}, NEW q \in SUBSET Parts, CreateQaRequest(u, q)
       PROVE  Untouched(t)
  <2>1. UNCHANGED <<taskParts, needsDocs, docs, scope, definition, revision, logs, reviews>>
    BY <1>15 DEF CreateQaRequest, evidence, partVars, reviewVars
  <2>2. status[t] = "complete"
    BY <1>15 DEF CreateQaRequest, TypeOK
  <2> QED
    BY <1>2, <2>1, <2>2
<1>16. CASE FindingStep \/ RiskStep \/ DependencyStep \/ UNCHANGED vars
  <2>1. UNCHANGED <<status, taskParts, needsDocs, docs, scope, definition, revision, logs, reviews>>
    BY <1>16 DEF FindingStep, AddFinding, RetestFinding, CreateTestResult, RiskStep, CreateRisk,
                 UpdateRisk, RemoveRisk, DependencyStep, CreateDependency, UpdateDependency,
                 RemoveDependency, SaveDependency, vars, taskVars, evidence, partVars, reviewVars
  <2> QED
    BY <1>2, <2>1
<1> QED
  BY <1>3, <1>4, <1>6, <1>7, <1>8, <1>10, <1>11, <1>12, <1>13, <1>14, <1>15, <1>16
     DEF Next, TaskStep, EvidenceStep, ReviewStep, RequestStep

LEMMA BackedNext ==
    ASSUME TypeOK, TypeOK', CompletedWorkIsBacked, [Next]_vars PROVE CompletedWorkIsBacked'
<1>1. ASSUME NEW t \in Tasks, status'[t] = "complete" PROVE Backed(t)'
  <2>1. CASE Untouched(t)
    <3>1. Backed(t)
      BY <2>1 DEF CompletedWorkIsBacked, Backed, Untouched
    <3> QED
      BY <2>1, <3>1, UntouchedBacked
  <2>2. CASE CanFinalize(t)'
    BY <2>2, FinalBackedNext
  <2> QED
    BY <1>1, <2>1, <2>2, TouchedOrFinal
<1> QED
  BY <1>1 DEF CompletedWorkIsBacked, Backed

-----------------------------------------------------------------------------
(***************************************************************************)
(* What complete tasks wait on.                                            *)
(***************************************************************************)
\* A dependency is on another task or a part, and a task is never required to be absent.
DependencyInv ==
    \A d \in Dependencies : dependencies[d] # None =>
       /\ dependencies[d].task # dependencies[d].ref
       /\ dependencies[d].ref \in Tasks => dependencies[d].required \in RequiredStates

NoCompleteWaits == \A t \in Tasks : status[t] = "complete" => WaitingOn(t) = {}

LEMMA SameDependencies ==
    ASSUME [Next]_vars PROVE TaskStep \/ DependencyStep \/ dependencies' = dependencies
<1>1. CASE EvidenceStep \/ PartStep \/ RequestStep
  BY <1>1
     DEF EvidenceStep, AddWorkLog, RemoveWorkLog, MoveWorkLog, AddArtifact, RemoveArtifact,
         RetargetArtifact, ChangeDocs, PartStep, ReviseDefinition, ReassignPart, MovePart,
         CreatePart, RemoveParts, RequestStep, CreateQaRequest
<1>2. CASE ReviewStep
  BY <1>2 DEF ReviewStep, ApproveTask, RejectTask, ReviewParts, Record
<1>3. CASE FindingStep \/ RiskStep \/ UNCHANGED vars
  BY <1>3 DEF FindingStep, AddFinding, RetestFinding, CreateTestResult, RiskStep, CreateRisk,
              UpdateRisk, RemoveRisk, vars
<1> QED
  BY <1>1, <1>2, <1>3 DEF Next

LEMMA DependencyNext == ASSUME TypeOK, DependencyInv, [Next]_vars PROVE DependencyInv'
<1>1. ASSUME dependencies' = dependencies PROVE DependencyInv'
  BY <1>1 DEF DependencyInv
<1>2. CASE TaskStep
  <2>1. ASSUME NEW gone, RemoveTasks(gone) PROVE DependencyInv'
    BY <2>1 DEF RemoveTasks, DependencyInv, TypeOK
  <2> QED
    BY <1>1, <1>2, <2>1 DEF TaskStep, CreateTask, UpdateTask, RemoveTask, RemoveSubsystem
<1>3. CASE DependencyStep
  <2>1. ASSUME NEW d \in Dependencies, NEW x \in Proposable, SaveDependency(d, x)
        PROVE  DependencyInv'
    <3>1. x.task # x.ref /\ (x.ref \in Tasks => x.required \in RequiredStates)
      BY KindsAssumption DEF Proposable, PresentParts, Existing
    <3> QED
      BY <2>1, <3>1 DEF SaveDependency, DependencyInv, TypeOK
  <2>2. ASSUME NEW d \in Dependencies, RemoveDependency(d) PROVE DependencyInv'
    BY <2>2 DEF RemoveDependency, DependencyInv, TypeOK
  <2> QED
    BY <1>3, <2>1, <2>2 DEF DependencyStep, CreateDependency, UpdateDependency
<1> QED
  BY <1>1, <1>2, <1>3, SameDependencies

LEMMA WaitsNext ==
    ASSUME TypeOK, DependencyInv, NoCompleteWaits, [Next]_vars PROVE NoCompleteWaits'
<1>1. ASSUME CompletedNotBlocked, \A t \in Tasks : status'[t] = "complete" => status[t] = "complete"
      PROVE  NoCompleteWaits'
  BY <1>1 DEF CompletedNotBlocked, NoCompleteWaits
<1>2. ASSUME UNCHANGED <<status, definition, place, dependencies>> PROVE NoCompleteWaits'
  BY <1>2 DEF NoCompleteWaits, WaitingOn, Satisfied, PresentParts
\* what a task waits on does not depend on itself
<1>3. ASSUME NEW t \in Tasks, NEW s, status' = [status EXCEPT ![t] = s],
             UNCHANGED <<definition, place, dependencies>>
      PROVE  WaitingOn(t)' = WaitingOn(t)
  BY <1>3 DEF WaitingOn, Satisfied, PresentParts, DependencyInv, TypeOK
<1>4. ASSUME NEW t \in Tasks, NEW s, status' = [status EXCEPT ![t] = s],
             UNCHANGED <<definition, place, dependencies>>,
             CompletedNotBlocked, s = "complete" => status[t] = "complete" \/ WaitingOn(t) = {}
      PROVE  NoCompleteWaits'
  <2> SUFFICES ASSUME NEW u \in Tasks, status'[u] = "complete" PROVE WaitingOn(u)' = {}
    BY DEF NoCompleteWaits
  <2>1. CASE status[u] = "complete"
    BY <1>4, <2>1 DEF CompletedNotBlocked, NoCompleteWaits
  <2>2. CASE status[u] # "complete"
    <3>1. u = t /\ s = "complete"
      BY <1>4, <2>2 DEF TypeOK
    <3> QED
      BY <1>3, <1>4, <2>2, <3>1
  <2> QED
    BY <2>1, <2>2
<1>5. ASSUME NEW t \in Tasks, CreateTask(t) PROVE NoCompleteWaits'
  <2>1. PICK s \in Statuses \ {"complete"} : status' = [status EXCEPT ![t] = s]
    BY <1>5 DEF CreateTask
  <2>2. status[t] = "absent" /\ UNCHANGED <<definition, place, dependencies>>
    BY <1>5 DEF CreateTask, Existing, TypeOK, partVars
  <2> SUFFICES ASSUME NEW u \in Tasks, status'[u] = "complete", NEW d \in Dependencies,
                      d \in WaitingOn(u)'
               PROVE  FALSE
    BY DEF NoCompleteWaits, WaitingOn
  <2>3. status[u] = "complete" /\ WaitingOn(u) = {}
    BY <2>1 DEF TypeOK, NoCompleteWaits
  <2>4. dependencies[d] # None /\ dependencies[d].task = u /\ ~Satisfied(dependencies[d])'
    BY <2>2 DEF WaitingOn
  <2>5. Satisfied(dependencies[d])
    BY <2>3, <2>4 DEF WaitingOn
  <2>6. dependencies[d].ref = t /\ status[t] = dependencies[d].required
    BY <2>1, <2>2, <2>4, <2>5 DEF Satisfied, PresentParts, TypeOK
  <2> QED
    BY <2>2, <2>4, <2>6, RequiredAssumption DEF DependencyInv
<1>6. ASSUME NEW t \in Tasks, UpdateTask(t) PROVE NoCompleteWaits'
  <2>1. PICK s \in Statuses :
           /\ status' = [status EXCEPT ![t] = s]
           /\ s = "complete" /\ status[t] # "complete" => WaitingOn(t) = {}
    BY <1>6 DEF UpdateTask
  <2>2. UNCHANGED <<definition, place, dependencies>> /\ CompletedNotBlocked
    BY <1>6 DEF UpdateTask, partVars
  <2> QED
    BY <1>4, <2>1, <2>2
<1>7. ASSUME \/ \E t \in Tasks : RemoveTask(t)
             \/ \E gone \in SUBSET Tasks, parts \in SUBSET Parts : RemoveSubsystem(gone, parts)
      PROVE  NoCompleteWaits'
  <2>1. ASSUME NEW gone, RemoveTasks(gone), CompletedNotBlocked PROVE NoCompleteWaits'
    BY <1>1, <2>1 DEF RemoveTasks
  <2> QED
    BY <1>7, <2>1 DEF RemoveTask, RemoveSubsystem
<1>8. CASE EvidenceStep
  BY <1>2, <1>8
     DEF EvidenceStep, AddWorkLog, RemoveWorkLog, MoveWorkLog, AddArtifact, RemoveArtifact,
         RetargetArtifact, ChangeDocs, taskVars, partVars
<1>9. CASE PartStep
  <2>1. ASSUME NEW p \in Parts, CreatePart(p) PROVE NoCompleteWaits'
    <3>1. \A x \in PresentParts : x \in PresentParts' /\ place'[x] = place[x]
      BY <2>1 DEF CreatePart, PresentParts, TypeOK
    <3>2. UNCHANGED <<status, dependencies>>
      BY <2>1 DEF CreatePart, taskVars
    <3>3. \A d \in Dependencies : Satisfied(dependencies[d]) => Satisfied(dependencies[d])'
      BY <3>1, <3>2 DEF Satisfied
    <3> QED
      BY <3>2, <3>3 DEF NoCompleteWaits, WaitingOn
  <2>3. \A d \in Definitions : ReviseDefinition(d) => NoCompleteWaits'
    BY <1>1 DEF ReviseDefinition, taskVars
  <2>4. \A gone \in SUBSET Parts : RemoveParts(gone) => NoCompleteWaits'
    BY <1>1 DEF RemoveParts, taskVars
  <2>5. \A p \in Parts : ReassignPart(p) \/ MovePart(p) => NoCompleteWaits'
    BY <1>1 DEF ReassignPart, MovePart, taskVars
  <2> QED
    BY <1>9, <2>1, <2>3, <2>4, <2>5 DEF PartStep
<1>10. ASSUME NEW t \in Tasks, NEW q \in SUBSET Parts, NEW named, ApproveTask(t, q, named)
       PROVE  NoCompleteWaits'
  <2>1. \E s : status' = [status EXCEPT ![t] = s]
    <3>1. status = [status EXCEPT ![t] = status[t]]
      BY DEF TypeOK
    <3> QED
      BY <1>10, <3>1 DEF ApproveTask
  <2>2. UNCHANGED <<definition, place, dependencies>> /\ CompletedNotBlocked /\ WaitingOn(t) = {}
    BY <1>10 DEF ApproveTask, Record, partVars
  <2> QED
    BY <1>4, <2>1, <2>2
<1>11. ASSUME NEW t \in Tasks, NEW u \in Tasks, NEW f \in Findings, NEW r \in Risks \cup {None},
              NEW q \in SUBSET Parts, NEW named, RejectTask(t, q, named, u, f, r)
       PROVE  NoCompleteWaits'
  BY <1>1, <1>11 DEF RejectTask, TypeOK
<1>12. ASSUME NEW q \in SUBSET Parts, NEW named, NEW result, ReviewParts(q, named, result)
       PROVE  NoCompleteWaits'
  BY <1>2, <1>12 DEF ReviewParts, Record, partVars
<1>13. ASSUME NEW u \in Tasks \cup {None}, NEW q \in SUBSET Parts, CreateQaRequest(u, q)
       PROVE  NoCompleteWaits'
  BY <1>1, <1>13 DEF CreateQaRequest, TypeOK
<1>14. CASE FindingStep \/ RiskStep \/ UNCHANGED vars
  BY <1>2, <1>14
     DEF FindingStep, AddFinding, RetestFinding, CreateTestResult, RiskStep, CreateRisk,
         UpdateRisk, RemoveRisk, vars, taskVars, partVars
<1>15. CASE DependencyStep
  <2>1. ASSUME NEW d \in Dependencies, RemoveDependency(d) PROVE NoCompleteWaits'
    <3>1. \A e \in Dependencies : dependencies'[e] # None => dependencies'[e] = dependencies[e]
      BY <2>1 DEF RemoveDependency, TypeOK
    <3> QED
      BY <2>1, <3>1 DEF RemoveDependency, taskVars, partVars, NoCompleteWaits, WaitingOn, Satisfied,
                        PresentParts
  <2> QED
    BY <1>1, <1>15, <2>1
       DEF DependencyStep, CreateDependency, UpdateDependency, SaveDependency, taskVars
<1> QED
  BY <1>5, <1>6, <1>7, <1>8, <1>9, <1>10, <1>11, <1>12, <1>13, <1>14, <1>15
     DEF Next, TaskStep, ReviewStep, RequestStep

-----------------------------------------------------------------------------
(***************************************************************************)
(* No cycles.                                                              *)
(***************************************************************************)
\* Each task is outside a set that is closed under prerequisites and has its own.
Acyclic ==
    \A t \in Tasks : \E C \in SUBSET Tasks :
       Prerequisites(t, None) \subseteq C /\ Closed(C, None) /\ t \notin C

\* The search agrees.
LEMMA NoCycleFound ==
    Acyclic => \A t \in Tasks : \A u \in Prerequisites(t, None) : ~WouldCreateCycle(t, u, None)
<1> SUFFICES ASSUME Acyclic, NEW t \in Tasks, NEW u \in Prerequisites(t, None)
             PROVE  ~WouldCreateCycle(t, u, None)
  OBVIOUS
<1>1. PICK C \in SUBSET Tasks : Prerequisites(t, None) \subseteq C /\ Closed(C, None) /\ t \notin C
  BY DEF Acyclic
<1>2. u \in Tasks
  BY DEF Prerequisites
<1>3. PICK R \in SUBSET Tasks :
         /\ \A x : WouldCreateCycle(x, u, None) <=> x \in R
         /\ \A D \in SUBSET Tasks : u \in D /\ Closed(D, None) => R \subseteq D
  BY <1>2, SearchIsComplete
<1> QED
  BY <1>1, <1>3

LEMMA FewerPrerequisites ==
    ASSUME Acyclic, \A u \in Tasks : Prerequisites(u, None)' \subseteq Prerequisites(u, None)
    PROVE  Acyclic'
  BY DEF Acyclic, Closed

LEMMA SavedAcyclic ==
    ASSUME TypeOK, Acyclic, NEW d \in Dependencies, NEW x \in Proposable, SaveDependency(d, x)
    PROVE  Acyclic'
<1> DEFINE old(u) == Prerequisites(u, d)
           new(u) == Prerequisites(u, None)'
           adds == x.hard /\ x.ref \in Tasks
<1>1. d # None /\ dependencies' = [dependencies EXCEPT ![d] = x]
  BY NoneAssumption DEF SaveDependency
<1>2. x.task \in Tasks
  BY DEF Proposable, Existing
<1>3. ASSUME NEW u \in Tasks
      PROVE  /\ old(u) \subseteq Prerequisites(u, None) /\ old(u) \subseteq Tasks
             /\ new(u) \subseteq IF adds /\ u = x.task THEN old(u) \cup {x.ref} ELSE old(u)
  BY <1>1, NoneAssumption DEF Prerequisites, TypeOK
<1>4. CASE ~adds
  <2>1. \A u \in Tasks : new(u) \subseteq Prerequisites(u, None)
    BY <1>3, <1>4
  <2> QED
    BY <2>1, FewerPrerequisites
<1>5. CASE adds
  <2>1. PICK R \in SUBSET Tasks :
           /\ x.ref \in R /\ Closed(R, d)
           /\ \A t : WouldCreateCycle(t, x.ref, d) <=> t \in R
    BY <1>5, SearchIsComplete
  <2>2. x.task \notin R
    BY <1>5, <2>1 DEF SaveDependency
  <2>3. \A u \in R : old(u) \subseteq R
    BY <2>1 DEF Closed
  <2>4. ASSUME NEW t \in Tasks
        PROVE  \E C \in SUBSET Tasks :
                  new(t) \subseteq C /\ (\A u \in C : new(u) \subseteq C) /\ t \notin C
    <3>1. PICK C \in SUBSET Tasks :
             /\ Prerequisites(t, None) \subseteq C /\ t \notin C
             /\ \A u \in C : Prerequisites(u, None) \subseteq C
      BY DEF Acyclic, Closed
    <3> HIDE DEF old, new
    <3>2. CASE t \in R
      <4>1. new(t) \subseteq C \cap R
        BY <1>3, <2>2, <2>3, <3>1, <3>2
      <4>2. \A u \in C \cap R : new(u) \subseteq C \cap R
        BY <1>3, <2>2, <2>3, <3>1
      <4> QED
        BY <3>1, <4>1, <4>2
    <3>3. CASE t \notin R
      <4>1. new(t) \subseteq C \cup R
        BY <1>3, <2>1, <3>1
      <4>2. \A u \in C \cup R : new(u) \subseteq C \cup R
        BY <1>3, <2>1, <2>3, <3>1
      <4>3. C \cup R \in SUBSET Tasks /\ t \notin C \cup R
        BY <3>1, <3>3
      <4> QED
        BY <4>1, <4>2, <4>3
    <3> QED
      BY <3>2, <3>3
  <2> QED
    BY <2>4 DEF Acyclic, Closed
<1> QED
  BY <1>4, <1>5

LEMMA AcyclicNext == ASSUME TypeOK, Acyclic, [Next]_vars PROVE Acyclic'
<1>1. ASSUME \A d \in Dependencies : dependencies'[d] # None => dependencies'[d] = dependencies[d]
      PROVE  Acyclic'
  <2>1. \A u \in Tasks : Prerequisites(u, None)' \subseteq Prerequisites(u, None)
    BY <1>1 DEF Prerequisites
  <2> QED
    BY <2>1, FewerPrerequisites
<1>2. CASE TaskStep
  <2>1. ASSUME NEW gone, RemoveTasks(gone) PROVE Acyclic'
    BY <1>1, <2>1 DEF RemoveTasks
  <2> QED
    BY <1>1, <1>2, <2>1 DEF TaskStep, CreateTask, UpdateTask, RemoveTask, RemoveSubsystem
<1>3. CASE DependencyStep
  <2>1. ASSUME NEW d \in Dependencies, RemoveDependency(d) PROVE Acyclic'
    BY <1>1, <2>1 DEF RemoveDependency, TypeOK
  <2> QED
    BY <1>3, <2>1, SavedAcyclic DEF DependencyStep, CreateDependency, UpdateDependency
<1> QED
  BY <1>1, <1>2, <1>3, SameDependencies

-----------------------------------------------------------------------------
(***************************************************************************)
(* The theorems.                                                           *)
(***************************************************************************)
IInv ==
    /\ TypeOK /\ ReviewsOfTasks /\ CorrectiveHistoryIntact /\ CompletedWorkIsBacked
    /\ DependencyInv /\ NoCompleteWaits /\ Acyclic

LEMMA IInvInit == Init => IInv
<1> SUFFICES ASSUME Init PROVE IInv
  OBVIOUS
<1>1. ReviewsOfTasks /\ CorrectiveHistoryIntact
  BY DEF Init, ReviewsOfTasks, CorrectiveHistoryIntact
<1>2. CompletedWorkIsBacked /\ DependencyInv /\ NoCompleteWaits
  BY DEF Init, CompletedWorkIsBacked, DependencyInv, NoCompleteWaits
<1>3. Acyclic
  <2>1. \A t : Prerequisites(t, None) = {}
    BY DEF Init, Prerequisites
  <2>2. Closed({}, None)
    BY DEF Closed
  <2> QED
    BY <2>1, <2>2 DEF Acyclic
<1> QED
  BY <1>1, <1>2, <1>3, TypeInit DEF IInv

LEMMA IInvNext == ASSUME IInv, [Next]_vars PROVE IInv'
<1>1. TypeOK'
  BY TypeNext DEF IInv
<1> QED
  BY <1>1, HistoryNext, BackedNext, DependencyNext, WaitsNext, AcyclicNext DEF IInv

THEOREM Inductive == Spec => []IInv
  BY IInvInit, IInvNext, PTL DEF Spec

\* Every record of tasks, parts, reviews and dependencies keeps its type, the records of absent
\* tasks are clean, and every review has its own order.
THEOREM TypeCorrect == Spec => []TypeOK
<1>1. IInv => TypeOK
  BY DEF IInv
<1> QED
  BY <1>1, Inductive, PTL

\* Whatever happens to logs, artifacts, parts, definitions, tasks and reviews, a complete task
\* keeps its work log, its documentation and a mentor's pass of its present scope.
THEOREM CompletedBacked == Spec => []CompletedWorkIsBacked
<1>1. IInv => CompletedWorkIsBacked
  BY DEF IInv
<1> QED
  BY <1>1, Inductive, PTL

\* Reviews, findings, corrective tasks and risks that name one another stay.
THEOREM HistoryIntact == Spec => []CorrectiveHistoryIntact
<1>1. IInv => CorrectiveHistoryIntact
  BY DEF IInv
<1> QED
  BY <1>1, Inductive, PTL

\* A complete task never waits, and hard dependencies never close a cycle: however many tasks
\* there are, the search of bounded depth misses none.
THEOREM DependenciesSound == Spec => []DependenciesHold
<1>1. IInv => DependenciesHold
  BY NoCycleFound DEF IInv, NoCompleteWaits, DependenciesHold
<1> QED
  BY <1>1, Inductive, PTL

\* A review that stopped to count for its task never counts again.
LEMMA StaysObsolete ==
    ASSUME IInv, IInv', [Next]_vars, NEW r \in reviews \cap reviews', Applicable(r)'
    PROVE  Applicable(r)
<1>1. r \in QaReview /\ r.order <= sequence
  BY DEF IInv, TypeOK
<1>2. r.task \in Existing \/ r.task = None
  BY DEF IInv, ReviewsOfTasks
<1>3. r.task \in Tasks /\ r.task # None
  BY NoneAssumption DEF Applicable, Existing
<1>4. r.task \in Existing
  BY <1>2, <1>3
<1>5. CurrentReviewOrder = sequence
  BY SequenceLeads DEF IInv
<1>6. ASSUME NEW t \in Existing PROVE scope[t] <= scope'[t] \/ t \notin Existing' \/ scope'[t] = sequence
  <2>1. ASSUME scope' = scope PROVE scope[t] <= scope'[t]
    BY <2>1, BoundAssumption DEF IInv, TypeOK, Existing
  <2>2. ASSUME NEW changed, MarkScope(changed) PROVE scope[t] <= scope'[t] \/ scope'[t] = sequence
    BY <1>5, <2>2, BoundAssumption DEF MarkScope, IInv, TypeOK, Existing
  <2>3. CASE TaskStep
    <3>1. ASSUME NEW u \in Tasks, CreateTask(u) PROVE scope[t] <= scope'[t]
      BY <3>1, BoundAssumption DEF CreateTask, IInv, TypeOK, Existing
    <3>2. ASSUME NEW u \in Tasks, UpdateTask(u)
          PROVE  scope[t] <= scope'[t] \/ scope'[t] = sequence
      BY <2>2, <3>2 DEF UpdateTask
    <3>3. ASSUME NEW gone, RemoveTasks(gone) PROVE scope[t] <= scope'[t] \/ t \notin Existing'
      BY <3>3, BoundAssumption DEF RemoveTasks, IInv, TypeOK, Existing
    <3> QED
      BY <2>3, <3>1, <3>2, <3>3 DEF TaskStep, RemoveTask, RemoveSubsystem
  <2>4. CASE EvidenceStep
    BY <2>1, <2>2, <2>4
       DEF EvidenceStep, AddWorkLog, RemoveWorkLog, MoveWorkLog, AddArtifact, RemoveArtifact,
           RetargetArtifact, ChangeDocs, taskVars
  <2>5. CASE PartStep
    BY <2>1, <2>2, <2>5
       DEF PartStep, ReviseDefinition, ReassignPart, MovePart, CreatePart, RemoveParts, taskVars
  <2>6. CASE ReviewStep \/ RequestStep
    <3>1. \A review, t1, q, named : Record(review, t1, q, named) => scope' = scope
      BY DEF Record
    <3>2. ReviewStep => scope' = scope
      BY <3>1 DEF ReviewStep, ApproveTask, RejectTask, ReviewParts
    <3>3. RequestStep => scope' = scope
      BY DEF RequestStep, CreateQaRequest
    <3> QED
      BY <2>1, <2>6, <3>2, <3>3
  <2>7. CASE FindingStep \/ RiskStep \/ DependencyStep \/ UNCHANGED vars
    BY <2>1, <2>7
       DEF FindingStep, AddFinding, RetestFinding, CreateTestResult, RiskStep, CreateRisk,
           UpdateRisk, RemoveRisk, DependencyStep, CreateDependency, UpdateDependency,
           RemoveDependency, SaveDependency, vars, taskVars
  <2> QED
    BY <2>3, <2>4, <2>5, <2>6, <2>7 DEF Next
<1>7. scope[r.task] \in Nat /\ scope'[r.task] \in Nat /\ r.order \in Nat /\ sequence \in Nat
  BY <1>1, <1>3, BoundAssumption DEF IInv, TypeOK, QaReview
<1> QED
  BY <1>1, <1>4, <1>6, <1>7 DEF Applicable

THEOREM ObsoleteForGood == Spec => ObsoleteReviewsStayObsolete
<1>1. IInv /\ IInv' /\ [Next]_vars =>
         [\A r \in reviews \cap reviews' : ~Applicable(r) => ~Applicable(r)']_vars
  BY StaysObsolete
<1> QED
  BY <1>1, Inductive, PTL DEF Spec, ObsoleteReviewsStayObsolete

\* What the lists and the bootstrap of any selection show as free to start does not wait.
THEOREM WaitingShown == Spec => []WaitingIsShown
<1>1. IInv => WaitingIsShown
  <2> SUFFICES ASSUME IInv, NEW shown \in SUBSET Existing, NEW t \in shown
               PROVE  /\ ListedWaiting(t) => ShownWaiting(t, shown)
                      /\ shown = Existing /\ ShownWaiting(t, shown) => ListedWaiting(t)
    BY DEF WaitingIsShown
  <2>1. ListedWaiting(t) => ShownWaiting(t, shown)
    BY DEF ListedWaiting, ShownWaiting, WaitingOn, ShownDependencies, Recorded, SatisfiedInView
  <2>2. ASSUME shown = Existing, ShownWaiting(t, shown) PROVE ListedWaiting(t)
    <3>1. PICK d \in Dependencies :
             /\ status[t] # "complete" /\ dependencies[d] # None /\ dependencies[d].task = t
             /\ ~SatisfiedInView(dependencies[d], shown)
      BY <2>2 DEF ShownWaiting, ShownDependencies, Recorded
    <3>2. ~Satisfied(dependencies[d])
      <4> SUFFICES ASSUME Satisfied(dependencies[d]) PROVE FALSE
        OBVIOUS
      <4>1. dependencies[d].hard /\ dependencies[d].ref \in Tasks /\ dependencies[d].ref \notin Existing
        BY <2>2, <3>1 DEF SatisfiedInView
      <4>2. dependencies[d].required = "absent"
        BY <4>1, KindsAssumption DEF Satisfied, Existing, PresentParts
      <4> QED
        BY <3>1, <4>1, <4>2, RequiredAssumption DEF IInv, DependencyInv
    <3> QED
      BY <3>1, <3>2 DEF ListedWaiting, WaitingOn
  <2> QED
    BY <2>1, <2>2
<1> QED
  BY <1>1, Inductive, PTL
=============================================================================
