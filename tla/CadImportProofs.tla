--------------------------- MODULE CadImportProofs ---------------------------
(***************************************************************************)
(* What the parser pool and the imports that use it guarantee, for any     *)
(* limits, files, decisions and requests.                                  *)
(*                                                                         *)
(* First the pool.  Its inductive invariant adds to the three properties   *)
(* that the parses with a slot are finitely many: it is the conjunction of *)
(* what the counter, the queue and the stages say of one another, and no   *)
(* part of it is inductive without the others.                             *)
(*                                                                         *)
(* Then the imports: the invariant in its five parts, what a step leaves   *)
(* alone (frames), and each part in turn, that the initial states have it  *)
(* and that a step of an import, of a review and of a finalization keeps   *)
(* it.  The walk to the root of the hierarchy is a recursive function over *)
(* the naturals; it is characterized by the sets of nodes that are closed  *)
(* downwards, and numbers are left behind there.                           *)
(***************************************************************************)
EXTENDS CadImport, FiniteSetTheorems, SequenceTheorems, WellFoundedInduction, TLAPS

IInv ==
    /\ TypeOK
    /\ IsFiniteSet(Parsing)
    /\ SlotsAccounted
    /\ NoIdleSlot
    /\ QueueIsExact

-----------------------------------------------------------------------------
(***************************************************************************)
(* What the three operations on the queue do to its elements.              *)
(***************************************************************************)
\* Appending adds one element, at the end.
LEMMA Appended ==
    ASSUME NEW q \in Seq(Parses), IsInjective(q), NEW p \in Parses, p \notin ToSet(q)
    PROVE  /\ Append(q, p) \in Seq(Parses)
           /\ Append(q, p) # <<>>
           /\ Len(Append(q, p)) = Len(q) + 1
           /\ ToSet(Append(q, p)) = ToSet(q) \cup {p}
           /\ IsInjective(Append(q, p))
  BY AppendProperties DEF ToSet, IsInjective

\* A queue without its k-th entry loses that element, and only that, since no element
\* occurs twice.
LEMMA Skipped ==
    ASSUME NEW q \in Seq(Parses), IsInjective(q), NEW k \in 1..Len(q),
           NEW s \in Seq(Parses), Len(s) = Len(q) - 1,
           \A i \in 1..Len(s) : s[i] = IF i < k THEN q[i] ELSE q[i + 1]
    PROVE  ToSet(s) = ToSet(q) \ {q[k]} /\ IsInjective(s)
  <1>1. /\ DOMAIN q = 1..Len(q) /\ Len(q) \in Nat
        /\ DOMAIN s = 1..Len(s) /\ Len(s) \in Nat
    BY LenProperties
  <1>2. ASSUME NEW i \in 1..Len(s)
        PROVE  s[i] \in ToSet(q) \ {q[k]}
    <2> DEFINE j == IF i < k THEN i ELSE i + 1
    <2>1. j \in 1..Len(q) /\ j # k /\ s[i] = q[j]
      BY <1>1
    <2>2. q[j] # q[k]
      BY <1>1, <2>1 DEF IsInjective
    <2> QED
      BY <1>1, <2>1, <2>2 DEF ToSet
  <1>3. ASSUME NEW j \in 1..Len(q), j # k
        PROVE  q[j] \in ToSet(s)
    <2> DEFINE i == IF j < k THEN j ELSE j - 1
    <2>1. i \in 1..Len(s) /\ s[i] = q[j]
      BY <1>1, <1>3
    <2> QED
      BY <1>1, <2>1 DEF ToSet
  <1>4. ToSet(s) = ToSet(q) \ {q[k]}
    <2>1. ToSet(s) \subseteq ToSet(q) \ {q[k]}
      BY <1>1, <1>2 DEF ToSet
    <2>2. ASSUME NEW e \in ToSet(q), e # q[k] PROVE e \in ToSet(s)
      <3>1. PICK j \in 1..Len(q) : e = q[j]
        BY <1>1 DEF ToSet
      <3> QED
        BY <1>3, <2>2, <3>1
    <2> QED
      BY <2>1, <2>2
  <1>5. ASSUME NEW i \in 1..Len(s), NEW j \in 1..Len(s), s[i] = s[j]
        PROVE  i = j
    <2> DEFINE a == IF i < k THEN i ELSE i + 1
               b == IF j < k THEN j ELSE j + 1
    <2>1. a \in 1..Len(q) /\ b \in 1..Len(q) /\ s[i] = q[a] /\ s[j] = q[b]
      BY <1>1
    <2>2. a = b
      BY <1>1, <1>5, <2>1 DEF IsInjective
    <2> QED
      BY <1>1, <2>2
  <1> QED
    BY <1>1, <1>4, <1>5 DEF IsInjective

\* The tail is the queue without its head.
LEMMA Dequeued ==
    ASSUME NEW q \in Seq(Parses), IsInjective(q), q # <<>>
    PROVE  /\ Tail(q) \in Seq(Parses)
           /\ Len(Tail(q)) = Len(q) - 1
           /\ Head(q) \in ToSet(q)
           /\ ToSet(Tail(q)) = ToSet(q) \ {Head(q)}
           /\ IsInjective(Tail(q))
  <1>1. Len(q) \in Nat /\ 1 \in 1..Len(q) /\ DOMAIN q = 1..Len(q)
    BY LenProperties, EmptySeq
  <1>2. /\ Tail(q) \in Seq(Parses)
        /\ Len(Tail(q)) = Len(q) - 1
        /\ \A i \in 1..Len(Tail(q)) : Tail(q)[i] = q[i + 1]
    BY HeadTailProperties
  <1>3. \A i \in 1..Len(Tail(q)) : Tail(q)[i] = IF i < 1 THEN q[i] ELSE q[i + 1]
    BY <1>1, <1>2
  <1>4. Head(q) = q[1]
    OBVIOUS
  <1>5. ToSet(Tail(q)) = ToSet(q) \ {q[1]} /\ IsInjective(Tail(q))
    BY <1>1, <1>2, <1>3, Skipped
  <1>6. q[1] \in ToSet(q)
    BY <1>1 DEF ToSet
  <1> QED
    BY <1>2, <1>4, <1>5, <1>6

\* RemoveAt(q, k) is the queue without its k-th entry.
LEMMA Removed ==
    ASSUME NEW q \in Seq(Parses), IsInjective(q), NEW k \in DOMAIN q
    PROVE  /\ RemoveAt(q, k) \in Seq(Parses)
           /\ Len(RemoveAt(q, k)) = Len(q) - 1
           /\ ToSet(RemoveAt(q, k)) = ToSet(q) \ {q[k]}
           /\ IsInjective(RemoveAt(q, k))
  <1> DEFINE front == SubSeq(q, 1, k - 1)
             rear == SubSeq(q, k + 1, Len(q))
  <1>1. Len(q) \in Nat /\ k \in 1..Len(q) /\ \A i \in 1..Len(q) : q[i] \in Parses
    BY LenProperties, ElementOfSeq
  <1>2. /\ front \in Seq(Parses)
        /\ Len(front) = k - 1
        /\ \A i \in 1..(k - 1) : front[i] = q[i]
    <2>1. \A i \in 1..(k - 1) : q[i] \in Parses
      BY <1>1
    <2>2. /\ front \in Seq(Parses)
          /\ Len(front) = IF 1 <= k - 1 THEN k - 1 - 1 + 1 ELSE 0
          /\ \A i \in 1..(k - 1 - 1 + 1) : front[i] = q[1 + i - 1]
      BY <1>1, <2>1, SubSeqProperties
    <2> QED
      BY <1>1, <2>2
  <1>3. /\ rear \in Seq(Parses)
        /\ Len(rear) = Len(q) - k
        /\ \A i \in 1..(Len(q) - k) : rear[i] = q[k + i]
    <2>1. \A i \in (k + 1)..Len(q) : q[i] \in Parses
      BY <1>1
    <2>2. /\ rear \in Seq(Parses)
          /\ Len(rear) = IF k + 1 <= Len(q) THEN Len(q) - (k + 1) + 1 ELSE 0
          /\ \A i \in 1..(Len(q) - (k + 1) + 1) : rear[i] = q[k + 1 + i - 1]
      BY <1>1, <2>1, SubSeqProperties
    <2> QED
      BY <1>1, <2>2
  <1> DEFINE rest == front \o rear
  <1>4. /\ rest \in Seq(Parses)
        /\ Len(rest) = Len(front) + Len(rear)
        /\ \A i \in 1..(Len(front) + Len(rear)) :
             rest[i] = IF i <= Len(front) THEN front[i] ELSE rear[i - Len(front)]
    <2> HIDE DEF front, rear
    <2> QED
      BY <1>2, <1>3, ConcatProperties
  <1> HIDE DEF front, rear, rest
  <1>5. Len(rest) = Len(q) - 1
    BY <1>1, <1>2, <1>3, <1>4
  <1>6. ASSUME NEW i \in 1..Len(rest)
        PROVE  rest[i] = IF i < k THEN q[i] ELSE q[i + 1]
    <2>1. rest[i] = IF i <= k - 1 THEN front[i] ELSE rear[i - (k - 1)]
      BY <1>1, <1>2, <1>3, <1>4
    <2>2. CASE i < k
      BY <1>1, <1>2, <2>1, <2>2
    <2>3. CASE i >= k
      <3>1. i - (k - 1) \in 1..(Len(q) - k) /\ k + (i - (k - 1)) = i + 1
        BY <1>1, <1>5, <2>3
      <3> QED
        BY <1>1, <1>3, <2>1, <2>3, <3>1
    <2> QED
      BY <1>1, <2>2, <2>3
  <1>7. ToSet(rest) = ToSet(q) \ {q[k]} /\ IsInjective(rest)
    BY <1>1, <1>4, <1>5, <1>6, Skipped
  <1>8. RemoveAt(q, k) = rest
    BY DEF RemoveAt, front, rear, rest
  <1> QED
    BY <1>4, <1>5, <1>7, <1>8

-----------------------------------------------------------------------------
(***************************************************************************)
(* The invariant holds at first and is kept by every action.               *)
(***************************************************************************)
LEMMA IInvInit == Init => IInv
  <1> SUFFICES ASSUME Init PROVE IInv
    OBVIOUS
  <1>1. Parsing = {} /\ Waiting = {} /\ ToSet(waiters) = {}
    BY DEF Init, Parsing, Waiting, ToSet
  <1>2. IsInjective(waiters)
    BY DEF Init, IsInjective
  <1> QED
    BY <1>1, <1>2, FS_EmptySet, LimitsAssumption
    DEF Init, IInv, TypeOK, SlotsAccounted, NoIdleSlot, QueueIsExact, Ended

\* The end of a parse gives its slot to the first waiter, or back.
LEMMA ReleaseKeeps ==
    ASSUME IInv, NEW p \in Parses, stage[p] = "parsing", NEW outcome \in Ended,
           Release(p, outcome)
    PROVE  IInv'
  <1> USE DEF IInv
  <1>1. p \in Parsing /\ outcome \notin {"waiting", "parsing"}
    BY DEF Parsing, Ended
  <1>2. /\ IsFiniteSet(Parsing \ {p})
        /\ Cardinality(Parsing \ {p}) = active - 1
        /\ active \in 1..MaxConcurrency
        /\ GivenBack = active - 1
    <2>1. IsFiniteSet(Parsing \ {p}) /\ Cardinality(Parsing \ {p}) = active - 1
      BY <1>1, FS_RemoveElement DEF SlotsAccounted
    <2>2. Cardinality(Parsing \ {p}) \in Nat
      BY <2>1, FS_CardinalityType
    <2> QED
      BY <2>1, <2>2, LimitsAssumption DEF TypeOK, GivenBack
  <1>3. CASE waiters = <<>>
    <2>1. /\ active' = active - 1
          /\ stage' = [stage EXCEPT ![p] = outcome]
          /\ waiters' = waiters
      BY <1>2, <1>3 DEF Release
    <2>2. Parsing' = Parsing \ {p} /\ Waiting' = Waiting
      BY <1>1, <2>1 DEF Parsing, Waiting, TypeOK
    <2>3. TypeOK'
      BY <1>2, <2>1, LimitsAssumption DEF TypeOK
    <2>4. IsFiniteSet(Parsing') /\ SlotsAccounted'
      BY <1>2, <2>1, <2>2 DEF SlotsAccounted
    <2>5. NoIdleSlot' /\ QueueIsExact'
      BY <1>3, <2>1, <2>2 DEF NoIdleSlot, QueueIsExact
    <2> QED
      BY <2>3, <2>4, <2>5
  <1>4. CASE waiters # <<>>
    <2> DEFINE h == Head(waiters)
    <2>1. /\ active' = active - 1 + 1
          /\ stage' = [stage EXCEPT ![p] = outcome, ![h] = "parsing"]
          /\ waiters' = Tail(waiters)
      BY <1>2, <1>4 DEF Release
    <2>2. /\ Tail(waiters) \in Seq(Parses)
          /\ Len(Tail(waiters)) = Len(waiters) - 1
          /\ h \in ToSet(waiters)
          /\ ToSet(Tail(waiters)) = ToSet(waiters) \ {h}
          /\ IsInjective(Tail(waiters))
      BY <1>4, Dequeued DEF TypeOK, QueueIsExact
    <2>3. h \in Waiting /\ h \in Parses /\ h # p /\ h \notin Parsing
      BY <1>1, <2>2 DEF QueueIsExact, Waiting, Parsing
    <2> HIDE DEF h
    <2>4. Parsing' = (Parsing \ {p}) \cup {h}
      BY <1>1, <2>1, <2>3 DEF Parsing, TypeOK
    <2>5. Waiting' = Waiting \ {h}
      BY <1>1, <2>1, <2>3 DEF Waiting, TypeOK
    <2>6. active' = active
      BY <1>2, <2>1
    <2>7. TypeOK'
      BY <2>1, <2>2, <2>6 DEF TypeOK
    <2>8. IsFiniteSet(Parsing') /\ SlotsAccounted'
      BY <1>2, <2>3, <2>4, <2>6, FS_AddElement DEF SlotsAccounted
    <2>9. NoIdleSlot'
      BY <1>4, <2>6 DEF NoIdleSlot
    <2>10. Len(waiters) \in Nat
      BY LenProperties DEF TypeOK
    <2>11. QueueIsExact'
      BY <2>1, <2>2, <2>5, <2>10, LimitsAssumption DEF QueueIsExact
    <2> QED
      BY <2>7, <2>8, <2>9, <2>11
  <1> QED
    BY <1>3, <1>4

LEMMA IInvStep == IInv /\ [Next]_vars => IInv'
  <1> SUFFICES ASSUME IInv, [Next]_vars PROVE IInv'
    OBVIOUS
  <1> USE DEF IInv
  <1>0. Len(waiters) \in Nat
    BY LenProperties DEF TypeOK
  <1>1. ASSUME NEW p \in Parses, TakeSlot(p) PROVE IInv'
    <2>1. /\ stage[p] = "idle" /\ active < MaxConcurrency
          /\ active' = active + 1
          /\ stage' = [stage EXCEPT ![p] = "parsing"]
          /\ waiters' = waiters
      BY <1>1 DEF TakeSlot
    <2>2. Parsing' = Parsing \cup {p} /\ p \notin Parsing /\ Waiting' = Waiting
      BY <2>1 DEF Parsing, Waiting, TypeOK
    <2>3. TypeOK'
      BY <2>1, LimitsAssumption DEF TypeOK
    <2>4. IsFiniteSet(Parsing') /\ SlotsAccounted'
      BY <2>1, <2>2, FS_AddElement DEF SlotsAccounted
    <2>5. waiters = <<>>
      BY <2>1, LimitsAssumption DEF NoIdleSlot, TypeOK
    <2>6. NoIdleSlot' /\ QueueIsExact'
      BY <2>1, <2>2, <2>5 DEF NoIdleSlot, QueueIsExact
    <2> QED
      BY <2>3, <2>4, <2>6
  <1>2. ASSUME NEW p \in Parses, Refuse(p) PROVE IInv'
    <2>1. /\ stage[p] = "idle"
          /\ stage' = [stage EXCEPT ![p] = "refused"]
          /\ active' = active /\ waiters' = waiters
      BY <1>2 DEF Refuse
    <2>2. Parsing' = Parsing /\ Waiting' = Waiting
      BY <2>1 DEF Parsing, Waiting, TypeOK
    <2>3. TypeOK'
      BY <2>1 DEF TypeOK, Ended
    <2> QED
      BY <2>1, <2>2, <2>3 DEF SlotsAccounted, NoIdleSlot, QueueIsExact
  <1>3. ASSUME NEW p \in Parses, Wait(p) PROVE IInv'
    <2>1. /\ stage[p] = "idle" /\ active >= MaxConcurrency /\ Len(waiters) < MaxQueue
          /\ stage' = [stage EXCEPT ![p] = "waiting"]
          /\ waiters' = Append(waiters, p)
          /\ active' = active
      BY <1>3 DEF Wait
    <2>2. Parsing' = Parsing /\ Waiting' = Waiting \cup {p} /\ p \notin Waiting
      BY <2>1 DEF Parsing, Waiting, TypeOK
    <2>3. /\ waiters' \in Seq(Parses)
          /\ Len(waiters') = Len(waiters) + 1
          /\ ToSet(waiters') = ToSet(waiters) \cup {p}
          /\ IsInjective(waiters')
      BY <2>1, <2>2, Appended DEF QueueIsExact, TypeOK
    <2>4. TypeOK'
      BY <2>1, <2>3 DEF TypeOK
    <2>5. IsFiniteSet(Parsing') /\ SlotsAccounted'
      BY <2>1, <2>2 DEF SlotsAccounted
    <2>6. NoIdleSlot'
      BY <2>1, LimitsAssumption DEF NoIdleSlot, TypeOK
    <2>7. QueueIsExact'
      BY <1>0, <2>1, <2>2, <2>3, LimitsAssumption DEF QueueIsExact
    <2> QED
      BY <2>4, <2>5, <2>6, <2>7
  <1>4. ASSUME NEW p \in Parses, Finish(p) PROVE IInv'
    <2>1. stage[p] = "parsing" /\ \E outcome \in Ended : Release(p, outcome)
      BY <1>4 DEF Finish, Ended
    <2> QED
      BY <2>1, ReleaseKeeps
  <1>5. ASSUME NEW p \in Parses, TimeOutParsing(p) PROVE IInv'
    <2>1. stage[p] = "parsing" /\ "timedOut" \in Ended /\ Release(p, "timedOut")
      BY <1>5 DEF TimeOutParsing, Ended
    <2> QED
      BY <2>1, ReleaseKeeps
  <1>6. ASSUME NEW p \in Parses, TimeOutWaiting(p) PROVE IInv'
    <2>1. /\ stage[p] = "waiting"
          /\ stage' = [stage EXCEPT ![p] = "timedOut"]
          /\ active' = active
      BY <1>6 DEF TimeOutWaiting
    <2>2. PICK k \in DOMAIN waiters : waiters[k] = p /\ waiters' = RemoveAt(waiters, k)
      BY <1>6 DEF TimeOutWaiting, LeaveQueue
    <2>3. /\ waiters' \in Seq(Parses)
          /\ Len(waiters') = Len(waiters) - 1
          /\ ToSet(waiters') = ToSet(waiters) \ {p}
          /\ IsInjective(waiters')
      BY <2>2, Removed DEF QueueIsExact, TypeOK
    <2>4. Parsing' = Parsing /\ Waiting' = Waiting \ {p}
      BY <2>1 DEF Parsing, Waiting, TypeOK
    <2>5. TypeOK'
      BY <2>1, <2>3 DEF TypeOK, Ended
    <2>6. IsFiniteSet(Parsing') /\ SlotsAccounted'
      BY <2>1, <2>4 DEF SlotsAccounted
    <2>7. NoIdleSlot'
      <3>1. waiters # <<>>
        BY <2>2
      <3> QED
        BY <2>1, <3>1 DEF NoIdleSlot
    <2>8. QueueIsExact'
      BY <1>0, <2>3, <2>4, LimitsAssumption DEF QueueIsExact
    <2> QED
      BY <2>5, <2>6, <2>7, <2>8
  <1>7. CASE UNCHANGED vars
    <2>1. Parsing' = Parsing /\ Waiting' = Waiting
      BY <1>7 DEF vars, Parsing, Waiting
    <2> QED
      BY <1>7, <2>1 DEF vars, TypeOK, SlotsAccounted, NoIdleSlot, QueueIsExact
  <1> QED
    BY <1>1, <1>2, <1>3, <1>4, <1>5, <1>6, <1>7 DEF Next

-----------------------------------------------------------------------------
(***************************************************************************)
(* The theorems.                                                           *)
(***************************************************************************)
\* The invariant holds in every state of every behaviour.
THEOREM Inductive == Spec => []IInv
  BY IInvInit, IInvStep, PTL DEF Spec

\* The types of the variables: in particular, no more slots are taken than there are.
THEOREM TypeCorrect == Spec => []TypeOK
  <1>1. IInv => TypeOK
    BY DEF IInv
  <1> QED
    BY <1>1, Inductive, PTL

\* No slot is sold twice or lost, whatever the order of answers, deadlines and wake-ups
\* (activeParserProcesses is the number of parses at work).
THEOREM SlotsExact == Spec => []SlotsAccounted
  <1>1. IInv => SlotsAccounted
    BY DEF IInv
  <1> QED
    BY <1>1, Inductive, PTL

\* A parse waits only while every slot is taken (acquireParserSlot, releaseParserSlot).
THEOREM NoSlotIdles == Spec => []NoIdleSlot
  <1>1. IInv => NoIdleSlot
    BY DEF IInv
  <1> QED
    BY <1>1, Inductive, PTL

\* The queue holds each waiting parse once, nobody else, and never too many
\* (parserWaiters).
THEOREM QueueExact == Spec => []QueueIsExact
  <1>1. IInv => QueueIsExact
    BY DEF IInv
  <1> QED
    BY <1>1, Inductive, PTL

\* The three together (acquireParserSlot, releaseParserSlot).
THEOREM PoolSound == Spec => []PoolIsSound
  <1>1. SlotsAccounted /\ NoIdleSlot /\ QueueIsExact => PoolIsSound
    BY DEF PoolIsSound
  <1> QED
    BY <1>1, SlotsExact, NoSlotIdles, QueueExact, PTL

-----------------------------------------------------------------------------
(***************************************************************************)
(* The imports.                                                            *)
(***************************************************************************)

Requests == Parses \cup Reviews \cup Finals
RuleRecords == {Rule(r, s, d) : r \in Reviews, s \in Sources, d \in Decisions}

ImportPlaces == {"idle", "created", "parsing", "storing", "reading", "mapping", "closing",
                 "done", "failed", "broken"}
Reviewing == {"reviewing", "superseding", "updating", "syncing", "syncingRun"}
ReviewPlaces == {"idle", "answered", "broken"} \cup Reviewing
FinalPlaces == {"idle", "finalizing", "answered", "broken"}
Everywhere == ImportPlaces \cup ReviewPlaces \cup FinalPlaces
RunStatuses == {"none", "PENDING", "PARSING", "FAILED", "MAPPING_REVIEW", "MAPPED", "FINALIZED"}
SnapshotStatuses == {"none", "parsed", "mapping_review", "mapped", "finalized"}
ReviewRecords ==
    [of : Parses \cup {None}, was : SnapshotStatuses, todo : SUBSET Sources,
     source : Sources \cup {None}, decision : Decisions \cup {None}, unresolved : BOOLEAN]
FinalRecords == [of : Parses \cup {None}, strict : BOOLEAN, passed : BOOLEAN]

\* The types of the tables and of the requests.
CadTypes ==
    /\ at \in [Requests -> Everywhere]
    /\ runs \in [Parses -> RunStatuses]
    /\ snapshots \in [Parses -> SnapshotStatuses]
    /\ graphs \in [Parses -> Graphs \cup {NoGraph}]
    /\ mappings \in [Parses -> [Sources -> MappingRecords \cup {None}]]
    /\ rules \in SUBSET RuleRecords
    /\ importing \in [Parses -> [rules : SUBSET RuleRecords, left : SUBSET Sources]]
    /\ review \in [Reviews -> ReviewRecords]
    /\ final \in [Finals -> FinalRecords]
    /\ planned \in SUBSET (Parts \cup {Mechanism})
    /\ crossed \in SUBSET Parses

Places ==
    /\ \A p \in Parses : at[p] \in ImportPlaces
    /\ \A r \in Reviews :
        /\ at[r] \in ReviewPlaces
        /\ IF at[r] = "idle" THEN review[r] = NoReview ELSE review[r].of \in Parses
        /\ at[r] \in {"superseding", "updating"} =>
               review[r].source \in review[r].todo /\ review[r].decision \in Decisions
        /\ at[r] \in {"syncing", "syncingRun", "answered"} => review[r].todo = {}
    /\ \A f \in Finals :
        /\ at[f] \in FinalPlaces
        /\ IF at[f] = "idle" THEN final[f] = NoFinal ELSE final[f].of \in Parses
        /\ at[f] = "finalizing" => ~final[f].passed

ImportStep(p) ==
    \/ Upload(p) \/ BeginParsing(p) \/ Parse(p) \/ CreateSnapshot(p) \/ StoreGraph(p)
    \/ ReadRules(p) \/ MapSource(p) \/ CloseSnapshot(p) \/ CloseRun(p) \/ Fail(p) \/ BreakOff(p)
ReviewStep(r) ==
    \/ OpenReview(r) \/ Decide(r) \/ AddRule(r) \/ Supersede(r) \/ UpdateMapping(r)
    \/ ListMappings(r) \/ SyncSnapshot(r) \/ SyncRun(r) \/ BreakOff(r)
FinalStep(f) == Check(f) \/ Finalize(f) \/ BreakOff(f)

-----------------------------------------------------------------------------
(***************************************************************************)
(* The rules.                                                              *)
(***************************************************************************)
\* Two rules of one source have a review between them, superseding or broken off.
RivalsMeet == \A x, y \in rules : x.source = y.source /\ x # y =>
    \E r \in Reviews : review[r].source = x.source /\ at[r] \in {"superseding", "broken"}

\* A review makes one rule for a source: afterwards it has decided the source, or is about to.
RuledOnce ==
    /\ \A x, y \in rules : x.source = y.source /\ x.by = y.by => x = y
    /\ \A x \in rules :
        /\ at[x.by] # "idle"
        /\ at[x.by] = "reviewing" => x.source \notin review[x.by].todo
        /\ at[x.by] \in {"superseding", "updating"} /\ x.source \in review[x.by].todo =>
               x.source = review[x.by].source

RulesInv == RivalsMeet /\ RuledOnce

(***************************************************************************)
(* The mappings.                                                           *)
(***************************************************************************)
\* What a review has to decide is mapped.
TodoMapped(r) == \A s \in review[r].todo : mappings[review[r].of][s] # None

\* What an import has yet to map is not.
LeftUnmapped(p) ==
    /\ at[p] \in {"idle", "created", "parsing", "storing", "reading"} =>
           \A s \in Sources : mappings[p][s] = None
    /\ at[p] = "mapping" => \A s \in importing[p].left : mappings[p][s] = None

MappingsInv == (\A r \in Reviews : TodoMapped(r)) /\ (\A p \in Parses : LeftUnmapped(p))

(***************************************************************************)
(* The records of an import.                                               *)
(***************************************************************************)
Agree(p) ==
    IF snapshots[p] = "finalized" THEN runs[p] = "FINALIZED"
    ELSE /\ snapshots[p] = SnapshotStatus(Unresolved(p))
         /\ runs[p] = RunStatus(Unresolved(p))

Open(p, s) == mappings[p][s] # None /\ mappings[p][s].status = "NEEDS_REVIEW"

Handling(p) == Under(p) \cup Finalizing(p)

\* What an import that met no other request has done so far.
ImportRecord(p) ==
    /\ at[p] = "mapping" =>
        /\ importing[p].left \subseteq SourcesOf(graphs[p])
        /\ \A s \in Sources : Open(p, s) <=> /\ s \in SourcesOf(graphs[p]) \ importing[p].left
                                             /\ Cardinality(Matches(p, s)) # 1
    /\ at[p] = "closing" =>
           Unresolved(p) = LeftOpen(p) /\ snapshots[p] = SnapshotStatus(LeftOpen(p))
    /\ at[p] = "done" /\ Under(p) = {} => Agree(p)

\* What a review of it has.
ReviewRecord(p, r) ==
    /\ at[r] \in Reviewing \ {"syncingRun"} => snapshots[p] = review[r].was
    /\ review[r].was # "finalized"
    /\ at[r] \in {"syncing", "syncingRun"} => review[r].unresolved = Unresolved(p)
    /\ at[r] = "syncingRun" => snapshots[p] = SnapshotStatus(review[r].unresolved)

RecordOf(p) ==
    /\ Handling(p) # {} => at[p] = "done"
    /\ \A q, o \in Handling(p) : q = o
    /\ ImportRecord(p)
    /\ \A r \in Under(p) : ReviewRecord(p, r)

RecordsInv == \A p \in Parses \ crossed : RecordOf(p)

(***************************************************************************)
(* The finalized snapshots.                                                *)
(***************************************************************************)
Through(f) == at[f] = "answered" /\ final[f].passed

\* What a finalization that met no other request has seen to.
FinalOf(f) == final[f].of \notin crossed =>
    /\ final[f].strict /\ (at[f] = "finalizing" \/ Through(f)) =>
           Reviewed(graphs[final[f].of], mappings[final[f].of])
    /\ Through(f) => /\ at[final[f].of] = "done"
                     /\ snapshots[final[f].of] = "finalized"
                     /\ Under(final[f].of) = {}

FinalsInv == \A f \in Finals : FinalOf(f)

CadInv == CadTypes /\ Places /\ RulesInv /\ MappingsInv /\ RecordsInv /\ FinalsInv
-----------------------------------------------------------------------------
(***************************************************************************)
(* What a step leaves alone.                                               *)
(***************************************************************************)
\* The next-state relation, by the kind of request.
LEMMA CadNextSplit ==
    CadNext <=> \/ \E p \in Parses : ImportStep(p)
                \/ \E r \in Reviews : ReviewStep(r)
                \/ \E f \in Finals : FinalStep(f)
                \/ Replan
  BY Zenon DEF CadNext, ImportStep, ReviewStep, FinalStep

LEMMA ImportFrame ==
    ASSUME CadTypes, NEW p \in Parses, ImportStep(p)
    PROVE  /\ UNCHANGED <<rules, review, final, planned, crossed>>
           /\ \A q \in Requests \ {p} : at'[q] = at[q]
           /\ \A o \in Parses \ {p} : /\ runs'[o] = runs[o] /\ snapshots'[o] = snapshots[o]
                                      /\ graphs'[o] = graphs[o] /\ mappings'[o] = mappings[o]
                                      /\ importing'[o] = importing[o]
<1> USE DEF CadTypes, Goto, tables, requests, pool, cad
<1>1. CASE Upload(p) \/ BeginParsing(p) \/ CreateSnapshot(p) \/ CloseSnapshot(p)
  BY <1>1 DEF Upload, BeginParsing, CreateSnapshot, CloseSnapshot
<1>2. CASE Parse(p)
  BY <1>2 DEF Parse
<1>3. CASE StoreGraph(p)
  BY <1>3 DEF StoreGraph
<1>4. CASE ReadRules(p)
  BY <1>4 DEF ReadRules
<1>5. CASE MapSource(p)
  BY <1>5 DEF MapSource
<1>6. CASE CloseRun(p) \/ Fail(p) \/ BreakOff(p)
  BY <1>6 DEF CloseRun, Fail, BreakOff
<1> QED
  BY <1>1, <1>2, <1>3, <1>4, <1>5, <1>6 DEF ImportStep

ReviewKeeps(r) ==
    /\ UNCHANGED <<graphs, importing, final, planned>>
    /\ \A q \in Requests \ {r} : at'[q] = at[q]
    /\ \A o \in Reviews \ {r} : review'[o] = review[o]
    /\ \A p \in Parses : p # review[r].of =>
           runs'[p] = runs[p] /\ snapshots'[p] = snapshots[p] /\ mappings'[p] = mappings[p]
    /\ crossed \subseteq crossed'
    /\ at[r] # "idle" => review'[r].of = review[r].of /\ crossed' = crossed

LEMMA ReviewFrame ==
    ASSUME CadTypes, NEW r \in Reviews, ReviewStep(r)
    PROVE  ReviewKeeps(r)
<1> USE DEF ReviewKeeps, CadTypes, Goto, tables, requests, pool, cad
<1>1. CASE OpenReview(r)
  BY <1>1 DEF OpenReview, Cross
<1>2. ASSUME NEW s, NEW d, Decided(r, s, d),
             UNCHANGED <<pool, runs, snapshots, graphs, rules, importing, final, planned, crossed>>
      PROVE  ReviewKeeps(r)
  <2>1. /\ review' = [review EXCEPT ![r] = [review[r] EXCEPT !.todo = @ \ {s}, !.source = None,
                                                           !.decision = None]]
        /\ mappings' = [mappings EXCEPT ![review[r].of] = [mappings[review[r].of] EXCEPT ![s] = d]]
        /\ at' = [at EXCEPT ![r] = "reviewing"]
    BY <1>2 DEF Decided
  <2> QED
    BY <1>2, <2>1
<1>3. CASE AddRule(r)
  <2>1. PICK s \in review[r].todo, d \in Decisions :
            review' = [review EXCEPT ![r].source = s, ![r].decision = d]
    BY <1>3 DEF AddRule
  <2>2. /\ \A o \in Reviews \ {r} : review'[o] = review[o]
        /\ review'[r].of = review[r].of
    BY <2>1
  <2> QED
    BY <1>3, <2>2 DEF AddRule
<1>6. CASE Supersede(r)
  BY <1>6 DEF Supersede
<1>7. CASE Decide(r) \/ UpdateMapping(r)
  BY <1>2, <1>7, Zenon DEF Decide, UpdateMapping
<1>4. CASE ListMappings(r)
  BY <1>4 DEF ListMappings
<1>5. CASE SyncSnapshot(r) \/ SyncRun(r) \/ BreakOff(r)
  BY <1>5 DEF SyncSnapshot, SyncRun, BreakOff
<1> QED
  BY <1>1, <1>3, <1>4, <1>5, <1>6, <1>7 DEF ReviewStep

LEMMA FinalFrame ==
    ASSUME CadTypes, NEW f \in Finals, FinalStep(f)
    PROVE  /\ UNCHANGED <<graphs, mappings, rules, importing, review, planned>>
           /\ \A q \in Requests \ {f} : at'[q] = at[q]
           /\ \A o \in Finals \ {f} : final'[o] = final[o]
           /\ \A p \in Parses : p # final[f].of => runs'[p] = runs[p] /\ snapshots'[p] = snapshots[p]
           /\ crossed \subseteq crossed'
           /\ at[f] # "idle" => final'[f].of = final[f].of /\ crossed' = crossed
<1> USE DEF CadTypes, Goto, tables, requests, pool, cad
<1>1. CASE Check(f)
  BY <1>1 DEF Check, Cross
<1>2. CASE Finalize(f)
  BY <1>2 DEF Finalize
<1>3. CASE BreakOff(f)
  BY <1>3 DEF BreakOff
<1> QED
  BY <1>1, <1>2, <1>3 DEF FinalStep

-----------------------------------------------------------------------------
(***************************************************************************)
(* Types.                                                                  *)
(***************************************************************************)
LEMMA SourcesOfFiles ==
    ASSUME NEW g \in Graphs \cup {NoGraph}
    PROVE  SourcesOf(g) \subseteq Sources
<1>1. CASE g \in Graphs
  BY <1>1, FilesAssumption DEF IsGraph, SourcesOf, Sources
<1>2. CASE g = NoGraph
  BY <1>2 DEF NoGraph, SourcesOf
<1> QED
  BY <1>1, <1>2

LEMMA OneReview ==
    ASSUME CadTypes, NEW r \in Reviews
    PROVE  /\ review[r] \in ReviewRecords
           /\ review[r].of \in Parses \cup {None} /\ review[r].was \in SnapshotStatuses
           /\ review[r].todo \subseteq Sources /\ review[r].source \in Sources \cup {None}
           /\ review[r].decision \in Decisions \cup {None} /\ review[r].unresolved \in BOOLEAN
<1>1. review[r] \in ReviewRecords
  BY DEF CadTypes
<1> QED
  BY <1>1 DEF ReviewRecords

\* What the steps of a review make of its record.
LEMMA RuledReview ==
    ASSUME CadTypes, NEW r \in Reviews, AddRule(r)
    PROVE  \E s \in review[r].todo, d \in Decisions :
              /\ s \in Sources
              /\ rules' = rules \cup {Rule(r, s, d)}
              /\ review' \in [Reviews -> ReviewRecords]
              /\ review'[r].of = review[r].of /\ review'[r].was = review[r].was
              /\ review'[r].todo = review[r].todo /\ review'[r].source = s
              /\ review'[r].decision = d /\ review'[r].unresolved = review[r].unresolved
<1>1. PICK s \in review[r].todo, d \in Decisions :
        /\ rules' = rules \cup {Rule(r, s, d)}
        /\ review' = [review EXCEPT ![r].source = s, ![r].decision = d]
  BY DEF AddRule
<1>2. s \in Sources
  BY OneReview
<1>3. [review[r] EXCEPT !.source = s, !.decision = d] \in ReviewRecords
  BY <1>2, OneReview DEF ReviewRecords
<1>4. review' = [review EXCEPT ![r] = [review[r] EXCEPT !.source = s, !.decision = d]]
  BY <1>1, <1>2 DEF CadTypes, ReviewRecords
<1>5. review'[r] = [review[r] EXCEPT !.source = s, !.decision = d]
  BY <1>4 DEF CadTypes
<1>6. review' \in [Reviews -> ReviewRecords]
  BY <1>3, <1>4 DEF CadTypes
<1>7. /\ review'[r].of = review[r].of /\ review'[r].was = review[r].was
      /\ review'[r].todo = review[r].todo /\ review'[r].source = s
      /\ review'[r].decision = d /\ review'[r].unresolved = review[r].unresolved
  BY <1>5, <1>6, OneReview DEF ReviewRecords
<1> QED
  BY <1>1, <1>2, <1>6, <1>7

LEMMA DecidedReview ==
    ASSUME CadTypes, NEW r \in Reviews, NEW s, NEW d, Decided(r, s, d)
    PROVE  /\ review' \in [Reviews -> ReviewRecords]
           /\ review'[r].of = review[r].of /\ review'[r].was = review[r].was
           /\ review'[r].todo = review[r].todo \ {s} /\ review'[r].source = None
           /\ review'[r].unresolved = review[r].unresolved
<1>1. [review[r] EXCEPT !.todo = review[r].todo \ {s}, !.source = None, !.decision = None]
          \in ReviewRecords
  BY OneReview DEF ReviewRecords
<1>2. review' = [review EXCEPT ![r] = [review[r] EXCEPT !.todo = review[r].todo \ {s},
                                                        !.source = None, !.decision = None]]
  BY DEF CadTypes, ReviewRecords, Decided
<1>3. review'[r] = [review[r] EXCEPT !.todo = review[r].todo \ {s}, !.source = None,
                                      !.decision = None]
  BY <1>2 DEF CadTypes
<1>4. review' \in [Reviews -> ReviewRecords]
  BY <1>1, <1>2 DEF CadTypes
<1> QED
  BY <1>3, <1>4, OneReview DEF ReviewRecords

LEMMA ListedReview ==
    ASSUME CadTypes, NEW r \in Reviews, ListMappings(r)
    PROVE  /\ review' \in [Reviews -> ReviewRecords]
           /\ review'[r].of = review[r].of /\ review'[r].was = review[r].was
           /\ review'[r].todo = {} /\ review'[r].source = review[r].source
           /\ review'[r].unresolved = Unresolved(review[r].of)
<1> DEFINE found == Unresolved(review[r].of)
<1>1. found \in BOOLEAN
  BY DEF Unresolved
<1>2. review' = [review EXCEPT ![r].todo = {}, ![r].unresolved = found]
  BY DEF ListMappings
<1> HIDE DEF found
<1>3. [review[r] EXCEPT !.todo = {}, !.unresolved = found] \in ReviewRecords
  BY <1>1, OneReview DEF ReviewRecords
<1>4. review' = [review EXCEPT ![r] = [review[r] EXCEPT !.todo = {}, !.unresolved = found]]
  BY <1>2 DEF CadTypes, ReviewRecords
<1>5. /\ review' \in [Reviews -> ReviewRecords]
      /\ review'[r] = [review[r] EXCEPT !.todo = {}, !.unresolved = found]
  BY <1>3, <1>4 DEF CadTypes
<1>6. /\ review'[r].of = review[r].of /\ review'[r].was = review[r].was
      /\ review'[r].todo = {} /\ review'[r].source = review[r].source
      /\ review'[r].unresolved = found
  BY <1>5, OneReview DEF ReviewRecords
<1> QED
  BY <1>5, <1>6 DEF found

\* What an import makes of a source; a rule is used if it is the only one.
LEMMA MapSourceMaps ==
    ASSUME CadTypes, NEW p \in Parses, MapSource(p)
    PROVE  \E s \in importing[p].left, d \in MappingRecords :
              /\ at[p] = "mapping"
              /\ mappings' = [mappings EXCEPT ![p][s] = d]
              /\ importing' = [importing EXCEPT ![p].left = @ \ {s}]
              /\ d.status = "NEEDS_REVIEW" <=> Cardinality(Matches(p, s)) # 1
<1>1. PICK s \in importing[p].left :
        /\ at[p] = "mapping"
        /\ mappings' = [mappings EXCEPT ![p][s] =
               IF Cardinality(Matches(p, s)) = 1
               THEN LET rule == CHOOSE rule \in Matches(p, s) : TRUE
                    IN Proposed(rule.kind, rule.target)
               ELSE Unmapped]
        /\ importing' = [importing EXCEPT ![p].left = @ \ {s}]
  BY DEF MapSource
<1>2. CASE Cardinality(Matches(p, s)) = 1
  <2> DEFINE rule == CHOOSE rule \in Matches(p, s) : TRUE
             d == Proposed(rule.kind, rule.target)
  <2>1. Matches(p, s) # {}
    BY <1>2, FS_EmptySet
  <2>2. rule \in RuleRecords
    <3>1. rule \in Matches(p, s)
      BY <2>1
    <3> QED
      BY <3>1 DEF Matches, CadTypes
  <2>3. PICK c \in Decisions : rule.kind = c.kind /\ rule.target = c.target
    <3> HIDE DEF rule
    <3>1. PICK r \in Reviews, o \in Sources, c \in Decisions : rule = Rule(r, o, c)
      BY <2>2 DEF RuleRecords
    <3> QED
      BY <3>1 DEF Rule
  <2>5. d \in MappingRecords /\ d.status = "PROPOSED"
    BY <2>3 DEF MappingRecords, Proposed
  <2>4. mappings' = [mappings EXCEPT ![p][s] = d]
    BY <1>1, <1>2
  <2> HIDE DEF d
  <2> QED
    BY <1>1, <1>2, <2>4, <2>5
<1>3. CASE Cardinality(Matches(p, s)) # 1
  <2>1. Unmapped \in MappingRecords /\ Unmapped.status = "NEEDS_REVIEW"
    BY DEF MappingRecords, Unmapped
  <2> QED
    BY <1>1, <1>3, <2>1
<1> QED
  BY <1>2, <1>3

LEMMA CadTypesInit == CadInit => CadTypes /\ Places
<1> SUFFICES ASSUME CadInit PROVE CadTypes /\ Places
  OBVIOUS
<1> USE DEF CadInit, Everywhere, ImportPlaces, ReviewPlaces, Reviewing, FinalPlaces,
            RunStatuses, SnapshotStatuses
<1>1. /\ at \in [Requests -> Everywhere] /\ runs \in [Parses -> RunStatuses]
      /\ snapshots \in [Parses -> SnapshotStatuses]
      /\ graphs \in [Parses -> Graphs \cup {NoGraph}]
      /\ rules \in SUBSET RuleRecords
      /\ planned \in SUBSET (Parts \cup {Mechanism}) /\ crossed \in SUBSET Parses
  BY DEF Requests
<1>2. mappings \in [Parses -> [Sources -> MappingRecords \cup {None}]]
  OBVIOUS
<1>3. importing \in [Parses -> [rules : SUBSET RuleRecords, left : SUBSET Sources]]
  OBVIOUS
<1>4. review \in [Reviews -> ReviewRecords]
  BY DEF NoReview, ReviewRecords
<1>5. final \in [Finals -> FinalRecords]
  BY DEF NoFinal, FinalRecords
<1>6. Places
  BY DEF Places
<1> QED
  BY <1>1, <1>2, <1>3, <1>4, <1>5, <1>6 DEF CadTypes

LEMMA ImportTypes ==
    ASSUME CadTypes, NEW p \in Parses, ImportStep(p)
    PROVE  CadTypes'
<1> USE DEF CadTypes, Goto, tables, requests, pool, cad, Everywhere, ImportPlaces,
            ReviewPlaces, Reviewing, FinalPlaces, RunStatuses, SnapshotStatuses
<1>0. p \in Requests
  BY DEF Requests
<1>1. CASE Upload(p) \/ BeginParsing(p) \/ CreateSnapshot(p)
  BY <1>0, <1>1 DEF Upload, BeginParsing, CreateSnapshot
<1>2. CASE Parse(p)
  BY <1>2 DEF Parse
<1>3. CASE StoreGraph(p)
  BY <1>0, <1>3 DEF StoreGraph
<1>4. CASE ReadRules(p)
  <2>1. SourcesOf(graphs[p]) \subseteq Sources
    BY SourcesOfFiles
  <2> QED
    BY <1>0, <1>4, <2>1 DEF ReadRules
<1>5. CASE MapSource(p)
  <2>1. PICK s \in importing[p].left, d \in MappingRecords :
              /\ at[p] = "mapping"
              /\ mappings' = [mappings EXCEPT ![p][s] = d]
              /\ importing' = [importing EXCEPT ![p].left = @ \ {s}]
              /\ d.status = "NEEDS_REVIEW" <=> Cardinality(Matches(p, s)) # 1
    BY <1>5, MapSourceMaps, Zenon
  <2>2. mappings' \in [Parses -> [Sources -> MappingRecords \cup {None}]]
    BY <2>1
  <2>3. importing' \in [Parses -> [rules : SUBSET RuleRecords, left : SUBSET Sources]]
    BY <2>1
  <2> QED
    BY <1>5, <2>2, <2>3 DEF MapSource
<1>6. CASE CloseRun(p) \/ CloseSnapshot(p)
  BY <1>0, <1>6 DEF CloseRun, CloseSnapshot, SnapshotStatus, RunStatus
<1>7. CASE Fail(p) \/ BreakOff(p)
  BY <1>0, <1>7 DEF Fail, BreakOff
<1> QED
  BY <1>1, <1>2, <1>3, <1>4, <1>5, <1>6, <1>7 DEF ImportStep

LEMMA ReviewTypes ==
    ASSUME CadTypes, Places, NEW r \in Reviews, ReviewStep(r)
    PROVE  CadTypes'
<1> USE DEF CadTypes, Goto, tables, requests, pool, cad, Everywhere, ImportPlaces,
            ReviewPlaces, Reviewing, FinalPlaces, RunStatuses, SnapshotStatuses
<1>0. r \in Requests
  BY DEF Requests
<1>1. CASE OpenReview(r)
  <2>1. PICK p \in Parses :
           /\ review' = [review EXCEPT ![r] = [NoReview EXCEPT !.of = p, !.was = snapshots[p],
                                        !.todo = {s \in Sources : mappings[p][s] # None}]]
           /\ crossed' \in {crossed, crossed \cup {p}}
    BY <1>1 DEF OpenReview, Cross
  <2>2. review' \in [Reviews -> ReviewRecords]
    BY <2>1 DEF NoReview, ReviewRecords
  <2> QED
    BY <1>0, <1>1, <2>1, <2>2 DEF OpenReview
<1>2. ASSUME NEW s \in Sources, NEW d \in Decisions, at[r] # "idle", Decided(r, s, d),
             UNCHANGED <<pool, runs, snapshots, graphs, rules, importing, final, planned, crossed>>
      PROVE  CadTypes'
  <2>1. /\ mappings' \in [Parses -> [Sources -> MappingRecords \cup {None}]]
        /\ at' \in [Requests -> Everywhere]
    BY <1>0, <1>2 DEF Decided, MappingRecords
  <2>2. review' \in [Reviews -> ReviewRecords]
    BY <1>2, DecidedReview
  <2> QED
    BY <1>2, <2>1, <2>2
<1>3. CASE Decide(r)
  <2>1. PICK s \in review[r].todo, d \in Decisions :
            /\ at[r] = "reviewing" /\ Decided(r, s, d)
            /\ UNCHANGED <<pool, runs, snapshots, graphs, rules, importing, final, planned, crossed>>
    BY <1>3, Zenon DEF Decide
  <2>2. s \in Sources /\ at[r] # "idle"
    BY <2>1, OneReview
  <2> QED
    BY <1>2, <2>1, <2>2, Zenon
<1>4. CASE UpdateMapping(r)
  <2>1. /\ at[r] = "updating" /\ Decided(r, review[r].source, review[r].decision)
        /\ UNCHANGED <<pool, runs, snapshots, graphs, rules, importing, final, planned, crossed>>
    BY <1>4, Zenon DEF UpdateMapping
  <2>2. review[r].source \in Sources /\ review[r].decision \in Decisions /\ at[r] # "idle"
    BY <2>1, OneReview DEF Places
  <2> QED
    BY <1>2, <2>1, <2>2, Zenon
<1>5. CASE AddRule(r)
  <2>1. PICK s \in review[r].todo, d \in Decisions :
            s \in Sources /\ rules' = rules \cup {Rule(r, s, d)}
    BY <1>5, RuledReview
  <2>3. review' \in [Reviews -> ReviewRecords]
    BY <1>5, RuledReview
  <2>4. rules' \in SUBSET RuleRecords
    BY <2>1 DEF RuleRecords
  <2> QED
    BY <1>0, <1>5, <2>3, <2>4 DEF AddRule
<1>6. CASE Supersede(r)
  BY <1>0, <1>6 DEF Supersede
<1>7. CASE ListMappings(r)
  <2>1. review' \in [Reviews -> ReviewRecords]
    BY <1>7, ListedReview
  <2> QED
    BY <1>0, <1>7, <2>1 DEF ListMappings
<1>8. CASE SyncSnapshot(r)
  BY <1>0, <1>8, OneReview DEF SyncSnapshot, SnapshotStatus
<1>10. CASE SyncRun(r)
  BY <1>0, <1>10 DEF SyncRun, RunStatus
<1>9. CASE BreakOff(r)
  BY <1>0, <1>9 DEF BreakOff
<1> QED
  BY <1>1, <1>3, <1>4, <1>5, <1>6, <1>7, <1>8, <1>9, <1>10 DEF ReviewStep

LEMMA FinalTypes ==
    ASSUME CadTypes, NEW f \in Finals, FinalStep(f)
    PROVE  CadTypes'
<1> USE DEF CadTypes, Goto, tables, requests, pool, cad, Everywhere, ImportPlaces,
            ReviewPlaces, Reviewing, FinalPlaces, RunStatuses, SnapshotStatuses
<1>0. f \in Requests
  BY DEF Requests
<1>1. CASE Check(f)
  <2>1. PICK p \in Parses, allowUnresolved \in BOOLEAN, place \in {"answered", "finalizing"} :
           /\ at' = [at EXCEPT ![f] = place]
           /\ final' = [final EXCEPT ![f] = [of |-> p, strict |-> ~allowUnresolved, passed |-> FALSE]]
           /\ crossed' \in {crossed, crossed \cup {p}}
    BY <1>1 DEF Check, Cross
  <2>2. final' \in [Finals -> FinalRecords]
    BY <2>1 DEF FinalRecords
  <2> QED
    BY <1>0, <1>1, <2>1, <2>2 DEF Check
<1>2. CASE Finalize(f)
  <2>1. final' = [final EXCEPT ![f].passed = TRUE]
    BY <1>2 DEF Finalize
  <2>2. final' \in [Finals -> FinalRecords]
    BY <2>1 DEF FinalRecords
  <2> QED
    BY <1>0, <1>2, <2>2 DEF Finalize
<1>3. CASE BreakOff(f)
  BY <1>0, <1>3 DEF BreakOff
<1> QED
  BY <1>1, <1>2, <1>3 DEF FinalStep

-----------------------------------------------------------------------------
(***************************************************************************)
(* Where requests are.                                                     *)
(***************************************************************************)
\* Where the step of an import leads from where.
LEMMA ImportMoves ==
    ASSUME CadTypes, Places, NEW p \in Parses, ImportStep(p)
    PROVE  /\ at'[p] \in ImportPlaces
           /\ at[p] \notin {"done", "failed", "broken"}
<1> USE DEF CadTypes, Goto, tables, requests, pool, cad, ImportPlaces
<1>0. p \in Requests /\ at[p] \in ImportPlaces /\ p \notin Reviews /\ p \notin Finals
  BY RequestsAssumption DEF Requests, Places
<1>1. CASE Upload(p) \/ BeginParsing(p) \/ CreateSnapshot(p) \/ StoreGraph(p)
  BY <1>0, <1>1 DEF Upload, BeginParsing, CreateSnapshot, StoreGraph
<1>2. CASE Parse(p)
  BY <1>0, <1>2 DEF Parse
<1>4. CASE ReadRules(p)
  BY <1>0, <1>4 DEF ReadRules
<1>5. CASE MapSource(p)
  BY <1>0, <1>5 DEF MapSource
<1>6. CASE CloseRun(p) \/ CloseSnapshot(p) \/ Fail(p) \/ BreakOff(p)
  BY <1>0, <1>6 DEF CloseRun, CloseSnapshot, Fail, BreakOff
<1> QED
  BY <1>1, <1>2, <1>4, <1>5, <1>6 DEF ImportStep

PlaceOfReview(r) ==
    /\ at[r] \in ReviewPlaces
    /\ IF at[r] = "idle" THEN review[r] = NoReview ELSE review[r].of \in Parses
    /\ at[r] \in {"superseding", "updating"} =>
           review[r].source \in review[r].todo /\ review[r].decision \in Decisions
    /\ at[r] \in {"syncing", "syncingRun", "answered"} => review[r].todo = {}

PlaceOfFinal(f) ==
    /\ at[f] \in FinalPlaces
    /\ IF at[f] = "idle" THEN final[f] = NoFinal ELSE final[f].of \in Parses
    /\ at[f] = "finalizing" => ~final[f].passed

LEMMA ReviewPlace ==
    ASSUME CadTypes, NEW r \in Reviews, PlaceOfReview(r), ReviewStep(r)
    PROVE  PlaceOfReview(r)'
<1> USE DEF PlaceOfReview, CadTypes, Goto, tables, requests, pool, cad, ReviewPlaces, Reviewing
<1>0. r \in Requests /\ r \notin Parses
  BY RequestsAssumption DEF Requests
<1>1. CASE OpenReview(r)
  BY <1>0, <1>1 DEF OpenReview, NoReview
<1>2. ASSUME NEW s, NEW d, Decided(r, s, d), at[r] # "idle"
      PROVE  PlaceOfReview(r)'
  <2>1. review'[r].of = review[r].of
    BY <1>2, DecidedReview
  <2>2. at'[r] = "reviewing"
    BY <1>0, <1>2 DEF Decided
  <2> QED
    BY <1>2, <2>1, <2>2
<1>3. CASE Decide(r)
  <2>1. \E s, d : at[r] # "idle" /\ Decided(r, s, d)
    BY <1>3 DEF Decide
  <2> QED
    BY <1>2, <2>1
<1>4. CASE UpdateMapping(r)
  <2>1. \E s, d : at[r] # "idle" /\ Decided(r, s, d)
    BY <1>4, Zenon DEF UpdateMapping
  <2> QED
    BY <1>2, <2>1
<1>5. CASE AddRule(r)
  <2>1. PICK s \in review[r].todo, d \in Decisions :
          /\ review'[r].of = review[r].of /\ review'[r].todo = review[r].todo
          /\ review'[r].source = s /\ review'[r].decision = d
    BY <1>5, RuledReview
  <2>5. at[r] = "reviewing" /\ at'[r] = "superseding"
    BY <1>0, <1>5 DEF AddRule
  <2> QED
    BY <2>1, <2>5
<1>6. CASE Supersede(r)
  BY <1>0, <1>6 DEF Supersede
<1>7. CASE ListMappings(r)
  <2>1. review'[r].of = review[r].of /\ review'[r].todo = {}
    BY <1>7, ListedReview
  <2>2. at[r] = "reviewing" /\ at'[r] \in {"answered", "syncing"}
    BY <1>0, <1>7 DEF ListMappings
  <2> QED
    BY <2>1, <2>2
<1>8. CASE SyncSnapshot(r)
  BY <1>0, <1>8 DEF SyncSnapshot
<1>9. CASE SyncRun(r)
  BY <1>0, <1>9 DEF SyncRun
<1>10. CASE BreakOff(r)
  BY <1>0, <1>10 DEF BreakOff
<1> QED
  BY <1>1, <1>3, <1>4, <1>5, <1>6, <1>7, <1>8, <1>9, <1>10 DEF ReviewStep

LEMMA FinalPlace ==
    ASSUME CadTypes, NEW f \in Finals, PlaceOfFinal(f), FinalStep(f)
    PROVE  PlaceOfFinal(f)'
<1> USE DEF PlaceOfFinal, CadTypes, Goto, tables, requests, pool, cad, FinalPlaces
<1>0. f \in Requests /\ f \notin Parses
  BY RequestsAssumption DEF Requests
<1>1. CASE Check(f)
  BY <1>0, <1>1 DEF Check
<1>2. CASE Finalize(f)
  BY <1>0, <1>2 DEF Finalize, FinalRecords
<1>3. CASE BreakOff(f)
  BY <1>0, <1>3 DEF BreakOff
<1> QED
  BY <1>1, <1>2, <1>3 DEF FinalStep

LEMMA PlacesStep ==
    ASSUME CadTypes, Places, CadNext
    PROVE  Places'
<1>0. /\ \A p \in Parses : at[p] \in ImportPlaces
      /\ \A r \in Reviews : PlaceOfReview(r)
      /\ \A f \in Finals : PlaceOfFinal(f)
  BY DEF Places, PlaceOfReview, PlaceOfFinal
<1>1. ASSUME NEW p \in Parses, ImportStep(p)
      PROVE  /\ \A o \in Parses : at'[o] \in ImportPlaces
             /\ \A r \in Reviews : PlaceOfReview(r)'
             /\ \A f \in Finals : PlaceOfFinal(f)'
  <2>1. /\ review' = review /\ final' = final
        /\ \A q \in Requests \ {p} : at'[q] = at[q]
        /\ at'[p] \in ImportPlaces
    BY <1>1, ImportFrame, ImportMoves
  <2>2. \A q \in Reviews \cup Finals : q \in Requests \ {p}
    BY RequestsAssumption DEF Requests
  <2>3. \A o \in Parses : o = p \/ o \in Requests \ {p}
    BY DEF Requests
  <2> QED
    BY <1>0, <2>1, <2>2, <2>3 DEF PlaceOfReview, PlaceOfFinal
<1>2. ASSUME NEW r \in Reviews, ReviewStep(r)
      PROVE  /\ \A o \in Parses : at'[o] \in ImportPlaces
             /\ \A o \in Reviews : PlaceOfReview(o)'
             /\ \A f \in Finals : PlaceOfFinal(f)'
  <2>1. /\ final' = final /\ \A o \in Reviews \ {r} : review'[o] = review[o]
        /\ \A q \in Requests \ {r} : at'[q] = at[q]
    BY <1>2, ReviewFrame DEF ReviewKeeps
  <2>2. PlaceOfReview(r)'
    BY <1>0, <1>2, ReviewPlace
  <2>3. \A q \in Parses \cup Finals : q \in Requests \ {r}
    BY RequestsAssumption DEF Requests
  <2>4. \A o \in Reviews \ {r} : o \in Requests \ {r}
    BY DEF Requests
  <2>5. \A o \in Reviews \ {r} : PlaceOfReview(o)'
    BY <1>0, <2>1, <2>4 DEF PlaceOfReview
  <2>6. \A f \in Finals : PlaceOfFinal(f)'
    BY <1>0, <2>1, <2>3 DEF PlaceOfFinal
  <2> QED
    BY <1>0, <2>1, <2>2, <2>3, <2>5, <2>6
<1>3. ASSUME NEW f \in Finals, FinalStep(f)
      PROVE  /\ \A o \in Parses : at'[o] \in ImportPlaces
             /\ \A r \in Reviews : PlaceOfReview(r)'
             /\ \A o \in Finals : PlaceOfFinal(o)'
  <2>1. /\ review' = review /\ \A o \in Finals \ {f} : final'[o] = final[o]
        /\ \A q \in Requests \ {f} : at'[q] = at[q]
    BY <1>3, FinalFrame
  <2>2. PlaceOfFinal(f)'
    BY <1>0, <1>3, FinalPlace
  <2>3. \A q \in Parses \cup Reviews : q \in Requests \ {f}
    BY RequestsAssumption DEF Requests
  <2>4. \A o \in Finals \ {f} : o \in Requests \ {f}
    BY DEF Requests
  <2>5. \A o \in Finals \ {f} : PlaceOfFinal(o)'
    BY <1>0, <2>1, <2>4 DEF PlaceOfFinal
  <2>6. \A o \in Reviews : PlaceOfReview(o)'
    BY <1>0, <2>1, <2>3 DEF PlaceOfReview
  <2> QED
    BY <1>0, <2>1, <2>2, <2>3, <2>5, <2>6
<1>4. ASSUME Replan
      PROVE  /\ \A o \in Parses : at'[o] \in ImportPlaces
             /\ \A r \in Reviews : PlaceOfReview(r)'
             /\ \A o \in Finals : PlaceOfFinal(o)'
  BY <1>0, <1>4 DEF Replan, PlaceOfReview, PlaceOfFinal, requests
<1>5. /\ \A o \in Parses : at'[o] \in ImportPlaces
      /\ \A r \in Reviews : PlaceOfReview(r)'
      /\ \A o \in Finals : PlaceOfFinal(o)'
  BY <1>1, <1>2, <1>3, <1>4, CadNextSplit, Zenon
<1> QED
  BY <1>5 DEF Places, PlaceOfReview, PlaceOfFinal

LEMMA TypesStep ==
    ASSUME CadTypes, Places, CadNext
    PROVE  CadTypes'
<1>1. CASE Replan
  BY <1>1 DEF Replan, CadTypes, tables, requests
<1> QED
  BY <1>1, CadNextSplit, ImportTypes, ReviewTypes, FinalTypes

-----------------------------------------------------------------------------
(***************************************************************************)
(* Rules.                                                                  *)
(***************************************************************************)
LEMMA RuleFields ==
    ASSUME CadTypes, NEW x \in rules
    PROVE  x.by \in Reviews /\ x.source \in Sources /\ x.by \in Requests
<1>1. PICK r \in Reviews, s \in Sources, d \in Decisions : x = Rule(r, s, d)
  BY DEF CadTypes, RuleRecords
<1> QED
  BY <1>1 DEF Rule, Requests

LEMMA RulesInit == CadInit => RulesInv
  BY DEF CadInit, RulesInv, RivalsMeet, RuledOnce

\* Who makes no rules and is no review disturbs none.
LEMMA RulesUntouched ==
    ASSUME CadTypes, RulesInv, rules' = rules,
           \A r \in Reviews : review'[r] = review[r] /\ at'[r] = at[r]
    PROVE  RulesInv'
<1>1. RivalsMeet'
  BY DEF RulesInv, RivalsMeet
<1>2. RuledOnce'
  BY RuleFields DEF RulesInv, RuledOnce
<1> QED
  BY <1>1, <1>2 DEF RulesInv

\* Nor does a review that makes no rule, if it goes nowhere from superseding but to break off,
\* has less to decide afterwards, and is back from updating with the source decided.
LEMMA RulesReviewed ==
    ASSUME CadTypes, RulesInv, NEW r \in Reviews, rules' = rules,
           \A o \in Reviews \ {r} : review'[o] = review[o] /\ at'[o] = at[o],
           \/ at[r] \notin {"superseding", "broken"}
           \/ at'[r] = "broken" /\ review'[r].source = review[r].source,
           at'[r] # "superseding",
           \/ at[r] = "idle"
           \/ /\ at'[r] \notin {"idle", "updating"}
              /\ review'[r].todo \subseteq review[r].todo
              /\ at'[r] = "reviewing" =>
                     \/ at[r] = "reviewing"
                     \/ at[r] = "updating" /\ review[r].source \notin review'[r].todo
    PROVE  RulesInv'
<1>1. RivalsMeet'
  <2> SUFFICES ASSUME NEW x \in rules, NEW y \in rules, x.source = y.source, x # y
               PROVE  \E o \in Reviews :
                          review'[o].source = x.source /\ at'[o] \in {"superseding", "broken"}
    BY DEF RivalsMeet
  <2>1. PICK o \in Reviews : review[o].source = x.source /\ at[o] \in {"superseding", "broken"}
    BY DEF RulesInv, RivalsMeet
  <2> QED
    BY <2>1
<1>2. RuledOnce'
  <2>1. \A x, y \in rules' : x.source = y.source /\ x.by = y.by => x = y
    BY DEF RulesInv, RuledOnce
  <2>2. ASSUME NEW x \in rules
        PROVE  /\ at'[x.by] # "idle"
               /\ at'[x.by] = "reviewing" => x.source \notin review'[x.by].todo
               /\ at'[x.by] \in {"superseding", "updating"} /\ x.source \in review'[x.by].todo =>
                      x.source = review'[x.by].source
    <3>1. x.by \in Reviews
      BY RuleFields
    <3>2. /\ at[x.by] # "idle"
          /\ at[x.by] = "reviewing" => x.source \notin review[x.by].todo
          /\ at[x.by] \in {"superseding", "updating"} /\ x.source \in review[x.by].todo =>
                 x.source = review[x.by].source
      BY DEF RulesInv, RuledOnce
    <3>3. CASE x.by # r
      BY <3>1, <3>2, <3>3
    <3>4. CASE x.by = r
      BY <3>2, <3>4
    <3> QED
      BY <3>3, <3>4
  <2> QED
    BY <2>1, <2>2 DEF RuledOnce
<1> QED
  BY <1>1, <1>2 DEF RulesInv

LEMMA RulesAdded ==
    ASSUME CadTypes, Places, RulesInv, NEW r \in Reviews, AddRule(r)
    PROVE  RulesInv'
<1>1. PICK s \in review[r].todo, d \in Decisions :
        /\ s \in Sources
        /\ rules' = rules \cup {Rule(r, s, d)}
        /\ review'[r].todo = review[r].todo /\ review'[r].source = s
  BY RuledReview
<1>2. /\ at[r] = "reviewing" /\ at'[r] = "superseding"
      /\ \A o \in Reviews \ {r} : review'[o] = review[o] /\ at'[o] = at[o]
  BY DEF AddRule, Goto, CadTypes, Requests
<1> DEFINE new == Rule(r, s, d)
<1>3. new.by = r /\ new.source = s
  BY DEF Rule
<1> HIDE DEF new
<1>4. \A x \in rules : x.by = r => x.source \notin review[r].todo
  BY <1>2 DEF RulesInv, RuledOnce
<1>5. RivalsMeet'
  <2> SUFFICES ASSUME NEW x \in rules', NEW y \in rules', x.source = y.source, x # y
               PROVE  \E o \in Reviews :
                          review'[o].source = x.source /\ at'[o] \in {"superseding", "broken"}
    BY DEF RivalsMeet
  <2>1. CASE x = new \/ y = new
    BY <1>1, <1>2, <1>3, <2>1
  <2>2. CASE x \in rules /\ y \in rules
    <3>1. PICK o \in Reviews : review[o].source = x.source /\ at[o] \in {"superseding", "broken"}
      BY <2>2 DEF RulesInv, RivalsMeet
    <3> QED
      BY <1>2, <3>1
  <2> QED
    BY <1>1, <2>1, <2>2 DEF new
<1>6. RuledOnce'
  <2>1. ASSUME NEW x \in rules', NEW y \in rules', x.source = y.source, x.by = y.by
        PROVE  x = y
    <3>1. CASE x \in rules /\ y \in rules
      BY <2>1, <3>1 DEF RulesInv, RuledOnce
    <3>2. x \in rules \/ x = new
      BY <1>1 DEF new
    <3>3. y \in rules \/ y = new
      BY <1>1 DEF new
    <3> QED
      BY <1>1, <1>3, <1>4, <2>1, <3>1, <3>2, <3>3
  <2>2. ASSUME NEW x \in rules'
        PROVE  /\ at'[x.by] # "idle"
               /\ at'[x.by] = "reviewing" => x.source \notin review'[x.by].todo
               /\ at'[x.by] \in {"superseding", "updating"} /\ x.source \in review'[x.by].todo =>
                      x.source = review'[x.by].source
    <3>1. CASE x = new
      BY <1>1, <1>2, <1>3, <3>1
    <3>2. CASE x \in rules
      <4>1. x.by \in Reviews
        BY <3>2, RuleFields
      <4>2. /\ at[x.by] # "idle"
            /\ at[x.by] = "reviewing" => x.source \notin review[x.by].todo
            /\ at[x.by] \in {"superseding", "updating"} /\ x.source \in review[x.by].todo =>
                   x.source = review[x.by].source
        BY <3>2 DEF RulesInv, RuledOnce
      <4>3. CASE x.by = r
        BY <1>1, <1>2, <4>2, <4>3
      <4>4. CASE x.by # r
        BY <1>2, <4>1, <4>2, <4>4
      <4> QED
        BY <4>3, <4>4
    <3> QED
      BY <1>1, <3>1, <3>2 DEF new
  <2> QED
    BY <2>1, <2>2 DEF RuledOnce
<1> QED
  BY <1>5, <1>6 DEF RulesInv

LEMMA RulesSuperseded ==
    ASSUME CadTypes, Places, RulesInv, NEW r \in Reviews, Supersede(r)
    PROVE  RulesInv'
<1>1. /\ at[r] = "superseding" /\ at'[r] = "updating" /\ review' = review
      /\ rules' = {rule \in rules : rule.source # review[r].source \/ rule.by = r}
      /\ \A o \in Reviews \ {r} : at'[o] = at[o]
  BY DEF Supersede, Goto, CadTypes, Requests, requests
<1>2. RivalsMeet'
  <2> SUFFICES ASSUME NEW x \in rules', NEW y \in rules', x.source = y.source, x # y
               PROVE  \E o \in Reviews :
                          review'[o].source = x.source /\ at'[o] \in {"superseding", "broken"}
    BY DEF RivalsMeet
  <2>1. x \in rules /\ y \in rules
    BY <1>1
  <2>2. x.source # review[r].source
    BY <1>1, <2>1 DEF RulesInv, RuledOnce
  <2>3. PICK o \in Reviews : review[o].source = x.source /\ at[o] \in {"superseding", "broken"}
    BY <2>1 DEF RulesInv, RivalsMeet
  <2> QED
    BY <1>1, <2>2, <2>3
<1>3. RuledOnce'
  <2>1. ASSUME NEW x \in rules'
        PROVE  /\ at'[x.by] # "idle"
               /\ at'[x.by] = "reviewing" => x.source \notin review'[x.by].todo
               /\ at'[x.by] \in {"superseding", "updating"} /\ x.source \in review'[x.by].todo =>
                      x.source = review'[x.by].source
    <3>1. x \in rules /\ x.by \in Reviews
      BY <1>1, RuleFields
    <3>2. /\ at[x.by] # "idle"
          /\ at[x.by] = "reviewing" => x.source \notin review[x.by].todo
          /\ at[x.by] \in {"superseding", "updating"} /\ x.source \in review[x.by].todo =>
                 x.source = review[x.by].source
      BY <3>1 DEF RulesInv, RuledOnce
    <3>3. CASE x.by = r
      BY <1>1, <3>2, <3>3
    <3>4. CASE x.by # r
      BY <1>1, <3>1, <3>2, <3>4
    <3> QED
      BY <3>3, <3>4
  <2>2. \A x, y \in rules' : x.source = y.source /\ x.by = y.by => x = y
    BY <1>1 DEF RulesInv, RuledOnce
  <2> QED
    BY <2>1, <2>2 DEF RuledOnce
<1> QED
  BY <1>2, <1>3 DEF RulesInv

LEMMA RulesStep ==
    ASSUME CadTypes, Places, RulesInv, CadNext
    PROVE  RulesInv'
<1>1. ASSUME NEW p \in Parses, ImportStep(p)
      PROVE  RulesInv'
  <2>1. \A r \in Reviews : r \in Requests \ {p}
    BY RequestsAssumption DEF Requests
  <2> QED
    BY <1>1, <2>1, ImportFrame, RulesUntouched
<1>2. ASSUME NEW f \in Finals, FinalStep(f)
      PROVE  RulesInv'
  <2>1. \A r \in Reviews : r \in Requests \ {f}
    BY RequestsAssumption DEF Requests
  <2> QED
    BY <1>2, <2>1, FinalFrame, RulesUntouched
<1>3. ASSUME Replan
      PROVE  RulesInv'
  BY <1>3, RulesUntouched DEF Replan, tables, requests
<1>4. ASSUME NEW r \in Reviews, ReviewStep(r)
      PROVE  RulesInv'
  <2>1. \A o \in Reviews \ {r} : review'[o] = review[o] /\ at'[o] = at[o]
    BY <1>4, ReviewFrame DEF ReviewKeeps, Requests
  <2>2. r \in Requests
    BY DEF Requests
  <2>3. CASE OpenReview(r)
    <3>1. rules' = rules /\ at[r] = "idle" /\ at'[r] = "reviewing"
      BY <2>2, <2>3 DEF OpenReview, Goto, tables, CadTypes
    <3> QED
      BY <2>1, <3>1, RulesReviewed
  <2>4. CASE Decide(r)
    <3>1. PICK s \in review[r].todo, d \in Decisions :
              at[r] = "reviewing" /\ rules' = rules /\ Decided(r, s, d)
      BY <2>4, Zenon DEF Decide
    <3>2. at'[r] = "reviewing"
      BY <2>2, <3>1 DEF Decided, Goto, CadTypes
    <3>3. review'[r].todo \subseteq review[r].todo
      BY <3>1, DecidedReview
    <3> QED
      BY <2>1, <3>1, <3>2, <3>3, RulesReviewed
  <2>5. CASE UpdateMapping(r)
    <3>1. /\ at[r] = "updating" /\ rules' = rules
          /\ Decided(r, review[r].source, review[r].decision)
      BY <2>5 DEF UpdateMapping
    <3>2. at'[r] = "reviewing"
      BY <2>2, <3>1 DEF Decided, Goto, CadTypes
    <3>3. review'[r].todo = review[r].todo \ {review[r].source}
      BY <3>1, DecidedReview
    <3> QED
      BY <2>1, <3>1, <3>2, <3>3, RulesReviewed
  <2>6. CASE ListMappings(r)
    <3>1. /\ rules' = rules /\ at[r] = "reviewing" /\ at'[r] \in {"answered", "syncing"}
      BY <2>2, <2>6 DEF ListMappings, Goto, tables, CadTypes
    <3>2. review'[r].todo = {}
      BY <2>6, ListedReview
    <3> QED
      BY <2>1, <3>1, <3>2, RulesReviewed
  <2>7. CASE SyncSnapshot(r) \/ SyncRun(r)
    <3>1. /\ rules' = rules /\ review' = review /\ at[r] \in {"syncing", "syncingRun"}
          /\ at'[r] \in {"syncingRun", "answered"}
      BY <2>2, <2>7 DEF SyncSnapshot, SyncRun, Goto, requests, CadTypes
    <3> QED
      BY <2>1, <3>1, RulesReviewed
  <2>8. CASE BreakOff(r)
    <3>1. /\ rules' = rules /\ review' = review /\ at[r] # "broken" /\ at'[r] = "broken"
      BY <2>2, <2>8 DEF BreakOff, Goto, requests, tables, CadTypes
    <3> QED
      BY <2>1, <3>1, RulesReviewed
  <2> QED
    BY <1>4, <2>3, <2>4, <2>5, <2>6, <2>7, <2>8, RulesAdded, RulesSuperseded DEF ReviewStep
<1> QED
  BY <1>1, <1>2, <1>3, <1>4, CadNextSplit

\* Without a review in between, the rivals are one rule.
LEMMA RulesSettled == CadTypes /\ RulesInv => RulesNeverConflict
<1> SUFFICES ASSUME CadTypes, RulesInv, \A r \in Reviews : at[r] \notin {"superseding", "broken"},
                    NEW s \in Sources
             PROVE  Cardinality({rule \in rules : rule.source = s}) <= 1
  BY Zenon DEF RulesNeverConflict
<1> DEFINE S == {rule \in rules : rule.source = s}
<1>1. \A x, y \in S : x = y
  BY DEF RulesInv, RivalsMeet
<1>2. CASE S = {}
  BY <1>2, FS_EmptySet
<1>3. CASE S # {}
  <2>1. PICK x \in S : TRUE
    BY <1>3
  <2>2. S = {x}
    BY <1>1, <2>1
  <2>3. Cardinality(S) = 1
    BY <2>2, FS_Singleton
  <2> QED
    BY <2>3
<1> QED
  BY <1>2, <1>3

-----------------------------------------------------------------------------
(***************************************************************************)
(* Mappings.                                                               *)
(***************************************************************************)
LEMMA MappingsInit == CadInit => MappingsInv
  BY DEF CadInit, MappingsInv, TodoMapped, LeftUnmapped, NoReview


\* An import maps the sources that it has left, once each.
LEMMA ImportMaps ==
    ASSUME CadTypes, NEW p \in Parses, ImportStep(p), NEW o \in Parses, NEW s \in Sources
    PROVE  \/ mappings'[o][s] = mappings[o][s]
           \/ /\ o = p /\ at[p] = "mapping" /\ s \in importing[p].left
              /\ mappings'[p][s] \in MappingRecords
<1> USE DEF CadTypes, Goto, tables, requests, cad
<1>1. CASE MapSource(p)
  <2>1. PICK t \in importing[p].left, d \in MappingRecords :
              /\ at[p] = "mapping"
              /\ mappings' = [mappings EXCEPT ![p][t] = d]
              /\ importing' = [importing EXCEPT ![p].left = @ \ {t}]
              /\ d.status = "NEEDS_REVIEW" <=> Cardinality(Matches(p, t)) # 1
    BY <1>1, MapSourceMaps, Zenon
  <2> QED
    BY <2>1
<1>2. CASE ~MapSource(p)
  <2>1. mappings' = mappings
    BY <1>2 DEF ImportStep, Upload, BeginParsing, Parse, CreateSnapshot, StoreGraph, ReadRules,
                CloseSnapshot, CloseRun, Fail, BreakOff
  <2> QED
    BY <2>1
<1> QED
  BY <1>1, <1>2

\* A review decides the sources that it has to.
LEMMA ReviewDecides ==
    ASSUME CadTypes, Places, NEW r \in Reviews, ReviewStep(r), NEW p \in Parses, NEW s \in Sources
    PROVE  \/ mappings'[p][s] = mappings[p][s]
           \/ /\ p = review[r].of /\ s \in review[r].todo
              /\ mappings'[p][s] \in MappingRecords
<1> USE DEF tables, requests
<1>1. ASSUME NEW t \in review[r].todo, NEW d \in Decisions, Decided(r, t, d)
      PROVE  \/ mappings'[p][s] = mappings[p][s]
             \/ p = review[r].of /\ s \in review[r].todo /\ mappings'[p][s] \in MappingRecords
  BY <1>1 DEF Decided, CadTypes, MappingRecords
<1>2. CASE Decide(r)
  BY <1>1, <1>2 DEF Decide
<1>3. CASE UpdateMapping(r)
  BY <1>1, <1>3 DEF UpdateMapping, Places
<1>4. CASE ~Decide(r) /\ ~UpdateMapping(r)
  <2>1. mappings' = mappings
    BY <1>4 DEF ReviewStep, OpenReview, AddRule, Supersede, ListMappings, SyncSnapshot, SyncRun,
                BreakOff
  <2> QED
    BY <2>1
<1> QED
  BY <1>2, <1>3, <1>4

LEMMA ImportMappings ==
    ASSUME CadTypes, Places, MappingsInv, NEW p \in Parses, ImportStep(p)
    PROVE  MappingsInv'
<1>1. ASSUME NEW r \in Reviews
      PROVE  TodoMapped(r)'
  <2>1. review' = review
    BY ImportFrame
  <2>2. ASSUME NEW s \in review[r].todo
        PROVE  mappings'[review[r].of][s] # None
    <3>1. s \in Sources /\ review[r].of \in Parses
      BY OneReview DEF Places, NoReview
    <3>2. mappings[review[r].of][s] # None
      BY DEF MappingsInv, TodoMapped
    <3> QED
      BY <3>1, <3>2, ImportMaps, MappingsAssumption
  <2> QED
    BY <2>1, <2>2 DEF TodoMapped
<1>2. ASSUME NEW o \in Parses \ {p}
      PROVE  LeftUnmapped(o)'
  BY ImportFrame DEF Requests, MappingsInv, LeftUnmapped
<1>3. LeftUnmapped(p)'
  <2> USE DEF CadTypes, Goto, tables, requests, cad
  <2>0. p \in Requests /\ LeftUnmapped(p)
    BY DEF Requests, MappingsInv
  <2>1. CASE Upload(p) \/ BeginParsing(p)
    BY <2>0, <2>1 DEF LeftUnmapped, Upload, BeginParsing
  <2>2. CASE CreateSnapshot(p) \/ StoreGraph(p)
    BY <2>0, <2>2 DEF LeftUnmapped, CreateSnapshot, StoreGraph
  <2>3. CASE Parse(p)
    BY <2>0, <2>3 DEF LeftUnmapped, Parse
  <2>4. CASE ReadRules(p)
    <3>1. SourcesOf(graphs[p]) \subseteq Sources
      BY SourcesOfFiles
    <3> QED
      BY <2>0, <2>4, <3>1 DEF LeftUnmapped, ReadRules
  <2>5. CASE MapSource(p)
    <3>1. PICK t \in importing[p].left, d \in MappingRecords :
                /\ at[p] = "mapping"
                /\ mappings' = [mappings EXCEPT ![p][t] = d]
                /\ importing' = [importing EXCEPT ![p].left = @ \ {t}]
                /\ d.status = "NEEDS_REVIEW" <=> Cardinality(Matches(p, t)) # 1
      BY <2>5, MapSourceMaps, Zenon
    <3>2. at' = at
      BY <2>5 DEF MapSource
    <3> QED
      BY <2>0, <3>1, <3>2 DEF LeftUnmapped
  <2>6. CASE CloseSnapshot(p) \/ CloseRun(p) \/ Fail(p) \/ BreakOff(p)
    BY <2>0, <2>6 DEF LeftUnmapped, CloseSnapshot, CloseRun, Fail, BreakOff
  <2> QED
    BY <2>1, <2>2, <2>3, <2>4, <2>5, <2>6 DEF ImportStep
<1> QED
  BY <1>1, <1>2, <1>3 DEF MappingsInv

LEMMA ReviewMappings ==
    ASSUME CadTypes, Places, MappingsInv, NEW r \in Reviews, ReviewStep(r)
    PROVE  MappingsInv'
<1>1. \A p \in Parses, s \in Sources : mappings[p][s] # None => mappings'[p][s] # None
  BY ReviewDecides, MappingsAssumption
<1>2. \A p \in Parses, s \in Sources : mappings[p][s] = None => mappings'[p][s] = None
  BY ReviewDecides DEF MappingsInv, TodoMapped
<1>3. ASSUME NEW p \in Parses
      PROVE  LeftUnmapped(p)'
  <2>1. importing'[p] = importing[p] /\ at'[p] = at[p] /\ importing[p].left \subseteq Sources
    BY ReviewFrame, RequestsAssumption DEF ReviewKeeps, Requests, CadTypes
  <2> QED
    BY <1>2, <2>1 DEF MappingsInv, LeftUnmapped
<1>4. ASSUME NEW o \in Reviews, review'[o].todo \subseteq review[o].todo, review'[o].of = review[o].of
      PROVE  TodoMapped(o)'
  <2>1. ASSUME NEW s \in review'[o].todo
        PROVE  mappings'[review'[o].of][s] # None
    <3>1. s \in Sources /\ review[o].of \in Parses
      BY <1>4, OneReview DEF Places, NoReview
    <3>2. mappings[review[o].of][s] # None
      BY <1>4 DEF MappingsInv, TodoMapped
    <3> QED
      BY <1>1, <1>4, <3>1, <3>2
  <2> QED
    BY <2>1 DEF TodoMapped
<1>5. ASSUME NEW o \in Reviews \ {r}
      PROVE  TodoMapped(o)'
  BY <1>4, ReviewFrame DEF ReviewKeeps
<1>6. TodoMapped(r)'
  <2>1. CASE OpenReview(r)
    BY <2>1 DEF OpenReview, TodoMapped, NoReview, CadTypes, tables
  <2>2. ASSUME NEW s, NEW d, Decided(r, s, d)
        PROVE  TodoMapped(r)'
    BY <1>4, <2>2, DecidedReview
  <2>3. CASE Decide(r) \/ UpdateMapping(r)
    BY <2>2, <2>3, Zenon DEF Decide, UpdateMapping
  <2>4. CASE AddRule(r)
    BY <1>4, <2>4, RuledReview
  <2>5. CASE ListMappings(r)
    BY <1>4, <2>5, ListedReview
  <2>6. CASE Supersede(r) \/ SyncSnapshot(r) \/ SyncRun(r) \/ BreakOff(r)
    <3>1. review' = review
      BY <2>6 DEF Supersede, SyncSnapshot, SyncRun, BreakOff, requests
    <3> QED
      BY <1>4, <3>1
  <2> QED
    BY <2>1, <2>3, <2>4, <2>5, <2>6 DEF ReviewStep
<1> QED
  BY <1>3, <1>5, <1>6 DEF MappingsInv

LEMMA MappingsStep ==
    ASSUME CadTypes, Places, MappingsInv, CadNext
    PROVE  MappingsInv'
<1>1. ASSUME NEW f \in Finals, FinalStep(f)
      PROVE  MappingsInv'
  <2>1. mappings' = mappings /\ review' = review /\ importing' = importing
        /\ \A p \in Parses : at'[p] = at[p]
    BY <1>1, FinalFrame, RequestsAssumption DEF Requests
  <2> QED
    BY <2>1 DEF MappingsInv, TodoMapped, LeftUnmapped
<1>2. CASE Replan
  BY <1>2 DEF Replan, MappingsInv, TodoMapped, LeftUnmapped, tables, requests
<1> QED
  BY <1>1, <1>2, CadNextSplit, ImportMappings, ReviewMappings

\* A mapping that is changed was mapped before, so that no import changes it.
LEMMA MappingsStand ==
    ASSUME CadTypes, Places, MappingsInv, CadNext,
           NEW p \in Parses, NEW s \in Sources, mappings[p][s] \notin {None, mappings'[p][s]}
    PROVE  \E r \in Reviews : review[r].of = p /\ s \in review[r].todo
<1>1. ASSUME NEW o \in Parses, ImportStep(o)
      PROVE  FALSE
  BY <1>1, ImportMaps DEF MappingsInv, LeftUnmapped
<1>2. ASSUME NEW r \in Reviews, ReviewStep(r)
      PROVE  review[r].of = p /\ s \in review[r].todo
  BY <1>2, ReviewDecides
<1>3. ASSUME NEW f \in Finals, FinalStep(f)
      PROVE  FALSE
  BY <1>3, FinalFrame
<1>4. ~Replan
  BY DEF Replan, tables
<1> QED
  BY <1>1, <1>2, <1>3, <1>4, CadNextSplit

-----------------------------------------------------------------------------
(***************************************************************************)
(* The hierarchy.                                                          *)
(***************************************************************************)
LEMMA LeastNatural ==
    ASSUME NEW T \in SUBSET Nat, T # {}
    PROVE  \E x \in T : \A y \in T : ~(y < x)
<1> DEFINE R == OpToRel(<, Nat)
<1>1. R = {pair \in Nat \X Nat : pair[1] < pair[2]}
  BY DEF OpToRel
<1>2. IsWellFoundedOn(R, Nat)
  BY NatLessThanWellFounded
<1> HIDE DEF R
<1>3. \E x \in T : \A y \in T : ~(<<y, x>> \in R)
  BY <1>2, WFMin
<1> QED
  BY <1>1, <1>3

LEMMA Induction ==
    ASSUME NEW S \in SUBSET Nat, 0 \in S, \A k \in S : k + 1 \in S
    PROVE  S = Nat
<1> SUFFICES ASSUME Nat \ S # {} PROVE FALSE
  OBVIOUS
<1>1. PICK x \in Nat \ S : \A y \in Nat \ S : ~(y < x)
  BY LeastNatural
<1>2. x # 0 /\ x - 1 \in Nat
  BY <1>1
<1>3. x - 1 \in S
  BY <1>1, <1>2
<1> QED
  BY <1>1, <1>2, <1>3

\* What can be reached upwards in one step more.
Up(g, X) == X \cup {g.parent[m] : m \in X \ {None}}
Climbs(f, g, n, K) == f = [k \in 1..K |-> IF k = 1 THEN {g.parent[n]} ELSE Up(g, f[k - 1])]

\* The walk to the root is defined, however far it goes.
LEMMA ClimbExists ==
    ASSUME NEW g, NEW n, NEW K \in Nat
    PROVE  \E f : Climbs(f, g, n, K)
<1> DEFINE D == {k \in Nat : \E f : Climbs(f, g, n, k)}
<1>1. 0 \in D
  <2> DEFINE f == [k \in 1..0 |-> {g.parent[n]}]
  <2>1. f = [k \in 1..0 |-> IF k = 1 THEN {g.parent[n]} ELSE Up(g, f[k - 1])]
    OBVIOUS
  <2> HIDE DEF f
  <2>2. Climbs(f, g, n, 0)
    BY <2>1 DEF Climbs
  <2> QED
    BY <2>2
<1>2. ASSUME NEW k \in D
      PROVE  k + 1 \in D
  <2>1. PICK f : Climbs(f, g, n, k)
    OBVIOUS
  <2> DEFINE next(h, j) == IF j = 1 THEN {g.parent[n]} ELSE Up(g, h[j - 1])
             h == [j \in 1..(k + 1) |-> IF j = k + 1 THEN next(f, j) ELSE f[j]]
  <2>2. \A j \in 1..k : f[j] = next(f, j)
    BY <2>1 DEF Climbs
  <2>3. \A j \in 1..(k + 1) : next(h, j) = next(f, j)
    <3> SUFFICES ASSUME NEW j \in 1..(k + 1), j # 1
                 PROVE  h[j - 1] = f[j - 1]
      OBVIOUS
    <3>1. j - 1 \in 1..(k + 1) /\ j - 1 # k + 1
      OBVIOUS
    <3> QED
      BY <3>1
  <2>4. \A j \in 1..(k + 1) : h[j] = next(f, j)
    <3> SUFFICES ASSUME NEW j \in 1..(k + 1) PROVE h[j] = next(f, j)
      OBVIOUS
    <3>1. CASE j = k + 1
      BY <3>1
    <3>2. CASE j # k + 1
      <4>1. j \in 1..k /\ h[j] = f[j]
        BY <3>2
      <4> HIDE DEF h, next
      <4> QED
        BY <4>1, <2>2
    <3> QED
      BY <3>1, <3>2
  <2>5. h = [j \in 1..(k + 1) |-> next(h, j)]
    <3>1. h = [j \in 1..(k + 1) |-> h[j]]
      OBVIOUS
    <3> HIDE DEF h, next
    <3> QED
      BY <2>3, <2>4, <3>1
  <2>6. Climbs(h, g, n, k + 1)
    BY <2>5 DEF Climbs
  <2> QED
    BY <2>6
<1> HIDE DEF D
<1>3. D = Nat
  <2>1. D \in SUBSET Nat
    BY DEF D
  <2> QED
    BY <1>1, <1>2, <2>1, Induction
<1> QED
  BY <1>3 DEF D

\* The nodes above a node are nodes, its parent is one of them, and each of them holds it.
LEMMA AboveHolds ==
    ASSUME NEW g, IsGraph(g), NEW n \in DOMAIN g.parent
    PROVE  /\ Above(g, n) \in SUBSET DOMAIN g.parent
           /\ g.parent[n] # None => g.parent[n] \in Above(g, n)
           /\ \A a \in Above(g, n) : Holds(g, a, n)
<1> DEFINE K == Cardinality(Nodes)
           D == DOMAIN g.parent
           above == CHOOSE f : Climbs(f, g, n, K)
<1>1. K \in Nat /\ K >= 1
  <2>1. IsFiniteSet(Nodes) /\ n \in Nodes
    BY FilesAssumption DEF IsGraph
  <2> QED
    BY <2>1, FS_CardinalityType, FS_EmptySet
<1>2. Above(g, n) = above[K] \ {None}
  BY DEF Above, Climbs, Up
<1>3. Climbs(above, g, n, K)
  BY <1>1, ClimbExists
<1> HIDE DEF above, K
<1>4. /\ above[1] = {g.parent[n]}
      /\ \A k \in 1..K : k # 1 => above[k] = Up(g, above[k - 1])
  <2>1. \A k \in 1..K : above[k] = IF k = 1 THEN {g.parent[n]} ELSE Up(g, above[k - 1])
    BY ONLY <1>3 DEF Climbs
  <2>2. 1 \in 1..K
    BY <1>1
  <2> QED
    BY ONLY <2>1, <2>2
<1>5. None \notin D /\ \A m \in D : g.parent[m] \in D \cup {None}
  BY FilesAssumption DEF IsGraph, Sources
<1> DEFINE Closed(S) == \A c \in D : g.parent[c] \in S => c \in S
           Right(X) == /\ X \subseteq D \cup {None}
                       /\ g.parent[n] \in X
                       /\ \A S \in SUBSET D : Closed(S) /\ X \cap S # {} => n \in S
           I == {k \in Nat : k \in 1..K => Right(above[k])}
<1>6. 0 \in I
  OBVIOUS
<1>7. Right(above[1])
  BY <1>4, <1>5
<1>8. ASSUME NEW X, Right(X)
      PROVE  Right(Up(g, X))
  <2>1. Up(g, X) \subseteq D \cup {None} /\ g.parent[n] \in Up(g, X)
    BY <1>5, <1>8 DEF Up
  <2>2. ASSUME NEW S \in SUBSET D, Closed(S), NEW a \in Up(g, X), a \in S
        PROVE  n \in S
    <3>1. CASE a \in X
      BY <1>8, <2>2, <3>1
    <3>2. CASE \E m \in X \ {None} : a = g.parent[m]
      <4>1. PICK m \in X \ {None} : a = g.parent[m]
        BY <3>2
      <4>2. m \in D /\ m \in S
        BY <1>8, <2>2, <4>1
      <4> QED
        BY <1>8, <2>2, <4>2
    <3> QED
      BY <3>1, <3>2 DEF Up
  <2> HIDE DEF D, Closed
  <2> QED
    BY <2>1, <2>2
<1>9. ASSUME NEW k \in I
      PROVE  k + 1 \in I
  <2> SUFFICES ASSUME k + 1 \in 1..K
               PROVE  Right(above[k + 1])
    OBVIOUS
  <2>1. CASE k = 0
    BY <1>7, <2>1
  <2>2. CASE k # 0
    <3>1. k \in 1..K /\ k + 1 # 1 /\ (k + 1) - 1 = k
      BY <1>1, <2>2
    <3>2. Right(above[k])
      BY <3>1
    <3>3. above[k + 1] = Up(g, above[k])
      BY <1>4, <3>1
    <3> HIDE DEF Right
    <3> QED
      BY <1>8, <3>2, <3>3
  <2> QED
    BY <2>1, <2>2
<1>10. Right(above[K])
  <2>1. I = Nat
    <3>1. I \in SUBSET Nat
      OBVIOUS
    <3> HIDE DEF I
    <3> QED
      BY <1>6, <1>9, <3>1, Induction
  <2>2. K \in I /\ K \in 1..K
    BY <1>1, <2>1
  <2> HIDE DEF Right
  <2> QED
    BY <2>2
<1> QED
  BY <1>2, <1>10 DEF Holds

LEMMA NodesAreDeep ==
    ASSUME NEW g, IsGraph(g), NEW n \in DOMAIN g.parent, g.parent[n] # None
    PROVE  Depth(g, n) = 1 \/ Depth(g, n) > 1
<1>1. Above(g, n) \in SUBSET Nodes /\ g.parent[n] \in Above(g, n)
  BY AboveHolds DEF IsGraph
<1>2. IsFiniteSet(Above(g, n))
  BY <1>1, FilesAssumption, FS_Subset
<1>3. Cardinality(Above(g, n)) \in Nat /\ Cardinality(Above(g, n)) # 0
  BY <1>1, <1>2, FS_CardinalityType, FS_EmptySet
<1> QED
  BY <1>3 DEF Depth

\* A snapshot without issues is reviewed.
LEMMA IssuesTell ==
    ASSUME NEW g \in Graphs \cup {NoGraph}, NEW m, NEW now \in SUBSET (Parts \cup {Mechanism}),
           HierarchyIssues(g, m, now) = {}
    PROVE  Reviewed(g, m)
<1>1. CASE g = NoGraph
  <2>1. DOMAIN g.parent = {} /\ DOMAIN g.holder = {}
    BY <1>1 DEF NoGraph
  <2> QED
    BY <2>1 DEF Reviewed
<1>2. CASE g \in Graphs
  <2>1. IsGraph(g)
    BY <1>2, FilesAssumption
  <2>2. ASSUME NEW n \in DOMAIN g.parent, NEW kind,
               Confirmed(m, n, {kind}) \/ ConfirmedAncestor(g, m, n, kind)
        PROVE  n \in Below(g, m, {kind})
    <3>1. CASE Confirmed(m, n, {kind})
      BY <3>1 DEF Below, Holds
    <3>2. CASE ConfirmedAncestor(g, m, n, kind)
      <4>1. PICK a \in Above(g, n) : Confirmed(m, a, {kind})
        BY <3>2 DEF ConfirmedAncestor
      <4>2. a \in DOMAIN g.parent /\ Holds(g, a, n)
        BY <2>1, AboveHolds
      <4> QED
        BY <4>1, <4>2 DEF Below
    <3> QED
      BY <2>2, <3>1, <3>2
  <2>3. ASSUME NEW p \in DOMAIN g.holder, g.holder[p] # None
        PROVE  g.holder[p] \in Below(g, m, {"SUBSYSTEM"})
    <3>1. g.holder[p] \in DOMAIN g.parent
      BY <2>1, <2>3 DEF IsGraph
    <3>2. p \notin OutsideParts(g, m)
      BY DEF HierarchyIssues
    <3>3. \/ Confirmed(m, g.holder[p], {"SUBSYSTEM"})
          \/ ConfirmedAncestor(g, m, g.holder[p], "SUBSYSTEM")
      BY <2>3, <3>2 DEF OutsideParts
    <3> QED
      BY <2>2, <3>1, <3>3
  <2>4. ASSUME NEW n \in DOMAIN g.parent, g.parent[n] # None
        PROVE  m[n] # None /\ m[n].status = "CONFIRMED" /\ m[n].kind # "UNMAPPED"
    <3>1. n \notin UndecidedLayer(g, m)
      BY DEF HierarchyIssues
    <3>2. Depth(g, n) = 1 \/ Depth(g, n) > 1
      BY <2>1, <2>4, NodesAreDeep
    <3>3. Confirmed(m, n, {"SUBSYSTEM", "MECHANISM", "COMPONENT_ASSEMBLY", "IGNORE"})
      BY <3>1, <3>2 DEF UndecidedLayer, Confirmed
    <3> QED
      BY <3>3 DEF Confirmed
  <2>5. ASSUME NEW n \in DOMAIN g.parent, Confirmed(m, n, {"COMPONENT_ASSEMBLY"})
        PROVE  m[n].target # None \/ n \in Below(g, m, {"MECHANISM"})
    <3>1. n \notin OrphanedComponents(g, m, now)
      BY DEF HierarchyIssues
    <3>2. ConfirmedAncestor(g, m, n, "MECHANISM") \/ m[n].target \in now
      BY <2>5, <3>1 DEF OrphanedComponents
    <3>3. None \notin now
      BY FilesAssumption DEF Sources
    <3> QED
      BY <2>2, <3>2, <3>3
  <2> QED
    BY <2>3, <2>4, <2>5 DEF Reviewed
<1> QED
  BY <1>1, <1>2

-----------------------------------------------------------------------------
(***************************************************************************)
(* Records.                                                                *)
(***************************************************************************)
LEMMA RecordsInit == CadInit => RecordsInv
<1> SUFFICES ASSUME CadInit, NEW p \in Parses PROVE RecordOf(p)
  BY DEF RecordsInv
<1>1. Handling(p) = {} /\ Under(p) = {}
  BY DEF CadInit, Handling, Under, Finalizing
<1>2. at[p] = "idle"
  BY DEF CadInit
<1> QED
  BY <1>1, <1>2 DEF RecordOf, ImportRecord

Same(q) ==
    /\ at'[q] = at[q]
    /\ q \in Reviews => review'[q] = review[q]
    /\ q \in Finals => final'[q] = final[q]
Elsewhere(q, p) ==
    /\ q \in Reviews => review[q].of # p /\ review'[q].of # p
    /\ q \in Finals => final[q].of # p /\ final'[q].of # p

\* Whoever handles an import still does if nothing of it changes.
LEMMA HandlingSame ==
    ASSUME NEW p \in Parses, \A q \in Reviews \cup Finals : Same(q) \/ Elsewhere(q, p)
    PROVE  Under(p)' = Under(p) /\ Finalizing(p)' = Finalizing(p) /\ Handling(p)' = Handling(p)
<1>1. Under(p)' = Under(p)
  BY DEF Under, Same, Elsewhere
<1>2. Finalizing(p)' = Finalizing(p)
  BY DEF Finalizing, Same, Elsewhere
<1> QED
  BY <1>1, <1>2 DEF Handling

LEMMA RecordSame ==
    ASSUME NEW p \in Parses, RecordOf(p),
           at'[p] = at[p], runs'[p] = runs[p], snapshots'[p] = snapshots[p],
           graphs'[p] = graphs[p], mappings'[p] = mappings[p], importing'[p] = importing[p],
           \A q \in Reviews \cup Finals : Same(q) \/ Elsewhere(q, p)
    PROVE  RecordOf(p)'
<1>1. Under(p)' = Under(p) /\ Finalizing(p)' = Finalizing(p) /\ Handling(p)' = Handling(p)
  BY HandlingSame
<1>2. Unresolved(p)' = Unresolved(p) /\ \A s \in Sources : Open(p, s)' = Open(p, s)
  BY DEF Unresolved, Open
<1>3. LeftOpen(p)' = LeftOpen(p) /\ \A s \in Sources : Matches(p, s)' = Matches(p, s)
  BY DEF LeftOpen, Matches
<1>4. ImportRecord(p)'
  <2>1. Agree(p)' = Agree(p)
    BY <1>2 DEF Agree, SnapshotStatus, RunStatus
  <2>2. at'[p] = "mapping" =>
            /\ importing'[p].left \subseteq SourcesOf(graphs'[p])
            /\ \A s \in Sources : Open(p, s)' <=> /\ s \in SourcesOf(graphs'[p]) \ importing'[p].left
                                                  /\ Cardinality(Matches(p, s)') # 1
    BY <1>2, <1>3 DEF RecordOf, ImportRecord
  <2>3. at'[p] = "closing" =>
           Unresolved(p)' = LeftOpen(p)' /\ snapshots'[p] = SnapshotStatus(LeftOpen(p))'
    BY <1>2, <1>3 DEF RecordOf, ImportRecord, SnapshotStatus
  <2>4. at'[p] = "done" /\ Under(p)' = {} => Agree(p)'
    BY <1>1, <2>1 DEF RecordOf, ImportRecord
  <2> QED
    BY <2>2, <2>3, <2>4 DEF ImportRecord
<1>5. ASSUME NEW r \in Under(p)
      PROVE  ReviewRecord(p, r)'
  <2>1. ReviewRecord(p, r)
    BY DEF RecordOf
  <2>2. at'[r] = at[r] /\ review'[r] = review[r]
    BY DEF Under, Same, Elsewhere
  <2> QED
    BY <1>2, <2>1, <2>2 DEF ReviewRecord, SnapshotStatus
<1> QED
  BY <1>1, <1>4, <1>5 DEF RecordOf

LEMMA ImportRecords ==
    ASSUME CadTypes, Places, MappingsInv, NEW p \in Parses, p \notin crossed, RecordOf(p),
           ImportStep(p)
    PROVE  RecordOf(p)'
<1> USE DEF CadTypes, Goto, tables, requests, cad
<1>0. p \in Requests /\ LeftUnmapped(p) /\ ImportRecord(p)
  BY DEF Requests, MappingsInv, RecordOf
<1>1. Handling(p) = {} /\ Under(p) = {}
  BY ImportMoves DEF RecordOf, Handling
<1>2. Handling(p)' = {} /\ Under(p)' = {}
  <2>1. \A q \in Reviews \cup Finals : Same(q)
    BY ImportFrame, RequestsAssumption DEF Requests, Same
  <2> QED
    BY <1>1, <2>1, HandlingSame
<1>3. CASE at'[p] \notin {"mapping", "closing", "done"}
  BY <1>2, <1>3 DEF RecordOf, ImportRecord
<1>4. CASE ReadRules(p)
  <2>1. /\ at[p] = "reading" /\ at'[p] = "mapping"
        /\ graphs'[p] = graphs[p] /\ mappings'[p] = mappings[p]
        /\ importing'[p].left = SourcesOf(graphs[p])
    BY <1>0, <1>4 DEF ReadRules
  <2>2. \A s \in Sources : ~Open(p, s)'
    BY <1>0, <2>1 DEF LeftUnmapped, Open
  <2>3. ImportRecord(p)'
    BY <2>1, <2>2 DEF ImportRecord
  <2> QED
    BY <1>2, <2>3 DEF RecordOf
<1>5. CASE MapSource(p)
  <2>1. PICK t \in importing[p].left, d \in MappingRecords :
              /\ at[p] = "mapping"
              /\ mappings' = [mappings EXCEPT ![p][t] = d]
              /\ importing' = [importing EXCEPT ![p].left = @ \ {t}]
              /\ d.status = "NEEDS_REVIEW" <=> Cardinality(Matches(p, t)) # 1
    BY <1>5, MapSourceMaps, Zenon
  <2>2. at' = at /\ graphs' = graphs
    BY <1>5 DEF MapSource
  <2>3. importing'[p].left = importing[p].left \ {t} /\ importing'[p].rules = importing[p].rules
    BY <2>1
  <2>4. \A s \in Sources : Matches(p, s)' = Matches(p, s)
    BY <2>3 DEF Matches
  <2>5. ASSUME NEW s \in Sources
        PROVE  Open(p, s)' <=> /\ s \in SourcesOf(graphs[p]) \ importing'[p].left
                               /\ Cardinality(Matches(p, s)) # 1
    <3>1. CASE s = t
      <4>1. mappings'[p][s] = d /\ d # None
        BY <2>1, <3>1, MappingsAssumption
      <4>2. s \in SourcesOf(graphs[p])
        BY <1>0, <2>1, <3>1 DEF ImportRecord
      <4> QED
        BY <2>1, <2>3, <3>1, <4>1, <4>2 DEF Open
    <3>2. CASE s # t
      <4>1. mappings'[p][s] = mappings[p][s]
        BY <2>1, <3>2
      <4>2. Open(p, s) <=> /\ s \in SourcesOf(graphs[p]) \ importing[p].left
                           /\ Cardinality(Matches(p, s)) # 1
        BY <1>0, <2>1 DEF ImportRecord
      <4> QED
        BY <2>3, <3>2, <4>1, <4>2 DEF Open
    <3> QED
      BY <3>1, <3>2
  <2>6. importing'[p].left \subseteq SourcesOf(graphs'[p])
    BY <1>0, <2>1, <2>2, <2>3 DEF ImportRecord
  <2>7. ImportRecord(p)'
    BY <2>1, <2>2, <2>4, <2>5, <2>6 DEF ImportRecord
  <2> QED
    BY <1>2, <2>7 DEF RecordOf
<1>6. CASE CloseSnapshot(p)
  <2>1. /\ at[p] = "mapping" /\ importing[p].left = {} /\ at'[p] = "closing"
        /\ graphs' = graphs /\ mappings' = mappings /\ importing' = importing
        /\ snapshots'[p] = SnapshotStatus(LeftOpen(p))
    BY <1>0, <1>6 DEF CloseSnapshot
  <2>2. LeftOpen(p)' = LeftOpen(p) /\ Unresolved(p)' = Unresolved(p)
    BY <2>1 DEF LeftOpen, Matches, Unresolved
  <2>3. Unresolved(p) = LeftOpen(p)
    <3>1. \A s \in Sources : Open(p, s) <=> s \in SourcesOf(graphs[p]) /\ Cardinality(Matches(p, s)) # 1
      BY <1>0, <2>1 DEF ImportRecord
    <3>2. SourcesOf(graphs[p]) \subseteq Sources
      BY SourcesOfFiles
    <3> QED
      BY <3>1, <3>2 DEF Unresolved, LeftOpen, Open
  <2>4. ImportRecord(p)'
    BY <2>1, <2>2, <2>3 DEF ImportRecord, SnapshotStatus
  <2> QED
    BY <1>2, <2>4 DEF RecordOf
<1>7. CASE CloseRun(p)
  <2>1. /\ at[p] = "closing" /\ at'[p] = "done"
        /\ snapshots' = snapshots /\ mappings' = mappings /\ runs'[p] = RunStatus(LeftOpen(p))
    BY <1>0, <1>7 DEF CloseRun
  <2>2. Unresolved(p)' = Unresolved(p)
    BY <2>1 DEF Unresolved
  <2>3. Unresolved(p) = LeftOpen(p) /\ snapshots[p] = SnapshotStatus(LeftOpen(p))
    BY <1>0, <2>1 DEF ImportRecord
  <2>4. ImportRecord(p)'
    BY <2>1, <2>2, <2>3 DEF ImportRecord, Agree, SnapshotStatus, RunStatus
  <2> QED
    BY <1>2, <2>4 DEF RecordOf
<1>8. CASE Upload(p) \/ BeginParsing(p) \/ CreateSnapshot(p) \/ StoreGraph(p) \/ Parse(p)
           \/ Fail(p) \/ BreakOff(p)
  <2>1. at'[p] \notin {"mapping", "closing", "done"}
    BY <1>0, <1>8 DEF Upload, BeginParsing, CreateSnapshot, StoreGraph, Parse, Fail, BreakOff
  <2> QED
    BY <1>3, <2>1
<1> QED
  BY <1>4, <1>5, <1>6, <1>7, <1>8 DEF ImportStep

\* Whom a review is not of, it leaves as it is.
LEMMA ReviewsElsewhere ==
    ASSUME CadTypes, NEW r \in Reviews, ReviewStep(r),
           NEW p \in Parses, RecordOf(p), review[r].of # p, review'[r].of # p
    PROVE  RecordOf(p)'
<1>1. /\ runs'[p] = runs[p] /\ snapshots'[p] = snapshots[p] /\ mappings'[p] = mappings[p]
      /\ graphs'[p] = graphs[p] /\ importing'[p] = importing[p]
  BY ReviewFrame DEF ReviewKeeps
<1>2. at'[p] = at[p]
  BY ReviewFrame, RequestsAssumption DEF ReviewKeeps, Requests
<1>3. \A q \in Reviews \cup Finals : Same(q) \/ Elsewhere(q, p)
  <2>1. \A q \in (Reviews \cup Finals) \ {r} : Same(q)
    BY ReviewFrame DEF ReviewKeeps, Same, Requests
  <2>2. Elsewhere(r, p)
    BY RequestsAssumption DEF Elsewhere
  <2> QED
    BY <2>1, <2>2
<1> QED
  BY <1>1, <1>2, <1>3, RecordSame

LEMMA OpeningRecords ==
    ASSUME CadTypes, Places, RecordsInv, NEW r \in Reviews, OpenReview(r),
           NEW p \in Parses, p \notin crossed'
    PROVE  RecordOf(p)'
<1>1. PICK o \in Parses :
        /\ at[r] = "idle" /\ at' = [at EXCEPT ![r] = "reviewing"]
        /\ review' = [review EXCEPT ![r] = [NoReview EXCEPT !.of = o, !.was = snapshots[o],
                                            !.todo = {s \in Sources : mappings[o][s] # None}]]
        /\ crossed' = IF Meets(o) \/ snapshots[o] = "finalized" THEN crossed \cup {o} ELSE crossed
        /\ runs' = runs /\ snapshots' = snapshots /\ mappings' = mappings /\ final' = final
  BY DEF OpenReview, Cross, Goto, tables
<1>2. /\ review[r].of = None /\ r \in Requests /\ p \in Requests /\ p # r /\ p # None
      /\ review'[r].of = o /\ review'[r].was = snapshots[o]
      /\ at'[r] = "reviewing" /\ at'[p] = at[p]
  BY <1>1, RequestsAssumption DEF Places, NoReview, CadTypes, Requests
<1>3. p \notin crossed /\ RecordOf(p)
  BY <1>1 DEF RecordsInv
<1>4. CASE p # o
  <2>1. ReviewStep(r)
    BY DEF ReviewStep
  <2> QED
    BY <1>2, <1>3, <1>4, <2>1, ReviewsElsewhere
<1>5. CASE p = o
  <2>1. at[p] = "done" /\ Under(p) = {} /\ Finalizing(p) = {} /\ snapshots[p] # "finalized"
    BY <1>1, <1>5 DEF Meets
  <2>2. \A q \in (Reviews \cup Finals) \ {r} : Same(q)
    BY <1>1 DEF Same, CadTypes, Requests
  <2>3. Under(p)' = {r}
    BY <1>2, <1>5, <2>1, <2>2 DEF Under, Same
  <2>4. Finalizing(p)' = {}
    BY <2>1, <2>2, RequestsAssumption DEF Finalizing, Same
  <2>5. ReviewRecord(p, r)'
    BY <1>1, <1>2, <1>5, <2>1 DEF ReviewRecord
  <2>6. ImportRecord(p)'
    BY <1>2, <2>1, <2>3 DEF ImportRecord
  <2> QED
    BY <1>2, <2>1, <2>3, <2>4, <2>5, <2>6 DEF RecordOf, Handling
<1> QED
  BY <1>4, <1>5

\* A review that nobody met leads to records that agree.
LEMMA ReviewingRecords ==
    ASSUME CadTypes, Places, RecordsInv, NEW r \in Reviews, ReviewStep(r), ~OpenReview(r),
           NEW p \in Parses, p \notin crossed'
    PROVE  RecordOf(p)'
<1> USE DEF Goto, tables, requests, Reviewing, ReviewPlaces
<1>0. r \in Requests /\ p \in Requests /\ r # p
  BY RequestsAssumption DEF Requests
<1>1. at[r] \in Reviewing
  BY DEF ReviewStep, Decide, AddRule, Supersede, UpdateMapping, ListMappings, SyncSnapshot, SyncRun,
         BreakOff, Places
<1>2. review'[r].of = review[r].of /\ crossed' = crossed
  BY <1>1, ReviewFrame DEF ReviewKeeps
<1>3. RecordOf(p)
  BY <1>2 DEF RecordsInv
<1>4. CASE review[r].of # p
  BY <1>2, <1>3, <1>4, ReviewsElsewhere
<1>5. CASE review[r].of = p
  <2>1. r \in Under(p)
    BY <1>1, <1>5 DEF Under
  <2>2. Handling(p) = {r} /\ Under(p) = {r} /\ at[p] = "done" /\ ReviewRecord(p, r)
    BY <1>3, <2>1, RequestsAssumption DEF RecordOf, Handling, Under, Finalizing
  <2>3. at'[p] = "done"
    BY <1>0, <2>2, ReviewFrame DEF ReviewKeeps
  <2>4. \A q \in (Reviews \cup Finals) \ {r} : Same(q)
    BY ReviewFrame DEF ReviewKeeps, Same, Requests
  <2>5. Handling(p)' \subseteq {r} /\ Under(p)' \subseteq {r}
    BY <2>2, <2>4, RequestsAssumption DEF Handling, Under, Finalizing, Same
  <2>6. ASSUME at'[r] = "answered" => Agree(p)', at'[r] # "idle", ReviewRecord(p, r)'
        PROVE  RecordOf(p)'
    <3>1. Under(p)' = {} => at'[r] = "answered"
      BY <1>2, <1>5, <2>6 DEF Under
    <3>2. ImportRecord(p)'
      BY <2>3, <2>6, <3>1 DEF ImportRecord
    <3> QED
      BY <2>3, <2>5, <2>6, <3>2 DEF RecordOf
  <2>7. ASSUME NEW s, NEW d, Decided(r, s, d), snapshots' = snapshots,
               at[r] \in {"reviewing", "updating"}
        PROVE  RecordOf(p)'
    <3>1. at'[r] = "reviewing" /\ review'[r].was = review[r].was
      BY <1>0, <2>7, DecidedReview DEF Decided, CadTypes
    <3>2. ReviewRecord(p, r)'
      BY <2>2, <2>7, <3>1 DEF ReviewRecord
    <3> QED
      BY <2>6, <3>1, <3>2
  <2>8. CASE Decide(r) \/ UpdateMapping(r)
    BY <2>7, <2>8, Zenon DEF Decide, UpdateMapping
  <2>9. CASE AddRule(r)
    <3>1. at[r] = "reviewing" /\ at'[r] = "superseding" /\ snapshots' = snapshots
      BY <1>0, <2>9 DEF AddRule, CadTypes
    <3>2. review'[r].was = review[r].was
      BY <2>9, RuledReview
    <3>3. ReviewRecord(p, r)'
      BY <2>2, <3>1, <3>2 DEF ReviewRecord
    <3> QED
      BY <2>6, <3>1, <3>3
  <2>10. CASE Supersede(r)
    <3>1. at[r] = "superseding" /\ at'[r] = "updating" /\ snapshots' = snapshots /\ review' = review
      BY <1>0, <2>10 DEF Supersede, CadTypes
    <3>2. ReviewRecord(p, r)'
      BY <2>2, <3>1 DEF ReviewRecord
    <3> QED
      BY <2>6, <3>1, <3>2
  <2>11. CASE ListMappings(r)
    <3>1. /\ at[r] = "reviewing" /\ snapshots' = snapshots /\ mappings' = mappings
          /\ at'[r] = IF review[r].was = "finalized" THEN "answered" ELSE "syncing"
      BY <1>0, <2>11 DEF ListMappings, CadTypes
    <3>2. review'[r].was = review[r].was /\ review'[r].unresolved = Unresolved(p)
      BY <1>5, <2>11, ListedReview
    <3>3. at'[r] = "syncing"
      BY <2>2, <3>1 DEF ReviewRecord
    <3>4. Unresolved(p)' = Unresolved(p)
      BY <3>1 DEF Unresolved
    <3>5. ReviewRecord(p, r)'
      BY <2>2, <3>1, <3>2, <3>3, <3>4 DEF ReviewRecord
    <3> QED
      BY <2>6, <3>3, <3>5
  <2>12. CASE SyncSnapshot(r)
    <3>1. /\ at[r] = "syncing" /\ at'[r] = "syncingRun" /\ review' = review /\ mappings' = mappings
          /\ snapshots' = [snapshots EXCEPT ![p] =
                 IF review[r].was = SnapshotStatus(review[r].unresolved) THEN @
                 ELSE SnapshotStatus(review[r].unresolved)]
      BY <1>0, <1>5, <2>12 DEF SyncSnapshot, CadTypes
    <3>2. snapshots'[p] = SnapshotStatus(review[r].unresolved)
      BY <2>2, <3>1 DEF ReviewRecord, CadTypes
    <3>3. Unresolved(p)' = Unresolved(p)
      BY <3>1 DEF Unresolved
    <3>4. ReviewRecord(p, r)'
      BY <2>2, <3>1, <3>2, <3>3 DEF ReviewRecord, SnapshotStatus
    <3> QED
      BY <2>6, <3>1, <3>4
  <2>13. CASE SyncRun(r)
    <3>1. /\ at[r] = "syncingRun" /\ at'[r] = "answered" /\ review' = review /\ mappings' = mappings
          /\ snapshots' = snapshots /\ runs'[p] = RunStatus(review[r].unresolved)
      BY <1>0, <1>5, <2>13 DEF SyncRun, CadTypes
    <3>2. Unresolved(p)' = Unresolved(p)
      BY <3>1 DEF Unresolved
    <3>3. ReviewRecord(p, r)'
      BY <2>2, <3>1 DEF ReviewRecord
    <3>4. Agree(p)'
      BY <2>2, <3>1, <3>2 DEF ReviewRecord, Agree, SnapshotStatus, RunStatus
    <3> QED
      BY <2>6, <3>1, <3>3, <3>4
  <2>14. CASE BreakOff(r)
    <3>1. at'[r] = "broken" /\ review' = review
      BY <1>0, <2>14 DEF BreakOff, CadTypes
    <3>2. ReviewRecord(p, r)'
      BY <2>2, <3>1 DEF ReviewRecord
    <3> QED
      BY <2>6, <3>1, <3>2
  <2> QED
    BY <2>8, <2>9, <2>10, <2>11, <2>12, <2>13, <2>14 DEF ReviewStep
<1> QED
  BY <1>4, <1>5

LEMMA FinalizingRecords ==
    ASSUME CadTypes, Places, RecordsInv, NEW f \in Finals, FinalStep(f),
           NEW p \in Parses, p \notin crossed'
    PROVE  RecordOf(p)'
<1> USE DEF Goto, tables, requests
<1>0. f \in Requests /\ p \in Requests /\ f # p /\ at'[p] = at[p]
  BY FinalFrame, RequestsAssumption DEF Requests
<1>1. /\ p \notin crossed /\ RecordOf(p)
      /\ graphs' = graphs /\ mappings' = mappings /\ importing' = importing
  BY FinalFrame DEF RecordsInv
<1>2. \A q \in (Reviews \cup Finals) \ {f} : Same(q)
  BY FinalFrame DEF Same, Requests
<1>3. CASE final[f].of # p /\ final'[f].of # p
  <2>1. runs'[p] = runs[p] /\ snapshots'[p] = snapshots[p]
    BY <1>3, FinalFrame
  <2>2. Elsewhere(f, p)
    BY <1>3, RequestsAssumption DEF Elsewhere
  <2> QED
    BY <1>0, <1>1, <1>2, <2>1, <2>2, RecordSame
<1>4. CASE Check(f) /\ ~(final[f].of # p /\ final'[f].of # p)
  <2>1. PICK o \in Parses, b \in BOOLEAN :
          /\ at[f] = "idle"
          /\ final' = [final EXCEPT ![f] = [of |-> o, strict |-> ~b, passed |-> FALSE]]
          /\ crossed' = IF Meets(o) THEN crossed \cup {o} ELSE crossed
          /\ runs' = runs /\ snapshots' = snapshots
    BY <1>4 DEF Check, Cross
  <2>2. final[f].of = None /\ final'[f].of = o /\ p # None
    BY <2>1, RequestsAssumption DEF Places, NoFinal, CadTypes
  <2>3. p = o
    BY <1>4, <2>2
  <2>4. at[p] = "done" /\ Under(p) = {} /\ Finalizing(p) = {} /\ Agree(p)
    BY <1>1, <2>1, <2>3 DEF Meets, RecordOf, ImportRecord
  <2>5. Under(p)' = {} /\ Handling(p)' \subseteq {f}
    BY <1>2, <2>4, RequestsAssumption DEF Under, Finalizing, Handling, Same
  <2>6. Agree(p)'
    BY <1>1, <2>1, <2>4 DEF Agree, SnapshotStatus, RunStatus, Unresolved
  <2>7. ImportRecord(p)'
    BY <1>0, <2>4, <2>6 DEF ImportRecord
  <2> QED
    BY <1>0, <2>4, <2>5, <2>7 DEF RecordOf
<1>5. CASE ~Check(f) /\ ~(final[f].of # p /\ final'[f].of # p)
  <2>1. at[f] = "finalizing"
    BY <1>5 DEF FinalStep, Finalize, BreakOff, Places, FinalPlaces
  <2>2. final[f].of = p /\ final'[f].of = p
    BY <1>5, <2>1, FinalFrame
  <2>3. f \in Finalizing(p)
    BY <2>1, <2>2 DEF Finalizing
  <2>4. Handling(p) = {f} /\ Under(p) = {} /\ at[p] = "done" /\ Agree(p)
    BY <1>1, <2>3, RequestsAssumption DEF RecordOf, ImportRecord, Handling, Under, Finalizing
  <2>5. Handling(p)' \subseteq {f} /\ Under(p)' = {}
    BY <1>2, <2>4, RequestsAssumption DEF Handling, Under, Finalizing, Same
  <2>6. CASE Finalize(f)
    <3>1. snapshots'[p] = "finalized" /\ runs'[p] = "FINALIZED"
      BY <2>2, <2>6 DEF Finalize, CadTypes
    <3>2. ImportRecord(p)'
      BY <1>0, <2>4, <3>1 DEF ImportRecord, Agree
    <3> QED
      BY <1>0, <2>4, <2>5, <3>2 DEF RecordOf
  <2>7. CASE BreakOff(f)
    <3>1. snapshots' = snapshots /\ runs' = runs
      BY <2>7 DEF BreakOff
    <3>2. Agree(p)'
      BY <1>1, <2>4, <3>1 DEF Agree, SnapshotStatus, RunStatus, Unresolved
    <3>3. ImportRecord(p)'
      BY <1>0, <2>4, <3>2 DEF ImportRecord
    <3> QED
      BY <1>0, <2>4, <2>5, <3>3 DEF RecordOf
  <2> QED
    BY <1>5, <2>6, <2>7 DEF FinalStep
<1> QED
  BY <1>3, <1>4, <1>5

LEMMA RecordsStep ==
    ASSUME CadTypes, Places, MappingsInv, RecordsInv, CadNext
    PROVE  RecordsInv'
<1> SUFFICES ASSUME NEW p \in Parses, p \notin crossed'
             PROVE  RecordOf(p)'
  BY DEF RecordsInv
<1>1. ASSUME NEW o \in Parses, ImportStep(o)
      PROVE  RecordOf(p)'
  <2>1. crossed' = crossed
    BY <1>1, ImportFrame
  <2>2. RecordOf(p) /\ p \notin crossed
    BY <2>1 DEF RecordsInv
  <2>3. CASE o = p
    BY <1>1, <2>2, <2>3, ImportRecords
  <2>4. CASE o # p
    <3>1. /\ at'[p] = at[p] /\ runs'[p] = runs[p] /\ snapshots'[p] = snapshots[p]
          /\ graphs'[p] = graphs[p] /\ mappings'[p] = mappings[p] /\ importing'[p] = importing[p]
      BY <1>1, <2>4, ImportFrame DEF Requests
    <3>2. \A q \in Reviews \cup Finals : Same(q)
      BY <1>1, ImportFrame, RequestsAssumption DEF Requests, Same
    <3> QED
      BY <2>2, <3>1, <3>2, RecordSame
  <2> QED
    BY <2>3, <2>4
<1>2. ASSUME NEW r \in Reviews, ReviewStep(r)
      PROVE  RecordOf(p)'
  BY <1>2, OpeningRecords, ReviewingRecords
<1>3. ASSUME NEW f \in Finals, FinalStep(f)
      PROVE  RecordOf(p)'
  BY <1>3, FinalizingRecords
<1>4. CASE Replan
  <2>1. /\ at' = at /\ runs' = runs /\ snapshots' = snapshots /\ graphs' = graphs
        /\ mappings' = mappings /\ importing' = importing /\ review' = review /\ final' = final
        /\ crossed' = crossed
    BY <1>4 DEF Replan, tables, requests
  <2>2. RecordOf(p)
    BY <2>1 DEF RecordsInv
  <2>3. \A q \in Reviews \cup Finals : Same(q)
    BY <2>1 DEF Same
  <2> QED
    BY <2>1, <2>2, <2>3, RecordSame
<1> QED
  BY <1>1, <1>2, <1>3, <1>4, CadNextSplit

-----------------------------------------------------------------------------
(***************************************************************************)
(* Finalizations.                                                          *)
(***************************************************************************)
LEMMA FinalsInit == CadInit => FinalsInv
  BY DEF CadInit, FinalsInv, FinalOf, Through, NoFinal

\* What a finalization has seen to lasts while nothing of its snapshot changes.
LEMMA FinalSame ==
    ASSUME CadTypes, NEW f \in Finals, FinalOf(f), NEW p, final[f].of = p,
           p \in Parses, at'[f] = at[f], final'[f] = final[f], p \notin crossed,
           graphs'[p] = graphs[p], mappings'[p] = mappings[p],
           Through(f) => at'[p] = at[p] /\ snapshots'[p] = snapshots[p] /\ Under(p)' = Under(p)
    PROVE  FinalOf(f)'
  BY DEF FinalOf, Through

\* A snapshot that is being finalized or was is handled by nobody else.
LEMMA FinalAlone ==
    ASSUME CadTypes, Places, RecordsInv, FinalsInv, NEW f \in Finals,
           at[f] = "finalizing" \/ Through(f), final[f].of \notin crossed
    PROVE  /\ final[f].of \in Parses /\ at[final[f].of] = "done" /\ Under(final[f].of) = {}
           /\ Finalizing(final[f].of) # {} \/ snapshots[final[f].of] = "finalized"
<1> DEFINE p == final[f].of
<1>1. p \in Parses
  BY DEF Places, Through
<1>2. CASE at[f] = "finalizing"
  <2>1. f \in Finalizing(p) /\ RecordOf(p)
    BY <1>1, <1>2 DEF Finalizing, RecordsInv
  <2>2. at[p] = "done" /\ Under(p) = {}
    BY <2>1, RequestsAssumption DEF RecordOf, Handling, Under
  <2> QED
    BY <1>1, <2>1, <2>2
<1>3. CASE Through(f)
  BY <1>1, <1>3 DEF FinalsInv, FinalOf
<1> QED
  BY <1>2, <1>3

LEMMA FinalsStep ==
    ASSUME CadTypes, Places, RecordsInv, FinalsInv, CadNext
    PROVE  FinalsInv'
<1> SUFFICES ASSUME NEW f \in Finals
             PROVE  FinalOf(f)'
  BY DEF FinalsInv
<1> USE DEF Goto, tables, requests
<1>0. FinalOf(f) /\ f \in Requests
  BY DEF FinalsInv, Requests
<1> DEFINE p == final[f].of
<1>1. ASSUME at'[f] = at[f], final'[f] = final[f], crossed \subseteq crossed',
             (at[f] = "finalizing" \/ Through(f)) /\ p \notin crossed' =>
                 /\ graphs'[p] = graphs[p] /\ mappings'[p] = mappings[p]
                 /\ Through(f) => at'[p] = at[p] /\ snapshots'[p] = snapshots[p] /\ Under(p)' = Under(p)
      PROVE  FinalOf(f)'
  <2>1. CASE (at[f] = "finalizing" \/ Through(f)) /\ p \notin crossed'
    <3>1. p \notin crossed /\ p \in Parses
      BY <1>1, <2>1, FinalAlone
    <3> QED
      BY <1>0, <1>1, <2>1, <3>1, FinalSame
  <2>2. CASE ~((at[f] = "finalizing" \/ Through(f)) /\ p \notin crossed')
    BY <1>1, <2>2 DEF FinalOf, Through
  <2> QED
    BY <2>1, <2>2
<1>2. ASSUME NEW o \in Parses, ImportStep(o)
      PROVE  FinalOf(f)'
  <2>1. at'[f] = at[f] /\ final' = final /\ crossed' = crossed /\ review' = review
    BY <1>2, ImportFrame, RequestsAssumption DEF Requests
  <2>2. ASSUME at[f] = "finalizing" \/ Through(f), p \notin crossed
        PROVE  /\ graphs'[p] = graphs[p] /\ mappings'[p] = mappings[p]
               /\ at'[p] = at[p] /\ snapshots'[p] = snapshots[p] /\ Under(p)' = Under(p)
    <3>1. p \in Parses /\ at[p] = "done"
      BY <2>2, FinalAlone
    <3>2. o # p
      BY <1>2, <3>1, ImportMoves
    <3>3. \A r \in Reviews : at'[r] = at[r]
      BY <1>2, ImportFrame, RequestsAssumption DEF Requests
    <3>4. Under(p)' = Under(p)
      BY <2>1, <3>3 DEF Under
    <3> QED
      BY <1>2, <3>1, <3>2, <3>4, ImportFrame DEF Requests
  <2> QED
    BY <1>1, <2>1, <2>2
<1>3. ASSUME NEW r \in Reviews, ReviewStep(r)
      PROVE  FinalOf(f)'
  <2>1. at'[f] = at[f] /\ final' = final /\ crossed \subseteq crossed'
    BY <1>3, ReviewFrame, RequestsAssumption DEF ReviewKeeps, Requests
  <2>2. ASSUME at[f] = "finalizing" \/ Through(f), p \notin crossed'
        PROVE  /\ graphs'[p] = graphs[p] /\ mappings'[p] = mappings[p]
               /\ at'[p] = at[p] /\ snapshots'[p] = snapshots[p] /\ Under(p)' = Under(p)
    <3>1. /\ p \in Parses /\ at[p] = "done" /\ Under(p) = {}
          /\ Finalizing(p) # {} \/ snapshots[p] = "finalized"
      BY <2>1, <2>2, FinalAlone
    <3>2. review[r].of # p /\ review'[r].of # p
      <4>1. CASE OpenReview(r)
        <5>1. PICK o \in Parses :
                /\ at[r] = "idle"
                /\ review' = [review EXCEPT ![r] = [NoReview EXCEPT !.of = o, !.was = snapshots[o],
                                            !.todo = {s \in Sources : mappings[o][s] # None}]]
                /\ crossed' = IF Meets(o) \/ snapshots[o] = "finalized"
                              THEN crossed \cup {o} ELSE crossed
          BY <4>1 DEF OpenReview, Cross
        <5>2. review[r].of = None /\ review'[r].of = o
          BY <5>1 DEF Places, NoReview, CadTypes
        <5>3. Meets(p) \/ snapshots[p] = "finalized"
          BY <3>1 DEF Meets
        <5> QED
          BY <2>2, <3>1, <5>1, <5>2, <5>3, RequestsAssumption
      <4>2. CASE ~OpenReview(r)
        <5>1. at[r] \notin {"idle", "answered"}
          BY <1>3, <4>2 DEF ReviewStep, Decide, AddRule, Supersede, UpdateMapping, ListMappings,
                            SyncSnapshot, SyncRun, BreakOff, Places, ReviewPlaces
        <5>2. review[r].of # p
          BY <3>1, <5>1 DEF Under
        <5> QED
          BY <1>3, <5>1, <5>2, ReviewFrame DEF ReviewKeeps
      <4> QED
        BY <4>1, <4>2
    <3>3. Under(p)' = Under(p)
      BY <1>3, <3>2, ReviewFrame DEF ReviewKeeps, Under, Requests
    <3>4. at'[p] = at[p]
      BY <1>3, <3>1, ReviewFrame, RequestsAssumption DEF ReviewKeeps, Requests
    <3> QED
      BY <1>3, <3>1, <3>2, <3>3, <3>4, ReviewFrame DEF ReviewKeeps
  <2> QED
    BY <1>1, <2>1, <2>2
<1>4. ASSUME NEW o \in Finals, FinalStep(o), o # f
      PROVE  FinalOf(f)'
  <2>1. /\ at'[f] = at[f] /\ final'[f] = final[f] /\ crossed \subseteq crossed'
        /\ graphs' = graphs /\ mappings' = mappings
    BY <1>0, <1>4, FinalFrame
  <2>2. ASSUME Through(f), p \notin crossed'
        PROVE  at'[p] = at[p] /\ snapshots'[p] = snapshots[p] /\ Under(p)' = Under(p)
    <3>1. p \in Parses /\ snapshots[p] = "finalized"
      BY <1>0, <2>1, <2>2, FinalAlone DEF FinalOf
    <3>2. at'[p] = at[p] /\ Under(p)' = Under(p)
      BY <1>4, <3>1, FinalFrame, RequestsAssumption DEF Under, Requests
    <3>3. snapshots'[p] = snapshots[p]
      BY <1>4, <3>1 DEF FinalStep, Check, Finalize, BreakOff, CadTypes
    <3> QED
      BY <3>2, <3>3
  <2> QED
    BY <1>1, <2>1, <2>2
<1>5. CASE Check(f)
  <2>1. PICK o \in Parses, b \in BOOLEAN :
          /\ at[f] = "idle"
          /\ at' = [at EXCEPT ![f] =
                 IF \/ MissingTargets(mappings[o], planned) # {}
                    \/ HierarchyIssues(graphs[o], mappings[o], planned) # {} /\ ~b
                 THEN "answered" ELSE "finalizing"]
          /\ final' = [final EXCEPT ![f] = [of |-> o, strict |-> ~b, passed |-> FALSE]]
          /\ graphs' = graphs /\ mappings' = mappings
    BY <1>5 DEF Check
  <2>2. final'[f].of = o /\ final'[f].strict = ~b /\ ~final'[f].passed
    BY <2>1 DEF CadTypes
  <2>3. ASSUME ~b, at'[f] = "finalizing"
        PROVE  Reviewed(graphs[o], mappings[o])
    <3>1. HierarchyIssues(graphs[o], mappings[o], planned) = {}
      BY <1>0, <2>1, <2>3 DEF CadTypes
    <3>2. graphs[o] \in Graphs \cup {NoGraph} /\ planned \in SUBSET (Parts \cup {Mechanism})
      BY DEF CadTypes
    <3> QED
      BY <3>1, <3>2, IssuesTell
  <2> QED
    BY <2>1, <2>2, <2>3 DEF FinalOf, Through
<1>6. CASE Finalize(f)
  <2>1. /\ at[f] = "finalizing" /\ at'[f] = "answered" /\ graphs' = graphs /\ mappings' = mappings
        /\ crossed' = crossed /\ review' = review /\ snapshots' = [snapshots EXCEPT ![p] = "finalized"]
        /\ at' = [at EXCEPT ![f] = "answered"]
        /\ final'[f].of = p /\ final'[f].strict = final[f].strict
    BY <1>0, <1>6 DEF Finalize, CadTypes, FinalRecords
  <2>2. ASSUME p \notin crossed
        PROVE  at'[p] = "done" /\ snapshots'[p] = "finalized" /\ Under(p)' = {}
    <3>1. p \in Parses /\ at[p] = "done" /\ Under(p) = {}
      BY <2>1, <2>2, FinalAlone
    <3> QED
      BY <2>1, <3>1, RequestsAssumption DEF CadTypes, Under, Requests
  <2> QED
    BY <1>0, <2>1, <2>2 DEF FinalOf, Through
<1>7. CASE BreakOff(f)
  <2>1. at'[f] = "broken"
    BY <1>0, <1>7 DEF BreakOff, CadTypes
  <2> QED
    BY <2>1 DEF FinalOf, Through
<1>8. CASE Replan
  BY <1>1, <1>8 DEF Replan, Under
<1> QED
  BY <1>2, <1>3, <1>4, <1>5, <1>6, <1>7, <1>8, CadNextSplit DEF FinalStep

-----------------------------------------------------------------------------
(***************************************************************************)
(* The theorems.                                                           *)
(***************************************************************************)
LEMMA CadInvInit == CadInit => CadInv
  BY CadTypesInit, RulesInit, MappingsInit, RecordsInit, FinalsInit DEF CadInv

LEMMA CadInvStep ==
    ASSUME CadInv, [CadNext]_<<pool, cad>>
    PROVE  CadInv'
<1>1. CASE CadNext
  BY <1>1, TypesStep, PlacesStep, RulesStep, MappingsStep, RecordsStep, FinalsStep DEF CadInv
<1>2. CASE UNCHANGED <<pool, cad>>
  <2>1. CadTypes' /\ Places' /\ RulesInv' /\ MappingsInv'
    BY <1>2 DEF CadInv, cad, tables, requests, CadTypes, Places, RulesInv, RivalsMeet, RuledOnce,
                MappingsInv, TodoMapped, LeftUnmapped
  <2>2. ASSUME NEW p \in Parses \ crossed
        PROVE  RecordOf(p)'
    <3>1. RecordOf(p)
      BY DEF CadInv, RecordsInv
    <3>2. /\ at' = at /\ runs' = runs /\ snapshots' = snapshots /\ graphs' = graphs
          /\ mappings' = mappings /\ importing' = importing /\ review' = review /\ final' = final
      BY <1>2 DEF cad, tables, requests
    <3>3. \A q \in Reviews \cup Finals : Same(q)
      BY <3>2 DEF Same
    <3> QED
      BY <3>1, <3>2, <3>3, RecordSame
  <2>3. RecordsInv'
    BY <1>2, <2>2 DEF RecordsInv, cad
  <2>4. FinalsInv'
    BY <1>2 DEF CadInv, cad, tables, requests, FinalsInv, FinalOf, Through, Under
  <2> QED
    BY <2>1, <2>3, <2>4 DEF CadInv
<1> QED
  BY <1>1, <1>2

\* The invariant: types and places, and what the rules, the mappings, the records and the
\* finalizations say of one another.
THEOREM ImportsInvariant == CadSpec => []CadInv
<1>1. CadInv /\ [CadNext]_<<pool, cad>> => CadInv'
  BY CadInvStep
<1> QED
  BY <1>1, CadInvInit, PTL DEF CadSpec

\* Once no review is between its rule and the ones that it supersedes, a source has one
\* active rule at most (supersedeMatchingRules), whatever reviews did at the same time.
THEOREM RulesHold == CadSpec => []RulesNeverConflict
<1>1. CadInv => RulesNeverConflict
  BY RulesSettled DEF CadInv
<1> QED
  BY <1>1, ImportsInvariant, PTL

\* A mapping changes by a review that has to decide it and by nothing else: an import maps
\* what is not mapped (applyMappingRules).
THEOREM ReviewsHold == CadSpec => ReviewsStand
<1>1. CadInv /\ [CadNext]_<<pool, cad>> =>
          [\A p \in Parses, s \in Sources :
              mappings[p][s] \notin {None, mappings'[p][s]} =>
                  \E r \in Reviews : review[r].of = p /\ s \in review[r].todo]_<<pool, cad>>
  BY MappingsStand DEF CadInv
<1> QED
  BY <1>1, ImportsInvariant, PTL DEF CadSpec, ReviewsStand

\* At rest and if no two requests met on it, a snapshot says of its mappings what they are,
\* and its run says the same (syncSnapshotLifecycleAfterMappingUpdates, finalizeSnapshot).
THEOREM RecordsHold == CadSpec => []RecordsAgree
<1>1. CadInv => RecordsAgree
  <2> SUFFICES ASSUME CadInv, NEW p \in Parses \ crossed, at[p] = "done", Under(p) = {}
               PROVE  Agree(p)
    BY Zenon DEF RecordsAgree, Agree
  <2> QED
    BY DEF CadInv, RecordsInv, RecordOf, ImportRecord
<1> QED
  BY <1>1, ImportsInvariant, PTL

\* A snapshot that passed the strict finalization and that no other request met is reviewed
\* (collectHierarchyIssues): what the walks up from its nodes found is true of the tree below.
THEOREM FinalsHold == CadSpec => []FinalizedIsReviewed
<1>1. CadInv => FinalizedIsReviewed
  BY DEF CadInv, FinalsInv, FinalOf, Through, FinalizedIsReviewed
<1> QED
  BY <1>1, ImportsInvariant, PTL

\* Imports use the parsers' slots as StepParserPool says (parseStepFileWithTimeout).
THEOREM ImportsRefinePool == CadSpec => Spec
<1>1. CadInit => Init
  BY DEF CadInit
<1>2. [CadNext]_<<pool, cad>> => [Next]_vars
  <2> SUFFICES ASSUME [CadNext]_<<pool, cad>>
               PROVE  [Next]_vars
    OBVIOUS
  <2>1. ASSUME NEW p \in Parses, ImportStep(p)
        PROVE  [Next]_vars
    <3>1. CASE Parse(p)
      BY <3>1 DEF Parse, Next
    <3>2. CASE ~Parse(p)
      BY <2>1, <3>2 DEF ImportStep, Upload, BeginParsing, CreateSnapshot, StoreGraph, ReadRules,
                        MapSource, CloseSnapshot, CloseRun, Fail, BreakOff, pool, vars
    <3> QED
      BY <3>1, <3>2
  <2>2. ASSUME NEW r \in Reviews, ReviewStep(r)
        PROVE  UNCHANGED vars
    BY <2>2 DEF ReviewStep, OpenReview, Decide, AddRule, Supersede, UpdateMapping, ListMappings,
                SyncSnapshot, SyncRun, BreakOff, pool, vars
  <2>3. ASSUME NEW f \in Finals, FinalStep(f)
        PROVE  UNCHANGED vars
    BY <2>3 DEF FinalStep, Check, Finalize, BreakOff, pool, vars
  <2>4. Replan => UNCHANGED vars
    BY DEF Replan, pool, vars
  <2>5. UNCHANGED <<pool, cad>> => UNCHANGED vars
    BY DEF pool, vars
  <2> QED
    BY <2>1, <2>2, <2>3, <2>4, <2>5, CadNextSplit
<1> QED
  BY <1>1, <1>2, PTL DEF CadSpec, Spec

\* So the slots are neither lost, oversold nor idle while imports create, store and fail.
THEOREM ImportsPoolSound == CadSpec => []PoolIsSound
  BY ImportsRefinePool, PoolSound, PTL
=============================================================================
