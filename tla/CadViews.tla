------------------------------ MODULE CadViews ------------------------------
(***************************************************************************)
(* How CAD snapshots are shown: repeated instances as groups               *)
(* (src/cad/cadInstanceGrouping.ts, routes/cadSnapshotViewService.ts), the *)
(* hierarchy under review (cadHierarchyReviewService.ts,                   *)
(* cadHierarchyPartSummaryService.ts), and what changed since the snapshot *)
(* before (cadDiffService.ts).                                             *)
(*                                                                         *)
(* A snapshot has nodes, parts and instances, as StepTree makes them, each *)
(* with an identity of its own and a signature that is to outlast it; a    *)
(* mapping per source, or Nil.  Materials and configurations, which split  *)
(* groups further, the proposed matches of parts, and names that diffs     *)
(* report are left out.                                                    *)
(***************************************************************************)
EXTENDS StepTree

Undecided == [kind |-> "UNMAPPED", target |-> Nil, status |-> "NEEDS_REVIEW"]

NodeOf(s, id) == CHOOSE n \in s.nodes : n.id = id
SigOf(items, id) == IF id = Nil THEN Nil ELSE (CHOOSE x \in items : x.id = id).sig
Sigs(items) == {x.sig : x \in items}

-----------------------------------------------------------------------------
(* Groups.                                                                  *)

Alike(i, j) == i.parent = j.parent /\ i.part = j.part
Groups(instances) == {{j \in instances : Alike(i, j)} : i \in instances}
Amount(group) == MapThenSumSet(LAMBDA i : Max({i.quantity, 1}), group)

Mixed(m, group) == Cardinality({m[i.id] : i \in group}) > 1

GroupMapping(m, group) ==
    LET mappings == {m[i.id] : i \in group} \ {Nil}
    IN  IF Mixed(m, group) \/ mappings = {} THEN Undecided ELSE CHOOSE d \in mappings : TRUE

\* groupedSnapshotMappings
Repeated(s) == {group \in Groups(s.instances) : Amount(group) > 1}
Rows(s, m) ==
    LET grouped == {i.id : i \in UNION Repeated(s)}
    IN  {[of |-> {x}, as |-> m[x]] : x \in {x \in DOMAIN m : m[x] # Nil} \ grouped}
            \cup {[of |-> {i.id : i \in group}, as |-> GroupMapping(m, group)] : group \in Repeated(s)}

\* buildTree, its assemblies
Shown(s) ==
    LET shown[n \in 1..Cardinality(s.nodes)] ==
            IF n = 1 THEN {x \in s.nodes : x.parent = Nil}
            ELSE UNION {{x \in s.nodes : x.parent = y.id} : y \in shown[n - 1]}
    IN  UNION {shown[n] : n \in DOMAIN shown}

-----------------------------------------------------------------------------
(* The hierarchy under review.  A record of the workspace has a kind, a     *)
(* name and an identity.                                                    *)

\* classificationFor
Class(n, d) == IF d # Nil /\ d.kind # "UNMAPPED" THEN d.kind ELSE n.type

\* resolvedTarget: the one decided on, or else the one of that name
Target(n, d, workspace) ==
    LET namesakes == {r \in workspace : r.kind = Class(n, d) /\ r.name = n.name}
    IN  IF d # Nil /\ d.target # Nil /\ d.status = "CONFIRMED" THEN d.target
        ELSE IF namesakes = {} THEN Nil ELSE (CHOOSE r \in namesakes : TRUE).id

\* visit: what each node passes on to those below it
Context(s, m, workspace) ==
    LET context[id \in {n.id : n \in s.nodes}] ==
            LET n == NodeOf(s, id)
                d == m[id]
                given == IF n.parent = Nil THEN [subsystem |-> Nil, mechanism |-> Nil]
                         ELSE context[n.parent]
            IN  [subsystem |-> IF Class(n, d) = "SUBSYSTEM" THEN Target(n, d, workspace)
                               ELSE given.subsystem,
                 mechanism |-> IF Class(n, d) = "MECHANISM" THEN Target(n, d, workspace)
                               ELSE IF Class(n, d) = "COMPONENT_ASSEMBLY" /\ d # Nil /\ d.target # Nil
                               THEN d.target
                               ELSE given.mechanism]
    IN  context

\* collectInstancesUnder and buildHierarchyPartSummary
TotalQuantity(s) ==
    LET under[id \in {n.id : n \in s.nodes}] ==
            {i \in s.instances : i.parent = id}
                \cup UNION {under[n.id] : n \in {n \in s.nodes : n.parent = id}}
    IN  [id \in DOMAIN under |-> MapThenSumSet(Amount, Groups(under[id]))]

-----------------------------------------------------------------------------
(* buildCadSnapshotDiff                                                     *)

\* Parts hang nowhere.
Placed == {"nodes", "instances"}
Added(was, is) == {x \in is : x.sig \notin Sigs(was)}
ParentSig(s, x) == SigOf(s.nodes, x.parent)
Moved(old, new, was, is) ==
    {x \in is : \E y \in was : y.sig = x.sig /\ ParentSig(old, y) # ParentSig(new, x)}

PartSig(s, i) == SigOf(s.parts, i.part)
GroupKey(s, i) == <<ParentSig(s, i), PartSig(s, i)>>
GroupKeys(s) == {GroupKey(s, i) : i \in s.instances}
InGroup(s, key) == {i \in s.instances : GroupKey(s, i) = key}
GroupedQuantity(s, key) == Amount(InGroup(s, key))

\* changedQuantityGroups.  Faulty: instances are counted.
CountChanges(old, new) ==
    {key \in GroupKeys(old) \cap GroupKeys(new) :
        Cardinality(InGroup(old, key)) # Cardinality(InGroup(new, key))}
QuantityChanges(old, new) ==
    {key \in GroupKeys(old) \cap GroupKeys(new) : GroupedQuantity(old, key) # GroupedQuantity(new, key)}

\* Mappings of one kind of source and signature are compared, whatever the identities;
\* a new one counts if it is undecided.
Kinds == {"nodes", "parts", "instances"}
Prior(old, m, kind, x) == {y \in old[kind] : y.sig = x.sig /\ m[y.id] # Nil}
Changed(old, m, kind, x, d) ==
    IF Prior(old, m, kind, x) = {} THEN d.kind = "UNMAPPED"
    ELSE \E y \in Prior(old, m, kind, x) : <<m[y.id].kind, m[y.id].target>> # <<d.kind, d.target>>
MappingChanges(old, new, m, n) ==
    UNION {{x.id : x \in {x \in new[kind] : n[x.id] # Nil /\ Changed(old, m, kind, x, n[x.id])}} :
           kind \in Kinds}

NoSnapshot == [kind \in Kinds |-> {}]

\* buildCadSnapshotDiff; without a snapshot before, everything is new
Diff(old, new, m, n) ==
    [added |-> [kind \in Kinds |-> Added(old[kind], new[kind])],
     removed |-> [kind \in Kinds |-> Added(new[kind], old[kind])],
     moved |-> [kind \in Placed |-> Moved(old, new, old[kind], new[kind])],
     quantities |-> QuantityChanges(old, new),
     mappings |-> IF old = NoSnapshot THEN {} ELSE MappingChanges(old, new, m, n)]

-----------------------------------------------------------------------------
(* For the properties.                                                      *)

IsAbove(n, x) == n.id.root = x.id.root /\ IsPrefix(n.id.path, x.id.path)
DecisionsOf(s, m) == UNION {{<<kind, x.sig, m[x.id]>> : x \in s[kind]} : kind \in Kinds}
NamesMechanism(n, d) == Class(n, d) = "COMPONENT_ASSEMBLY" /\ d # Nil /\ d.target # Nil
Nearest(nodes) == CHOOSE n \in nodes : \A o \in nodes : Len(o.id.path) <= Len(n.id.path)

\* A file is kept: its tree hangs together, signatures tell all apart unless roots share
\* a name, and each part occurs as often as the file asks for.
Kept(file) ==
    LET s == Parsed(file)
    IN  /\ Shown(s) = s.nodes
        /\ \A i \in s.instances : \E n \in s.nodes : n.id = i.parent
        /\ Cardinality({n \in s.nodes : n.parent = Nil}) = Cardinality({file.name[r] : r \in Roots(file)}) =>
               /\ Cardinality(Sigs(s.nodes)) = Cardinality(s.nodes)
               /\ Cardinality(Sigs(s.instances)) = Cardinality(s.instances)
        /\ Founded(file) => \A part \in s.parts :
               MapThenSumSet(LAMBDA i : i.quantity, {i \in s.instances : i.part = part.id}) = Needed(file)[part.id]

\* The subsystem and the mechanism next above a node.
Subsystems(s, m, n) == {a \in s.nodes : IsAbove(a, n) /\ Class(a, m[a.id]) = "SUBSYSTEM"}
Mechanisms(s, m, n) ==
    {a \in s.nodes : IsAbove(a, n) /\ (Class(a, m[a.id]) = "MECHANISM" \/ NamesMechanism(a, m[a.id]))}
MechanismOf(a, d, workspace) == IF NamesMechanism(a, d) THEN d.target ELSE Target(a, d, workspace)
ReviewedAs(s, m, workspace, n) ==
    [subsystem |-> IF Subsystems(s, m, n) = {} THEN Nil
                   ELSE LET a == Nearest(Subsystems(s, m, n)) IN Target(a, m[a.id], workspace),
     mechanism |-> IF Mechanisms(s, m, n) = {} THEN Nil
                   ELSE LET a == Nearest(Mechanisms(s, m, n)) IN MechanismOf(a, m[a.id], workspace)]

\* Views agree: whatever is mapped is in one row, and a row that is decided is so for all
\* it stands for; a node is reviewed in the subsystem and the mechanism next above it, with
\* all the instances below it.
Agreeing(s, m, workspace) ==
    /\ \A x \in {x \in DOMAIN m : m[x] # Nil} : Cardinality({r \in Rows(s, m) : x \in r.of}) = 1
    /\ \A r \in Rows(s, m) : r.as # Undecided => \A x \in r.of : m[x] = r.as
    /\ \A n \in s.nodes :
        /\ Context(s, m, workspace)[n.id] = ReviewedAs(s, m, workspace, n)
        /\ TotalQuantity(s)[n.id] =
               MapThenSumSet(LAMBDA i : i.quantity, {i \in s.instances : IsAbove(n, i)})

\* What hangs where, by signature; the parts of a snapshot, and how many instances of one
\* signature have the same; how many of a part are under an assembly.
Hanging(s) == UNION {{<<kind, x.sig, ParentSig(s, x)>> : x \in s[kind]} : kind \in Placed}
Entry(s, i) == <<i.sig, PartSig(s, i), i.quantity>>
Bill(s) == [e \in {Entry(s, i) : i \in s.instances} |->
                Cardinality({i \in s.instances : Entry(s, i) = e})]
Number(s, key) == MapThenSumSet(LAMBDA i : i.quantity, InGroup(s, key))

Told(diff, kind) == Sigs(diff.added[kind]) \cup Sigs(diff.removed[kind]) \cup Sigs(diff.moved[kind])
Swapped(old, new) ==
    Sigs({x \in new.instances : \E y \in old.instances :
              y.sig = x.sig /\ PartSig(old, y) # PartSig(new, x)})

\* Sources of one signature are decided alike.
Consistent(s, m) ==
    \A kind \in Kinds : \A x, y \in s[kind] : x.sig = y.sig => m[x.id] = m[y.id]

\* A diff tells: what is kept and hangs elsewhere has moved; where the number of a part
\* under an assembly has changed, it says so, or tells of an instance there that came, went,
\* moved or is of another part now; between files that differ in identities only it is empty.
Telling(old, new, m, n) ==
    LET diff == Diff(old, new, m, n)
    IN  /\ \A h \in (Hanging(new) \ Hanging(old)) \cup (Hanging(old) \ Hanging(new)) :
               h[2] \in Told(diff, h[1])
        /\ \A key \in GroupKeys(old) \cup GroupKeys(new) :
               Number(old, key) # Number(new, key) =>
                   \/ key \in diff.quantities
                   \/ \E i \in InGroup(old, key) \cup InGroup(new, key) :
                          i.sig \in Told(diff, "instances") \cup Swapped(old, new)
        /\ Hanging(old) = Hanging(new) /\ Bill(old) = Bill(new) =>
               /\ \A kind \in Placed : Told(diff, kind) = {}
               /\ diff.quantities = {}
               /\ Consistent(old, m) /\ DecisionsOf(old, m) = DecisionsOf(new, n) => diff.mappings = {}

\* What a diff takes for granted of a snapshot: what has one signature hangs under
\* one signature.
IsSnapshot(s) ==
    /\ IsFiniteSet(s.instances)
    /\ \A i \in s.instances : i.quantity \in Nat \ {0}
    /\ \A kind \in Placed : \A x, y \in s[kind] : x.sig = y.sig => ParentSig(s, x) = ParentSig(s, y)
=============================================================================
