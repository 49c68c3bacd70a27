---------------------------- MODULE CadHierarchy ----------------------------
(***************************************************************************)
(* What keeps a CAD snapshot from being finalized                          *)
(* (src/cad/cadHierarchyValidationService.ts, with the target check of     *)
(* cadMappingEngine.ts and the parent check of                             *)
(* cadAssemblyParentValidation.ts).                                        *)
(*                                                                         *)
(* A graph has a parent per assembly node (None at a root) and a holder    *)
(* per part; before it is stored both are empty.  A part stands for its    *)
(* definition and the one instance of it.  The depth of a node is the text *)
(* parser's, the number of nodes above it.  A mapping has a kind, a target *)
(* record or None, and a status.  IGNORE stands for REFERENCE_GEOMETRY on  *)
(* assemblies too; parts of one name without a match, another reason to    *)
(* refuse, are left out.                                                   *)
(***************************************************************************)
EXTENDS Naturals, FiniteSets

CONSTANTS
    Nodes,    \* assembly nodes of a file
    Parts,    \* part definitions of a file
    None

Sources == Nodes \cup Parts

NoGraph == [parent |-> <<>>, holder |-> <<>>]
SourcesOf(g) == DOMAIN g.parent \cup DOMAIN g.holder

IsGraph(g) ==
    /\ DOMAIN g.parent \subseteq Nodes /\ DOMAIN g.holder \subseteq Parts
    /\ g.parent \in [DOMAIN g.parent -> DOMAIN g.parent \cup {None}]
    /\ g.holder \in [DOMAIN g.holder -> DOMAIN g.parent \cup {None}]

\* The nodes above a node; the walk ends at a root or where it has been.
Above(g, n) ==
    LET above[k \in 1..Cardinality(Nodes)] ==
            IF k = 1 THEN {g.parent[n]}
            ELSE above[k - 1] \cup {g.parent[m] : m \in above[k - 1] \ {None}}
    IN above[Cardinality(Nodes)] \ {None}

\* assertAcyclicAssemblyParents
Acyclic(g) == \A n \in DOMAIN g.parent : n \notin Above(g, n)

Depth(g, n) == Cardinality(Above(g, n))

Confirmed(m, s, kinds) == m[s] # None /\ m[s].status = "CONFIRMED" /\ m[s].kind \in kinds

\* invalidMappingTarget, of a mapping or of an update
InvalidTarget(d, planned) == d.target # None /\ d.target \notin planned
MissingTargets(m, planned) == {s \in Sources : m[s] # None /\ InvalidTarget(m[s], planned)}

UndecidedLayer(g, m) ==
    {n \in DOMAIN g.parent :
        \/ Depth(g, n) = 1 /\ ~Confirmed(m, n, {"SUBSYSTEM", "IGNORE"})
        \/ /\ Depth(g, n) > 1
           /\ ~Confirmed(m, n, {"SUBSYSTEM", "MECHANISM", "COMPONENT_ASSEMBLY", "IGNORE"})}

\* Faulty: an ancestor of another kind will do.
DecidedAncestor(g, m, n, kind) == \E a \in Above(g, n) : m[a] # None /\ m[a].status = "CONFIRMED"
ConfirmedAncestor(g, m, n, kind) == \E a \in Above(g, n) : Confirmed(m, a, {kind})

OrphanedComponents(g, m, planned) ==
    {n \in DOMAIN g.parent :
        /\ Confirmed(m, n, {"COMPONENT_ASSEMBLY"})
        /\ ~ConfirmedAncestor(g, m, n, "MECHANISM")
        /\ m[n].target \notin planned}

\* A part needs a decision unless exactly one planned part matches it.
UnmatchedParts(g, m, planned) ==
    {p \in DOMAIN g.holder : ~Confirmed(m, p, {"PART_DEFINITION", "IGNORE"}) /\ p \notin planned}

OutsideParts(g, m) ==
    {p \in DOMAIN g.holder :
        /\ g.holder[p] # None
        /\ ~Confirmed(m, g.holder[p], {"SUBSYSTEM"})
        /\ ~ConfirmedAncestor(g, m, g.holder[p], "SUBSYSTEM")}

\* collectHierarchyIssues
HierarchyIssues(g, m, planned) ==
    MissingTargets(m, planned) \cup UndecidedLayer(g, m) \cup OrphanedComponents(g, m, planned)
        \cup UnmatchedParts(g, m, planned) \cup OutsideParts(g, m)

-----------------------------------------------------------------------------
\* For the properties, which look at the tree from above: a holds n if every set of nodes
\* that has a and the children of its members has n.
Holds(g, a, n) == \A S \in SUBSET DOMAIN g.parent :
    a \in S /\ (\A c \in DOMAIN g.parent : g.parent[c] \in S => c \in S) => n \in S

Below(g, m, kinds) ==
    {n \in DOMAIN g.parent : \E a \in DOMAIN g.parent : Confirmed(m, a, kinds) /\ Holds(g, a, n)}

\* What a reader of a reviewed snapshot relies on: every part lies in a subsystem, every
\* component assembly belongs to a mechanism, every node but the roots is decided.
Reviewed(g, m) ==
    /\ \A p \in DOMAIN g.holder : g.holder[p] = None \/ g.holder[p] \in Below(g, m, {"SUBSYSTEM"})
    /\ \A n \in DOMAIN g.parent :
        /\ g.parent[n] = None \/ (m[n] # None /\ m[n].status = "CONFIRMED" /\ m[n].kind # "UNMAPPED")
        /\ Confirmed(m, n, {"COMPONENT_ASSEMBLY"}) =>
               m[n].target # None \/ n \in Below(g, m, {"MECHANISM"})
=============================================================================
