---------------------------- MODULE OnshapeGraph ----------------------------
(***************************************************************************)
(* What an import keeps of a bill of materials that Onshape sent           *)
(* (src/onshape/bom/ and cadStoreGraph.ts, importBomGraph of               *)
(* cadImporter.ts): a table of rows with item numbers, or the instances of *)
(* an assembly, become nodes, parts and instances with sources of their    *)
(* own, and are merged into those of the snapshot, by source, or for parts *)
(* by what part they are of.                                               *)
(*                                                                         *)
(* Rows and instances come as sequences.  Of each is kept whether it is an *)
(* assembly, its identity or Missing, its part or Missing (in its          *)
(* document, element and configuration), that part's version, and where it *)
(* is: an item number, as a sequence, or a parent.  Fields are read        *)
(* already, whatever they were called.  0 is the identity of the assembly  *)
(* itself.                                                                 *)
(***************************************************************************)
EXTENDS Naturals, Sequences, FiniteSets, SequencesExt, FiniteSetsExt

CONSTANT Missing

AssemblySource(id) == <<"assembly", id>>
Root == [source |-> AssemblySource(0), parent |-> Missing]

PartSource(item, id) == <<"part", item.version, IF item.part = Missing THEN id ELSE item.part>>

\* partIdentity: a part is the same in every version
PartKey(item, id) == IF item.part = Missing THEN PartSource(item, id) ELSE item.part
BomPart(item, id) == [source |-> PartSource(item, id), key |-> PartKey(item, id)]

\* A bill of materials has each item at the place in the sequence that it came from, and the
\* root at 0.
PlacesOf(items, assembly) == {i \in DOMAIN items : items[i].assembly = assembly}

-----------------------------------------------------------------------------
(* normalizeBomTable                                                        *)

\* sourceIdentity
RowId(rows, i) == IF rows[i].id = Missing THEN i ELSE rows[i].id

\* A row is under the assembly whose item number is its own but for the last place, and
\* which came last before it; or else under the root.
RowParent(rows, i) ==
    LET above == {j \in 1..(i - 1) : /\ rows[j].assembly /\ rows[i].number # <<>>
                                     /\ rows[j].number = Front(rows[i].number)
                                     /\ rows[j].number # <<>>}
    IN  AssemblySource(IF above = {} THEN 0 ELSE RowId(rows, Max(above)))

OfTable(rows) ==
    [nodes |-> [i \in {0} \cup PlacesOf(rows, TRUE) |->
                   IF i = 0 THEN Root
                   ELSE [source |-> AssemblySource(RowId(rows, i)), parent |-> RowParent(rows, i)]],
     parts |-> [i \in PlacesOf(rows, FALSE) |-> BomPart(rows[i], RowId(rows, i))],
     instances |-> [i \in PlacesOf(rows, FALSE) |->
                       [source |-> <<PartSource(rows[i], RowId(rows, i)), RowId(rows, i)>>,
                        part |-> PartSource(rows[i], RowId(rows, i)), parent |-> RowParent(rows, i),
                        quantity |-> rows[i].quantity]]]

-----------------------------------------------------------------------------
(* normalizeRootAssemblyBom                                                 *)

\* parentAssemblyFor: a parent that is missing, or no assembly, is the root
InstanceParent(instances, i) ==
    LET parents == {j \in PlacesOf(instances, TRUE) : instances[j].id = instances[i].parent}
    IN  AssemblySource(IF parents = {} THEN 0 ELSE instances[i].parent)

OfInstances(instances) ==
    [nodes |-> [i \in {0} \cup PlacesOf(instances, TRUE) |->
                   IF i = 0 THEN Root
                   ELSE [source |-> AssemblySource(instances[i].id), parent |-> InstanceParent(instances, i)]],
     parts |-> [i \in PlacesOf(instances, FALSE) |-> BomPart(instances[i], instances[i].id)],
     instances |-> [i \in PlacesOf(instances, FALSE) |->
                       [source |-> <<"part-instance", instances[i].id>>,
                        part |-> PartSource(instances[i], instances[i].id),
                        parent |-> InstanceParent(instances, i), quantity |-> 1]]]

-----------------------------------------------------------------------------
(* The snapshot's graph: nodes and instances by source, parts in order.     *)

Empty == [nodes |-> <<>>, parts |-> <<>>, instances |-> <<>>]

SourcesIn(items) == {items[i].source : i \in DOMAIN items}
LastOf(items, source) == items[Max({i \in DOMAIN items : items[i].source = source})]
Among(source, items) == IF source \in SourcesIn(items) THEN source ELSE Missing
Over(f, g) == [x \in DOMAIN f \cup DOMAIN g |-> IF x \in DOMAIN f THEN f[x] ELSE g[x]]

\* upsertAssemblyNodes
UpsertNodes(nodes, sent) ==
    Over([source \in SourcesIn(sent) |-> Among(LastOf(sent, source).parent, sent)], nodes)

\* upsertPartDefinitions, and the record that each source was taken for
UpsertPart(s, p) ==
    LET same == {i \in DOMAIN s.parts : s.parts[i].source = p.source \/ s.parts[i].key = p.key}
        at == IF same = {} THEN Len(s.parts) + 1 ELSE Min(same)
    IN  [parts |-> IF same = {} THEN Append(s.parts, p) ELSE [s.parts EXCEPT ![at] = p],
         taken |-> Over([x \in {p.source} |-> at], s.taken)]
UpsertParts(parts, sent) ==
    LET upserted[n \in 0..Max({0} \cup DOMAIN sent)] ==
            IF n = 0 THEN [parts |-> parts, taken |-> <<>>]
            ELSE IF n \notin DOMAIN sent THEN upserted[n - 1]
            ELSE UpsertPart(upserted[n - 1], sent[n])
    IN  upserted[Max({0} \cup DOMAIN sent)]

\* upsertPartInstances
UpsertInstances(instances, bom, taken) ==
    Over([source \in SourcesIn(bom.instances) |->
             LET x == LastOf(bom.instances, source)
             IN  [part |-> taken[x.part], parent |-> Among(x.parent, bom.nodes), quantity |-> x.quantity]],
         instances)

\* importBomGraph
Imported(graph, bom) ==
    LET upserted == UpsertParts(graph.parts, bom.parts)
    IN  [nodes |-> UpsertNodes(graph.nodes, bom.nodes), parts |-> upserted.parts,
         instances |-> UpsertInstances(graph.instances, bom, upserted.taken)]

-----------------------------------------------------------------------------
(* For the properties.                                                      *)

\* The nodes that a source is below, itself included.
AboveIn(graph, source) ==
    LET up[n \in 0..Cardinality(DOMAIN graph.nodes)] ==
            IF n = 0 THEN source ELSE IF up[n - 1] = Missing THEN Missing ELSE graph.nodes[up[n - 1]]
    IN  {up[n] : n \in DOMAIN up} \ {Missing}

\* How many of a part the graph has below a node.
HowMany(graph, node, key) ==
    MapThenSumSet(LAMBDA s : graph.instances[s].quantity,
        {s \in DOMAIN graph.instances : /\ graph.parts[graph.instances[s].part].key = key
                                        /\ node \in AboveIn(graph, graph.instances[s].parent)})

\* No two items of the table, or rows that others are under, are taken for one.
Distinct(bom) ==
    /\ Cardinality(SourcesIn(bom.nodes)) = Cardinality(DOMAIN bom.nodes)
    /\ Cardinality(SourcesIn(bom.instances)) = Cardinality(DOMAIN bom.instances)
InOrder(rows) ==
    \A i \in DOMAIN rows :
        /\ \A j \in DOMAIN rows : rows[j].number = rows[i].number => i = j
        /\ \A n \in 1..(Len(rows[i].number) - 1) : \E j \in 1..(i - 1) :
               rows[j].assembly /\ rows[j].number = SubSeq(rows[i].number, 1, n)

\* What Onshape sends: items with an identity that no part has, and that is not Missing; a
\* table, with numbers and quantities; instances, each once and in a forest.
IsItems(items, IdOf(_)) ==
    /\ items \in Seq(ToSet(items))
    /\ Missing # Root.source
    /\ \A i \in DOMAIN items :
        /\ items[i].assembly \in BOOLEAN
        /\ Missing # AssemblySource(IdOf(i))
        /\ \A j \in DOMAIN items : items[i].part # IdOf(j)
IsTable(rows) ==
    /\ IsItems(rows, LAMBDA i : RowId(rows, i))
    /\ \A i \in DOMAIN rows : rows[i].number \in Seq(Nat) /\ rows[i].quantity \in Nat
IsList(instances) ==
    /\ IsItems(instances, LAMBDA i : instances[i].id)
    /\ \A i \in DOMAIN instances :
        /\ instances[i].id # 0
        /\ \A j \in DOMAIN instances : instances[i].id = instances[j].id => i = j
    /\ \A S \in SUBSET PlacesOf(instances, TRUE) :
           S # {} => \E i \in S : \A j \in S : instances[i].parent # instances[j].id

\* What is imported again changes nothing; each part is there once, whatever versions of it
\* there are, and each instance is one of its part; everything is below the root.
ImportedOnce(bom) ==
    LET graph == Imported(Empty, bom)
        keyOf(source) == (CHOOSE p \in Range(bom.parts) : p.source = source).key
    IN  /\ Imported(graph, bom) = graph
        /\ \A i, j \in DOMAIN graph.parts : graph.parts[i].key = graph.parts[j].key => i = j
        /\ \A x \in Range(bom.instances) :
               graph.parts[graph.instances[x.source].part].key = keyOf(x.part)
        /\ Distinct(bom) => \A source \in DOMAIN graph.nodes :
               Root.source \in AboveIn(graph, source)

\* The graph has as many of each part below each assembly as the table says.
TableKept(rows) ==
    LET bom == OfTable(rows)
        graph == Imported(Empty, bom)
    IN  /\ ImportedOnce(bom)
        /\ Distinct(bom) /\ InOrder(rows) =>
            \A i \in {i \in DOMAIN rows : rows[i].assembly /\ rows[i].number # <<>>}, p \in ToSet(graph.parts) :
                HowMany(graph, AssemblySource(RowId(rows, i)), p.key) =
                    MapThenSumSet(LAMBDA j : rows[j].quantity,
                        {j \in DOMAIN rows : /\ ~rows[j].assembly
                                             /\ IsPrefix(rows[i].number, rows[j].number)
                                             /\ PartKey(rows[j], RowId(rows, j)) = p.key})

\* The graph has each instance once, below all the assemblies it is in.
InstancesKept(instances) ==
    LET bom == OfInstances(instances)
        graph == Imported(Empty, bom)
    IN  /\ ImportedOnce(bom)
        /\ \A p \in ToSet(graph.parts) :
               HowMany(graph, Root.source, p.key) =
                   Cardinality({i \in PlacesOf(instances, FALSE) :
                                   PartKey(instances[i], instances[i].id) = p.key})
=============================================================================
