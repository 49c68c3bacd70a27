-------------------------------- MODULE MCCad --------------------------------
(***************************************************************************)
(* CAD data comes from uploaded STEP files (CadImport) or from Onshape     *)
(* (OnshapeSync).  The two share no state, and TLC takes one of them in a  *)
(* behaviour.  Of uploads it looks at one thing at a time: a crowd of five *)
(* over two slots and a queue of two, none of which gets beyond its parse; *)
(* two reviews that meet, and a later import that finds their rules; one   *)
(* import that a review and a finalization meet; or one import of a larger *)
(* tree, reviewed in any way and then finalized.  Requests of one kind are *)
(* interchangeable: they come in order.                                    *)
(***************************************************************************)
EXTENDS CadImport, OnshapeSync, CadFiles

CONSTANTS i1, i2, v, p1, p2, p3, p4, p5, r1, r2, f1, root, sub, mech, comp, plate

Chained == [n \in Nodes |->
    CASE n = root -> None [] n = sub -> root [] n = mech -> sub [] n = comp -> mech]
Fork == [Chained EXCEPT ![comp] = sub]
Single == [parent |-> [n \in {root} |-> None], holder |-> <<>>]
Flat == [parent |-> [n \in {root} |-> None], holder |-> [p \in Parts |-> root]]
Tree(parents, n) == [parent |-> parents, holder |-> [p \in Parts |-> n]]
MCGraphs == {Single, Flat, Tree(Chained, comp), Tree(Chained, root), Tree(Fork, mech),
             Tree([Chained EXCEPT ![root] = comp], mech)}

Confirm(kind, target) == [kind |-> kind, target |-> target, status |-> "CONFIRMED"]
MCDecisions ==
    {Confirm(kind, None) : kind \in {"SUBSYSTEM", "MECHANISM", "COMPONENT_ASSEMBLY", "IGNORE"}}
        \cup {Confirm("COMPONENT_ASSEMBLY", Mechanism), Confirm("PART_DEFINITION", None), Unmapped}

Arrivals == <<p1, p2, p3, p4, p5>>
Arriving ==
    /\ \A i \in 2..Len(Arrivals) : at[Arrivals[i]] # "idle" => at[Arrivals[i - 1]] # "idle"
    /\ at[r2] # "idle" => at[r1] # "idle"

Ready(p) == at[p] = "parsing" /\ stage[p] \in Ended

Crowd ==
    /\ \A p \in Parses : snapshots[p] = "none" /\ at[p] # "broken"
    /\ \A i \in 2..Len(Arrivals) :
        at[Arrivals[i]] # "idle" => at[Arrivals[i - 1]] # "created" /\ stage[Arrivals[i - 1]] # "idle"
    /\ Cardinality({p \in Parses : Ready(p)}) <= 1

Few(n) == \A i \in (n + 1)..Len(Arrivals) : at[Arrivals[i]] = "idle"
Smoothly == \A p \in Parses : stage[p] \in {"idle", "parsing", "parsed"}
KindsOf(p, s, kinds) == mappings[p][s] = None \/ mappings[p][s].kind \in kinds

Rivals ==
    /\ Few(2) /\ Smoothly
    /\ \A p \in Parses :
        /\ graphs[p] \in {NoGraph, Single}
        /\ KindsOf(p, root, {"SUBSYSTEM", "IGNORE", "UNMAPPED"})
    /\ at[f1] = "idle"
    /\ \A rule \in rules : rule.kind \in {"SUBSYSTEM", "IGNORE"}
    /\ at[r1] # "idle" => at[p1] = "done"
    /\ at[p2] # "idle" => \A r \in Reviews : at[r] \in {"idle", "answered", "broken"}

Meeting ==
    /\ Few(1) /\ Smoothly
    /\ graphs[p1] \in {NoGraph, Flat}
    /\ KindsOf(p1, root, {"SUBSYSTEM", "UNMAPPED"})
    /\ KindsOf(p1, plate, {"PART_DEFINITION", "UNMAPPED"})
    /\ at[r2] = "idle"

Open(s) == mappings[p1][s] = None \/ s \in review[r1].todo
Tall ==
    /\ Few(1) /\ Smoothly
    /\ at[r2] = "idle" /\ crossed = {} /\ rules = {}
    /\ at[r1] # "idle" =>
        /\ at[p1] = "done"
        /\ \A s \in Sources : Open(s) \/
               mappings[p1][s].kind \in
                   CASE s = root -> {"SUBSYSTEM", "UNMAPPED"}
                     [] s = sub -> {"SUBSYSTEM", "IGNORE", "UNMAPPED"}
                     [] s = mech -> {"MECHANISM", "SUBSYSTEM", "UNMAPPED"}
                     [] s = comp -> {"COMPONENT_ASSEMBLY", "UNMAPPED"}
                     [] s = plate -> {"PART_DEFINITION", "UNMAPPED"}
    /\ planned # {Mechanism} => at[r1] = "answered"

StepFocus ==
    Arriving /\ IF planned = {Mechanism} THEN Crowd \/ Rivals \/ Meeting \/ Tall ELSE Tall

(***************************************************************************)
(* Onshape.  What the connection does and what the imports read meet in    *)
(* one place only, whether a client has a token.  So a behaviour either    *)
(* explores the connection, with imports that all read the metadata of one *)
(* version, or the reads, with one lasting token.                          *)
(***************************************************************************)
Connecting ==
    /\ \A i \in Imports : asked[i] \in {Null, [ref |-> v, level |-> "shallow"]}
    /\ remaining = "unknown"

Reading ==
    /\ env = [access |-> TRUE, refresh |-> FALSE] /\ ~envDue
    /\ \A a \in Attempts : oauthStates[a] = "unasked"
    /\ \A r \in Renewals : progress[r] = "idle"

OnshapeFocus == (progress[i2] # "idle" => progress[i1] # "idle") /\ (Connecting \/ Reading)

(***************************************************************************)
(* Files: any combination of eight usages of five products, with siblings  *)
(* of one name, shared products, cycles and two roots of one name; two     *)
(* small snapshots with signatures of their own; mappings of one of them.  *)
(***************************************************************************)
Use(id, parent, child, name, n) ==
    [id |-> id, parent |-> parent, child |-> child, name |-> name, quantity |-> n]
Uses == <<Use(1, root, sub, None, 2), Use(2, root, sub, "y", 1), Use(3, sub, mech, None, 3),
          Use(4, root, mech, "x", 1), Use(5, mech, comp, None, 2), Use(6, comp, sub, None, 1),
          Use(7, mech, root, None, 1), Use(8, plate, mech, None, 1)>>
File(uses) ==
    [products |-> <<root, sub, mech, comp, plate>>, usages |-> uses,
     name |-> [p \in {root, sub, mech, comp, plate} |->
         CASE p \in {root, plate} -> "robot" [] p = sub -> "x" [] p = mech -> "m" [] p = comp -> "c"]]

Given(file, old, new, m, n) == [file |-> file, old |-> old, new |-> new, was |-> m, is |-> n]
Unread(s) == [x \in {y.id : y \in s.nodes \cup s.parts \cup s.instances} |-> None]
Compared(file, old, new) == Given(file, old, new, Unread(old), Unread(new))

ParsedFiles ==
    LET of(ids) == File(SelectSeq(Uses, LAMBDA u : u.id \in ids))
    IN  {Compared(of(ids), Parsed(of(before)), Parsed(of(ids))) :
            ids \in SUBSET DOMAIN Uses, before \in {{}, {1, 3, 4}, 1..5}}

\* up to three assemblies and two instances, whose part and place may change
Hung(n, p) == [id |-> n, sig |-> n, name |-> n, type |-> "UNMAPPED", parent |-> p]
HungAt(i, p, q, n) == [id |-> i, sig |-> i, parent |-> p, part |-> q, quantity |-> n]
SmallNodes == {{Hung(root, None)}} \cup
    {{Hung(root, None), Hung(sub, root), Hung(mech, n)} : n \in {root, sub}}
SmallInstances(nodes) ==
    LET ids == {n.id : n \in nodes}
    IN  {x \cup y : x \in {{}} \cup {{HungAt(i1, n, p, k)} : n \in ids \cup {None}, p \in {comp, plate}, k \in 1..2},
                    y \in {{}} \cup {{HungAt(i2, n, plate, 1)} : n \in ids}}
Small == UNION {{[nodes |-> nodes, instances |-> is, parts |-> {[id |-> p, sig |-> p] : p \in {comp, plate}}] :
                 is \in SmallInstances(nodes)} : nodes \in SmallNodes}
Before == {NoSnapshot} \cup
    {s \in Small : HungAt(i2, root, plate, 1) \in s.instances
                       /\ \E i \in s.instances : i.part = plate /\ i.quantity = 2}
SmallSnapshots == {Compared(File(<<>>), old, new) : old \in Before, new \in Small}

\* a chain of assemblies, and below two instances of one part, mapped in any way; then the
\* same with all identities renumbered
ChainFile(k) == File(<<Use(k + 1, root, sub, None, 1), Use(k + 2, sub, mech, None, 2),
                       Use(k + 3, mech, comp, None, 1), Use(k + 4, mech, comp, "d", 2)>>)
Renumbered(o) == IF o = comp THEN comp
                 ELSE [o EXCEPT !.path = [i \in DOMAIN @ |-> [@[i] EXCEPT !.id = @ - 10]]]
Reviewed3 == LET s == Parsed(ChainFile(0))
                 t == Parsed(ChainFile(10))
                 of(items, ds) == [{x.id : x \in items} -> ds]
                 decided == {None, Unmapped, Confirm("SUBSYSTEM", None), Confirm("MECHANISM", Mechanism),
                             [Confirm("COMPONENT_ASSEMBLY", Mechanism) EXCEPT !.status = "PROPOSED"]}
             IN  {Given(ChainFile(10), s, t, m, [x \in DOMAIN Unread(t) |-> m[Renumbered(x)]]) :
                     m \in {[x \in DOMAIN Unread(s) |->
                                IF x \in DOMAIN n THEN n[x] ELSE IF x \in DOMAIN i THEN i[x] ELSE None] :
                            n \in of(s.nodes, decided),
                            i \in of(s.instances, {None, Unmapped, Confirm("PART_DEFINITION", None)})}}
MCStepFiles == ParsedFiles \cup SmallSnapshots \cup Reviewed3
MCWorkspaceRecords == {[kind |-> "SUBSYSTEM", name |-> "x", id |-> sub], [kind |-> "MECHANISM", name |-> "m", id |-> mech]}

(***************************************************************************)
(* Bills of materials: tables of three rows, in any order, with rows that  *)
(* are taken for one another and one part in two versions; and assemblies  *)
(* of four instances whose parents may be parts, or missing.               *)
(***************************************************************************)
Row(assembly, number, id, of, version, n) ==
    [assembly |-> assembly, number |-> number, id |-> id, part |-> of, version |-> version, quantity |-> n]
TableRows == {Row(TRUE, number, id, None, v, 1) : number \in {<<>>, <<1>>, <<1, 1>>}, id \in {None, 2}}
    \cup {Row(FALSE, number, id, of, version, IF version = v THEN 2 ELSE 3) :
            number \in {<<1, 1>>, <<1, 2>>, <<1, 1, 1>>}, id \in {None, 2},
            of \in {None, plate}, version \in {v, comp}}
MCTables == UNION {[1..n -> TableRows] : n \in 1..2} \cup {<<top, x, y>> : top \in {r \in TableRows : r.number = <<1>>}, x, y \in TableRows}

Held(assembly, id, parent, version) ==
    [assembly |-> assembly, id |-> id, parent |-> parent, part |-> plate, version |-> version]
MCInstanceLists == {
    <<Held(TRUE, sub, a, v), Held(TRUE, mech, b, v), Held(FALSE, comp, c, v), Held(FALSE, root, d, w)>> :
        a \in {None, comp}, b \in {None, sub}, c, d \in {None, sub, mech, root}, w \in {v, comp}}

Focus ==
    CASE side = "upload" -> StepFocus [] side = "onshape" -> OnshapeFocus [] OTHER -> TRUE

-----------------------------------------------------------------------------
uploads == <<pool, cad>>

MCInit ==
    /\ \/ side \in {"upload", "onshape"} /\ files = None
       \/ FilesInit
    /\ CadInit
    /\ OnshapeInit
    /\ side # "onshape" => env = [access |-> FALSE, refresh |-> FALSE]

Uploading == side = "upload" /\ UNCHANGED <<side, files, onshapeVars>>
Fetching == side = "onshape" /\ UNCHANGED <<side, files, uploads>>

MCNext ==
    \/ \E p \in Parses : Upload(p) /\ Uploading
    \/ \E p \in Parses : BeginParsing(p) /\ Uploading
    \/ \E p \in Parses : Parse(p) /\ Uploading
    \/ \E p \in Parses : CreateSnapshot(p) /\ Uploading
    \/ \E p \in Parses : StoreGraph(p) /\ Uploading
    \/ \E p \in Parses : ReadRules(p) /\ Uploading
    \/ \E p \in Parses : MapSource(p) /\ Uploading
    \/ \E p \in Parses : CloseSnapshot(p) /\ Uploading
    \/ \E p \in Parses : CloseRun(p) /\ Uploading
    \/ \E p \in Parses : Fail(p) /\ Uploading
    \/ \E q \in Parses \cup Reviews \cup Finals : BreakOff(q) /\ Uploading
    \/ \E r \in Reviews : OpenReview(r) /\ Uploading
    \/ \E r \in Reviews : Decide(r) /\ Uploading
    \/ \E r \in Reviews : AddRule(r) /\ Uploading
    \/ \E r \in Reviews : Supersede(r) /\ Uploading
    \/ \E r \in Reviews : UpdateMapping(r) /\ Uploading
    \/ \E r \in Reviews : ListMappings(r) /\ Uploading
    \/ \E r \in Reviews : SyncSnapshot(r) /\ Uploading
    \/ \E r \in Reviews : SyncRun(r) /\ Uploading
    \/ \E f \in Finals : Check(f) /\ Uploading
    \/ \E f \in Finals : Finalize(f) /\ Uploading
    \/ Replan /\ Uploading
    \/ \E i \in Imports : ImportStep(i) /\ Fetching
    \/ \E p \in Refreshers : TokenSettles(p) /\ Fetching
    \/ \E ref \in Refs, p \in Phases : CacheExpires(ref, p) /\ Fetching
    \/ Age /\ UNCHANGED unread /\ Fetching
    \/ \E r \in Renewals : Renew(r) /\ UNCHANGED unread /\ Fetching
    \/ \E a \in Attempts : Authorize(a) /\ UNCHANGED unread /\ Fetching
    \/ \E a \in Attempts : Expire(a) /\ UNCHANGED unread /\ Fetching
    \/ \E c \in Callbacks : CallBack(c) /\ UNCHANGED unread /\ Fetching
    \/ \E c \in Callbacks : ExchangeSettles(c) /\ UNCHANGED unread /\ Fetching

MCSpec == MCInit /\ [][MCNext]_<<side, files, uploads, onshapeVars>> /\ CadFairness /\ OnshapeFairness

\* Whichever way the data comes, every request ends.
EveryRequestEnds == EveryCadRequestEnds /\ EveryFetchEnds
=============================================================================
