------------------------------ MODULE StepTree ------------------------------
(***************************************************************************)
(* What the text parser makes of the products of a STEP file               *)
(* (src/cad/parsing/stepTextParser.ts, stepTextStructuredResultParser.ts   *)
(* and stepFlatResultParser.ts): a product that is used in several places, *)
(* or in something that is, becomes an assembly node or a part instance in *)
(* each of them.                                                           *)
(*                                                                         *)
(* A file has its products and their usages in the order of the text, and  *)
(* a name per product; a usage has an identity, a parent, a child, a name  *)
(* or Nil, and a quantity.  Reading entities from text is left out; a      *)
(* name stands for all that differ from it in case or punctuation.         *)
(***************************************************************************)
EXTENDS Naturals, Sequences, FiniteSets, SequencesExt, FiniteSetsExt

CONSTANT Nil

Usages(file) == ToSet(file.usages)
UsesIn(file, product) == {u \in Usages(file) : u.parent = product}

\* resolveRoots: what nothing uses, or else the first product that uses another
Roots(file) ==
    LET parents == {u.parent : u \in Usages(file)}
        unused == parents \ {u.child : u \in Usages(file)}
    IN  IF unused = {} THEN {file.usages[1].parent} ELSE unused

\* An occurrence is a root and the usages that lead from it.
OccursAtRoot(r) == [root |-> r, path |-> <<>>]
ProductOf(o) == IF o.path = <<>> THEN o.root ELSE Last(o.path).child
ParentOf(o) == IF o.path = <<>> THEN Nil ELSE [o EXCEPT !.path = Front(@)]
Visited(o) == {o.root} \cup {u.child : u \in ToSet(o.path)}

IsAssembly(file, o) == UsesIn(file, ProductOf(o)) # {}

\* A product in its own ancestry is a node, and not expanded again.
Expanded(file, o) ==
    IsAssembly(file, o) /\ (o.path # <<>> => ProductOf(o) \notin Visited(ParentOf(o)))

Occurrences(file) ==
    LET below[n \in 0..Len(file.products)] ==
            IF n = 0 THEN {OccursAtRoot(r) : r \in Roots(file)}
            ELSE UNION {{[o EXCEPT !.path = Append(@, u)] : u \in UsesIn(file, ProductOf(o))} :
                        o \in {o \in below[n - 1] : Expanded(file, o)}}
    IN  UNION {below[n] : n \in 0..Len(file.products)}

-----------------------------------------------------------------------------
\* occurrenceNameFor
NameOf(file, u) == IF u.name = Nil THEN file.name[u.child] ELSE u.name

\* Siblings of one name are told apart by the identities of their usages.
Segment(file, u) ==
    LET namesakes == {v \in UsesIn(file, u.parent) : NameOf(file, v) = NameOf(file, u)}
    IN  <<NameOf(file, u), IF namesakes = {u} THEN Nil ELSE u.id>>

InstancePath(file, o) ==
    <<<<file.name[o.root], Nil>>>> \o [i \in DOMAIN o.path |-> Segment(file, o.path[i])]

\* Faulty: how often the assembly itself occurs is forgotten.
OwnQuantity(o) == IF o.path = <<>> THEN 1 ELSE Last(o.path).quantity
QuantityOf(o) ==
    LET times[n \in 0..Len(o.path)] == IF n = 0 THEN 1 ELSE times[n - 1] * o.path[n].quantity
    IN  times[Len(o.path)]

InferredType(depth) ==
    CASE depth = 0 -> "ROOT" [] depth = 1 -> "SUBSYSTEM" [] depth = 2 -> "MECHANISM"
      [] depth = 3 -> "COMPONENT_ASSEMBLY" [] OTHER -> "UNMAPPED"

Node(file, o) ==
    [id |-> o, parent |-> ParentOf(o), sig |-> InstancePath(file, o),
     name |-> Last(InstancePath(file, o))[1], type |-> InferredType(Len(o.path))]

Instance(file, o) ==
    [id |-> o, parent |-> ParentOf(o), sig |-> InstancePath(file, o), part |-> ProductOf(o),
     quantity |-> QuantityOf(o)]

Part(file, product) == [id |-> product, sig |-> file.name[product]]

\* createStructuredStepResult
Structured(file) ==
    LET leaves == {o \in Occurrences(file) : ~IsAssembly(file, o)}
    IN  [nodes |-> {Node(file, o) : o \in Occurrences(file) \ leaves},
         parts |-> {Part(file, ProductOf(o)) : o \in leaves},
         instances |-> {Instance(file, o) : o \in leaves}]

\* createFlatStepResult: the first product holds nothing, the others occur nowhere
Flattened(file) ==
    [nodes |-> {Node(file, OccursAtRoot(file.products[1]))},
     parts |-> {Part(file, product) : product \in ToSet(Tail(file.products))},
     instances |-> {}]

\* parseStepTextAssemblyGraph
Parsed(file) == IF file.usages = <<>> THEN Flattened(file) ELSE Structured(file)

-----------------------------------------------------------------------------
\* For the properties: how many of a product the file asks for, counted from product to
\* product, where none contains itself.
Needed(file) ==
    LET roots == Roots(file)
        needed[p \in ToSet(file.products)] ==
            (IF p \in roots THEN 1 ELSE 0)
                + MapThenSumSet(LAMBDA u : u.quantity * needed[u.parent],
                                {u \in Usages(file) : u.child = p})
    IN  needed

\* No product contains itself, however indirectly.
Founded(file) ==
    \A S \in SUBSET {u.parent : u \in Usages(file)} : S # {} =>
        \E p \in S : \A u \in Usages(file) : u.parent = p => u.child \notin S

\* What the parser makes sure of: usages are of products, and have identities.  Quantities
\* may be fractions in a file; they are whole here.
IsFile(file) ==
    /\ file.products \in Seq(ToSet(file.products))
    /\ file.usages \in Seq(ToSet(file.usages))
    /\ file.usages # <<>>
    /\ \A u \in Usages(file) : /\ {u.parent, u.child} \subseteq ToSet(file.products)
                               /\ u.quantity \in Nat \ {0}
    /\ \A u, v \in Usages(file) : u.id = v.id => u = v
    /\ Nil \notin Occurrences(file)
=============================================================================
