----------------------------- MODULE Purchasing -----------------------------
(***************************************************************************)
(* Buying parts and material (src/routes/registerRoutes.ts, purchases and  *)
(* materials; src/routes/workflowAuthorization.ts; src/data/store.ts).  A  *)
(* purchase is requested, approved on a quote, ordered, shipped, delivered *)
(* and received in pieces.  A receipt creates part instances or raises a   *)
(* material's stock, and its client repeats the command, with the same     *)
(* operation id, when the answer was lost.                                 *)
(*                                                                         *)
(* One action is one accepted request; a repeated receipt that is answered *)
(* from the first one changes nothing and is a stuttering step.            *)
(* Abstractions: quantities are whole and exact (the code rounds decimal   *)
(* ones to twelve places and compares with a tolerance); of the quotes     *)
(* only whether one is selected is kept; received part instances are       *)
(* counted (Hierarchy shows that none is lost); who may approve is left    *)
(* out: a refusal is a request that is not made.                           *)
(***************************************************************************)
EXTENDS Integers, FiniteSets, Functions

CONSTANTS
  Purchases, Materials, Definitions,   \* ids
  Operations,      \* operation ids a client chooses
  Places,          \* stock locations
  None,
  MaxQuantity      \* bound on a purchase's quantity and on a count of stock

PurchasingAssumption ==
  /\ None \notin Materials \cup Definitions \cup Places \cup Nat \cup {"nothing"}
  /\ MaxQuantity \in Nat \ {0}

VARIABLES
  item,         \* purchase -> its record, or None
  receipt,      \* purchase, operation -> the quantity received by it, or None
  created,      \* purchase -> how many part instances its receipts created
  material,     \* material -> [onHand, place], or None
  counted,      \* history: material -> its stock by hand, net of what was received by then
  madeOf,       \* definition -> the material it refers to, "nothing", or None
  used          \* the materials that manufacturing tasks are to use

purchasingVars == <<item, receipt, created, material, counted, madeOf, used>>

Approvals == {"pending", "approved", "rejected"}
Orders == {"not-ordered", "ordered", "shipped", "delivered", "cancelled"}
Items == [service : BOOLEAN, definition : Definitions \cup {None}, material : Materials \cup {None},
          quantity : 1..MaxQuantity, quoted : BOOLEAN, approval : Approvals, order : Orders]

Stock == [onHand : Nat, place : Places]

PurchasingRecordsAssumption == None \notin Items \cup Stock

Requested == {i \in Purchases : item[i] # None}
Stocked == {m \in Materials : material[m] # None}
Known == {d \in Definitions : madeOf[d] # None}
Operated(i) == {o \in Operations : receipt[i][o] # None}
ReceivedOf(i) == SumFunctionOnSet(receipt[i], Operated(i))

PurchasingInit ==
  /\ item = [i \in Purchases |-> None]
  /\ receipt = [i \in Purchases |-> [o \in Operations |-> None]]
  /\ created = [i \in Purchases |-> 0]
  /\ material = [m \in Materials |-> None]
  /\ counted = [m \in Materials |-> 0]
  /\ madeOf = [d \in Definitions |-> None]
  /\ used = {}

-----------------------------------------------------------------------------
(* Requesting, editing, approving and ordering.                            *)

\* validatePurchaseItemLinks
Linked(record) ==
  /\ record.definition \in Known \cup {None}
  /\ record.material \in Stocked \cup {None}

RequestPurchase(i) ==
  /\ i \notin Requested
  /\ \E record \in Items :
       /\ record.approval = "pending" /\ record.order = "not-ordered"
       /\ Linked(record)
       /\ item' = [item EXCEPT ![i] = record]
  /\ UNCHANGED <<receipt, created, material, counted, madeOf, used>>

\* validateReceivedPurchaseItemUpdate
KeepsReceived(i, record) ==
  Operated(i) # {} => /\ record.quantity >= ReceivedOf(i)
                      /\ record.service = item[i].service
                      /\ record.definition = item[i].definition
                      /\ record.material = item[i].material

\* assessGenericPatch: the workflow's fields go through its own routes, and
\* the others are open only until a decision or an order.
EditableUntilOrdered(i) == item[i].order = "not-ordered"   \* mutant: a decision does not close it
Editable(i) == item[i].approval = "pending" /\ item[i].order = "not-ordered"

PatchPurchase(i) ==
  /\ i \in Requested
  /\ Editable(i)
  /\ \E d \in Definitions \cup {None}, m \in Materials \cup {None}, q \in 1..MaxQuantity, c \in BOOLEAN :
       LET record == [item[i] EXCEPT !.definition = d, !.material = m, !.quantity = q, !.quoted = c]
       IN  /\ Linked(record)
           /\ KeepsReceived(i, record)
           /\ item' = [item EXCEPT ![i] = record]
  /\ UNCHANGED <<receipt, created, material, counted, madeOf, used>>

\* validatePurchaseApproval: on a selected quote, before ordering, once
Decide(i) ==
  /\ i \in Requested
  /\ item[i].quoted
  /\ item[i].order = "not-ordered"
  /\ item[i].approval = "pending"
  /\ \E decision \in {"approved", "rejected"} : item' = [item EXCEPT ![i].approval = decision]
  /\ UNCHANGED <<receipt, created, material, counted, madeOf, used>>

NextOrder == [s \in {"not-ordered", "ordered", "shipped"} |->
  CASE s = "not-ordered" -> "ordered" [] s = "ordered" -> "shipped" [] s = "shipped" -> "delivered"]

\* validatePurchaseTransition, and the transition route's own guard
OrderStep(i, to) ==
  /\ to = "ordered" => item[i].approval = "approved"
  /\ \/ item[i].order \in DOMAIN NextOrder /\ to = NextOrder[item[i].order]
     \/ to = "cancelled" /\ item[i].order \notin {"delivered", "cancelled"}

Transition(i) ==
  /\ i \in Requested
  /\ \E to \in Orders : OrderStep(i, to) /\ item' = [item EXCEPT ![i].order = to]
  /\ UNCHANGED <<receipt, created, material, counted, madeOf, used>>

RemovePurchase(i) ==
  /\ i \in Requested
  /\ Operated(i) = {}
  /\ item' = [item EXCEPT ![i] = None]
  /\ UNCHANGED <<receipt, created, material, counted, madeOf, used>>

-----------------------------------------------------------------------------
(* Receiving.                                                              *)

\* A definition wins over a material; a service brings no stock.
BringsParts(record) == ~record.service /\ record.definition # None
BringsMaterial(record) == ~record.service /\ record.definition = None /\ record.material # None

FitsAlone(i, q) == q <= item[i].quantity      \* mutant: earlier receipts are not counted
Fits(i, q) == ReceivedOf(i) + q <= item[i].quantity

\* a material has one place for its stock, which an empty one may change
PlaceAgrees(m, at) == material[m].onHand > 0 => material[m].place = at

Receive(i, o, q, at) ==
  /\ i \in Requested
  /\ o \notin Operated(i)
  /\ BringsParts(item[i]) => item[i].definition \in Known
  /\ item[i].order \in {"ordered", "shipped", "delivered"}
  /\ Fits(i, q)
  /\ IF BringsMaterial(item[i])
     THEN /\ item[i].material \in Stocked
          /\ PlaceAgrees(item[i].material, at)
          /\ material' = [material EXCEPT ![item[i].material] =
               [onHand |-> @.onHand + q, place |-> IF @.onHand = 0 THEN at ELSE @.place]]
     ELSE UNCHANGED material
  /\ created' = [created EXCEPT ![i] = IF BringsParts(item[i]) THEN @ + q ELSE @]
  /\ receipt' = [receipt EXCEPT ![i][o] = q]
  /\ UNCHANGED <<item, counted, madeOf, used>>

-----------------------------------------------------------------------------
(* Materials and part definitions.                                         *)

ReceivedInto(m) ==
  SumFunctionOnSet([i \in Purchases |-> ReceivedOf(i)],
                   {i \in Requested : BringsMaterial(item[i]) /\ item[i].material = m})

\* create a material, or set its stock and place by hand
CountMaterial(m) ==
  /\ \E q \in 0..MaxQuantity, at \in Places :
       /\ material' = [material EXCEPT ![m] = [onHand |-> q, place |-> at]]
       /\ counted' = [counted EXCEPT ![m] = q - ReceivedInto(m)]
  /\ UNCHANGED <<item, receipt, created, madeOf, used>>

Unreferenced(m) ==
  /\ m \notin used
  /\ \A i \in Requested : item[i].material # m
  /\ \A d \in Known : madeOf[d] # m

RemoveMaterial(m) ==
  /\ m \in Stocked
  /\ Unreferenced(m)
  /\ material' = [material EXCEPT ![m] = None]
  /\ counted' = [counted EXCEPT ![m] = 0]
  /\ UNCHANGED <<item, receipt, created, madeOf, used>>

\* validateTaskLinks, as tasks that use a material come, change and go
PlanManufacturing ==
  /\ \E materials \in SUBSET Stocked : used' = materials
  /\ UNCHANGED <<item, receipt, created, material, counted, madeOf>>

\* create a definition, or change the material it refers to
SaveDefinition(d) ==
  /\ \E m \in Stocked \cup {"nothing"} : madeOf' = [madeOf EXCEPT ![d] = m]
  /\ UNCHANGED <<item, receipt, created, material, counted, used>>

\* a definition made or bought comes with its purchase, for the same material
AcquireDefinition(d, i) ==
  /\ d \notin Known /\ i \notin Requested
  /\ \E m \in Stocked \cup {"nothing"}, service \in BOOLEAN :
       /\ madeOf' = [madeOf EXCEPT ![d] = m]
       /\ item' = [item EXCEPT ![i] =
            [service |-> service, definition |-> d, material |-> IF m = "nothing" THEN None ELSE m,
             quantity |-> 1, quoted |-> FALSE, approval |-> "pending", order |-> "not-ordered"]]
  /\ UNCHANGED <<receipt, created, material, counted, used>>

RemoveDefinition(d) ==
  /\ d \in Known
  /\ \A i \in Requested : item[i].definition # d
  /\ madeOf' = [madeOf EXCEPT ![d] = None]
  /\ UNCHANGED <<item, receipt, created, material, counted, used>>

PurchasingNext ==
  \/ \E i \in Purchases : RequestPurchase(i) \/ PatchPurchase(i) \/ RemovePurchase(i)
  \/ \E i \in Purchases : Decide(i) \/ Transition(i)
  \/ \E i \in Purchases, o \in Operations, q \in 1..MaxQuantity, at \in Places : Receive(i, o, q, at)
  \/ \E m \in Materials : CountMaterial(m) \/ RemoveMaterial(m)
  \/ PlanManufacturing
  \/ \E d \in Definitions : SaveDefinition(d) \/ RemoveDefinition(d)
  \/ \E d \in Definitions, i \in Purchases : AcquireDefinition(d, i)

PurchasingSpec == PurchasingInit /\ [][PurchasingNext]_purchasingVars

-----------------------------------------------------------------------------
PurchasingTypeOK ==
  /\ item \in [Purchases -> Items \cup {None}]
  /\ receipt \in [Purchases -> [Operations -> 1..MaxQuantity \cup {None}]]
  /\ created \in [Purchases -> Nat]
  /\ material \in [Materials -> Stock \cup {None}]
  /\ counted \in [Materials -> Int]
  /\ madeOf \in [Definitions -> Materials \cup {"nothing", None}]
  /\ used \subseteq Materials

\* Only what was approved on a quote is ordered, and no more than was ordered
\* is ever received, over any number of receipts and repeated commands.
OnlyApprovedIsReceived ==
  \A i \in Requested :
     /\ item[i].order \in {"ordered", "shipped", "delivered"} =>
          item[i].approval = "approved" /\ item[i].quoted
     /\ Operated(i) # {} => item[i].order \notin {"not-ordered"} /\ item[i].approval = "approved"
     /\ ReceivedOf(i) <= item[i].quantity

\* Stock is what was counted plus what was received, each receipt once: the
\* part instances of a purchase and the material it went into add up to its
\* receipts, whatever was retried, recounted or cancelled.
StockMatchesReceipts ==
  /\ \A i \in Requested : created[i] = IF BringsParts(item[i]) THEN ReceivedOf(i) ELSE 0
  /\ \A i \in Purchases \ Requested : Operated(i) = {} /\ created[i] = 0
  /\ \A m \in Stocked : material[m].onHand = counted[m] + ReceivedInto(m)

\* What a purchase or a definition is made of is still there, so receiving
\* never finds its destination gone.
MaterialsStay ==
  /\ \A i \in Requested : Linked(item[i])
  /\ \A d \in Known : madeOf[d] \in Stocked \cup {"nothing"}
  /\ used \subseteq Stocked

\* What was decided on is what is bought: after a decision the parts, material,
\* quantity and quote of a purchase stay as they were until it is removed, and
\* an order is never taken back.
DecisionsStand ==
  [][\A i \in Purchases :
       item[i] # None /\ item[i].approval # "pending" /\ item'[i] # None =>
         /\ [item'[i] EXCEPT !.order = item[i].order] = item[i]
         /\ item[i].order # "not-ordered" => item'[i].order # "not-ordered"]_purchasingVars
=============================================================================
