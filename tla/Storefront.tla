------------------------------ MODULE Storefront ------------------------------
(***************************************************************************)
(* The smaller modules of the shop, and pages that change something,       *)
(* beside each other.  They share no table and call each other only to     *)
(* look something up, so that a behaviour is one desk at work; what their  *)
(* handlers have in common is in Handler, what the pages have in Page.     *)
(***************************************************************************)
EXTENDS Integers, Sequences, HandlerNames, CouponLimit

CONSTANTS None, Orders, Prices, Categories, Names, System, Keys, Products, Quantities, Cells,
          DeskCalls   \* bound: [Desks -> the calls it gets]

Desks == {"customer", "cards", "coupon", "catalog", "shipping", "review", "roles", "tree",
          "cartPage", "listPage", "rolesPage"}

ASSUME NoneAssumption == None \notin Calls \cup Earlier \cup Categories
\* What a command says when it leaves something as it is, is no name.
ASSUME SameAssumption == "same" \notin Calls \cup Earlier \cup Categories \cup {None}
ASSUME ProductsAssumption == Products \cap (Calls \cup Earlier) = {}
ASSUME QuantitiesAssumption == Quantities \subseteq Nat
ASSUME DeskCallsAssumption == DeskCalls \in [Desks -> SUBSET Calls]

VARIABLES db, phase, command, copy, current, faults,
          desk   \* the module at work

vars == <<db, phase, command, copy, current, faults, desk>>

Customers == INSTANCE Customer WITH Calls <- DeskCalls["customer"]
Methods == INSTANCE Cards WITH Calls <- DeskCalls["cards"]
Coupons == INSTANCE Coupon WITH Calls <- DeskCalls["coupon"]
Catalogue == INSTANCE Catalog WITH Calls <- DeskCalls["catalog"]
Shipments == INSTANCE Shipping WITH Calls <- DeskCalls["shipping"]
Reviews == INSTANCE Review WITH Calls <- DeskCalls["review"]
RoleAdmin == INSTANCE Roles WITH Calls <- DeskCalls["roles"]
Tree == INSTANCE Categories WITH Calls <- DeskCalls["tree"]
CartView == INSTANCE CartPage WITH Calls <- DeskCalls["cartPage"]
ListView == INSTANCE ListPage WITH Calls <- DeskCalls["listPage"]
RolesView == INSTANCE RolesPage WITH Calls <- DeskCalls["rolesPage"]

Init ==
  \/ desk = "customer" /\ Customers!Init
  \/ desk = "cards" /\ Methods!Init
  \/ desk = "coupon" /\ Coupons!Init
  \/ desk = "catalog" /\ Catalogue!Init
  \/ desk = "shipping" /\ Shipments!Init
  \/ desk = "review" /\ Reviews!Init
  \/ desk = "roles" /\ RoleAdmin!Init
  \/ desk = "tree" /\ Tree!Init
  \/ desk = "cartPage" /\ CartView!Init
  \/ desk = "listPage" /\ ListView!Init
  \/ desk = "rolesPage" /\ RolesView!Init

Next ==
  /\ \/ desk = "customer" /\ Customers!Next
     \/ desk = "cards" /\ Methods!Next
     \/ desk = "coupon" /\ Coupons!Next
     \/ desk = "catalog" /\ Catalogue!Next
     \/ desk = "shipping" /\ Shipments!Next
     \/ desk = "review" /\ Reviews!Next
     \/ desk = "roles" /\ RoleAdmin!Next
     \/ desk = "tree" /\ Tree!Next
     \/ desk = "cartPage" /\ CartView!Next
     \/ desk = "listPage" /\ ListView!Next
     \/ desk = "rolesPage" /\ RolesView!Next
  /\ UNCHANGED desk

Spec == Init /\ [][Next]_vars

-----------------------------------------------------------------------------
(* Properties *)

\* Every variable has its type.
TypeOK ==
  /\ desk \in Desks
  /\ desk = "customer" => Customers!TypeOK
  /\ desk = "cards" => Methods!TypeOK
  /\ desk = "coupon" => Coupons!TypeOK
  /\ desk = "catalog" => Catalogue!TypeOK
  /\ desk = "shipping" => Shipments!TypeOK
  /\ desk = "review" => Reviews!TypeOK
  /\ desk = "roles" => RoleAdmin!TypeOK
  /\ desk = "tree" => Tree!TypeOK
  /\ desk = "cartPage" => CartView!TypeOK
  /\ desk = "listPage" => ListView!TypeOK
  /\ desk = "rolesPage" => RolesView!TypeOK

\* A customer with addresses has exactly one default address, whichever copies are saved
\* over which.
OneDefaultAddress == desk = "customer" => Customers!OneDefaultAddress

\* A coupon never stores more redemptions than it allows, nor two for one order, however
\* uses cross.
RedemptionsWithinLimit == desk = "coupon" => Coupons!RedemptionsWithinLimit

\* The rules that hold as long as no save has undone another: one default payment method,
\* coupon uses that stay, one shipment of an order with the tracking number it was given,
\* reviews, roles and the tree of categories as their calls left them.  The images of a
\* review and the administrator's role are safe in any case.
AnswersStand ==
  /\ desk = "cards" => Methods!OneDefaultCard
  /\ desk = "coupon" => Coupons!UsesAreKept
  /\ desk = "shipping" => Shipments!OneShipment
  /\ desk = "review" => Reviews!AnswersAreKept
  /\ desk = "roles" => RoleAdmin!RolesAsAnswered
  /\ desk = "tree" => Tree!MovesAreKept

\* A copy is like what it copies when nothing is under way.  When no save has undone another
\* and no message was handled out of order, the document of the search index is the
\* product: in everything but a category that a call took away, which the row keeps and
\* the document loses.  When no older answer was shown last, no page was put back over a
\* later change, and no change was made without a word to the page, each page shows what
\* is stored.
CopiesFollow ==
  /\ desk = "catalog" => Catalogue!IndexFollowsCatalog
  /\ desk = "cartPage" => CartView!CartShown
  /\ desk = "listPage" => ListView!ListShown
  /\ desk = "rolesPage" => RolesView!RolesShown
=============================================================================
