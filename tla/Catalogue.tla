----------------------------- MODULE Catalogue -----------------------------
(***************************************************************************)
(* Products and the managers who edit them: ProductService                 *)
(* (product.service.ts) as a whole.  Orders reserve and release units by   *)
(* $inc while a manager writes the stock as an absolute number, computed   *)
(* from the one on his screen, or deletes the product.  An order is one    *)
(* line here; module Order has whole orders, and products that nobody      *)
(* edits.                                                                  *)
(***************************************************************************)
EXTENDS Integers, FiniteSets

CONSTANTS
  Products,  \* product documents (those to come too)
  Orders,    \* order lines
  Managers,  \* managers with a product on their screens
  MaxQty,    \* bound: units in a line, or delivered to the shop at once
  MaxUnits,  \* bound: units of a product the shop ever has
  Nil

CatalogueAssumption ==
  /\ IsFiniteSet(Orders)
  /\ MaxQty \in Nat
  /\ MaxUnits \in Nat
  /\ Nil \notin Products

VARIABLES
  status,   \* of each product: "new", "listed" or "deleted"
  stock,    \* its sellable units
  held,     \* what each order line holds
  screens,  \* what each manager has read
  owned,    \* history: the units the shop really has of each product
  stale     \* history: products a manager saved a stale stock of

catalogueVars == <<status, stock, held, screens, owned, stale>>

NoLine == [product |-> Nil, quantity |-> 0]
NoScreen == [product |-> Nil, stock |-> 0]

\* In particular stock is never negative, not even after stale saves: the
\* decrement looks at the number that is there (product.service.ts:23).
TypeOK ==
  /\ status \in [Products -> {"new", "listed", "deleted"}]
  /\ stock \in [Products -> Nat]
  /\ held \in [Orders -> [product : Products \cup {Nil}, quantity : 0..MaxQty]]
  /\ screens \in [Managers -> [product : Products \cup {Nil}, stock : Nat]]
  /\ owned \in [Products -> Nat]
  /\ stale \subseteq Products

Init ==
  /\ status = [p \in Products |-> "new"]
  /\ stock = [p \in Products |-> 0]
  /\ held = [o \in Orders |-> NoLine]
  /\ screens = [m \in Managers |-> NoScreen]
  /\ owned = [p \in Products |-> 0]
  /\ stale = {}

Listed == {p \in Products : status[p] = "listed"}

-----------------------------------------------------------------------------
(* Orders.                                                                 *)

\* Faulty: the units are taken whatever is left.
ReserveStock_Unconditional(o, p, n) ==
  /\ held[o] = NoLine
  /\ p \in Listed
  /\ stock' = [stock EXCEPT ![p] = @ - n]
  /\ held' = [held EXCEPT ![o] = [product |-> p, quantity |-> n]]
  /\ UNCHANGED <<status, screens, owned, stale>>

ReserveStock(o, p, n) ==
  /\ held[o] = NoLine
  /\ p \in Listed
  /\ stock[p] >= n
  /\ stock' = [stock EXCEPT ![p] = @ - n]
  /\ held' = [held EXCEPT ![o] = [product |-> p, quantity |-> n]]
  /\ UNCHANGED <<status, screens, owned, stale>>

\* Faulty: one unit comes back for a line, whatever its quantity.
ReleaseReservedStock_OneUnit(o) ==
  LET p == held[o].product
  IN  /\ held[o] # NoLine
      /\ IF p \in Listed
         THEN stock' = [stock EXCEPT ![p] = @ + 1]
         ELSE UNCHANGED stock
      /\ held' = [held EXCEPT ![o] = NoLine]
      /\ UNCHANGED <<status, screens, owned, stale>>

\* updateOne finds nothing to give a deleted product's units back to.
ReleaseReservedStock(o) ==
  LET p == held[o].product
  IN  /\ held[o] # NoLine
      /\ IF p \in Listed
         THEN stock' = [stock EXCEPT ![p] = @ + held[o].quantity]
         ELSE UNCHANGED stock
      /\ held' = [held EXCEPT ![o] = NoLine]
      /\ UNCHANGED <<status, screens, owned, stale>>

-----------------------------------------------------------------------------
(* Managers.                                                               *)

CreateProduct(p, n) ==
  /\ status[p] = "new"
  /\ status' = [status EXCEPT ![p] = "listed"]
  /\ stock' = [stock EXCEPT ![p] = n]
  /\ owned' = [owned EXCEPT ![p] = n]
  /\ UNCHANGED <<held, screens, stale>>

\* getProductById, on the way to an edit.
OpenProduct(m, p) ==
  /\ screens[m] = NoScreen
  /\ p \in Listed
  /\ screens' = [screens EXCEPT ![m] = [product |-> p, stock |-> stock[p]]]
  /\ UNCHANGED <<status, stock, held, owned, stale>>

\* n units have arrived, and the manager writes the sum.
UpdateProduct(m, n) ==
  LET p == screens[m].product
  IN  /\ p \in Listed
      /\ owned[p] + n <= MaxUnits /\ screens[m].stock + n <= MaxUnits
      /\ stock' = [stock EXCEPT ![p] = screens[m].stock + n]
      /\ screens' = [screens EXCEPT ![m] = NoScreen]
      /\ owned' = [owned EXCEPT ![p] = @ + n]
      /\ stale' = IF screens[m].stock = stock[p] THEN stale ELSE stale \cup {p}
      /\ UNCHANGED <<status, held>>

\* The screen is closed, or the product on it is gone (NotFoundException).
CloseProduct(m) ==
  /\ screens[m] # NoScreen
  /\ screens' = [screens EXCEPT ![m] = NoScreen]
  /\ UNCHANGED <<status, stock, held, owned, stale>>

DeleteProduct(p) ==
  /\ p \in Listed
  /\ status' = [status EXCEPT ![p] = "deleted"]
  /\ UNCHANGED <<stock, held, screens, owned, stale>>

Next ==
  \/ \E o \in Orders, p \in Products, n \in 1..MaxQty : ReserveStock(o, p, n)
  \/ \E o \in Orders : ReleaseReservedStock(o)
  \/ \E p \in Products, n \in 1..MaxQty : CreateProduct(p, n)
  \/ \E m \in Managers, p \in Products : OpenProduct(m, p)
  \/ \E m \in Managers, n \in 0..MaxQty : UpdateProduct(m, n)
  \/ \E m \in Managers : CloseProduct(m)
  \/ \E p \in Products : DeleteProduct(p)

CatalogueSpec == Init /\ [][Next]_catalogueVars

-----------------------------------------------------------------------------
(* Properties.                                                             *)

\* The units of p held, each named by its line and its number in the line.
HeldUnits(p) ==
  {u \in Orders \X (1..MaxQty) :
     held[u[1]].product = p /\ u[2] <= held[u[1]].quantity}

\* Sellable and held units of a listed product add up to what the shop has,
\* through deliveries, reservations and releases, for as long as no manager
\* has saved a number older than the last of these (product.service.ts:86).
BooksBalance ==
  \A p \in Listed \ stale :
    stock[p] + Cardinality(HeldUnits(p)) = owned[p]

=============================================================================
