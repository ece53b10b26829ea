---------------------------- MODULE MCComponents ----------------------------
(***************************************************************************)
(* A small instance of Inventory and of Components for TLC.  All their     *)
(* interleavings are too many: each behaviour here is one of a single      *)
(* component, chosen initially, while the others stay as they begin.       *)
(***************************************************************************)
EXTENDS Inventory, Components, TLC

CONSTANTS p1, p2  \* products

VARIABLE part     \* the component

\* Three units of each product: fewer than the orders together may ask for.
MCStock == [p \in Products |-> 3]

\* One unit, and two, of the products a cart may get.
MCCartStock == p1 :> 1 @@ p2 :> 2

Parts == {"inventory", "accounts", "phones", "identity", "addresses",
          "catalogue", "cart", "shipping"}

MCInit == part \in Parts /\ Init /\ ComponentsInit

\* A catalogue is at its end when the product is deleted and nobody holds it.
CatalogueEnds ==
  status[p1] = "deleted" /\ UNCHANGED componentsVars

MCNext ==
  /\ UNCHANGED part
  /\ \/ part = "inventory" /\ Next /\ UNCHANGED componentsVars
     \/ /\ \/ part = "accounts" /\ AccountsStep
           \/ part = "phones" /\ PhonesStep
           \/ part = "identity" /\ IdentityStep
           \/ part = "addresses" /\ AddressesStep
           \/ part = "catalogue" /\ (CatalogueStep \/ CatalogueEnds)
           \/ part = "cart" /\ CartStep
           \/ part = "shipping" /\ ShippingStep
        /\ UNCHANGED vars

MCSpec == MCInit /\ [][MCNext]_<<part, vars, componentsVars>>

MCSymmetry ==
  Permutations(Users) \cup Permutations(Tokens) \cup Permutations(Requests)
    \cup Permutations(Numbers)
=============================================================================
