-------------------------- MODULE InventoryProofs --------------------------
(* No unit is lost, made up or oversold, for any number of orders, products *)
(* and units.                                                               *)
EXTENDS Inventory, TLAPS, FiniteSetTheorems

\* The units of p on hold in any table h of what orders hold.
Units(h, p) == {u \in Orders \X (1..MaxQty) : u[2] <= h[u[1]][p]}

\* Counting is well defined: only finitely many units are on hold
\* (product.service.ts:21-43 moves stock by whole lines of orders).
LEMMA UnitsFinite ==
  ASSUME NEW h, NEW p
  PROVE  IsFiniteSet(Units(h, p)) /\ Cardinality(Units(h, p)) \in Nat
<1>1. IsFiniteSet(1..MaxQty)
  BY InventoryAssumption, FS_Interval
<1>2. IsFiniteSet(Orders \X (1..MaxQty))
  BY <1>1, InventoryAssumption, FS_Product
<1>3. IsFiniteSet(Units(h, p))
  BY <1>2, FS_Subset DEF Units
<1>4. QED
  BY <1>3, FS_CardinalityType

\* The first n units of an order are n units.
LEMMA BlockSize ==
  ASSUME NEW o, NEW n \in Nat
  PROVE  IsFiniteSet({o} \X (1..n)) /\ Cardinality({o} \X (1..n)) = n
<1>1. IsFiniteSet(1..n) /\ Cardinality(1..n) = IF 1 > n THEN 0 ELSE n - 1 + 1
  BY FS_Interval
<1>2. Cardinality(1..n) = n
  BY <1>1
<1>3. IsFiniteSet({o}) /\ Cardinality({o}) = 1
  BY FS_Singleton, Zenon
<1>4. /\ IsFiniteSet({o} \X (1..n))
      /\ Cardinality({o} \X (1..n)) = Cardinality({o}) * Cardinality(1..n)
  BY <1>1, <1>3, FS_Product, Zenon
<1>5. QED
  BY <1>2, <1>3, <1>4

\* An order that held nothing and takes items adds exactly their number to
\* the units on hold (reserveStock, product.service.ts:21-27).
LEMMA UnitsGrow ==
  ASSUME NEW h \in [Orders -> Bags], NEW o \in Orders, NEW b \in Bags,
         NEW p \in Products, h[o] = NoItems
  PROVE  Cardinality(Units([h EXCEPT ![o] = b], p)) =
           Cardinality(Units(h, p)) + b[p]
<1> DEFINE new == {o} \X (1..b[p])
<1>1. b[p] \in 0..MaxQty /\ b[p] \in Nat /\ MaxQty \in Nat
  BY InventoryAssumption DEF Bags
<1>2. Units([h EXCEPT ![o] = b], p) = Units(h, p) \cup new
  <2>1. ASSUME NEW u \in Orders \X (1..MaxQty)
        PROVE  (u[2] <= [h EXCEPT ![o] = b][u[1]][p])
                 <=> (u[2] <= h[u[1]][p] \/ u \in new)
    <3>1. CASE u[1] = o
      <4>1. [h EXCEPT ![o] = b][u[1]] = b
        BY <3>1
      <4>2. h[u[1]][p] = 0
        BY <3>1 DEF NoItems
      <4>3. ~(u[2] <= h[u[1]][p])
        BY <4>2, <2>1
      <4>4. u \in new <=> u[2] <= b[p]
        BY <3>1, <1>1
      <4>5. QED
        BY <4>1, <4>3, <4>4
    <3>2. CASE u[1] # o
      BY <3>2
    <3>3. QED
      BY <3>1, <3>2
  <2>2. new \subseteq Orders \X (1..MaxQty)
    BY <1>1
  <2>3. QED
    BY <2>1, <2>2 DEF Units
<1>3. Units(h, p) \cap new = {}
  <2>1. ASSUME NEW u \in Units(h, p), u \in new
        PROVE  FALSE
    <3>1. u[1] = o /\ u[2] \in 1..MaxQty /\ u[2] <= h[o][p]
      BY <2>1 DEF Units
    <3>2. h[o][p] = 0
      BY DEF NoItems
    <3>3. QED
      BY <3>1, <3>2, <1>1
  <2>2. QED
    BY <2>1
<1>4. IsFiniteSet(new) /\ Cardinality(new) = b[p]
  BY <1>1, BlockSize
<1>5. Cardinality(Units(h, p) \cup new) =
        Cardinality(Units(h, p)) + Cardinality(new) - Cardinality({})
  BY <1>3, <1>4, UnitsFinite, FS_Union
<1>6. Cardinality({}) = 0
  BY FS_EmptySet
<1>7. Cardinality(Units(h, p)) \in Nat
  BY UnitsFinite
<1>8. Cardinality(Units(h, p) \cup new) = Cardinality(Units(h, p)) + b[p]
  <2> HIDE DEF new
  <2> QED
    BY <1>1, <1>4, <1>5, <1>6, <1>7
<1>9. QED
  BY <1>2, <1>8, Zenon

-----------------------------------------------------------------------------
\* What is sellable is never negative, and what an order holds is a bag of
\* items (product.service.ts:21-43).
THEOREM TypeCorrect == Spec => []TypeOK
<1>1. Init => TypeOK
  BY InventoryAssumption DEF Init, TypeOK, NoItems, Bags
<1>2. TypeOK /\ [Next]_vars => TypeOK'
  <2> SUFFICES ASSUME TypeOK, [Next]_vars
               PROVE  TypeOK'
    OBVIOUS
  <2> USE InventoryAssumption
  <2>1. ASSUME NEW o \in Orders, NEW items \in Bags, Reserve(o, items)
        PROVE  TypeOK'
    <3>1. \A p \in Products : stock[p] - items[p] \in Nat
      BY <2>1 DEF Reserve, TypeOK, Bags
    <3>2. QED
      BY <2>1, <3>1 DEF Reserve, TypeOK
  <2>2. ASSUME NEW o \in Orders, Release(o)
        PROVE  TypeOK'
    <3>1. \A p \in Products : stock[p] + held[o][p] \in Nat
      BY DEF TypeOK, Bags
    <3>2. NoItems \in Bags
      BY DEF NoItems, Bags
    <3>3. QED
      BY <2>2, <3>1, <3>2 DEF Release, TypeOK
  <2>3. CASE UNCHANGED vars
    BY <2>3 DEF vars, TypeOK
  <2>4. QED
    BY <2>1, <2>2, <2>3 DEF Next
<1>3. QED
  BY <1>1, <1>2, PTL DEF Spec

\* Sellable units and units on hold always add up to the initial stock:
\* stock is restored at most once (order.service.ts:28-29).
THEOREM ConservationHolds == Spec => []Conservation
<1>1. Init => Conservation
  <2> SUFFICES ASSUME Init, NEW p \in Products
               PROVE  stock[p] + Cardinality(HeldUnits(p)) = InitialStock[p]
    BY DEF Conservation
  <2>1. HeldUnits(p) = {}
    BY InventoryAssumption DEF Init, HeldUnits, NoItems
  <2>2. QED
    BY <2>1, FS_EmptySet, InventoryAssumption DEF Init
<1>2. TypeOK /\ Conservation /\ [Next]_vars => Conservation'
  <2> SUFFICES ASSUME TypeOK, Conservation, [Next]_vars, NEW p \in Products
               PROVE  stock'[p] + Cardinality(HeldUnits(p)')
                        = InitialStock[p]
    BY DEF Conservation
  <2>1. stock[p] \in Nat /\ InitialStock[p] \in Nat
    BY InventoryAssumption DEF TypeOK
  <2>2. HeldUnits(p) = Units(held, p) /\ HeldUnits(p)' = Units(held', p)
    BY DEF HeldUnits, Units
  <2>3. stock[p] + Cardinality(Units(held, p)) = InitialStock[p]
    BY <2>2 DEF Conservation
  <2>4. Cardinality(Units(held, p)) \in Nat
    BY UnitsFinite
  <2>5. ASSUME NEW o \in Orders, NEW items \in Bags, Reserve(o, items)
        PROVE  stock'[p] + Cardinality(Units(held', p)) = InitialStock[p]
    <3>1. Cardinality(Units(held', p)) =
            Cardinality(Units(held, p)) + items[p]
      BY <2>5, UnitsGrow DEF Reserve, TypeOK
    <3>2. stock'[p] = stock[p] - items[p] /\ items[p] \in Nat
      BY <2>5, InventoryAssumption DEF Reserve, Bags
    <3>3. QED
      BY <3>1, <3>2, <2>1, <2>3, <2>4
  <2>6. ASSUME NEW o \in Orders, Release(o)
        PROVE  stock'[p] + Cardinality(Units(held', p)) = InitialStock[p]
    <3>1. held' \in [Orders -> Bags] /\ held'[o] = NoItems /\ held[o] \in Bags
      BY <2>6, InventoryAssumption DEF Release, TypeOK, Bags, NoItems
    <3>2. held = [held' EXCEPT ![o] = held[o]]
      BY <2>6 DEF Release, TypeOK
    <3>3. Cardinality(Units([held' EXCEPT ![o] = held[o]], p)) =
            Cardinality(Units(held', p)) + held[o][p]
      BY <3>1, UnitsGrow
    <3>4. stock'[p] = stock[p] + held[o][p] /\ held[o][p] \in Nat
      BY <2>6, <3>1, InventoryAssumption DEF Release, Bags
    <3>5. Cardinality(Units(held', p)) \in Nat
      BY UnitsFinite
    <3>6. QED
      <4>1. Cardinality(Units(held, p)) =
              Cardinality(Units(held', p)) + held[o][p]
        BY <3>2, <3>3, Zenon
      <4>2. QED
        BY <4>1, <3>4, <3>5, <2>1, <2>3
  <2>7. CASE UNCHANGED vars
    <3>1. stock' = stock /\ held' = held
      BY <2>7 DEF vars
    <3>2. Units(held', p) = Units(held, p)
      BY <3>1 DEF Units
    <3>3. QED
      BY <3>1, <3>2, <2>2, <2>3
  <2>8. QED
    BY <2>2, <2>5, <2>6, <2>7 DEF Next
<1>3. QED
  BY <1>1, <1>2, TypeCorrect, PTL DEF Spec

\* Open orders never hold more units of a product than the shop started
\* with: no overselling (product.service.ts:16-20).
THEOREM NeverOversold == Spec => []NoOversell
<1>1. TypeOK /\ Conservation => NoOversell
  <2> SUFFICES ASSUME TypeOK, Conservation, NEW p \in Products
               PROVE  Cardinality(HeldUnits(p)) <= InitialStock[p]
    BY DEF NoOversell
  <2>1. stock[p] \in Nat /\ stock[p] + Cardinality(HeldUnits(p)) = InitialStock[p]
    BY DEF TypeOK, Conservation
  <2>2. HeldUnits(p) = Units(held, p)
    BY DEF HeldUnits, Units
  <2>3. Cardinality(HeldUnits(p)) \in Nat
    BY <2>2, UnitsFinite
  <2>4. QED
    BY <2>1, <2>3
<1>2. QED
  BY <1>1, TypeCorrect, ConservationHolds, PTL
=============================================================================
