--------------------------- MODULE CatalogueProofs ---------------------------
(* The books of the catalogue for any number of products, order lines and   *)
(* managers.                                                                *)
EXTENDS Catalogue, TLAPS, FiniteSetTheorems

Lines == [product : Products \cup {Nil}, quantity : 0..MaxQty]

\* The units of p in any table h of order lines.
UnitsIn(h, p) ==
  {u \in Orders \X (1..MaxQty) : h[u[1]].product = p /\ u[2] <= h[u[1]].quantity}

\* A line is about a product that was created before.
LinesKnown ==
  \A o \in Orders : held[o] # NoLine =>
    held[o].product \in Products /\ status[held[o].product] # "new"

BooksInv == TypeOK /\ LinesKnown /\ BooksBalance

\* What the proofs use of the parts of the type invariant.
LEMMA CatalogueTypes ==
  ASSUME CatalogueAssumption, TypeOK
  PROVE  /\ status \in [Products -> {"new", "listed", "deleted"}]
         /\ stock \in [Products -> Nat]
         /\ held \in [Orders -> Lines]
         /\ screens \in [Managers -> [product : Products \cup {Nil}, stock : Nat]]
         /\ owned \in [Products -> Nat]
         /\ stale \subseteq Products
         /\ NoLine \in Lines
         /\ NoScreen \in [product : Products \cup {Nil}, stock : Nat]
         /\ NoLine.product = Nil /\ NoLine.quantity = 0
         /\ MaxQty \in Nat
BY DEF CatalogueAssumption, TypeOK, Lines, NoLine, NoScreen

-----------------------------------------------------------------------------
(* Counting units.                                                         *)

\* Only finitely many units are on lines.
LEMMA UnitsInFinite ==
  ASSUME CatalogueAssumption, NEW h, NEW p
  PROVE  IsFiniteSet(UnitsIn(h, p)) /\ Cardinality(UnitsIn(h, p)) \in Nat
<1>1. IsFiniteSet(1..MaxQty) /\ IsFiniteSet(Orders)
  BY FS_Interval DEF CatalogueAssumption
<1>2. IsFiniteSet(Orders \X (1..MaxQty))
  BY <1>1, FS_Product
<1>3. IsFiniteSet(UnitsIn(h, p))
  BY <1>2, FS_Subset DEF UnitsIn
<1>4. QED
  BY <1>3, FS_CardinalityType

\* The n units of one line are n.
LEMMA LineSize ==
  ASSUME NEW o, NEW n \in Nat
  PROVE  IsFiniteSet({o} \X (1..n)) /\ Cardinality({o} \X (1..n)) = n
<1>1. IsFiniteSet(1..n) /\ Cardinality(1..n) = n
  BY FS_Interval
<1>2. IsFiniteSet({o}) /\ Cardinality({o}) = 1
  BY FS_Singleton, Zenon
<1>3. /\ IsFiniteSet({o} \X (1..n))
      /\ Cardinality({o} \X (1..n)) = Cardinality({o}) * Cardinality(1..n)
  BY <1>1, <1>2, FS_Product, Zenon
<1>4. QED
  BY <1>1, <1>2, <1>3

\* A line that was empty and takes d adds d's quantity to the units of d's
\* product, and nothing to those of another (product.service.ts:21-43).
LEMMA LineAdds ==
  ASSUME CatalogueAssumption, NEW h \in [Orders -> Lines], NEW o \in Orders,
         NEW d \in Lines, NEW p \in Products, h[o] = NoLine
  PROVE  Cardinality(UnitsIn([h EXCEPT ![o] = d], p)) =
           Cardinality(UnitsIn(h, p)) + (IF d.product = p THEN d.quantity ELSE 0)
<1> DEFINE k == IF d.product = p THEN d.quantity ELSE 0
           new == {o} \X (1..k)
<1>1. d.quantity \in 0..MaxQty /\ MaxQty \in Nat
  BY DEF CatalogueAssumption, Lines
<1>2. k \in 0..MaxQty /\ k \in Nat
  BY <1>1
<1>3. h[o].quantity = 0
  BY DEF NoLine
<1>4. UnitsIn([h EXCEPT ![o] = d], p) = UnitsIn(h, p) \cup new
  <2>1. ASSUME NEW u \in Orders \X (1..MaxQty)
        PROVE  (/\ [h EXCEPT ![o] = d][u[1]].product = p
                /\ u[2] <= [h EXCEPT ![o] = d][u[1]].quantity)
                 <=> (\/ h[u[1]].product = p /\ u[2] <= h[u[1]].quantity
                      \/ u \in new)
    <3>1. CASE u[1] = o
      <4>1. [h EXCEPT ![o] = d][u[1]] = d
        BY <3>1
      <4>2. ~(u[2] <= h[u[1]].quantity)
        BY <1>3, <2>1, <3>1
      <4>3. u \in new <=> d.product = p /\ u[2] <= d.quantity
        BY <1>1, <3>1
      <4>4. QED
        BY <4>1, <4>2, <4>3
    <3>2. CASE u[1] # o
      BY <3>2
    <3>3. QED
      BY <3>1, <3>2
  <2>2. new \subseteq Orders \X (1..MaxQty)
    <3>1. 1..k \subseteq 1..MaxQty
      <4> HIDE DEF k
      <4> QED
        BY <1>1, <1>2
    <3>2. QED
      BY <3>1
  <2>3. QED
    BY <2>1, <2>2 DEF UnitsIn
<1>5. UnitsIn(h, p) \cap new = {}
  <2>1. ASSUME NEW u \in UnitsIn(h, p), u \in new
        PROVE  FALSE
    <3>1. u[1] = o /\ u[2] \in 1..MaxQty /\ u[2] <= h[o].quantity
      BY <2>1 DEF UnitsIn
    <3>2. QED
      BY <1>1, <1>3, <3>1
  <2>2. QED
    BY <2>1
<1>6. IsFiniteSet(new) /\ Cardinality(new) = k
  BY <1>2, LineSize
<1>7. Cardinality(UnitsIn(h, p) \cup new) =
        Cardinality(UnitsIn(h, p)) + Cardinality(new) - Cardinality({})
  BY <1>5, <1>6, UnitsInFinite, FS_Union
<1>8. Cardinality({}) = 0 /\ Cardinality(UnitsIn(h, p)) \in Nat
  BY FS_EmptySet, UnitsInFinite
<1>9. Cardinality(UnitsIn(h, p) \cup new) = Cardinality(UnitsIn(h, p)) + k
  <2> HIDE DEF new, k
  <2> QED
    BY <1>2, <1>6, <1>7, <1>8
<1>10. QED
  BY <1>4, <1>9, Zenon

\* No line is about p: no unit of p is held.
LEMMA NoLineNoUnits ==
  ASSUME NEW h, NEW p, \A o \in Orders : h[o].product # p
  PROVE  Cardinality(UnitsIn(h, p)) = 0
<1>1. UnitsIn(h, p) = {}
  BY DEF UnitsIn
<1>2. QED
  BY <1>1, FS_EmptySet

-----------------------------------------------------------------------------
(* The actions, one by one.                                                *)

\* At start there is no product.
LEMMA CatalogueInit == CatalogueAssumption /\ Init => BooksInv
<1> SUFFICES ASSUME CatalogueAssumption, Init
             PROVE  BooksInv
  OBVIOUS
<1> USE DEF CatalogueAssumption, Init
<1>1. TypeOK
  BY DEF TypeOK, NoLine, NoScreen
<1>2. LinesKnown /\ BooksBalance
  BY DEF LinesKnown, BooksBalance, Listed
<1>3. QED
  BY <1>1, <1>2 DEF BooksInv

\* The balance of the books in terms of UnitsIn.
LEMMA BooksOf ==
  /\ BooksBalance <=> \A p \in Products :
       status[p] = "listed" /\ p \notin stale =>
         stock[p] + Cardinality(UnitsIn(held, p)) = owned[p]
  /\ BooksBalance' <=> \A p \in Products :
       status'[p] = "listed" /\ p \notin stale' =>
         stock'[p] + Cardinality(UnitsIn(held', p)) = owned'[p]
BY DEF BooksBalance, Listed, HeldUnits, UnitsIn

\* reserveStock takes what it finds there (product.service.ts:21-27).
LEMMA ReserveKeepsBooks ==
  ASSUME CatalogueAssumption, BooksInv, NEW o \in Orders, NEW p \in Products,
         NEW n \in 1..MaxQty, ReserveStock(o, p, n)
  PROVE  BooksInv'
<1> DEFINE d == [product |-> p, quantity |-> n]
<1>1. TypeOK
  BY DEF BooksInv
<1>2. d \in Lines /\ d.product = p /\ d.quantity = n /\ n \in Nat
  BY <1>1, CatalogueTypes DEF Lines
<1>3. held' = [held EXCEPT ![o] = d] /\ held[o] = NoLine
  BY DEF ReserveStock
<1> HIDE DEF d
<1>4. /\ held' \in [Orders -> Lines] /\ held'[o] = d
      /\ \A q \in Orders \ {o} : held'[q] = held[q]
  BY <1>1, <1>2, <1>3, CatalogueTypes
<1>5. /\ stock' \in [Products -> Nat] /\ stock'[p] = stock[p] - n
      /\ \A q \in Products \ {p} : stock'[q] = stock[q]
  BY <1>1, <1>2, CatalogueTypes DEF ReserveStock
<1>6. TypeOK'
  BY <1>1, <1>4, <1>5 DEF TypeOK, Lines, ReserveStock
<1>7. LinesKnown'
  BY <1>2, <1>4 DEF BooksInv, LinesKnown, ReserveStock, Listed
<1>8. \A q \in Products :
        Cardinality(UnitsIn(held', q)) =
          Cardinality(UnitsIn(held, q)) + (IF p = q THEN n ELSE 0)
  <2>1. \A q \in Products :
          Cardinality(UnitsIn([held EXCEPT ![o] = d], q)) =
            Cardinality(UnitsIn(held, q)) + (IF d.product = q THEN d.quantity ELSE 0)
    <3>1. held \in [Orders -> Lines]
      BY <1>1, CatalogueTypes
    <3>2. QED
      BY <1>2, <1>3, <3>1, LineAdds
  <2>2. QED
    BY <1>2, <1>3, <2>1
<1>9. BooksBalance'
  <2>1. ASSUME NEW q \in Products, status'[q] = "listed", q \notin stale'
        PROVE  stock'[q] + Cardinality(UnitsIn(held', q)) = owned'[q]
    <3>1. stock[q] + Cardinality(UnitsIn(held, q)) = owned[q] /\ owned'[q] = owned[q]
      BY <2>1, BooksOf DEF BooksInv, ReserveStock
    <3>2. Cardinality(UnitsIn(held, q)) \in Nat /\ stock[q] \in Nat /\ owned[q] \in Nat
      BY <1>1, UnitsInFinite, CatalogueTypes
    <3>3. CASE q = p
      BY <1>2, <1>5, <1>8, <3>1, <3>2, <3>3
    <3>4. CASE q # p
      BY <1>5, <1>8, <3>1, <3>2, <3>4
    <3>5. QED
      BY <3>3, <3>4
  <2>2. QED
    BY <2>1, BooksOf
<1>10. QED
  BY <1>6, <1>7, <1>9 DEF BooksInv

\* releaseReservedStock gives a listed product its units back, and loses
\* those of a deleted one (product.service.ts:37-43).
LEMMA ReleaseKeepsBooks ==
  ASSUME CatalogueAssumption, BooksInv, NEW o \in Orders, ReleaseReservedStock(o)
  PROVE  BooksInv'
<1> DEFINE d == held[o]
           p == d.product
<1>1. TypeOK
  BY DEF BooksInv
<1>2. d \in Lines /\ p \in Products /\ d.quantity \in Nat
  BY <1>1, CatalogueTypes DEF BooksInv, LinesKnown, ReleaseReservedStock, Lines
<1>3. /\ held' \in [Orders -> Lines] /\ held'[o] = NoLine
      /\ \A q \in Orders \ {o} : held'[q] = held[q]
      /\ held = [held' EXCEPT ![o] = d]
  BY <1>1, <1>2, CatalogueTypes DEF ReleaseReservedStock
<1>4. /\ stock' \in [Products -> Nat]
      /\ \A q \in Products \ {p} : stock'[q] = stock[q]
      /\ status[p] = "listed" => stock'[p] = stock[p] + d.quantity
  BY <1>1, <1>2, CatalogueTypes DEF ReleaseReservedStock, Listed
<1>5. TypeOK'
  BY <1>1, <1>3, <1>4 DEF TypeOK, Lines, ReleaseReservedStock
<1>6. LinesKnown'
  BY <1>3 DEF BooksInv, LinesKnown, ReleaseReservedStock
<1>7. \A q \in Products :
        Cardinality(UnitsIn(held, q)) =
          Cardinality(UnitsIn(held', q)) + (IF p = q THEN d.quantity ELSE 0)
  <2> HIDE DEF d
  <2>1. \A q \in Products :
          Cardinality(UnitsIn([held' EXCEPT ![o] = d], q)) =
            Cardinality(UnitsIn(held', q)) + (IF d.product = q THEN d.quantity ELSE 0)
    BY <1>2, <1>3, LineAdds
  <2>2. QED
    BY <1>3, <2>1
<1>8. BooksBalance'
  <2>1. ASSUME NEW q \in Products, status'[q] = "listed", q \notin stale'
        PROVE  stock'[q] + Cardinality(UnitsIn(held', q)) = owned'[q]
    <3>1. /\ stock[q] + Cardinality(UnitsIn(held, q)) = owned[q]
          /\ owned'[q] = owned[q] /\ status[q] = "listed"
      BY <2>1, BooksOf DEF BooksInv, ReleaseReservedStock
    <3>2. Cardinality(UnitsIn(held', q)) \in Nat /\ stock[q] \in Nat /\ owned[q] \in Nat
      BY <1>1, UnitsInFinite, CatalogueTypes
    <3>3. CASE q = p
      BY <1>2, <1>4, <1>7, <3>1, <3>2, <3>3
    <3>4. CASE q # p
      BY <1>4, <1>7, <3>1, <3>2, <3>4
    <3>5. QED
      BY <3>3, <3>4
  <2>2. QED
    BY <2>1, BooksOf
<1>9. QED
  BY <1>5, <1>6, <1>8 DEF BooksInv

\* A new product has no lines yet (product.service.ts:80-83).
LEMMA CreateKeepsBooks ==
  ASSUME CatalogueAssumption, BooksInv, NEW p \in Products, NEW n \in 1..MaxQty,
         CreateProduct(p, n)
  PROVE  BooksInv'
<1>1. TypeOK /\ n \in Nat
  BY CatalogueTypes DEF BooksInv
<1>2. /\ stock' \in [Products -> Nat] /\ owned' \in [Products -> Nat]
      /\ status' \in [Products -> {"new", "listed", "deleted"}]
      /\ stock'[p] = n /\ owned'[p] = n /\ status'[p] = "listed"
      /\ \A q \in Products \ {p} :
           stock'[q] = stock[q] /\ owned'[q] = owned[q] /\ status'[q] = status[q]
  BY <1>1, CatalogueTypes DEF CreateProduct
<1>3. TypeOK' /\ LinesKnown'
  BY <1>1, <1>2 DEF BooksInv, TypeOK, LinesKnown, CreateProduct
<1>4. \A o \in Orders : held[o].product # p
  <2>1. \A o \in Orders : held[o] = NoLine => held[o].product # p
    BY <1>1, CatalogueTypes DEF CatalogueAssumption
  <2>2. QED
    BY <2>1 DEF BooksInv, LinesKnown, CreateProduct
<1>5. Cardinality(UnitsIn(held, p)) = 0
  BY <1>4, NoLineNoUnits
<1>6. BooksBalance'
  <2>1. held' = held /\ stale' = stale
    BY DEF CreateProduct
  <2>2. QED
    BY <1>1, <1>2, <1>5, <2>1, BooksOf DEF BooksInv
<1>7. QED
  BY <1>3, <1>6 DEF BooksInv

\* A manager's save adds what arrived to the number he read: the books
\* balance if that was the number there (product.service.ts:85-91).
LEMMA UpdateKeepsBooks ==
  ASSUME CatalogueAssumption, BooksInv, NEW m \in Managers, NEW n \in 0..MaxQty,
         UpdateProduct(m, n)
  PROVE  BooksInv'
<1> DEFINE p == screens[m].product
           s == screens[m].stock
<1>1. TypeOK /\ n \in Nat /\ p \in Products /\ s \in Nat
  BY CatalogueTypes DEF BooksInv, UpdateProduct, Listed
<1>2. /\ stock' \in [Products -> Nat] /\ owned' \in [Products -> Nat]
      /\ stock'[p] = s + n /\ owned'[p] = owned[p] + n
      /\ \A q \in Products \ {p} : stock'[q] = stock[q] /\ owned'[q] = owned[q]
      /\ stale \subseteq stale' /\ stale' \subseteq Products
      /\ p \notin stale' => s = stock[p]
      /\ screens' \in [Managers -> [product : Products \cup {Nil}, stock : Nat]]
      /\ status' = status /\ held' = held
  BY <1>1, CatalogueTypes DEF UpdateProduct
<1>3. TypeOK' /\ LinesKnown'
  BY <1>1, <1>2 DEF BooksInv, TypeOK, LinesKnown
<1>4. BooksBalance'
  <2>1. ASSUME NEW q \in Products, status'[q] = "listed", q \notin stale'
        PROVE  stock'[q] + Cardinality(UnitsIn(held', q)) = owned'[q]
    <3>1. stock[q] + Cardinality(UnitsIn(held, q)) = owned[q]
      BY <1>2, <2>1, BooksOf DEF BooksInv
    <3>2. Cardinality(UnitsIn(held, q)) \in Nat /\ stock[q] \in Nat /\ owned[q] \in Nat
      BY <1>1, UnitsInFinite, CatalogueTypes
    <3> HIDE DEF p, s
    <3>3. CASE q = p
      BY <1>1, <1>2, <2>1, <3>1, <3>2, <3>3
    <3>4. CASE q # p
      BY <1>2, <3>1, <3>2, <3>4
    <3>5. QED
      BY <3>3, <3>4
  <2>2. QED
    BY <2>1, BooksOf
<1>5. QED
  BY <1>3, <1>4 DEF BooksInv

\* Every step keeps the invariant.
LEMMA CatalogueStep ==
  ASSUME CatalogueAssumption, BooksInv, [Next]_catalogueVars
  PROVE  BooksInv'
<1>1. TypeOK
  BY DEF BooksInv
<1>2. ASSUME UNCHANGED <<status, stock, held, owned, stale>>,
             screens' \in [Managers -> [product : Products \cup {Nil}, stock : Nat]]
      PROVE  BooksInv'
  BY <1>2, BooksOf DEF BooksInv, TypeOK, LinesKnown
<1>3. ASSUME NEW m \in Managers, NEW p \in Products, OpenProduct(m, p)
      PROVE  BooksInv'
  BY <1>1, <1>2, <1>3, CatalogueTypes DEF OpenProduct
<1>4. ASSUME NEW m \in Managers, CloseProduct(m)
      PROVE  BooksInv'
  BY <1>1, <1>2, <1>4, CatalogueTypes DEF CloseProduct
<1>5. ASSUME NEW p \in Products, DeleteProduct(p)
      PROVE  BooksInv'
  <2>1. /\ status' \in [Products -> {"new", "listed", "deleted"}]
        /\ \A q \in Products :
             /\ status'[q] = "listed" => status[q] = "listed"
             /\ status'[q] = "new" => status[q] = "new"
        /\ UNCHANGED <<stock, held, screens, owned, stale>>
    BY <1>1, <1>5, CatalogueTypes DEF DeleteProduct
  <2>2. TypeOK' /\ LinesKnown'
    BY <2>1 DEF BooksInv, TypeOK, LinesKnown
  <2>3. BooksBalance'
    BY <2>1, BooksOf DEF BooksInv
  <2>4. QED
    BY <2>2, <2>3 DEF BooksInv
<1>6. CASE UNCHANGED catalogueVars
  BY <1>1, <1>2, <1>6, CatalogueTypes DEF catalogueVars
<1>7. QED
  BY <1>3, <1>4, <1>5, <1>6, ReserveKeepsBooks, ReleaseKeepsBooks,
     CreateKeepsBooks, UpdateKeepsBooks DEF Next

-----------------------------------------------------------------------------
(* The theorems.                                                           *)

\* The invariant holds of every behaviour.
LEMMA CatalogueAlways == CatalogueAssumption => (CatalogueSpec => []BooksInv)
<1> SUFFICES ASSUME CatalogueAssumption
             PROVE  CatalogueSpec => []BooksInv
  OBVIOUS
<1>1. Init => BooksInv
  BY CatalogueInit
<1>2. BooksInv /\ [Next]_catalogueVars => BooksInv'
  BY CatalogueStep
<1>3. QED
  BY <1>1, <1>2, PTL DEF CatalogueSpec

\* The stock of a product is never negative, not even after a save of a
\* number that was out of date (product.service.ts:21-27).
THEOREM CatalogueTypeCorrect == CatalogueAssumption => (CatalogueSpec => []TypeOK)
<1>1. BooksInv => TypeOK
  BY DEF BooksInv
<1>2. QED
  BY <1>1, CatalogueAlways, PTL

\* Until a manager saves a number older than the last delivery, reservation
\* or release, no unit is lost or made up (product.service.ts:21-43, 80-99).
THEOREM BooksAlwaysBalance ==
  CatalogueAssumption => (CatalogueSpec => []BooksBalance)
<1>1. BooksInv => BooksBalance
  BY DEF BooksInv
<1>2. QED
  BY <1>1, CatalogueAlways, PTL
=============================================================================
