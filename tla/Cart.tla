-------------------------------- MODULE Cart --------------------------------
(***************************************************************************)
(* One customer's cart: CartService (cart.service.ts) and the clearing of  *)
(* the cart by the payment webhook.                                        *)
(*                                                                         *)
(* addItem and updateItem load the cart, change it and save() it; other    *)
(* requests may write in between.  Mongoose does not write the cart back,  *)
(* it sends what changed: a new line is pushed and the version counted up, *)
(* a quantity is set by the index of its line, on condition that the       *)
(* version is the one that was loaded.  The operators $pull and $set of    *)
(* removeItem and clear leave the version alone.                           *)
(***************************************************************************)
EXTENDS Naturals, SequencesExt

CONSTANTS
  Products,
  Stock,      \* stock of a product; nothing here changes it
  Requests,   \* requests between two awaits at the same time
  MaxQty,     \* the largest quantity a request may ask for
  MaxLines,   \* bound: lines in the cart
  MaxPushes,  \* bound: lines pushed
  Nil

CartAssumption ==
  /\ Stock \in [Products -> Nat]
  /\ MaxQty \in Nat /\ MaxLines \in Nat /\ MaxPushes \in Nat
  /\ Nil \notin Products

VARIABLES
  exists,    \* whether the customer has a cart document
  items,     \* its lines
  version,   \* its __v
  requests   \* requests between two awaits

cartVars == <<exists, items, version, requests>>

-----------------------------------------------------------------------------
\* What a request has loaded and is to write: a new cart, one more line, or
\* the quantity of the line at `index`.
NoRequest ==
  [at |-> "idle", product |-> Nil, quantity |-> 0, index |-> 0, version |-> 0]

Lines == [productId : Products \cup {Nil}, quantity : Nat]

TypeOK ==
  /\ exists \in BOOLEAN
  /\ items \in Seq(Lines)
  /\ version \in 0..MaxPushes
  /\ requests \in [Requests ->
       [at : {"idle", "create", "push", "set"}, product : Products \cup {Nil},
        quantity : Nat, index : Nat, version : 0..MaxPushes]]

Init ==
  /\ exists = FALSE
  /\ items = <<>>
  /\ version = 0
  /\ requests = [r \in Requests |-> NoRequest]

Line(p, n) == [productId |-> p, quantity |-> n]
InCart == {items[i].productId : i \in DOMAIN items} \ {Nil}

\* A handler that meets a line without a product fails, on its toString() or
\* when save() validates the lines.
Readable == \A i \in DOMAIN items : items[i].productId # Nil

FirstLineOf(p) ==
  CHOOSE i \in DOMAIN items :
    items[i].productId = p /\ \A j \in 1..(i - 1) : items[j].productId # p

Plans(r, request) ==
  /\ requests[r] = NoRequest
  /\ requests' = [requests EXCEPT ![r] = request]
  /\ UNCHANGED <<exists, items, version>>

Ends(r) == requests' = [requests EXCEPT ![r] = NoRequest]

-----------------------------------------------------------------------------
(* addItem and updateItem, up to the write.                                *)

AddItem(r, p, n) ==
  /\ n <= Stock[p]
  /\ Readable
  /\ IF p \in InCart
     THEN LET i == FirstLineOf(p)
          IN  /\ items[i].quantity + n <= Stock[p]
              /\ Plans(r, [at |-> "set", product |-> p, index |-> i,
                           quantity |-> items[i].quantity + n,
                           version |-> version])
     ELSE Plans(r, [NoRequest EXCEPT !.at = IF exists THEN "push" ELSE "create",
                                     !.product = p, !.quantity = n])

UpdateItem(r, p, n) ==
  /\ n <= Stock[p]
  /\ Readable
  /\ p \in InCart
  /\ Plans(r, [at |-> "set", product |-> p, quantity |-> n,
               index |-> FirstLineOf(p), version |-> version])

-----------------------------------------------------------------------------
(* The writes.                                                             *)

\* A second cart of the customer is refused by the unique index.
CreateCart(r) ==
  /\ requests[r].at = "create"
  /\ ~exists
  /\ exists' = TRUE
  /\ items' = <<Line(requests[r].product, requests[r].quantity)>>
  /\ Ends(r)
  /\ UNCHANGED version

PushLine(r) ==
  /\ requests[r].at = "push"
  /\ Len(items) < MaxLines /\ version < MaxPushes
  /\ items' = Append(items, Line(requests[r].product, requests[r].quantity))
  /\ version' = version + 1
  /\ Ends(r)
  /\ UNCHANGED exists

\* MongoDB fills an array up to the index it is told to write to; the line
\* it makes there has the quantity only.
Padded(i) ==
  [j \in 1..(IF i > Len(items) THEN i ELSE Len(items)) |->
     IF j <= Len(items) THEN items[j] ELSE Line(Nil, 0)]

\* Faulty: the quantity goes with its line, product and all.
SetQuantity_WholeLine(r) ==
  LET i == requests[r].index
  IN  /\ requests[r].at = "set"
      /\ requests[r].version = version
      /\ items' = [Padded(i) EXCEPT ![i] =
                     Line(requests[r].product, requests[r].quantity)]
      /\ Ends(r)
      /\ UNCHANGED <<exists, version>>

\* With another version the save fails, and DropRequest ends the request.
SetQuantity(r) ==
  LET i == requests[r].index
  IN  /\ requests[r].at = "set"
      /\ requests[r].version = version
      /\ items' = [Padded(i) EXCEPT ![i].quantity = requests[r].quantity]
      /\ Ends(r)
      /\ UNCHANGED <<exists, version>>

\* $pull takes every line of the product; the others close up, in order.
RemoveItem(p) ==
  LET kept == {i \in DOMAIN items : items[i].productId # p}
  IN  /\ exists
      /\ \E n \in 0..Len(items) : \E line \in Bijection(1..n, kept) :
           /\ \A i, j \in 1..n : i < j => line[i] < line[j]
           /\ items' = [i \in 1..n |-> items[line[i]]]
      /\ UNCHANGED <<exists, version, requests>>

Clear ==
  /\ exists
  /\ items' = <<>>
  /\ UNCHANGED <<exists, version, requests>>

DropRequest(r) ==
  /\ requests[r] # NoRequest
  /\ Ends(r)
  /\ UNCHANGED <<exists, items, version>>

RequestStep(r) ==
  \/ \E p \in Products, n \in 1..MaxQty : AddItem(r, p, n) \/ UpdateItem(r, p, n)
  \/ CreateCart(r)
  \/ PushLine(r)
  \/ SetQuantity(r)
  \/ DropRequest(r)

Next ==
  \/ \E r \in Requests : RequestStep(r)
  \/ \E p \in Products : RemoveItem(p)
  \/ Clear

CartSpec == Init /\ [][Next]_cartVars

-----------------------------------------------------------------------------
(* Properties.                                                             *)

\* Whatever carts were loaded before, saving one never takes another
\* request's product out of the cart (cart.service.ts:62, 65): it stays
\* until it is removed or the cart is cleared.
ProductsLeaveByRemoval ==
  [][\A p \in InCart \ InCart' : RemoveItem(p) \/ Clear]_cartVars

=============================================================================
