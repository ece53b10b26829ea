\* Admin requests that save an order they read before it changed.
SPECIFICATION OrderSpec
CONSTANTS
  Orders = {o1}
  Users = {u1}
  Keys = {}
  Products = {p1}
  MaxQty = 1
  InitialStock <- MCLastUnit
  Hold = 1
  MaxTime = 2
  Clients = {c1}
  Workers = {}
  Admins = {a1, a2}
  Nil = Nil
INVARIANTS
  RefundedIsCancelled
