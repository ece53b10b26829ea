\* A cancellation and an admin who packs the order meanwhile.
SPECIFICATION PaymentSpec
CONSTANTS
  Orders = {o1}
  Users = {u1}
  Keys = {}
  Products = {p1}
  MaxQty = 1
  InitialStock <- MCLastUnit
  Hold = 1
  MaxTime = 1
  Clients = {c1}
  Workers = {}
  Admins = {a1}
  Nil = Nil
  GatewayOrders = {g1}
  Callers = {r1}
  Cancellers = {x1}
  MaxTries = 1
INVARIANTS
  RefundedIsNotShipped
