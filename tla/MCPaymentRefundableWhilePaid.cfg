\* A failed try and a captured one, delivered in the other order.
SPECIFICATION PaymentSpec
CONSTANTS
  Orders = {o1}
  Users = {u1}
  Keys = {}
  Products = {p1}
  MaxQty = 1
  InitialStock <- MCLastUnit
  Hold = 1
  MaxTime = 1
  Clients = {c1}
  Workers = {}
  Admins = {}
  Nil = Nil
  GatewayOrders = {g1}
  Callers = {r1}
  Cancellers = {}
  MaxTries = 2
INVARIANTS
  RefundableWhilePaid
