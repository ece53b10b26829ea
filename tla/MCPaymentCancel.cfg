\* One order, two payments, two cancellations and an admin.
SPECIFICATION PaymentSpec
CONSTANTS
  Orders = {o1}
  Users = {u1}
  Keys = {}
  Products = {p1}
  MaxQty = 1
  InitialStock <- MCLastUnit
  Hold = 1
  MaxTime = 1
  Clients = {c1}
  Workers = {}
  Admins = {a1}
  Nil = Nil
  GatewayOrders = {g1, g2}
  Callers = {r1}
  Cancellers = {x1, x2}
  MaxTries = 2
SYMMETRY MCSymmetry
INVARIANTS
  RefundBeforeCancel
  SingleRefundInFlight
PROPERTIES
  ImplementsOrder
