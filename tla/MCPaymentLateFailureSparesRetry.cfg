\* A failed try delivered after the order expired and was retried.
SPECIFICATION PaymentSpec
CONSTANTS
  Orders = {o1}
  Users = {u1}
  Keys = {}
  Products = {p1}
  MaxQty = 1
  InitialStock <- MCLastUnit
  Hold = 1
  MaxTime = 2
  Clients = {c1}
  Workers = {w1}
  Admins = {}
  Nil = Nil
  GatewayOrders = {g1}
  Callers = {r1}
  Cancellers = {}
  MaxTries = 1
PROPERTIES
  LateFailureSparesRetry
