\* One order that expires, fails and is retried; two payments, called for at once.
SPECIFICATION PaymentSpec
CONSTANTS
  Orders = {o1}
  Users = {u1}
  Keys = {}
  Products = {p1}
  MaxQty = 1
  InitialStock <- MCLastUnit
  Hold = 1
  MaxTime = 2
  Clients = {c1}
  Workers = {w1}
  Admins = {}
  Nil = Nil
  GatewayOrders = {g1, g2}
  Callers = {r1, r2}
  Cancellers = {}
  MaxTries = 2
SYMMETRY MCSymmetry
INVARIANTS
  PaidOnlyByCapture
  PaymentTypeOK
PROPERTIES
  SupersededFailureIgnored
