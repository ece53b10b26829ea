\* A failed try and a captured one, delivered at once, and a commit that fails.
SPECIFICATION NotifySpec
CONSTANTS
  Orders = {o1}
  Users = {u1}
  Keys = {}
  Products = {p1}
  MaxQty = 1
  InitialStock <- MCLastUnit
  Hold = 1
  MaxTime = 1
  Clients = {c1}
  Workers = {}
  Admins = {}
  Nil = Nil
  GatewayOrders = {g1}
  Callers = {r1}
  Cancellers = {}
  MaxTries = 2
  Deliveries = {d1, d2}
PROPERTIES
  MailsTellWhatCommitted
