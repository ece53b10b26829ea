\* Two orders for the last unit, two checkouts, two sweeps, two admins.
SPECIFICATION OrderSpec
CONSTANTS
  Orders = {o1, o2}
  Users = {u1}
  Keys = {k1}
  Products = {p1}
  MaxQty = 1
  InitialStock <- MCLastUnit
  Hold = 1
  MaxTime = 2
  Clients = {c1, c2}
  Workers = {w1, w2}
  Admins = {a1, a2}
  Nil = Nil
SYMMETRY MCSymmetry
INVARIANTS
  TypeOK
  FulfilledOnlyIfPaid
  OneOrderPerKey
PROPERTIES
  PaymentIsFinal
  SweepRespectsHold
