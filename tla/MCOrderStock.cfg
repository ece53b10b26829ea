\* Orders of several lines, some of which may be out of stock, and a sweep
\* that may fail; a retry each.
SPECIFICATION FairOrderSpec
CONSTANTS
  Orders = {o1, o2}
  Users = {u1}
  Keys = {}
  Products = {p1, p2}
  MaxQty = 2
  InitialStock <- MCStock
  Hold = 1
  MaxTime = 2
  Clients = {c1}
  Workers = {w1}
  Admins = {}
  Nil = Nil
INVARIANTS
  StockConserved
PROPERTIES
  ImplementsInventory
  HoldEnds
