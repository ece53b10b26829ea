\* One component at a time, each with the smallest sets that let its requests
\* disturb each other.
SPECIFICATION MCSpec
CONSTANTS
  \* Inventory
  Orders = {q1, q2, q3}
  Products = {p1, p2}
  MaxQty = 2
  InitialStock <- MCStock
  \* Two users, and two overlapping requests of each kind.
  Users = {u1, u2}
  Requests = {r1, r2}
  Nil = Nil
  \* Accounts: two signups with one address, two tokens of either kind.
  Emails = {e1}
  Passwords = {w1}
  Tokens = {t1, t2}
  MailLife = 1
  AccountTime = 1
  \* Phones: the same number or two, with two codes that are alike.
  Numbers = {n1, n2}
  Codes = {c1}
  Otps = {t1, t2}
  CodeLife = 0
  CodeTime = 1
  \* Identity: a tick is fifteen minutes.
  TokenLife = 4
  CookieLife = 1
  ClientTime = 6
  \* Addresses
  Addrs = {a1, a2, a3}
  AddressRequests = {s1, s2, s3}
  \* Catalogue: one product, two order lines, two managers.
  CatalogueProducts = {p1}
  OrderLines = {t1, t2}
  Managers = {r1, r2}
  LineQty = 2
  MaxUnits = 3
  \* Cart: two products.
  CartProducts = {p1, p2}
  CartStock <- MCCartStock
  CartQty = 2
  MaxLines = 3
  MaxPushes = 3
  \* Shipping: one partner, one order, two updates of it; amounts up to 3.
  PartnerCodes = {b1}
  ShippedOrders = {o1}
  Admins = {r1, r2}
  Charges = {2}
  Subtotals = {1, 2, 3}
  MaxItems = 2
  Templates = {t1}
  Undefined = Undefined
  Null = Null
  p1 = p1
  p2 = p2
SYMMETRY MCSymmetry
INVARIANTS
  TypeOK
  Conservation
  NoOversell
  
  OneAccountPerEmail
  SessionsStayEnded
  OnePhoneOwner
  EnrolledByItsCode
  
  
  CurrentUserLoggedIn
  
  BooksBalance
  SpendingMoreShipsNoDearer
  
PROPERTIES
  DeadTokensStayDead
  OneDefaultWhenAlone
  ProductsLeaveByRemoval
