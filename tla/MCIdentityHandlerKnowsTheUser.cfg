\* A client with a token in its header and no cookie, or another's.
SPECIFICATION IdentitySpec
CONSTANTS
  Users = {u1, u2}
  TokenLife = 4
  CookieLife = 1
  MaxTime = 6
  Nil = Nil
SYMMETRY MCSymmetry
INVARIANT
  HandlerKnowsTheUser
