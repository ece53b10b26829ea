-------------------------- MODULE ComponentsProofs --------------------------
(***************************************************************************)
(* Theorems about the components, for any number of users, addresses,      *)
(* products and requests and any charges: first of Identity, Addresses,    *)
(* Shipping and Cart, each alone; then of all components side by side,     *)
(* with the theorems of AccountsProofs, PhonesProofs and CatalogueProofs.  *)
(***************************************************************************)
EXTENDS Components, Sequences, SequenceTheorems, WellFoundedInduction, TLAPS

-----------------------------------------------------------------------------
(* Identity.                                                               *)

\* The cookie ends no later than it should after the login of its user, and
\* so does what the last handler took from it.
IdentityInv ==
  /\ Idn!TypeOK
  /\ \A u \in Users : logins[u] <= clientClock
  /\ cookie.token.user # Nil =>
       cookie.until <= logins[cookie.token.user] + CookieLife
  /\ Idn!CookieRequestsAgree
  /\ Idn!CurrentUserLoggedIn
  /\ Idn!ValidateAgreesWithGuard

\* A client begins without a token, a cookie or a request.
LEMMA IdentityInit == Idn!IdentityAssumption /\ Idn!Init => IdentityInv
<1> SUFFICES ASSUME Idn!IdentityAssumption, Idn!Init
             PROVE  IdentityInv
  OBVIOUS
<1> USE DEF Idn!IdentityAssumption, Idn!Init
<1>1. Idn!TypeOK
  BY DEF Idn!TypeOK, Idn!NoToken, Idn!NoCookie, Idn!NoOne, Idn!AccessTokens
<1>2. QED
  BY <1>1 DEF IdentityInv, Idn!NoCookie, Idn!NoToken, Idn!NoOne,
              Idn!CookieRequestsAgree, Idn!CurrentUserLoggedIn,
              Idn!ValidateAgreesWithGuard

\* The two copies of the token lookup agree on every request a client can
\* send (auth.service.ts:110-140, jwt-auth.guard.ts:18-72).
LEMMA LookupsAgree ==
  ASSUME NEW header, header = "Bearer" => bearer # Idn!NoToken
  PROVE  Idn!ValidateToken(header) = Idn!CanActivate(header)
BY DEF Idn!ValidateToken, Idn!CanActivate, Idn!Verify, Idn!CookieToken, Idn!NoToken

\* Every request the guard admits is told of as the invariant says.
LEMMA HandleKeeps ==
  ASSUME Idn!IdentityAssumption, IdentityInv,
         NEW header \in {"none", "Bearer", "other"}, Idn!Handle(header)
  PROVE  IdentityInv'
<1> DEFINE given == Idn!CanActivate(header)
           taken == Idn!CurrentUser(header)
           checked == Idn!ValidateToken(header)
<1>1. /\ bearer \in Idn!AccessTokens /\ cookie.token \in Idn!AccessTokens
      /\ cookie.until \in Nat /\ clientClock \in Nat
  BY DEF IdentityInv, Idn!TypeOK, Idn!IdentityAssumption
<1>2. given \in Users \cup {Nil} /\ taken \in Users \cup {Nil} /\ checked = given
  BY <1>1, LookupsAgree
     DEF Idn!CanActivate, Idn!CurrentUser, Idn!Verify, Idn!CookieToken, Idn!NoToken,
         Idn!AccessTokens, Idn!Handle
<1>3. handled' = [header |-> header, admitted |-> given, current |-> taken,
                  validated |-> checked]
      /\ UNCHANGED <<bearer, cookie, logins, clientClock>>
  BY DEF Idn!Handle
<1>4. header # "Bearer" => taken = given
  BY DEF Idn!CanActivate, Idn!CurrentUser
<1>5. taken # Nil => clientClock < logins[taken] + CookieLife
  <2>1. taken # Nil => taken = cookie.token.user /\ cookie.until > clientClock
    BY <1>1 DEF Idn!CurrentUser, Idn!Verify, Idn!CookieToken, Idn!NoToken
  <2>2. taken # Nil => logins[taken] \in Nat /\ CookieLife \in Nat
    BY <1>2 DEF IdentityInv, Idn!TypeOK, Idn!IdentityAssumption
  <2>3. taken # Nil => cookie.until <= logins[taken] + CookieLife
    BY <2>1 DEF IdentityInv
  <2> HIDE DEF taken
  <2>4. QED
    BY <1>1, <2>1, <2>2, <2>3
<1> HIDE DEF given, taken, checked
<1>6. Idn!TypeOK'
  BY <1>2, <1>3 DEF IdentityInv, Idn!TypeOK, Idn!AccessTokens
<1>7. QED
  BY <1>2, <1>3, <1>4, <1>5, <1>6
     DEF IdentityInv, Idn!CookieRequestsAgree, Idn!CurrentUserLoggedIn,
         Idn!ValidateAgreesWithGuard

\* Every step keeps the invariant.
LEMMA IdentityKeeps ==
  ASSUME Idn!IdentityAssumption, IdentityInv, [Idn!Next]_Idn!identityVars
  PROVE  IdentityInv'
<1>1. /\ bearer \in Idn!AccessTokens
      /\ cookie \in [token : Idn!AccessTokens, until : Nat]
      /\ logins \in [Users -> 0..ClientTime] /\ clientClock \in 0..ClientTime
      /\ TokenLife \in Nat /\ CookieLife \in Nat /\ ClientTime \in Nat
  BY DEF IdentityInv, Idn!TypeOK, Idn!IdentityAssumption
<1>2. ASSUME NEW u \in Users, Idn!Token(u) \in Idn!AccessTokens, Idn!Login(u)
      PROVE  IdentityInv'
  <2>1. /\ cookie'.token.user = u /\ cookie'.until = clientClock + CookieLife
        /\ cookie' \in [token : Idn!AccessTokens, until : Nat]
        /\ bearer' \in Idn!AccessTokens
    BY <1>1, <1>2 DEF Idn!Login, Idn!Token
  <2>2. /\ logins' \in [Users -> 0..ClientTime] /\ logins'[u] = clientClock
        /\ \A v \in Users \ {u} : logins'[v] = logins[v]
        /\ handled' = handled /\ clientClock' = clientClock
    BY <1>1, <1>2 DEF Idn!Login
  <2>3. \A v \in Users : logins[v] <= logins'[v] /\ logins'[v] <= clientClock
    BY <1>1, <2>2 DEF IdentityInv
  <2>4. Idn!TypeOK'
    BY <2>1, <2>2 DEF IdentityInv, Idn!TypeOK, Idn!AccessTokens
  <2>5. Idn!CurrentUserLoggedIn'
    <3>1. handled.current \in Users \cup {Nil}
      BY DEF IdentityInv, Idn!TypeOK
    <3>2. CASE handled.current \in Users
      <4> DEFINE v == handled.current
      <4>1. /\ logins[v] \in Nat /\ logins'[v] \in Nat /\ clientClock \in Nat
            /\ logins[v] <= logins'[v]
        BY <1>1, <2>2, <2>3, <3>2
      <4>2. v # Nil => clientClock < logins[v] + CookieLife
        BY DEF IdentityInv, Idn!CurrentUserLoggedIn
      <4>3. v # Nil => clientClock < logins'[v] + CookieLife
        <5> HIDE DEF v
        <5> QED
          BY <1>1, <4>1, <4>2
      <4>4. QED
        BY <2>2, <4>3 DEF Idn!CurrentUserLoggedIn
    <3>3. CASE handled.current = Nil
      BY <2>2, <3>3 DEF Idn!CurrentUserLoggedIn
    <3>4. QED
      BY <3>1, <3>2, <3>3
  <2>6. QED
    BY <1>1, <2>1, <2>2, <2>3, <2>4, <2>5
       DEF IdentityInv, Idn!CookieRequestsAgree, Idn!ValidateAgreesWithGuard
<1>3. ASSUME NEW u \in Users
      PROVE  Idn!Token(u) \in Idn!AccessTokens
  BY <1>1 DEF Idn!Token, Idn!AccessTokens
<1>4. ASSUME bearer' \in Idn!AccessTokens, UNCHANGED <<cookie, handled, logins, clientClock>>
      PROVE  IdentityInv'
  BY <1>4 DEF IdentityInv, Idn!TypeOK, Idn!AccessTokens, Idn!CookieRequestsAgree,
              Idn!CurrentUserLoggedIn, Idn!ValidateAgreesWithGuard
<1>5. Idn!NoToken \in Idn!AccessTokens
  BY DEF Idn!NoToken, Idn!AccessTokens
<1>6. CASE Idn!Tick
  <2>1. /\ handled' = Idn!NoOne /\ clientClock' = clientClock + 1
        /\ clientClock' \in 0..ClientTime
        /\ UNCHANGED <<bearer, cookie, logins>>
    BY <1>1, <1>6 DEF Idn!Tick
  <2>2. Idn!TypeOK'
    BY <2>1 DEF IdentityInv, Idn!TypeOK, Idn!AccessTokens, Idn!NoOne
  <2>3. \A u \in Users : logins'[u] <= clientClock'
    BY <1>1, <2>1 DEF IdentityInv
  <2>4. QED
    BY <2>1, <2>2, <2>3
       DEF IdentityInv, Idn!NoOne, Idn!CookieRequestsAgree, Idn!CurrentUserLoggedIn,
           Idn!ValidateAgreesWithGuard
<1>7. CASE UNCHANGED Idn!identityVars
  BY <1>1, <1>4, <1>7 DEF Idn!identityVars
<1>8. QED
  BY <1>2, <1>3, <1>4, <1>5, <1>6, <1>7, HandleKeeps
     DEF Idn!Next, Idn!GetToken, Idn!Forget

\* The invariant holds of every behaviour.
LEMMA IdentityAlways ==
  Idn!IdentityAssumption => (Idn!IdentitySpec => []IdentityInv)
<1> SUFFICES ASSUME Idn!IdentityAssumption
             PROVE  Idn!IdentitySpec => []IdentityInv
  OBVIOUS
<1>1. Idn!Init => IdentityInv
  BY IdentityInit
<1>2. IdentityInv /\ [Idn!Next]_Idn!identityVars => IdentityInv'
  BY IdentityKeeps
<1>3. QED
  BY <1>1, <1>2, PTL DEF Idn!IdentitySpec

-----------------------------------------------------------------------------
(* Addresses.                                                              *)

\* While no other request has made a default, one that creates an address
\* finds no mark, and one that updates an address finds none on another.
AddressesInv ==
  /\ Adr!TypeOK
  /\ \A r \in AddressRequests :
       /\ addressRequests[r].at = "create" /\ ~addressRequests[r].disturbed =>
            Adr!Defaults = {}
       /\ addressRequests[r].at = "update" /\ ~addressRequests[r].disturbed =>
            Adr!Defaults \subseteq {addressRequests[r].addr}

\* A request that unsets the others finds what it left.
LEMMA UnsetKeeps ==
  ASSUME AddressesInv, NEW r \in AddressRequests,
         \/ Adr!UnsetForCreate(r)
         \/ \E a \in Addrs : Adr!UnsetForUpdate(r, a)
  PROVE  AddressesInv'
<1>1. ASSUME NEW at \in {"create", "update"}, NEW a \in Addrs \cup {Nil},
             NEW others \in SUBSET Addrs, Adr!Unset(r, at, a, others),
             Addrs \ {a} \subseteq others, at = "create" => others = Addrs
      PROVE  AddressesInv'
  <2>1. /\ addresses' \in [Addrs -> {"none", "plain", "default"}]
        /\ Adr!Defaults' = Adr!Defaults \ others
    BY <1>1 DEF AddressesInv, Adr!TypeOK, Adr!Unset, Adr!Unmarked, Adr!Stored, Adr!Defaults
  <2>2. Adr!Defaults \subseteq Addrs
    BY DEF Adr!Defaults
  <2>3. /\ addressRequests' \in [AddressRequests ->
              [at : {"idle", "create", "update"}, addr : Addrs \cup {Nil},
               disturbed : BOOLEAN]]
        /\ addressRequests'[r].at = at /\ addressRequests'[r].addr = a
        /\ \A s \in AddressRequests \ {r} : addressRequests'[s] = addressRequests[s]
    BY <1>1 DEF AddressesInv, Adr!TypeOK, Adr!Unset
  <2>4. QED
    BY <1>1, <2>1, <2>2, <2>3 DEF AddressesInv, Adr!TypeOK
<1>2. CASE Adr!UnsetForCreate(r)
  BY <1>1, <1>2 DEF Adr!UnsetForCreate
<1>3. ASSUME NEW a \in Addrs, Adr!UnsetForUpdate(r, a)
      PROVE  AddressesInv'
  BY <1>1, <1>3 DEF Adr!UnsetForUpdate
<1>4. QED
  BY <1>2, <1>3

\* Making a default disturbs every other request between its writes.
LEMMA WriteKeeps ==
  ASSUME AddressesInv, NEW r \in AddressRequests, NEW a \in Addrs, Adr!WriteDefault(r, a)
  PROVE  /\ AddressesInv'
         /\ Adr!Defaults' = Adr!Defaults \cup {a}
<1>1. /\ addresses' \in [Addrs -> {"none", "plain", "default"}]
      /\ Adr!Defaults' = Adr!Defaults \cup {a}
  BY DEF AddressesInv, Adr!TypeOK, Adr!WriteDefault, Adr!Defaults
<1>2. ASSUME NEW s \in AddressRequests
      PROVE  /\ addressRequests'[s] \in [at : {"idle", "create", "update"},
                                  addr : Addrs \cup {Nil}, disturbed : BOOLEAN]
             /\ addressRequests'[s].at # "idle" => addressRequests'[s].disturbed
  BY DEF AddressesInv, Adr!TypeOK, Adr!WriteDefault, Adr!NoRequest
<1>3. addressRequests' = [s \in AddressRequests |-> addressRequests'[s]]
  BY DEF Adr!WriteDefault
<1>4. Adr!TypeOK'
  BY <1>1, <1>2, <1>3 DEF Adr!TypeOK
<1>5. QED
  BY <1>1, <1>2, <1>4 DEF AddressesInv

\* No other step gives an address the mark.
LEMMA AddressesKeep ==
  ASSUME AddressesInv, [Adr!Next]_Adr!addressVars
  PROVE  AddressesInv'
<1>1. ASSUME NEW r \in AddressRequests, Adr!DropRequest(r)
      PROVE  AddressesInv'
  <2>1. /\ addresses' = addresses
        /\ addressRequests' \in [AddressRequests ->
             [at : {"idle", "create", "update"}, addr : Addrs \cup {Nil},
              disturbed : BOOLEAN]]
        /\ addressRequests'[r].at = "idle"
        /\ \A s \in AddressRequests \ {r} : addressRequests'[s] = addressRequests[s]
    BY <1>1 DEF AddressesInv, Adr!TypeOK, Adr!DropRequest, Adr!NoRequest
  <2>2. QED
    BY <2>1 DEF AddressesInv, Adr!TypeOK, Adr!Defaults
<1>2. ASSUME NEW a \in Addrs, Adr!Create(a) \/ Adr!Update(a) \/ Adr!Remove(a)
      PROVE  AddressesInv'
  <2>1. /\ addressRequests' = addressRequests
        /\ addresses' \in [Addrs -> {"none", "plain", "default"}]
        /\ Adr!Defaults' \subseteq Adr!Defaults
    BY <1>2 DEF AddressesInv, Adr!TypeOK, Adr!Create, Adr!Update, Adr!Remove, Adr!Defaults
  <2>2. QED
    BY <2>1 DEF AddressesInv, Adr!TypeOK
<1>3. ASSUME NEW r \in AddressRequests, NEW a \in Addrs,
             Adr!CreateDefault(r, a) \/ Adr!UpdateDefault(r, a)
      PROVE  AddressesInv'
  BY <1>3, WriteKeeps DEF Adr!CreateDefault, Adr!UpdateDefault
<1>4. CASE UNCHANGED Adr!addressVars
  BY <1>4 DEF AddressesInv, Adr!TypeOK, Adr!Defaults, Adr!addressVars
<1>5. QED
  BY <1>1, <1>2, <1>3, <1>4, UnsetKeeps DEF Adr!Next

\* The invariant holds of every behaviour.
LEMMA AddressesAlways == Adr!AddressesSpec => []AddressesInv
<1>1. Adr!Init => AddressesInv
  <2>1. Adr!Init => Adr!TypeOK /\ \A r \in AddressRequests : addressRequests[r].at = "idle"
    BY DEF Adr!Init, Adr!TypeOK, Adr!NoRequest
  <2>2. QED
    BY <2>1 DEF AddressesInv
<1>2. AddressesInv /\ [Adr!Next]_Adr!addressVars => AddressesInv'
  BY AddressesKeep
<1>3. QED
  BY <1>1, <1>2, PTL DEF Adr!AddressesSpec

\* A request that finds no mark but its own address's leaves one default.
LEMMA OneDefaultAlone == Adr!AddressesSpec => Adr!OneDefaultWhenAlone
<1> DEFINE Alone == \A r \in AddressRequests, a \in Addrs :
       /\ addressRequests[r] # Adr!NoRequest /\ ~addressRequests[r].disturbed
       /\ Adr!CreateDefault(r, a) \/ Adr!UpdateDefault(r, a)
       => Adr!Defaults' = {a}
<1>1. AddressesInv => Alone
  <2> SUFFICES ASSUME AddressesInv, NEW r \in AddressRequests, NEW a \in Addrs,
                      ~addressRequests[r].disturbed,
                      Adr!CreateDefault(r, a) \/ Adr!UpdateDefault(r, a)
               PROVE  Adr!Defaults' = {a}
    OBVIOUS
  <2>1. Adr!Defaults' = Adr!Defaults \cup {a}
    BY WriteKeeps DEF Adr!CreateDefault, Adr!UpdateDefault
  <2>2. Adr!Defaults \subseteq {a}
    BY DEF AddressesInv, Adr!CreateDefault, Adr!UpdateDefault
  <2>3. QED
    BY <2>1, <2>2
<1>2. AddressesInv => [Alone]_Adr!addressVars
  BY <1>1
<1>3. QED
  BY <1>2, AddressesAlways, PTL DEF Adr!OneDefaultWhenAlone

-----------------------------------------------------------------------------
(* Shipping.                                                               *)

\* A partner a checkout may get exists, and partners stay.
PartnersStay ==
  /\ \A c \in PartnerCodes : partners[c].active => partners[c].exists
  /\ \A o \in ShippedOrders :
       IF shipments[o].code = Nil THEN shipments[o] = Shp!NoShipment
       ELSE partners[shipments[o].code].exists

\* An update in progress is of an order that has its partner.
UpdatesHold ==
  \A a \in Admins : updates[a].at # "idle" =>
    updates[a].order \in ShippedOrders /\ shipments[updates[a].order].code # Nil

ShippingInv == Shp!TypeOK /\ PartnersStay /\ UpdatesHold

PartnerDocuments ==
  [exists : BOOLEAN, baseCharge : Charges \cup {0},
   perItemCharge : Charges \cup {0}, freeShippingThreshold : Shp!Thresholds,
   active : BOOLEAN, template : Templates \cup {Nil}]
ShippingParts ==
  [code : PartnerCodes \cup {Nil}, fee : Nat, trackingNumber : BOOLEAN,
   trackingUrl : Templates \cup {Nil}]
UpdatesInProgress ==
  [at : {"idle", "link", "save"}, order : ShippedOrders \cup {Nil},
   loaded : Templates \cup {Nil}, tracked : BOOLEAN, url : Templates \cup {Nil}]

\* The type invariant, by the sets named above.
LEMMA ShippingTypes ==
  Shp!TypeOK <=> /\ partners \in [PartnerCodes -> PartnerDocuments]
                 /\ shipments \in [ShippedOrders -> ShippingParts]
                 /\ updates \in [Admins -> UpdatesInProgress]
BY DEF Shp!TypeOK, PartnerDocuments, ShippingParts, UpdatesInProgress

\* A partner's fee is a natural number, thresholds of null or none included
\* (shipping.service.ts:17-28).
LEMMA FeeIsNatural ==
  ASSUME Shp!ShippingAssumption, Shp!TypeOK,
         NEW c \in PartnerCodes, NEW s \in Subtotals, NEW q \in Shp!Quantities
  PROVE  Shp!Fee(c, s, q) \in Nat
<1> DEFINE base == partners[c].baseCharge
           item == partners[c].perItemCharge
<1>1. base \in Nat /\ item \in Nat /\ q \in Nat
  <2>1. base \in Charges \cup {0} /\ item \in Charges \cup {0}
    BY DEF Shp!TypeOK
  <2>2. q \in Nat
    BY DEF Shp!ShippingAssumption, Shp!Quantities
  <2>3. Charges \cup {0} \subseteq Nat
    BY DEF Shp!ShippingAssumption
  <2> HIDE DEF base, item
  <2>4. QED
    BY <2>1, <2>2, <2>3
<1>2. base + item * q \in Nat
  <2> HIDE DEF base, item
  <2>1. item * q \in Nat
    BY <1>1
  <2>2. QED
    BY <1>1, <2>1
<1>3. QED
  BY <1>2 DEF Shp!Fee

\* Once free, shipping stays free for those who spend more; until then the
\* subtotal does not count (shipping.service.ts:23-25).
LEMMA FeesFall ==
  ASSUME Shp!ShippingAssumption, Shp!TypeOK
  PROVE  Shp!SpendingMoreShipsNoDearer
<1> SUFFICES ASSUME NEW c \in PartnerCodes, NEW q \in Shp!Quantities,
                    NEW s1 \in Subtotals, NEW s2 \in Subtotals, s1 <= s2
             PROVE  Shp!Fee(c, s2, q) <= Shp!Fee(c, s1, q)
  BY DEF Shp!SpendingMoreShipsNoDearer, Shp!Active
<1>1. Shp!ShipsFree(c, s1) => Shp!ShipsFree(c, s2)
  <2>1. /\ partners[c].freeShippingThreshold \in Nat \cup {Undefined, Null}
        /\ s1 \in Nat /\ s2 \in Nat
    BY DEF Shp!TypeOK, Shp!ShippingAssumption, Shp!Thresholds
  <2>2. QED
    BY <2>1 DEF Shp!ShipsFree
<1>2. Shp!Fee(c, s1, q) \in Nat
  BY FeeIsNatural
<1>3. CASE Shp!ShipsFree(c, s2)
  BY <1>2, <1>3 DEF Shp!Fee
<1>4. CASE ~Shp!ShipsFree(c, s2)
  BY <1>1, <1>2, <1>4 DEF Shp!Fee
<1>5. QED
  BY <1>3, <1>4

\* A checkout gets a partner that is active, and so exists.
LEMMA CheckoutKeeps ==
  ASSUME Shp!ShippingAssumption, ShippingInv,
         NEW o \in ShippedOrders, NEW wanted \in PartnerCodes \cup {Nil},
         NEW s \in Subtotals, NEW q \in Shp!Quantities,
         Shp!Checkout(o, wanted, s, q)
  PROVE  ShippingInv'
<1> USE DEF ShippingInv
<1>1. PICK c \in Shp!Offered(wanted) :
        shipments' = [shipments EXCEPT ![o] =
          [Shp!NoShipment EXCEPT !.code = c, !.fee = Shp!Fee(c, s, q)]]
  BY DEF Shp!Checkout
<1>2. c \in PartnerCodes /\ partners[c].active /\ c # Nil
  BY DEF Shp!Offered, Shp!Active, Shp!ShippingAssumption
<1>3. Shp!Fee(c, s, q) \in Nat
  BY <1>2, FeeIsNatural
<1> DEFINE part == [Shp!NoShipment EXCEPT !.code = c, !.fee = Shp!Fee(c, s, q)]
<1>4. part \in ShippingParts /\ part.code = c
  BY <1>2, <1>3 DEF ShippingParts, Shp!NoShipment
<1>5. shipments \in [ShippedOrders -> ShippingParts]
  BY ShippingTypes
<1> HIDE DEF part
<1>6. /\ shipments' \in [ShippedOrders -> ShippingParts] /\ shipments'[o] = part
      /\ \A p \in ShippedOrders \ {o} : shipments'[p] = shipments[p]
      /\ UNCHANGED <<partners, updates>>
  BY <1>1, <1>4, <1>5 DEF Shp!Checkout, part
<1>7. Shp!TypeOK'
  BY <1>6, ShippingTypes DEF Shp!TypeOK, ShippingParts
<1>8. PartnersStay'
  BY <1>2, <1>4, <1>6 DEF PartnersStay
<1>9. UpdatesHold'
  BY <1>2, <1>4, <1>6 DEF UpdatesHold
<1>10. QED
  BY <1>7, <1>8, <1>9

\* An admin's edit of a partner leaves it there.
LEMMA PartnersKeep ==
  ASSUME Shp!ShippingAssumption, ShippingInv, NEW c \in PartnerCodes,
         \/ \E base, item \in Charges \cup {0}, threshold \in Shp!Thresholds,
               template \in Templates \cup {Nil} :
              Shp!CreatePartner(c, base, item, threshold, template)
         \/ Shp!EditPartner(c)
  PROVE  ShippingInv'
<1>1. ASSUME NEW partner \in PartnerDocuments, partner.exists,
             partners' = [partners EXCEPT ![c] = partner],
             UNCHANGED <<shipments, updates>>
      PROVE  ShippingInv'
  <2>1. partners' \in [PartnerCodes -> PartnerDocuments] /\ partners'[c] = partner
        /\ \A d \in PartnerCodes \ {c} : partners'[d] = partners[d]
    BY <1>1, ShippingTypes DEF ShippingInv
  <2>2. Shp!TypeOK'
    BY <1>1, <2>1 DEF ShippingInv, Shp!TypeOK, PartnerDocuments
  <2>3. \A o \in ShippedOrders : shipments[o].code \in PartnerCodes \cup {Nil}
    BY DEF ShippingInv, Shp!TypeOK
  <2>4. PartnersStay' /\ UpdatesHold'
    BY <1>1, <2>1, <2>3 DEF ShippingInv, PartnersStay, UpdatesHold
  <2>5. QED
    BY <2>2, <2>4 DEF ShippingInv
<1>2. ASSUME NEW base \in Charges \cup {0}, NEW item \in Charges \cup {0},
             NEW threshold \in Shp!Thresholds, NEW template \in Templates \cup {Nil},
             Shp!CreatePartner(c, base, item, threshold, template)
      PROVE  ShippingInv'
  <2> DEFINE partner == [exists |-> TRUE, baseCharge |-> base, perItemCharge |-> item,
                         freeShippingThreshold |-> threshold, active |-> TRUE,
                         template |-> template]
  <2>1. partner \in PartnerDocuments /\ partner.exists
    BY <1>2 DEF PartnerDocuments
  <2>2. partners' = [partners EXCEPT ![c] = partner] /\ UNCHANGED <<shipments, updates>>
    BY <1>2 DEF Shp!CreatePartner
  <2> HIDE DEF partner
  <2>3. QED
    BY <1>1, <2>1, <2>2
<1>3. partners[c] \in PartnerDocuments
  BY ShippingTypes DEF ShippingInv
<1>4. ASSUME NEW charge \in Charges \cup {0}, Shp!UpdatePartner(c, "baseCharge", charge)
      PROVE  ShippingInv'
  <2>1. [partners[c] EXCEPT !.baseCharge = charge] \in PartnerDocuments
    BY <1>3, <1>4 DEF PartnerDocuments
  <2>2. QED
    BY <1>1, <1>3, <1>4, <2>1 DEF Shp!UpdatePartner, PartnerDocuments
<1>5. ASSUME NEW charge \in Charges \cup {0}, Shp!UpdatePartner(c, "perItemCharge", charge)
      PROVE  ShippingInv'
  <2>1. [partners[c] EXCEPT !.perItemCharge = charge] \in PartnerDocuments
    BY <1>3, <1>5 DEF PartnerDocuments
  <2>2. QED
    BY <1>1, <1>3, <1>5, <2>1 DEF Shp!UpdatePartner, PartnerDocuments
<1>6. ASSUME NEW threshold \in Charges \cup {Null},
             Shp!UpdatePartner(c, "freeShippingThreshold", threshold)
      PROVE  ShippingInv'
  <2>1. [partners[c] EXCEPT !.freeShippingThreshold = threshold] \in PartnerDocuments
    BY <1>3, <1>6 DEF PartnerDocuments, Shp!Thresholds
  <2>2. QED
    BY <1>1, <1>3, <1>6, <2>1 DEF Shp!UpdatePartner, PartnerDocuments
<1>7. ASSUME NEW active \in BOOLEAN, Shp!UpdatePartner(c, "active", active)
      PROVE  ShippingInv'
  <2>1. [partners[c] EXCEPT !.active = active] \in PartnerDocuments
    BY <1>3, <1>7 DEF PartnerDocuments
  <2>2. QED
    BY <1>1, <1>3, <1>7, <2>1 DEF Shp!UpdatePartner, PartnerDocuments
<1>8. ASSUME NEW template \in Templates \cup {Nil},
             Shp!UpdatePartner(c, "template", template)
      PROVE  ShippingInv'
  <2>1. [partners[c] EXCEPT !.template = template] \in PartnerDocuments
    BY <1>3, <1>8 DEF PartnerDocuments
  <2>2. QED
    BY <1>1, <1>3, <1>8, <2>1 DEF Shp!UpdatePartner, PartnerDocuments
<1>9. QED
  BY <1>2, <1>4, <1>5, <1>6, <1>7, <1>8 DEF Shp!EditPartner

\* Loading an order and making its link touch neither orders nor partners.
LEMMA LoadKeeps ==
  ASSUME Shp!ShippingAssumption, ShippingInv, NEW a \in Admins,
         \/ \E o \in ShippedOrders, number \in BOOLEAN : Shp!LoadShipment(a, o, number)
         \/ Shp!MakeLink(a)
         \/ Shp!DropUpdate(a)
  PROVE  ShippingInv'
<1>1. ASSUME NEW u \in UpdatesInProgress,
             u.at # "idle" => u.order \in ShippedOrders /\ shipments[u.order].code # Nil,
             updates' = [updates EXCEPT ![a] = u],
             UNCHANGED <<partners, shipments>>
      PROVE  ShippingInv'
  <2>1. updates' \in [Admins -> UpdatesInProgress] /\ updates'[a] = u
        /\ \A b \in Admins \ {a} : updates'[b] = updates[b]
    BY <1>1, ShippingTypes DEF ShippingInv
  <2>2. Shp!TypeOK'
    BY <1>1, <2>1 DEF ShippingInv, Shp!TypeOK, UpdatesInProgress
  <2>3. QED
    BY <1>1, <2>1, <2>2 DEF ShippingInv, PartnersStay, UpdatesHold
<1>2. ASSUME NEW o \in ShippedOrders, NEW number \in BOOLEAN, Shp!LoadShipment(a, o, number)
      PROVE  ShippingInv'
  <2> DEFINE u == [Shp!NoUpdate EXCEPT !.at = "link", !.order = o,
                        !.loaded = shipments[o].trackingUrl,
                        !.tracked = shipments[o].trackingNumber \/ number]
  <2>1. shipments[o] \in ShippingParts /\ shipments[o].code # Nil
    BY <1>2, ShippingTypes DEF ShippingInv, PartnersStay, Shp!LoadShipment
  <2>2. u \in UpdatesInProgress /\ u.order = o
    BY <2>1 DEF ShippingParts, UpdatesInProgress, Shp!NoUpdate
  <2>3. updates' = [updates EXCEPT ![a] = u] /\ UNCHANGED <<partners, shipments>>
    BY <1>2 DEF Shp!LoadShipment
  <2> HIDE DEF u
  <2>4. QED
    BY <1>1, <2>1, <2>2, <2>3
<1>3. CASE Shp!MakeLink(a)
  <2> DEFINE c == shipments[updates[a].order].code
             u == [updates[a] EXCEPT !.at = "save",
                     !.url = IF updates[a].tracked THEN partners[c].template ELSE Nil]
  <2>1. updates[a] \in UpdatesInProgress /\ updates[a].at = "link"
    BY <1>3, ShippingTypes DEF ShippingInv, Shp!MakeLink
  <2>2. updates[a].order \in ShippedOrders /\ c # Nil
    BY <2>1 DEF ShippingInv, UpdatesHold
  <2>3. partners[c].template \in Templates \cup {Nil}
    BY <2>2 DEF ShippingInv, Shp!TypeOK
  <2>4. u \in UpdatesInProgress /\ u.order = updates[a].order
    BY <2>1, <2>3 DEF UpdatesInProgress
  <2>5. updates' = [updates EXCEPT ![a] = u] /\ UNCHANGED <<partners, shipments>>
    BY <1>3 DEF Shp!MakeLink
  <2> HIDE DEF u
  <2>6. QED
    BY <1>1, <2>2, <2>4, <2>5
<1>4. CASE Shp!DropUpdate(a)
  <2>1. Shp!NoUpdate \in UpdatesInProgress /\ Shp!NoUpdate.at = "idle"
    BY DEF Shp!NoUpdate, UpdatesInProgress
  <2>2. QED
    BY <1>1, <1>4, <2>1 DEF Shp!DropUpdate
<1>5. QED
  BY <1>2, <1>3, <1>4

\* Saving changes the tracking of an order, and not its partner.
LEMMA SaveKeeps ==
  ASSUME Shp!ShippingAssumption, ShippingInv, NEW a \in Admins, Shp!SaveShipment(a)
  PROVE  ShippingInv'
<1> DEFINE u == updates[a]
           o == u.order
           part == [shipments[o] EXCEPT
                      !.trackingNumber = @ \/ u.tracked,
                      !.trackingUrl = IF u.url = u.loaded THEN @ ELSE u.url]
<1>1. u \in UpdatesInProgress /\ u.at = "save"
  BY ShippingTypes DEF ShippingInv, Shp!SaveShipment
<1>2. o \in ShippedOrders /\ shipments[o].code # Nil
  BY <1>1 DEF ShippingInv, UpdatesHold
<1>3. shipments[o] \in ShippingParts
  BY <1>2, ShippingTypes DEF ShippingInv
<1>4. part \in ShippingParts /\ part.code = shipments[o].code
  BY <1>1, <1>3 DEF ShippingParts, UpdatesInProgress
<1>5. shipments' = [shipments EXCEPT ![o] = part]
  BY DEF Shp!SaveShipment
<1>6. updates' = [updates EXCEPT ![a] = Shp!NoUpdate] /\ partners' = partners
  BY DEF Shp!SaveShipment
<1> HIDE DEF part, o
<1>7. /\ shipments' \in [ShippedOrders -> ShippingParts] /\ shipments'[o] = part
      /\ \A p \in ShippedOrders \ {o} : shipments'[p] = shipments[p]
  BY <1>2, <1>4, <1>5, ShippingTypes DEF ShippingInv
<1>8. Shp!NoUpdate \in UpdatesInProgress /\ Shp!NoUpdate.at = "idle"
  BY DEF Shp!NoUpdate, UpdatesInProgress
<1>9. updates' \in [Admins -> UpdatesInProgress] /\ updates'[a].at = "idle"
      /\ \A b \in Admins \ {a} : updates'[b] = updates[b]
  BY <1>6, <1>8, ShippingTypes DEF ShippingInv
<1>10. Shp!TypeOK'
  BY <1>6, <1>7, <1>9 DEF ShippingInv, Shp!TypeOK, ShippingParts, UpdatesInProgress
<1>11. PartnersStay'
  BY <1>2, <1>4, <1>6, <1>7 DEF ShippingInv, PartnersStay
<1>12. UpdatesHold'
  BY <1>2, <1>4, <1>7, <1>9 DEF ShippingInv, UpdatesHold
<1>13. QED
  BY <1>10, <1>11, <1>12 DEF ShippingInv

\* The invariant holds of every behaviour.
LEMMA ShippingAlways ==
  Shp!ShippingAssumption => (Shp!ShippingSpec => []ShippingInv)
<1> SUFFICES ASSUME Shp!ShippingAssumption
             PROVE  Shp!ShippingSpec => []ShippingInv
  OBVIOUS
<1>1. Shp!Init => ShippingInv
  BY DEF Shp!Init, Shp!NoPartner, Shp!NoShipment, Shp!NoUpdate, Shp!Thresholds,
         ShippingInv, Shp!TypeOK, PartnersStay, UpdatesHold
<1>2. ShippingInv /\ [Shp!Next]_Shp!shippingVars => ShippingInv'
  <2>1. ShippingInv /\ Shp!Next => ShippingInv'
    BY CheckoutKeeps, PartnersKeep, LoadKeeps, SaveKeeps DEF Shp!Next
  <2>2. ShippingInv /\ UNCHANGED Shp!shippingVars => ShippingInv'
    BY DEF ShippingInv, Shp!TypeOK, PartnersStay, UpdatesHold, Shp!shippingVars
  <2>3. QED
    BY <2>1, <2>2
<1>3. QED
  BY <1>1, <1>2, PTL DEF Shp!ShippingSpec

\* What the invariant says of fees and of links.
LEMMA ShippingShows ==
  ASSUME Shp!ShippingAssumption, ShippingInv
  PROVE  Shp!SpendingMoreShipsNoDearer /\ Shp!ShippedCanBeTracked
<1>1. Shp!SpendingMoreShipsNoDearer
  BY FeesFall DEF ShippingInv
<1>2. Shp!ShippedCanBeTracked
  BY DEF ShippingInv, PartnersStay, Shp!ShippedCanBeTracked, Shp!TrackingForUser,
         Shp!TrackingUrl
<1>3. QED
  BY <1>1, <1>2

-----------------------------------------------------------------------------
(* Cart.                                                                   *)

\* A request that loaded a cart is of a cart that is there, and a cart that
\* is not there has no lines.
CartInv ==
  /\ Crt!TypeOK
  /\ ~exists => items = <<>>
  /\ \A r \in Requests : cartRequests[r].at \in {"push", "set"} => exists

CartRequests ==
  [at : {"idle", "create", "push", "set"}, product : CartProducts \cup {Nil},
   quantity : Nat, index : Nat, version : 0..MaxPushes]

\* The type invariant, with the requests by name.
LEMMA CartTypes ==
  Crt!TypeOK <=> /\ exists \in BOOLEAN
                 /\ items \in Seq(Crt!Lines)
                 /\ version \in 0..MaxPushes
                 /\ cartRequests \in [Requests -> CartRequests]
BY DEF Crt!TypeOK, CartRequests

\* find() gives the index of a line (cart.service.ts:73).
LEMMA FirstLineIsALine ==
  ASSUME Crt!TypeOK, NEW p \in Crt!InCart
  PROVE  Crt!FirstLineOf(p) \in DOMAIN items
<1> DEFINE found == {i \in DOMAIN items : items[i].productId = p}
<1>1. DOMAIN items = 1..Len(items) /\ Len(items) \in Nat
  BY LenProperties DEF Crt!TypeOK
<1>2. found \subseteq Nat /\ found # {}
  BY <1>1 DEF Crt!InCart
<1>3. PICK i \in found : \A j \in found : <<j, i>> \notin OpToRel(<, Nat)
  <2> HIDE DEF found
  <2> QED
    BY <1>2, WFMin, NatLessThanWellFounded, Zenon
<1>4. \A j \in found : ~(j < i)
  BY <1>2, <1>3, Zenon DEF OpToRel
<1>5. \A j \in 1..(i - 1) : j \in DOMAIN items /\ j < i
  BY <1>1
<1>6. \A j \in 1..(i - 1) : items[j].productId # p
  BY <1>4, <1>5
<1>7. QED
  BY <1>3, <1>6 DEF Crt!FirstLineOf

\* A handler that has loaded the cart changes the request alone.
LEMMA PlansKeep ==
  ASSUME CartInv, NEW r \in Requests, NEW request \in CartRequests,
         request.at \in {"push", "set"} => exists,
         Crt!Plans(r, request)
  PROVE  CartInv'
<1>1. /\ cartRequests' \in [Requests -> CartRequests] /\ cartRequests'[r] = request
      /\ \A s \in Requests \ {r} : cartRequests'[s] = cartRequests[s]
      /\ UNCHANGED <<exists, items, version>>
  BY CartTypes DEF CartInv, Crt!Plans
<1>2. Crt!TypeOK'
  BY <1>1 DEF CartInv, Crt!TypeOK, CartRequests, Crt!Lines
<1>3. QED
  BY <1>1, <1>2 DEF CartInv

\* A quantity is set on a line of the cart that was loaded, and a line is
\* pushed to a cart that is there (cart.service.ts:48-76).
LEMMA LoadingKeeps ==
  ASSUME Crt!CartAssumption, CartInv,
         NEW r \in Requests, NEW p \in CartProducts, NEW n \in 1..CartQty,
         Crt!AddItem(r, p, n) \/ Crt!UpdateItem(r, p, n)
  PROVE  CartInv'
<1>1. n \in Nat /\ version \in 0..MaxPushes /\ 0 \in 0..MaxPushes
  BY DEF CartInv, Crt!TypeOK, Crt!CartAssumption
<1> DEFINE i == Crt!FirstLineOf(p)
<1>2. p \in Crt!InCart => i \in Nat /\ items[i].quantity \in Nat /\ exists
  <2> SUFFICES ASSUME p \in Crt!InCart
               PROVE  i \in Nat /\ items[i].quantity \in Nat /\ exists
    OBVIOUS
  <2>1. i \in DOMAIN items
    BY FirstLineIsALine DEF CartInv
  <2>2. items \in Seq(Crt!Lines)
    BY DEF CartInv, Crt!TypeOK
  <2> HIDE DEF i
  <2>3. i \in Nat /\ items[i] \in Crt!Lines /\ items # <<>>
    BY <2>1, <2>2
  <2>4. QED
    BY <2>3 DEF CartInv, Crt!Lines
<1> HIDE DEF i
<1>3. ASSUME p \in Crt!InCart, NEW quantity \in Nat,
             Crt!Plans(r, [at |-> "set", product |-> p, index |-> i,
                           quantity |-> quantity, version |-> version])
      PROVE  CartInv'
  <2> DEFINE request == [at |-> "set", product |-> p, index |-> i,
                         quantity |-> quantity, version |-> version]
  <2>1. request \in CartRequests
    BY <1>1, <1>2, <1>3 DEF CartRequests
  <2> HIDE DEF request
  <2>2. QED
    BY <1>2, <1>3, <2>1, PlansKeep DEF request
<1>4. CASE Crt!UpdateItem(r, p, n)
  BY <1>1, <1>3, <1>4 DEF Crt!UpdateItem, i
<1>5. CASE Crt!AddItem(r, p, n) /\ p \in Crt!InCart
  <2>1. items[i].quantity + n \in Nat
    BY <1>1, <1>2, <1>5
  <2>2. QED
    BY <1>3, <1>5, <2>1 DEF Crt!AddItem, i
<1>6. CASE Crt!AddItem(r, p, n) /\ p \notin Crt!InCart
  <2> DEFINE request == [Crt!NoRequest EXCEPT !.at = IF exists THEN "push" ELSE "create",
                                              !.product = p, !.quantity = n]
  <2>1. request \in CartRequests /\ (request.at \in {"push", "set"} => exists)
    BY <1>1 DEF CartRequests, Crt!NoRequest
  <2>2. Crt!Plans(r, request)
    BY <1>6 DEF Crt!AddItem
  <2> HIDE DEF request
  <2>3. QED
    BY <2>1, <2>2, PlansKeep
<1>7. QED
  BY <1>4, <1>5, <1>6

\* A write ends its request, and leaves a cart of lines.
LEMMA WritingKeeps ==
  ASSUME Crt!CartAssumption, CartInv, NEW r \in Requests, Crt!Ends(r),
         exists' \in BOOLEAN, exists => exists', items' \in Seq(Crt!Lines)',
         exists' \/ items' = <<>>, version' \in 0..MaxPushes
  PROVE  CartInv'
<1>1. Crt!NoRequest \in CartRequests /\ Crt!NoRequest.at = "idle"
  BY DEF Crt!NoRequest, CartRequests, Crt!CartAssumption
<1>2. /\ cartRequests' \in [Requests -> CartRequests] /\ cartRequests'[r].at = "idle"
      /\ \A s \in Requests \ {r} : cartRequests'[s] = cartRequests[s]
  BY <1>1, CartTypes DEF CartInv, Crt!Ends
<1>3. Crt!TypeOK'
  BY <1>2 DEF Crt!TypeOK, CartRequests
<1>4. QED
  BY <1>2, <1>3 DEF CartInv

\* Setting a quantity gives a cart of lines, in which the lines there were
\* have the products they had (cart.service.ts:75-76).
LEMMA QuantityLeavesProducts ==
  ASSUME CartInv, NEW r \in Requests, Crt!SetQuantity(r)
  PROVE  /\ items' \in Seq(Crt!Lines)
         /\ \A j \in DOMAIN items :
              j \in DOMAIN items' /\ items'[j].productId = items[j].productId
<1> DEFINE i == cartRequests[r].index
           q == cartRequests[r].quantity
           padded == Crt!Padded(i)
           m == IF i > Len(items) THEN i ELSE Len(items)
<1>1. i \in Nat /\ q \in Nat /\ items \in Seq(Crt!Lines)
  BY CartTypes DEF CartInv, CartRequests
<1>2. items' = [padded EXCEPT ![i].quantity = q]
  BY DEF Crt!SetQuantity
<1>3. Crt!Line(Nil, 0) \in Crt!Lines
  BY DEF Crt!Line, Crt!Lines
<1> HIDE DEF i, q
<1>4. Len(items) \in Nat /\ DOMAIN items = 1..Len(items) /\ m \in Nat /\ Len(items) <= m
  BY <1>1
<1>5. padded \in [1..m -> Crt!Lines] /\ \A j \in DOMAIN items : padded[j] = items[j]
  BY <1>1, <1>3, <1>4 DEF Crt!Padded
<1> HIDE DEF padded, m
<1>6. \A j \in 1..m : [padded[j] EXCEPT !.quantity = q] \in Crt!Lines
  BY <1>1, <1>5 DEF Crt!Lines
<1>7. /\ items' \in [1..m -> Crt!Lines]
      /\ \A j \in 1..m : items'[j].productId = padded[j].productId
  BY <1>2, <1>5, <1>6 DEF Crt!Lines
<1>8. items' \in Seq(Crt!Lines)
  BY <1>4, <1>7
<1>9. QED
  BY <1>4, <1>5, <1>7, <1>8

\* $pull leaves the lines of other products (cart.service.ts:79-88).
LEMMA PullLeavesOthers ==
  ASSUME CartInv, NEW p \in CartProducts, Crt!RemoveItem(p)
  PROVE  /\ items' \in Seq(Crt!Lines)
         /\ \A i \in DOMAIN items : items[i].productId # p =>
              \E j \in DOMAIN items' : items'[j].productId = items[i].productId
<1> DEFINE kept == {i \in DOMAIN items : items[i].productId # p}
<1>1. items \in Seq(Crt!Lines)
  BY DEF CartInv, Crt!TypeOK
<1>2. PICK n \in 0..Len(items) :
        \E line \in Crt!Bijection(1..n, kept) : items' = [i \in 1..n |-> items[line[i]]]
  BY DEF Crt!RemoveItem
<1>3. PICK line \in Crt!Bijection(1..n, kept) : items' = [i \in 1..n |-> items[line[i]]]
  BY <1>2
<1>4. line \in [1..n -> kept] /\ \A i \in kept : \E j \in 1..n : line[j] = i
  BY <1>3 DEF Crt!Bijection, Crt!Injection, Crt!Surjection
<1>5. \A j \in 1..n : line[j] \in DOMAIN items /\ items[line[j]] \in Crt!Lines
  BY <1>1, <1>4
<1>6. items' \in Seq(Crt!Lines)
  BY <1>1, <1>2, <1>3, <1>5
<1>7. QED
  BY <1>3, <1>4, <1>6

\* Every step keeps the invariant.
LEMMA CartKeeps ==
  ASSUME Crt!CartAssumption, CartInv, [Crt!Next]_Crt!cartVars
  PROVE  CartInv'
<1>0. /\ Crt!Lines' = Crt!Lines /\ <<>> \in Seq(Crt!Lines)
      /\ items \in Seq(Crt!Lines) /\ exists \in BOOLEAN /\ version \in 0..MaxPushes
      /\ MaxPushes \in Nat
  BY DEF Crt!Lines, CartInv, Crt!TypeOK, Crt!CartAssumption
<1>1. ASSUME NEW r \in Requests
      PROVE  Crt!Line(cartRequests[r].product, cartRequests[r].quantity) \in Crt!Lines
  <2>1. cartRequests[r] \in CartRequests
    BY CartTypes DEF CartInv
  <2>2. QED
    BY <2>1 DEF Crt!Line, Crt!Lines, CartRequests
<1>2. ASSUME NEW r \in Requests, Crt!CreateCart(r)
      PROVE  CartInv'
  <2>1. items' \in Seq(Crt!Lines)
    BY <1>1, <1>2 DEF Crt!CreateCart
  <2>2. QED
    BY <1>0, <1>2, <2>1, WritingKeeps DEF Crt!CreateCart
<1>3. ASSUME NEW r \in Requests, Crt!PushLine(r)
      PROVE  CartInv'
  <2>1. items' \in Seq(Crt!Lines)
    BY <1>0, <1>1, <1>3 DEF Crt!PushLine
  <2>2. exists /\ exists' = exists
    BY <1>3 DEF CartInv, Crt!PushLine
  <2>3. version' \in 0..MaxPushes
    BY <1>0, <1>3 DEF Crt!PushLine
  <2>4. QED
    BY <1>0, <1>3, <2>1, <2>2, <2>3, WritingKeeps DEF Crt!PushLine
<1>4. ASSUME NEW r \in Requests, Crt!SetQuantity(r)
      PROVE  CartInv'
  <2>1. items' \in Seq(Crt!Lines)
    BY <1>4, QuantityLeavesProducts
  <2>2. exists /\ exists' = exists /\ version' = version
    BY <1>4 DEF CartInv, Crt!SetQuantity
  <2>3. QED
    BY <1>0, <1>4, <2>1, <2>2, WritingKeeps DEF Crt!SetQuantity
<1>5. ASSUME NEW r \in Requests, Crt!DropRequest(r)
      PROVE  CartInv'
  <2>1. UNCHANGED <<exists, items, version>> /\ Crt!Ends(r)
    BY <1>5 DEF Crt!DropRequest
  <2>2. exists' \/ items' = <<>>
    BY <1>0, <2>1 DEF CartInv
  <2>3. QED
    BY <1>0, <2>1, <2>2, WritingKeeps
<1>6. ASSUME UNCHANGED <<exists, version, cartRequests>>, items' \in Seq(Crt!Lines),
             exists \/ items' = <<>>
      PROVE  CartInv'
  <2>1. Crt!TypeOK'
    BY <1>0, <1>6 DEF CartInv, Crt!TypeOK
  <2>2. QED
    BY <1>6, <2>1 DEF CartInv
<1>7. ASSUME NEW p \in CartProducts, Crt!RemoveItem(p)
      PROVE  CartInv'
  <2>1. items' \in Seq(Crt!Lines)
    BY <1>7, PullLeavesOthers
  <2>2. QED
    BY <1>6, <1>7, <2>1 DEF Crt!RemoveItem
<1>8. CASE Crt!Clear
  BY <1>0, <1>6, <1>8 DEF Crt!Clear
<1>9. CASE UNCHANGED Crt!cartVars
  BY <1>0, <1>6, <1>9 DEF Crt!cartVars, CartInv
<1>10. QED
  BY <1>2, <1>3, <1>4, <1>5, <1>7, <1>8, <1>9, LoadingKeeps DEF Crt!Next, Crt!RequestStep

\* The invariant holds of every behaviour.
LEMMA CartAlways ==
  Crt!CartAssumption => (Crt!CartSpec => []CartInv)
<1> SUFFICES ASSUME Crt!CartAssumption
             PROVE  Crt!CartSpec => []CartInv
  OBVIOUS
<1>1. Crt!Init => CartInv
  <2>1. <<>> \in Seq(Crt!Lines) /\ Crt!NoRequest \in CartRequests
    BY DEF Crt!Lines, Crt!NoRequest, CartRequests, Crt!CartAssumption
  <2>2. Crt!Init => Crt!TypeOK
    <3> SUFFICES ASSUME Crt!Init
                 PROVE  Crt!TypeOK
      OBVIOUS
    <3>0. 0 \in 0..MaxPushes
      BY DEF Crt!CartAssumption
    <3>1. exists \in BOOLEAN /\ version \in 0..MaxPushes
      BY <3>0, Zenon DEF Crt!Init
    <3>2. items \in Seq(Crt!Lines) /\ cartRequests \in [Requests -> CartRequests]
      BY <2>1 DEF Crt!Init
    <3>3. QED
      BY <3>1, <3>2, CartTypes
  <2>3. QED
    BY <2>2 DEF Crt!Init, CartInv, Crt!NoRequest
<1>2. CartInv /\ [Crt!Next]_Crt!cartVars => CartInv'
  BY CartKeeps
<1>3. QED
  BY <1>1, <1>2, PTL DEF Crt!CartSpec

\* No write of a request takes a product out of the cart, and $pull takes the
\* one it is told (cart.service.ts:62, 65, 79-88).
LEMMA SavesTakeNothing ==
  Crt!CartAssumption => (Crt!CartSpec => Crt!ProductsLeaveByRemoval)
<1> SUFFICES ASSUME Crt!CartAssumption
             PROVE  Crt!CartSpec => Crt!ProductsLeaveByRemoval
  OBVIOUS
<1> DEFINE Leaving == \A p \in Crt!InCart \ Crt!InCart' : Crt!RemoveItem(p) \/ Crt!Clear
<1>1. CartInv /\ [Crt!Next]_Crt!cartVars => [Leaving]_Crt!cartVars
  <2> SUFFICES ASSUME CartInv, Crt!Next, NEW p \in Crt!InCart, p \notin Crt!InCart'
               PROVE  Crt!RemoveItem(p) \/ Crt!Clear
    OBVIOUS
  <2>1. PICK i \in DOMAIN items : items[i].productId = p /\ p # Nil
    BY DEF Crt!InCart
  <2>2. ASSUME NEW j \in DOMAIN items', items'[j].productId = p
        PROVE  FALSE
    BY <2>1, <2>2 DEF Crt!InCart
  <2>3. items' # items
    BY <2>1, <2>2
  <2>4. ASSUME NEW r \in Requests, Crt!RequestStep(r)
        PROVE  FALSE
    <3>1. CASE Crt!CreateCart(r)
      BY <2>1, <3>1 DEF Crt!CreateCart, CartInv
    <3>2. CASE Crt!PushLine(r)
      <4> DEFINE line == Crt!Line(cartRequests[r].product, cartRequests[r].quantity)
      <4>1. items \in Seq(Crt!Lines) /\ items' = Append(items, line)
        BY <3>2 DEF CartInv, Crt!TypeOK, Crt!PushLine
      <4> HIDE DEF line
      <4>2. i \in DOMAIN items' /\ items'[i] = items[i]
        BY <2>1, <4>1
      <4>3. QED
        BY <2>1, <2>2, <4>2
    <3>3. CASE Crt!SetQuantity(r)
      BY <2>1, <2>2, <3>3, QuantityLeavesProducts
    <3>4. CASE items' = items
      BY <2>3, <3>4
    <3>5. QED
      BY <2>4, <3>1, <3>2, <3>3, <3>4
         DEF Crt!RequestStep, Crt!AddItem, Crt!UpdateItem, Crt!Plans, Crt!DropRequest
  <2>5. ASSUME NEW q \in CartProducts, Crt!RemoveItem(q), q # p
        PROVE  FALSE
    BY <2>1, <2>2, <2>5, PullLeavesOthers
  <2>6. QED
    BY <2>4, <2>5 DEF Crt!Next
<1>2. QED
  BY <1>1, CartAlways, PTL DEF Crt!CartSpec, Crt!ProductsLeaveByRemoval

-----------------------------------------------------------------------------
(* All of them side by side.                                               *)

\* A component does the same among the others as alone: its own steps are its
\* own, and every other step leaves its documents as they are.
THEOREM EachBehavesAsAlone ==
  ComponentsSpec =>
    /\ Acc!AccountsSpec /\ Tel!PhonesSpec /\ Idn!IdentitySpec /\ Adr!AddressesSpec
    /\ Cat!CatalogueSpec /\ Crt!CartSpec /\ Shp!ShippingSpec
<1>1. ComponentsInit =>
        /\ Acc!Init /\ Tel!Init /\ Idn!Init /\ Adr!Init /\ Cat!Init /\ Crt!Init
        /\ Shp!Init
  BY DEF ComponentsInit
<1> USE DEF ComponentsNext, componentsVars, accVars, telVars, idnVars, adrVars,
            catVars, crtVars, shpVars, AccountsStep, PhonesStep, IdentityStep,
            AddressesStep, CatalogueStep, CartStep, ShippingStep
<1>2. [ComponentsNext]_componentsVars => [Acc!Next]_Acc!accountVars
  BY DEF Acc!accountVars
<1>3. [ComponentsNext]_componentsVars => [Tel!Next]_Tel!phoneVars
  BY DEF Tel!phoneVars
<1>4. [ComponentsNext]_componentsVars => [Idn!Next]_Idn!identityVars
  BY DEF Idn!identityVars
<1>5. [ComponentsNext]_componentsVars => [Adr!Next]_Adr!addressVars
  BY DEF Adr!addressVars
<1>6. [ComponentsNext]_componentsVars => [Cat!Next]_Cat!catalogueVars
  BY DEF Cat!catalogueVars
<1>7. [ComponentsNext]_componentsVars => [Crt!Next]_Crt!cartVars
  BY DEF Crt!cartVars
<1>8. [ComponentsNext]_componentsVars => [Shp!Next]_Shp!shippingVars
  BY DEF Shp!shippingVars
<1> HIDE DEF ComponentsNext, componentsVars, accVars, telVars, idnVars, adrVars,
             catVars, crtVars, shpVars, AccountsStep, PhonesStep, IdentityStep,
             AddressesStep, CatalogueStep, CartStep, ShippingStep
<1>9. QED
  BY <1>1, <1>2, <1>3, <1>4, <1>5, <1>6, <1>7, <1>8, PTL
     DEF ComponentsSpec, Acc!AccountsSpec, Tel!PhonesSpec, Idn!IdentitySpec,
         Adr!AddressesSpec, Cat!CatalogueSpec, Crt!CartSpec, Shp!ShippingSpec

\* The documents of every component keep their forms; among them, the stock
\* of a product is never negative, not even after a save of a number that was
\* out of date (product.service.ts:21-27).
THEOREM ComponentTypesHold == ComponentsSpec => []ComponentTypes
<1>1. /\ Acc!AccountsAssumption /\ Tel!PhonesAssumption /\ Idn!IdentityAssumption
      /\ Cat!CatalogueAssumption /\ Crt!CartAssumption /\ Shp!ShippingAssumption
  BY ComponentsAssumption DEF ComponentsAssumption
<1>2. /\ ComponentsSpec => [](Acc!TypeOK)
      /\ ComponentsSpec => [](Tel!TypeOK)
      /\ ComponentsSpec => [](Cat!TypeOK)
  BY <1>1, EachBehavesAsAlone, Acc!AccountsTypeCorrect, Tel!PhonesTypeCorrect,
     Cat!CatalogueTypeCorrect, PTL
<1>3. /\ IdentityInv => Idn!TypeOK
      /\ AddressesInv => Adr!TypeOK
      /\ CartInv => Crt!TypeOK
      /\ ShippingInv => Shp!TypeOK
  BY DEF IdentityInv, AddressesInv, CartInv, ShippingInv
<1>4. ComponentTypes <=>
        /\ Acc!TypeOK /\ Tel!TypeOK /\ Idn!TypeOK /\ Adr!TypeOK /\ Cat!TypeOK
        /\ Crt!TypeOK /\ Shp!TypeOK
  BY DEF ComponentTypes
<1>5. QED
  BY <1>1, <1>2, <1>3, <1>4, EachBehavesAsAlone, IdentityAlways, AddressesAlways,
     CartAlways, ShippingAlways, PTL

\* Two accounts never have the same address, although both signups may have
\* found it free (users.service.ts:64-87, user.schema.ts:10-12).
THEOREM AddressesAreUnique == ComponentsSpec => []OneAccountPerEmail
<1>1. Acc!AccountsAssumption
  BY ComponentsAssumption DEF ComponentsAssumption
<1>2. QED
  BY <1>1, EachBehavesAsAlone, Acc!AddressesAreUnique, PTL DEF OneAccountPerEmail

\* Once a logout or a reset has left an account without a session, no write
\* of a request that was under way brings one back (auth.service.ts:142-155,
\* users.service.ts:207-232).
THEOREM EndedSessionsStayEnded == ComponentsSpec => []SessionsStayEnded
<1>1. Acc!AccountsAssumption
  BY ComponentsAssumption DEF ComponentsAssumption
<1>2. QED
  BY <1>1, EachBehavesAsAlone, Acc!EndedSessionsStayEnded, PTL DEF SessionsStayEnded

\* A mailed token that was used, or replaced, is never good again, whatever
\* documents were read before and are saved after
\* (users.service.ts:138-155, 207-232).
THEOREM UsedTokensStayDead == ComponentsSpec => DeadTokensStayDead
<1>1. Acc!AccountsAssumption
  BY ComponentsAssumption DEF ComponentsAssumption
<1>2. QED
  BY <1>1, EachBehavesAsAlone, Acc!UsedTokensStayDead, PTL DEF DeadTokensStayDead

\* Two accounts never have one number, although both may have passed the
\* check (auth.service.ts:236-253, user.schema.ts:18-22).
THEOREM NumbersAreUnique == ComponentsSpec => []OnePhoneOwner
<1>1. Tel!PhonesAssumption
  BY ComponentsAssumption DEF ComponentsAssumption
<1>2. QED
  BY <1>1, EachBehavesAsAlone, Tel!NumbersAreUnique, PTL DEF OnePhoneOwner

\* Nobody gets a number without the code sent to it having been accepted for
\* his own account (auth.service.ts:236-253).
THEOREM NumbersAreProved == ComponentsSpec => []EnrolledByItsCode
<1>1. Tel!PhonesAssumption
  BY ComponentsAssumption DEF ComponentsAssumption
<1>2. QED
  BY <1>1, EachBehavesAsAlone, Tel!NumbersAreProved, PTL DEF EnrolledByItsCode

\* A code that was accepted is never found again (otp.service.ts:46).
THEOREM AcceptedCodesStayGone == ComponentsSpec => []AcceptedCodesAreGone
<1>1. Tel!PhonesAssumption
  BY ComponentsAssumption DEF ComponentsAssumption
<1>2. QED
  BY <1>1, EachBehavesAsAlone, Tel!AcceptedCodesStayGone, PTL DEF AcceptedCodesAreGone

\* A request without a Bearer token acts for the user it was admitted for
\* (jwt-auth.guard.ts:18-72, current-user.decorator.ts:9-39).
THEOREM CookieUserIsAdmitted == ComponentsSpec => []CookieRequestsAgree
<1>1. Idn!IdentityAssumption
  BY ComponentsAssumption DEF ComponentsAssumption
<1>2. IdentityInv => CookieRequestsAgree
  BY DEF IdentityInv, CookieRequestsAgree
<1>3. QED
  BY <1>1, <1>2, EachBehavesAsAlone, IdentityAlways, PTL

\* Who a handler acts for has logged in with this client, no longer ago than
\* a cookie lasts (auth.controller.ts:159-164, current-user.decorator.ts:9-39).
THEOREM HandlersActForLogins == ComponentsSpec => []CurrentUserLoggedIn
<1>1. Idn!IdentityAssumption
  BY ComponentsAssumption DEF ComponentsAssumption
<1>2. IdentityInv => CurrentUserLoggedIn
  BY DEF IdentityInv, CurrentUserLoggedIn
<1>3. QED
  BY <1>1, <1>2, EachBehavesAsAlone, IdentityAlways, PTL

\* POST /auth/validate names the user the guard admits
\* (auth.service.ts:110-140, jwt-auth.guard.ts:18-72).
THEOREM ValidationIsTheGuards == ComponentsSpec => []ValidateAgreesWithGuard
<1>1. Idn!IdentityAssumption
  BY ComponentsAssumption DEF ComponentsAssumption
<1>2. IdentityInv => ValidateAgreesWithGuard
  BY DEF IdentityInv, ValidateAgreesWithGuard
<1>3. QED
  BY <1>1, <1>2, EachBehavesAsAlone, IdentityAlways, PTL

\* A request that makes a default while no other does leaves that one alone
\* (addresses.service.ts:24-58).
THEOREM AloneMeansOneDefault == ComponentsSpec => OneDefaultWhenAlone
BY EachBehavesAsAlone, OneDefaultAlone, PTL DEF OneDefaultWhenAlone

\* Until a manager saves a number older than the last delivery, reservation
\* or release, no unit is lost or made up (product.service.ts:21-43, 80-99).
THEOREM BooksAlwaysBalance == ComponentsSpec => []BooksBalance
<1>1. Cat!CatalogueAssumption
  BY ComponentsAssumption DEF ComponentsAssumption
<1>2. QED
  BY <1>1, EachBehavesAsAlone, Cat!BooksAlwaysBalance, PTL DEF BooksBalance

\* A product leaves the cart by its removal or the clearing of the cart, and
\* never by a save of what another request had read (cart.service.ts:48-96).
THEOREM ProductsStayUntilRemoved == ComponentsSpec => ProductsLeaveByRemoval
<1>1. Crt!CartAssumption
  BY ComponentsAssumption DEF ComponentsAssumption
<1>2. QED
  BY <1>1, EachBehavesAsAlone, SavesTakeNothing, PTL DEF ProductsLeaveByRemoval

\* Who spends more never pays more for shipping, whatever the charges and
\* thresholds an admin has set (shipping.service.ts:17-28).
THEOREM FeesFallWithTheSubtotal == ComponentsSpec => []SpendingMoreShipsNoDearer
<1>1. Shp!ShippingAssumption
  BY ComponentsAssumption DEF ComponentsAssumption
<1>2. ShippingInv => SpendingMoreShipsNoDearer
  BY <1>1, ShippingShows DEF SpendingMoreShipsNoDearer
<1>3. QED
  BY <1>1, <1>2, EachBehavesAsAlone, ShippingAlways, PTL

\* An order with a partner and a tracking number shows a link whenever the
\* partner has a template, whatever was edited meanwhile
\* (shipping.service.ts:30-34, order.service.ts:163).
THEOREM LinksSurvive == ComponentsSpec => []ShippedCanBeTracked
<1>1. Shp!ShippingAssumption
  BY ComponentsAssumption DEF ComponentsAssumption
<1>2. ShippingInv => ShippedCanBeTracked
  BY <1>1, ShippingShows DEF ShippedCanBeTracked
<1>3. QED
  BY <1>1, <1>2, EachBehavesAsAlone, ShippingAlways, PTL
=============================================================================
