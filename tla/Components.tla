----------------------------- MODULE Components -----------------------------
(***************************************************************************)
(* The components that keep documents of their own, side by side.  They    *)
(* share no variable: a step of one leaves the others as they are, and     *)
(* what holds of one alone holds of all of them together (module           *)
(* ComponentsProofs).  Those whose theorems are in a module of their own   *)
(* are instances of that module, so that the theorems can be cited.        *)
(***************************************************************************)
EXTENDS Naturals

CONSTANTS
  Users, Nil,
  Requests,                    \* of Accounts, Phones and Cart each
  Emails, Passwords, Tokens, MailLife, AccountTime,            \* Accounts
  Numbers, Codes, Otps, CodeLife, CodeTime,                    \* Phones
  TokenLife, CookieLife, ClientTime,                           \* Identity
  Addrs, AddressRequests,                                      \* Addresses
  CatalogueProducts, OrderLines, Managers, LineQty, MaxUnits,  \* Catalogue
  CartProducts, CartStock, CartQty, MaxLines, MaxPushes,       \* Cart
  PartnerCodes, ShippedOrders, Admins, Charges, Subtotals,     \* Shipping
  MaxItems, Templates, Undefined, Null

VARIABLES
  users, issued, mailed, accountRequests, ended, accountClock, \* Accounts
  phones, otps, texts, phoneRequests, accepted, phoneClock,    \* Phones
  bearer, cookie, handled, logins, clientClock,                \* Identity
  addresses, addressRequests,                                  \* Addresses
  status, sellable, lines, screens, owned, stale,              \* Catalogue
  exists, items, version, cartRequests,                        \* Cart
  partners, shipments, updates                                 \* Shipping

Acc == INSTANCE AccountsProofs WITH
  Lifetime <- MailLife, MaxTime <- AccountTime,
  requests <- accountRequests, clock <- accountClock

Tel == INSTANCE PhonesProofs WITH
  Lifetime <- CodeLife, MaxTime <- CodeTime,
  requests <- phoneRequests, clock <- phoneClock

Idn == INSTANCE Identity WITH MaxTime <- ClientTime, clock <- clientClock

Adr == INSTANCE Addresses WITH
  Requests <- AddressRequests, requests <- addressRequests

Cat == INSTANCE CatalogueProofs WITH
  Products <- CatalogueProducts, Orders <- OrderLines, MaxQty <- LineQty,
  stock <- sellable, held <- lines

Crt == INSTANCE Cart WITH
  Products <- CartProducts, Stock <- CartStock, MaxQty <- CartQty,
  requests <- cartRequests

Shp == INSTANCE Shipping WITH Codes <- PartnerCodes, Orders <- ShippedOrders

ASSUME ComponentsAssumption ==
  /\ Acc!AccountsAssumption /\ Tel!PhonesAssumption /\ Idn!IdentityAssumption
  /\ Adr!AddressesAssumption /\ Cat!CatalogueAssumption /\ Crt!CartAssumption
  /\ Shp!ShippingAssumption

\* The variables of each component.
accVars == <<users, issued, mailed, accountRequests, ended, accountClock>>
telVars == <<phones, otps, texts, phoneRequests, accepted, phoneClock>>
idnVars == <<bearer, cookie, handled, logins, clientClock>>
adrVars == <<addresses, addressRequests>>
catVars == <<status, sellable, lines, screens, owned, stale>>
crtVars == <<exists, items, version, cartRequests>>
shpVars == <<partners, shipments, updates>>

componentsVars == <<accVars, telVars, idnVars, adrVars, catVars, crtVars, shpVars>>

ComponentsInit ==
  Acc!Init /\ Tel!Init /\ Idn!Init /\ Adr!Init /\ Cat!Init /\ Crt!Init /\ Shp!Init

AccountsStep ==
  Acc!Next /\ UNCHANGED <<telVars, idnVars, adrVars, catVars, crtVars, shpVars>>
PhonesStep ==
  Tel!Next /\ UNCHANGED <<accVars, idnVars, adrVars, catVars, crtVars, shpVars>>
IdentityStep ==
  Idn!Next /\ UNCHANGED <<accVars, telVars, adrVars, catVars, crtVars, shpVars>>
AddressesStep ==
  Adr!Next /\ UNCHANGED <<accVars, telVars, idnVars, catVars, crtVars, shpVars>>
CatalogueStep ==
  Cat!Next /\ UNCHANGED <<accVars, telVars, idnVars, adrVars, crtVars, shpVars>>
CartStep ==
  Crt!Next /\ UNCHANGED <<accVars, telVars, idnVars, adrVars, catVars, shpVars>>
ShippingStep ==
  Shp!Next /\ UNCHANGED <<accVars, telVars, idnVars, adrVars, catVars, crtVars>>

ComponentsNext ==
  \/ AccountsStep
  \/ PhonesStep
  \/ IdentityStep
  \/ AddressesStep
  \/ CatalogueStep
  \/ CartStep
  \/ ShippingStep

ComponentsSpec == ComponentsInit /\ [][ComponentsNext]_componentsVars

-----------------------------------------------------------------------------
(* The properties, each stated and explained in the component's module.    *)

\* Every component's type invariant but that of Inventory.
ComponentTypes ==
  /\ Acc!TypeOK /\ Tel!TypeOK /\ Idn!TypeOK /\ Adr!TypeOK /\ Cat!TypeOK
  /\ Crt!TypeOK /\ Shp!TypeOK

\* users.service.ts:73-75: two accounts never have the same address.
OneAccountPerEmail == Acc!OneAccountPerEmail

\* auth.service.ts:149, users.service.ts:227: an ended session stays ended.
SessionsStayEnded == Acc!SessionsStayEnded

\* users.service.ts:148-152, 224-229: a used or replaced token stays so.
DeadTokensStayDead == Acc!DeadTokensStayDead

\* auth.service.ts:244: two accounts never have the same number.
OnePhoneOwner == Tel!OnePhoneOwner

\* auth.service.ts:237-247: a number is enrolled by the code it was sent.
EnrolledByItsCode == Tel!EnrolledByItsCode

\* otp.service.ts:46: no later request finds an accepted code.
AcceptedCodesAreGone == Tel!AcceptedCodesAreGone

\* current-user.decorator.ts, jwt-auth.guard.ts: without a Bearer token,
\* guard and handler agree whose request it is.
CookieRequestsAgree == Idn!CookieRequestsAgree

\* auth.controller.ts:159-164: who a handler acts for has logged in lately.
CurrentUserLoggedIn == Idn!CurrentUserLoggedIn

\* auth.service.ts:110-140: POST /auth/validate agrees with the guard.
ValidateAgreesWithGuard == Idn!ValidateAgreesWithGuard

\* addresses.service.ts:26-32: a lone request leaves one default.
OneDefaultWhenAlone == Adr!OneDefaultWhenAlone

\* product.service.ts:86: stock and holdings add up between stale saves.
BooksBalance == Cat!BooksBalance

\* cart.service.ts:62, 65: saving a cart takes no product out of it.
ProductsLeaveByRemoval == Crt!ProductsLeaveByRemoval

\* shipping.service.ts:23-25: spending more is never dearer to ship.
SpendingMoreShipsNoDearer == Shp!SpendingMoreShipsNoDearer

\* shipping.service.ts:30-34, order.service.ts:163: a shipped order can be
\* tracked.
ShippedCanBeTracked == Shp!ShippedCanBeTracked
=============================================================================
