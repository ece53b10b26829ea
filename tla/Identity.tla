------------------------------ MODULE Identity ------------------------------
(***************************************************************************)
(* Who a request is from.  A client gets its access token in the body of   *)
(* the answer to a signup, login or refresh, and a password login also     *)
(* sets it as a cookie (auth.controller.ts).  With each request it may     *)
(* send the token in the Authorization header, and the browser adds the    *)
(* cookie while it lasts.  JwtAuthGuard admits the request; the decorator  *)
(* @CurrentUser tells the handler whose request it is.                     *)
(***************************************************************************)
EXTENDS Naturals

CONSTANTS
  Users,
  TokenLife,   \* of an access token, in ticks: 59 minutes
  CookieLife,  \* of the cookie that holds one: 15 minutes
  MaxTime,     \* bound of the clock
  Nil

IdentityAssumption ==
  /\ CookieLife \in Nat /\ TokenLife \in Nat /\ CookieLife <= TokenLife
  /\ MaxTime \in Nat
  /\ Nil \notin Users

VARIABLES
  bearer,   \* the access token the client holds
  cookie,   \* the access_token cookie, and when the browser drops it
  handled,  \* the last request: whom the guard, the handler and
            \* POST /auth/validate took it to be from
  logins,   \* history: when each user last logged in by password here
  clock

identityVars == <<bearer, cookie, handled, logins, clock>>

Token(u) == [user |-> u, expires |-> clock + TokenLife]
NoToken == [user |-> Nil, expires |-> 0]
NoCookie == [token |-> NoToken, until |-> 0]
NoOne == [header |-> "none", admitted |-> Nil, current |-> Nil, validated |-> Nil]

AccessTokens == [user : Users \cup {Nil}, expires : Nat]

TypeOK ==
  /\ bearer \in AccessTokens
  /\ cookie \in [token : AccessTokens, until : Nat]
  /\ handled \in [header : {"none", "Bearer", "other"}, admitted : Users \cup {Nil},
                  current : Users \cup {Nil}, validated : Users \cup {Nil}]
  /\ logins \in [Users -> 0..MaxTime]
  /\ clock \in 0..MaxTime

Init ==
  /\ bearer = NoToken
  /\ cookie = NoCookie
  /\ handled = NoOne
  /\ logins = [u \in Users |-> 0]
  /\ clock = 0

-----------------------------------------------------------------------------
\* The user of a token that is there and has not run out, else Nil.
Verify(token) == IF token.expires > clock THEN token.user ELSE Nil

CookieToken == IF cookie.until > clock THEN cookie.token ELSE NoToken

\* JwtAuthGuard: the header if it has a Bearer token, else the cookie.
CanActivate(header) ==
  Verify(IF header = "Bearer" THEN bearer ELSE CookieToken)

\* Faulty: the browser is asked first.
ValidateToken_CookieFirst(header) ==
  Verify(IF CookieToken # NoToken THEN CookieToken
         ELSE IF header = "Bearer" THEN bearer ELSE NoToken)

\* validateToken without a token in the body looks in the same two places.
ValidateToken(header) ==
  IF header = "Bearer" /\ bearer # NoToken THEN Verify(bearer)
  ELSE IF CookieToken # NoToken THEN Verify(CookieToken)
  ELSE Nil

\* Faulty: the client is asked, and only then the browser.
CurrentUser_HeaderFirst(header) ==
  Verify(IF bearer # NoToken THEN bearer ELSE CookieToken)

\* @CurrentUser looks at the cookie alone.
CurrentUser(header) == Verify(CookieToken)

-----------------------------------------------------------------------------
\* Faulty: the cookie lasts a tick longer.
Login_LongCookie(u) ==
  /\ bearer' = Token(u)
  /\ cookie' = [token |-> Token(u), until |-> clock + CookieLife + 1]
  /\ logins' = [logins EXCEPT ![u] = clock]
  /\ UNCHANGED <<handled, clock>>

Login(u) ==
  /\ bearer' = Token(u)
  /\ cookie' = [token |-> Token(u), until |-> clock + CookieLife]
  /\ logins' = [logins EXCEPT ![u] = clock]
  /\ UNCHANGED <<handled, clock>>

\* signup, verifyLoginOtp and refresh answer with a token and set no cookie.
GetToken(u) ==
  /\ bearer' = Token(u)
  /\ UNCHANGED <<cookie, handled, logins, clock>>

\* The client forgets its token, as after a logout; the cookie stays.
Forget ==
  /\ bearer' = NoToken
  /\ UNCHANGED <<cookie, handled, logins, clock>>

\* A request the guard admits.
Handle(header) ==
  /\ header = "Bearer" => bearer # NoToken
  /\ CanActivate(header) # Nil
  /\ handled' = [header |-> header, admitted |-> CanActivate(header),
                 current |-> CurrentUser(header),
                 validated |-> ValidateToken(header)]
  /\ UNCHANGED <<bearer, cookie, logins, clock>>

\* What was handled before is forgotten when time passes.
Tick ==
  /\ clock < MaxTime
  /\ clock' = clock + 1
  /\ handled' = NoOne
  /\ UNCHANGED <<bearer, cookie, logins>>

Next ==
  \/ \E u \in Users : Login(u) \/ GetToken(u)
  \/ Forget
  \/ \E header \in {"none", "Bearer", "other"} : Handle(header)
  \/ Tick

IdentitySpec == Init /\ [][Next]_identityVars

-----------------------------------------------------------------------------
(* Properties.                                                             *)

\* Without a Bearer token in the header the handler acts for the user the
\* guard admitted, whatever tokens the client has collected.
CookieRequestsAgree ==
  handled.header # "Bearer" => handled.current = handled.admitted

\* A handler that acts for a user does so at most 15 minutes after this user
\* logged in on the same client with a password (auth.controller.ts:159-164).
CurrentUserLoggedIn ==
  handled.current # Nil => clock < logins[handled.current] + CookieLife

\* POST /auth/validate says of a request what the guard would say of it:
\* the two copies of the token lookup (auth.service.ts:110-140,
\* jwt-auth.guard.ts:18-72) agree.
ValidateAgreesWithGuard == handled.validated = handled.admitted

-----------------------------------------------------------------------------
(* What the documents say and the code does not do.                        *)

\* "An authenticated user enrolls a phone" (README.md:69), orders, pays: the
\* handler is told the user that was authenticated.
HandlerKnowsTheUser == handled.current = handled.admitted
=============================================================================
