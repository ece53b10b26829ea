------------------------------ MODULE Accounts ------------------------------
(***************************************************************************)
(* Accounts and sessions: UsersService (users.service.ts) and AuthService  *)
(* (auth.service.ts) with the endpoints of auth.controller.ts, except the  *)
(* one-time codes, which are module Phones.                                *)
(*                                                                         *)
(* Nothing here runs in a transaction.  A handler reads a user document,   *)
(* computes (a bcrypt hash takes a good part of a second) and writes: the  *)
(* document it read is kept in its request, and between the two steps any  *)
(* other request may write.  Mongoose's save() writes only the paths whose *)
(* value the handler changed.                                              *)
(***************************************************************************)
EXTENDS Naturals, FiniteSets

CONSTANTS
  Users,      \* identifiers of user documents (those to come too)
  Emails,     \* lower-cased addresses
  Passwords,
  Tokens,     \* the random tokens mailed out, of both kinds
  Requests,   \* requests between two awaits at the same time
  Lifetime,   \* how long a mailed token is good for
  MaxTime,    \* bound of the clock
  Nil

AccountsAssumption ==
  /\ Lifetime \in Nat
  /\ MaxTime \in Nat
  /\ Nil \notin Users \cup Emails \cup Passwords \cup Tokens

VARIABLES
  users,     \* the users collection
  issued,    \* tokens generated so far
  mailed,    \* those of them that reached their customer
  requests,  \* requests between two awaits
  ended,     \* history: accounts whose sessions were ended, and not logged
             \* in to since
  clock

accountVars == <<users, issued, mailed, requests, ended, clock>>

-----------------------------------------------------------------------------
(* user.schema.ts.  refreshToken is null at first and after a reset, ""    *)
(* after a logout, else the bcrypt hash of a token.                        *)

NoUser ==
  [email |-> Nil, password |-> Nil, emailVerified |-> FALSE,
   refreshToken |-> "null",
   emailVerificationToken |-> Nil, emailVerificationTokenExpires |-> 0,
   resetPasswordToken |-> Nil, resetPasswordTokenExpires |-> 0]

UserDocuments ==
  [email : Emails \cup {Nil}, password : Passwords \cup {Nil},
   emailVerified : BOOLEAN, refreshToken : {"null", "empty", "hash"},
   emailVerificationToken : Tokens \cup {Nil},
   emailVerificationTokenExpires : Nat,
   resetPasswordToken : Tokens \cup {Nil},
   resetPasswordTokenExpires : Nat]

\* Where a request is, the document it has loaded, and what the customer
\* sent that is still to be used.
NoRequest ==
  [at |-> "idle", user |-> Nil, doc |-> NoUser, email |-> Nil, password |-> Nil]

TypeOK ==
  /\ users \in [Users -> UserDocuments]
  /\ issued \subseteq Tokens
  /\ mailed \subseteq issued
  /\ requests \in [Requests ->
       [at : {"idle", "create", "store", "verify", "reset", "change"},
        user : Users \cup {Nil}, doc : UserDocuments,
        email : Emails \cup {Nil}, password : Passwords \cup {Nil}]]
  /\ ended \subseteq Users
  /\ clock \in 0..MaxTime

Init ==
  /\ users = [u \in Users |-> NoUser]
  /\ issued = {}
  /\ mailed = {}
  /\ requests = [r \in Requests |-> NoRequest]
  /\ ended = {}
  /\ clock = 0

Known == {u \in Users : users[u] # NoUser}
Owners(e) == {u \in Known : users[u].email = e}

\* The request loads the document of u (findOne, findById) and goes on.
Loads(r, u, at, password) ==
  /\ requests[r] = NoRequest
  /\ u \in Known
  /\ requests' = [requests EXCEPT ![r] =
       [at |-> at, user |-> u, doc |-> users[u], email |-> Nil,
        password |-> password]]

Ends(r) == requests' = [requests EXCEPT ![r] = NoRequest]

-----------------------------------------------------------------------------
(* Signing up, logging in, renewing and ending a session.                  *)

\* createUser: nobody has the address, so the password is hashed.
Signup(r, e, p) ==
  /\ requests[r] = NoRequest
  /\ Owners(e) = {}
  /\ requests' = [requests EXCEPT ![r] =
       [NoRequest EXCEPT !.at = "create", !.email = e, !.password = p]]
  /\ UNCHANGED <<users, issued, mailed, ended, clock>>

\* Faulty: the address has no unique index.
CreateUser_NoIndex(r, u) ==
  /\ requests[r].at = "create"
  /\ users[u] = NoUser
  /\ users' = [users EXCEPT ![u] =
       [NoUser EXCEPT !.email = requests[r].email,
                      !.password = requests[r].password]]
  /\ requests' = [requests EXCEPT ![r] =
       [NoRequest EXCEPT !.at = "store", !.user = u, !.doc = users'[u]]]
  /\ UNCHANGED <<issued, mailed, ended, clock>>

\* Another signup may have taken the address: the unique index refuses it,
\* and DropRequest ends the request.
CreateUser(r, u) ==
  /\ requests[r].at = "create"
  /\ users[u] = NoUser
  /\ Owners(requests[r].email) = {}
  /\ users' = [users EXCEPT ![u] =
       [NoUser EXCEPT !.email = requests[r].email,
                      !.password = requests[r].password]]
  /\ requests' = [requests EXCEPT ![r] =
       [NoRequest EXCEPT !.at = "store", !.user = u, !.doc = users'[u]]]
  /\ UNCHANGED <<issued, mailed, ended, clock>>

Login(r, u, p) ==
  /\ Loads(r, u, "store", Nil)
  /\ users[u].password = p
  /\ ended' = ended \ {u}
  /\ UNCHANGED <<users, issued, mailed, clock>>

\* verifyLoginOtp: the document was found by its number, and module Phones
\* says when the code is right.
LoginWithOtp(r, u) ==
  /\ Loads(r, u, "store", Nil)
  /\ ended' = ended \ {u}
  /\ UNCHANGED <<users, issued, mailed, clock>>

\* bcrypt compares 72 bytes, and within these the refresh tokens of one
\* account are equal: any of them is accepted while one is stored.
RefreshToken(r, u) ==
  /\ Loads(r, u, "store", Nil)
  /\ users[u].refreshToken = "hash"
  /\ UNCHANGED <<users, issued, mailed, ended, clock>>

\* The end of signup, login and refreshToken.
StoreRefreshToken(r) ==
  LET u == requests[r].user
  IN  /\ requests[r].at = "store"
      /\ users' = [users EXCEPT ![u].refreshToken = "hash"]
      /\ Ends(r)
      /\ UNCHANGED <<issued, mailed, ended, clock>>

Opening(u) == \E r \in Requests : requests[r].at = "store" /\ requests[r].user = u

\* The document is read for its _id only.
Logout(u) ==
  /\ u \in Known
  /\ users' = [users EXCEPT ![u].refreshToken = "empty"]
  /\ ended' = IF Opening(u) THEN ended ELSE ended \cup {u}
  /\ UNCHANGED <<issued, mailed, requests, clock>>

-----------------------------------------------------------------------------
(* Mailed tokens.                                                          *)

\* A new random token; the mailer may fail once the token is stored.
Mails(t) ==
  /\ t \in Tokens \ issued
  /\ issued' = issued \cup {t}
  /\ mailed' \in {mailed, mailed \cup {t}}

SendVerificationEmail(u, t) ==
  /\ u \in Known
  /\ Mails(t)
  /\ users' = [users EXCEPT ![u].emailVerificationToken = t,
                            ![u].emailVerificationTokenExpires = clock + Lifetime]
  /\ UNCHANGED <<requests, ended, clock>>

ForgotPassword(u, t) ==
  /\ u \in Known
  /\ Mails(t)
  /\ users' = [users EXCEPT ![u].resetPasswordToken = t,
                            ![u].resetPasswordTokenExpires = clock + Lifetime]
  /\ UNCHANGED <<requests, ended, clock>>

FindToVerify(r, u) ==
  /\ users[u].emailVerificationToken \in mailed
  /\ users[u].emailVerificationTokenExpires > clock
  /\ Loads(r, u, "verify", Nil)
  /\ UNCHANGED <<users, issued, mailed, ended, clock>>

SaveVerified(r) ==
  LET u == requests[r].user
  IN  /\ requests[r].at = "verify"
      /\ users' = [users EXCEPT ![u].emailVerified = TRUE,
                                ![u].emailVerificationToken = Nil,
                                ![u].emailVerificationTokenExpires = 0]
      /\ Ends(r)
      /\ UNCHANGED <<issued, mailed, ended, clock>>

FindToReset(r, u, p) ==
  /\ users[u].resetPasswordToken \in mailed
  /\ users[u].resetPasswordTokenExpires > clock
  /\ Loads(r, u, "reset", p)
  /\ UNCHANGED <<users, issued, mailed, ended, clock>>

\* A refreshToken that was null when it was loaded is not a changed path.
SaveReset(r) ==
  LET u == requests[r].user
      session == IF requests[r].doc.refreshToken = "null"
                 THEN users[u].refreshToken ELSE "null"
  IN  /\ requests[r].at = "reset"
      /\ users' = [users EXCEPT ![u].password = requests[r].password,
                                ![u].resetPasswordToken = Nil,
                                ![u].resetPasswordTokenExpires = 0,
                                ![u].refreshToken = session]
      /\ Ends(r)
      /\ ended' = IF Opening(u) \/ session = "hash" THEN ended ELSE ended \cup {u}
      /\ UNCHANGED <<issued, mailed, clock>>

\* changePassword: the current password was right when the document was read.
FindToChange(r, u, p) ==
  /\ Loads(r, u, "change", p)
  /\ UNCHANGED <<users, issued, mailed, ended, clock>>

\* Faulty: the whole document is written back.
SaveChanged_WholeDocument(r) ==
  LET u == requests[r].user
  IN  /\ requests[r].at = "change"
      /\ users' = [users EXCEPT ![u] =
           [requests[r].doc EXCEPT !.password = requests[r].password]]
      /\ Ends(r)
      /\ UNCHANGED <<issued, mailed, ended, clock>>

SaveChanged(r) ==
  LET u == requests[r].user
  IN  /\ requests[r].at = "change"
      /\ users' = [users EXCEPT ![u].password = requests[r].password]
      /\ Ends(r)
      /\ UNCHANGED <<issued, mailed, ended, clock>>

-----------------------------------------------------------------------------
\* A write fails, or the process dies: what was written stays.
DropRequest(r) ==
  /\ requests[r] # NoRequest
  /\ Ends(r)
  /\ UNCHANGED <<users, issued, mailed, ended, clock>>

Tick ==
  /\ clock < MaxTime
  /\ clock' = clock + 1
  /\ UNCHANGED <<users, issued, mailed, requests, ended>>

RequestStep(r) ==
  \/ \E e \in Emails, p \in Passwords : Signup(r, e, p)
  \/ \E u \in Users : CreateUser(r, u)
  \/ \E u \in Users, p \in Passwords : Login(r, u, p)
  \/ \E u \in Users : LoginWithOtp(r, u) \/ RefreshToken(r, u)
  \/ StoreRefreshToken(r)
  \/ \E u \in Users : FindToVerify(r, u)
  \/ SaveVerified(r)
  \/ \E u \in Users, p \in Passwords : FindToReset(r, u, p)
  \/ SaveReset(r)
  \/ \E u \in Users, p \in Passwords : FindToChange(r, u, p)
  \/ SaveChanged(r)
  \/ DropRequest(r)

Next ==
  \/ \E r \in Requests : RequestStep(r)
  \/ \E u \in Users : Logout(u)
  \/ \E u \in Users, t \in Tokens : SendVerificationEmail(u, t)
  \/ \E u \in Users, t \in Tokens : ForgotPassword(u, t)
  \/ Tick

AccountsSpec == Init /\ [][Next]_accountVars

-----------------------------------------------------------------------------
(* Properties.                                                             *)

\* "Email already registered" (users.service.ts:73-75): two documents never
\* have the same address, although both signups may find it free
\* (user.schema.ts:10-12).
OneAccountPerEmail ==
  \A u, v \in Known : users[u].email = users[v].email => u = v

Good(t) ==
  \E u \in Users : t \in {users[u].emailVerificationToken,
                         users[u].resetPasswordToken}

\* A mailed token that was used, or replaced by a newer one, never becomes
\* good again, whatever documents read before are saved after
\* (users.service.ts:148-152, 224-229, 251-252).
DeadTokensStayDead == [][\A t \in issued : ~Good(t) => ~Good(t)']_accountVars

\* "Revoke the refresh token" (auth.service.ts:149), "Invalidate the refresh
\* token" (users.service.ts:227): once a logout or a reset has left an
\* account without a session, and no login or refresh was under way, nothing
\* but a new login makes its refresh tokens acceptable again.
SessionsStayEnded == \A u \in ended : users[u].refreshToken # "hash"

=============================================================================
