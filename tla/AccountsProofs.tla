--------------------------- MODULE AccountsProofs ---------------------------
(* Accounts, sessions and mailed tokens for any number of users, requests   *)
(* and tokens.                                                              *)
EXTENDS Accounts, TLAPS

\* A document that exists has an address.
AddressHeld == \A u \in Known : users[u].email \in Emails

\* A request carries an address to sign up with, or works on a document that
\* exists.
RequestsKnow ==
  \A r \in Requests : requests[r] # NoRequest =>
    IF requests[r].at = "create" THEN requests[r].email \in Emails
                                 ELSE requests[r].user \in Known

\* An account whose sessions were ended has no request left that would store
\* a new refresh token.
EndedClosed ==
  \A u \in ended : /\ u \in Known
                   /\ ~Opening(u)
                   /\ users[u].refreshToken # "hash"

AInv ==
  /\ TypeOK
  /\ AddressHeld
  /\ RequestsKnow
  /\ OneAccountPerEmail
  /\ EndedClosed

RequestForms ==
  [at : {"idle", "create", "store", "verify", "reset", "change"},
   user : Users \cup {Nil}, doc : UserDocuments,
   email : Emails \cup {Nil}, password : Passwords \cup {Nil}]

\* At start there are no accounts and no requests.
LEMMA AccountsInit == AccountsAssumption /\ Init => AInv
<1> SUFFICES ASSUME AccountsAssumption, Init
             PROVE  AInv
  OBVIOUS
<1> USE DEF AccountsAssumption, Init
<1>1. NoUser \in UserDocuments /\ NoRequest \in RequestForms
  BY DEF NoUser, NoRequest, UserDocuments, RequestForms
<1>2. TypeOK
  BY <1>1 DEF TypeOK, RequestForms
<1>3. AddressHeld /\ RequestsKnow /\ OneAccountPerEmail /\ EndedClosed
  BY DEF AddressHeld, RequestsKnow, OneAccountPerEmail, EndedClosed, Known
<1>4. QED
  BY <1>2, <1>3 DEF AInv

-----------------------------------------------------------------------------
(* One document is written, one request goes on.                           *)

\* The step writes no document but that of u, whose address stays.
WritesUser(u) ==
  /\ u \in Known
  /\ users' \in [Users -> UserDocuments]
  /\ \A v \in Users \ {u} : users'[v] = users[v]
  /\ users'[u].email = users[u].email

\* The step touches no request but r, which begins or ends.
MovesRequest(r) ==
  /\ requests' \in [Requests -> RequestForms]
  /\ \A q \in Requests \ {r} : requests'[q] = requests[q]

\* Writing one document keeps addresses apart and loses no document.
LEMMA WriteKeepsAddresses ==
  ASSUME AccountsAssumption, AInv, NEW u, WritesUser(u)
  PROVE  Known' = Known /\ AddressHeld' /\ OneAccountPerEmail'
<1>1. /\ users \in [Users -> UserDocuments]
      /\ \A v \in Users : users'[v].email = users[v].email
  BY DEF AInv, TypeOK, WritesUser
<1>2. NoUser.email \notin Emails
  BY DEF NoUser, AccountsAssumption
<1>3. u \in Known /\ u \in Known'
  BY <1>1, <1>2 DEF WritesUser, AInv, AddressHeld, Known
<1>4. Known' = Known
  BY <1>3 DEF WritesUser, Known
<1>5. QED
  BY <1>1, <1>4 DEF AInv, AddressHeld, OneAccountPerEmail, Known

\* A request that ends leaves the others as they were.
LEMMA EndsOK ==
  ASSUME AccountsAssumption, AInv, NEW r \in Requests, Ends(r)
  PROVE  MovesRequest(r) /\ requests'[r] = NoRequest
<1>1. NoRequest \in RequestForms
  BY DEF NoRequest, NoUser, UserDocuments, RequestForms, AccountsAssumption
<1>2. requests \in [Requests -> RequestForms]
  BY DEF AInv, TypeOK, RequestForms
<1>3. QED
  BY <1>1, <1>2 DEF Ends, MovesRequest

\* A request that loads a document works on it from then on.
LEMMA LoadsOK ==
  ASSUME AccountsAssumption, AInv, NEW r \in Requests, NEW u \in Users,
         NEW at \in {"store", "verify", "reset", "change"},
         NEW p \in Passwords \cup {Nil}, Loads(r, u, at, p)
  PROVE  /\ MovesRequest(r) /\ u \in Known
         /\ requests'[r].at = at /\ requests'[r].user = u
<1>1. requests \in [Requests -> RequestForms] /\ users[u] \in UserDocuments
  BY DEF AInv, TypeOK, RequestForms
<1> DEFINE new == [at |-> at, user |-> u, doc |-> users[u], email |-> Nil,
                   password |-> p]
<1>2. new \in RequestForms
  BY <1>1 DEF RequestForms
<1>3. requests' = [requests EXCEPT ![r] = new] /\ u \in Known
  BY DEF Loads
<1>4. QED
  BY <1>1, <1>2, <1>3 DEF MovesRequest

\* A step that writes no document, or one, and ends a request or none, keeps
\* the invariant if it gives no closed account a session.
LEMMA WriteInvariant ==
  ASSUME AccountsAssumption, AInv, NEW u,
         WritesUser(u) \/ UNCHANGED users,
         UNCHANGED requests \/ \E r \in Requests : Ends(r),
         issued' \subseteq Tokens, mailed' \subseteq issued', clock' \in 0..MaxTime,
         \/ /\ ended' = ended
            /\ users'[u].refreshToken \in {users[u].refreshToken, "null", "empty"}
               \/ Opening(u)
         \/ /\ ended' = ended \cup {u} /\ u \in Known /\ ~Opening(u)
            /\ users'[u].refreshToken # "hash"
  PROVE  AInv'
<1>1. /\ Known' = Known /\ AddressHeld' /\ OneAccountPerEmail'
      /\ users' \in [Users -> UserDocuments]
  <2>1. CASE WritesUser(u)
    BY <2>1, WriteKeepsAddresses DEF WritesUser
  <2>2. CASE UNCHANGED users
    BY <2>2 DEF AInv, TypeOK, Known, AddressHeld, OneAccountPerEmail
  <2>3. QED
    BY <2>1, <2>2
<1>2. /\ requests' \in [Requests -> RequestForms]
      /\ \A q \in Requests : requests'[q] \in {requests[q], NoRequest}
  BY EndsOK DEF AInv, TypeOK, RequestForms, MovesRequest
<1>3. ended' \subseteq Users
  BY DEF AInv, TypeOK, Known
<1>4. TypeOK'
  BY <1>1, <1>2, <1>3 DEF TypeOK, RequestForms
<1>5. RequestsKnow'
  BY <1>1, <1>2 DEF AInv, RequestsKnow
<1>6. \A v \in Users : ~Opening(v) => ~Opening(v)'
  BY <1>2 DEF Opening, NoRequest
<1>7. \A v \in Users \ {u} : users'[v] = users[v]
  BY DEF WritesUser
<1>8. EndedClosed'
  BY <1>1, <1>3, <1>6, <1>7 DEF AInv, EndedClosed
<1>9. QED
  BY <1>1, <1>4, <1>5, <1>8 DEF AInv

\* A step that loads a document for a request keeps the invariant if the
\* account is not closed to a request that opens a session.
LEMMA LoadInvariant ==
  ASSUME AccountsAssumption, AInv, NEW r \in Requests, NEW u \in Users,
         NEW at \in {"store", "verify", "reset", "change"},
         NEW p \in Passwords \cup {Nil}, Loads(r, u, at, p),
         UNCHANGED <<users, issued, mailed, clock>>,
         ended' \subseteq ended, at = "store" => u \notin ended'
  PROVE  AInv'
<1>1. /\ MovesRequest(r) /\ u \in Known
      /\ requests'[r].at = at /\ requests'[r].user = u
  BY LoadsOK
<1>2. TypeOK' /\ AddressHeld' /\ OneAccountPerEmail' /\ Known' = Known
  BY <1>1 DEF AInv, TypeOK, MovesRequest, RequestForms, AddressHeld,
              OneAccountPerEmail, Known
<1>3. RequestsKnow'
  BY <1>1, <1>2 DEF AInv, RequestsKnow, MovesRequest
<1>4. \A v \in ended' : ~Opening(v)'
  BY <1>1 DEF AInv, EndedClosed, Opening, MovesRequest
<1>5. EndedClosed'
  BY <1>2, <1>4 DEF AInv, EndedClosed
<1>6. QED
  BY <1>2, <1>3, <1>5 DEF AInv

-----------------------------------------------------------------------------
(* The actions, one by one.                                                *)

\* createUser: the address was free when the document was inserted
\* (users.service.ts:64-87, user.schema.ts:10-12).
LEMMA CreateKeeps ==
  ASSUME AccountsAssumption, AInv, NEW r \in Requests, NEW u \in Users,
         CreateUser(r, u)
  PROVE  AInv'
<1> DEFINE new == [NoUser EXCEPT !.email = requests[r].email,
                                 !.password = requests[r].password]
           moved == [NoRequest EXCEPT !.at = "store", !.user = u, !.doc = users'[u]]
<1>1. /\ requests \in [Requests -> RequestForms]
      /\ users \in [Users -> UserDocuments]
  BY DEF AInv, TypeOK, RequestForms
<1>2. requests[r].email \in Emails
  BY DEF CreateUser, AInv, RequestsKnow, NoRequest
<1>3. new \in UserDocuments /\ new.email = requests[r].email /\ new.refreshToken = "null"
  BY <1>1, <1>2 DEF NoUser, UserDocuments, RequestForms
<1>4. /\ users' \in [Users -> UserDocuments] /\ users'[u] = new
      /\ \A v \in Users \ {u} : users'[v] = users[v]
  BY <1>1, <1>3 DEF CreateUser
<1>5. moved \in RequestForms /\ moved.at = "store" /\ moved.user = u
  BY <1>4 DEF NoRequest, NoUser, RequestForms, UserDocuments, AccountsAssumption
<1>6. /\ requests' \in [Requests -> RequestForms] /\ requests'[r] = moved
      /\ \A q \in Requests \ {r} : requests'[q] = requests[q]
  BY <1>1, <1>5 DEF CreateUser
<1>7. u \notin Known /\ Known' = Known \cup {u}
  <2>1. NoUser.email \notin Emails
    BY DEF NoUser, AccountsAssumption
  <2>2. QED
    BY <1>2, <1>3, <1>4, <2>1 DEF CreateUser, Known
<1>8. TypeOK'
  BY <1>4, <1>6 DEF AInv, TypeOK, RequestForms, CreateUser
<1>9. AddressHeld' /\ OneAccountPerEmail'
  <2>1. \A v \in Known : users[v].email # new.email
    BY <1>3 DEF CreateUser, Owners
  <2>2. \A v \in Known' : v = u \/ (v \in Known /\ users'[v] = users[v])
    BY <1>4, <1>7 DEF Known
  <2>3. QED
    BY <1>2, <1>3, <1>4, <2>1, <2>2 DEF AInv, AddressHeld, OneAccountPerEmail
<1>10. RequestsKnow'
  BY <1>5, <1>6, <1>7 DEF AInv, RequestsKnow
<1>11. EndedClosed'
  <2>1. ended' = ended /\ u \notin ended
    BY <1>7 DEF AInv, EndedClosed, CreateUser
  <2>2. requests'[r].user = u
    BY <1>5, <1>6
  <2>3. \A v \in ended : ~Opening(v)'
    BY <1>6, <2>1, <2>2 DEF AInv, EndedClosed, Opening
  <2>4. \A v \in ended : v \in Known' /\ users'[v] = users[v]
    BY <1>4, <1>7, <2>1 DEF AInv, EndedClosed, Known
  <2>5. QED
    BY <2>1, <2>3, <2>4 DEF AInv, EndedClosed
<1>12. QED
  BY <1>8, <1>9, <1>10, <1>11 DEF AInv

\* Every way to open a session reads the document first (auth.service.ts:42-108).
LEMMA LoadStepKeeps ==
  ASSUME AccountsAssumption, AInv, NEW r \in Requests, NEW u \in Users,
         \/ LoginWithOtp(r, u) \/ RefreshToken(r, u) \/ FindToVerify(r, u)
         \/ \E p \in Passwords :
              Login(r, u, p) \/ FindToReset(r, u, p) \/ FindToChange(r, u, p)
  PROVE  AInv'
<1>1. ASSUME NEW p \in Passwords, Login(r, u, p)
      PROVE  AInv'
  <2>1. ended' \subseteq ended /\ u \notin ended'
    BY <1>1 DEF Login
  <2>2. QED
    BY <1>1, <2>1, LoadInvariant DEF Login
<1>2. CASE LoginWithOtp(r, u)
  BY <1>2, LoadInvariant DEF LoginWithOtp
<1>3. CASE RefreshToken(r, u)
  <2>1. u \notin ended
    BY <1>3 DEF RefreshToken, AInv, EndedClosed
  <2>2. QED
    BY <1>3, <2>1, LoadInvariant DEF RefreshToken
<1>4. CASE FindToVerify(r, u)
  BY <1>4, LoadInvariant DEF FindToVerify
<1>5. ASSUME NEW p \in Passwords, FindToReset(r, u, p)
      PROVE  AInv'
  BY <1>5, LoadInvariant DEF FindToReset
<1>6. ASSUME NEW p \in Passwords, FindToChange(r, u, p)
      PROVE  AInv'
  BY <1>6, LoadInvariant DEF FindToChange
<1>7. QED
  BY <1>1, <1>2, <1>3, <1>4, <1>5, <1>6

\* A request that saves writes the paths it changed, and ends
\* (users.service.ts:89-93, 138-155, 207-255).
LEMMA SaveStepKeeps ==
  ASSUME AccountsAssumption, AInv, NEW r \in Requests,
         StoreRefreshToken(r) \/ SaveVerified(r) \/ SaveReset(r) \/ SaveChanged(r)
  PROVE  AInv'
<1> DEFINE u == requests[r].user
<1>1. /\ requests[r] \in RequestForms
      /\ users \in [Users -> UserDocuments]
      /\ issued \subseteq Tokens /\ mailed \subseteq issued /\ clock \in 0..MaxTime
  BY DEF AInv, TypeOK, RequestForms
<1>2. u \in Known /\ u \in Users
  <2>1. requests[r].at \in {"store", "verify", "reset", "change"}
    BY DEF StoreRefreshToken, SaveVerified, SaveReset, SaveChanged
  <2>2. QED
    BY <2>1 DEF AInv, RequestsKnow, NoRequest, Known
<1>3. Ends(r) /\ UNCHANGED <<issued, mailed, clock>>
  BY DEF StoreRefreshToken, SaveVerified, SaveReset, SaveChanged
<1>4. CASE StoreRefreshToken(r)
  <2>1. WritesUser(u)
    BY <1>1, <1>2, <1>4 DEF StoreRefreshToken, WritesUser, UserDocuments
  <2>2. Opening(u) /\ ended' = ended
    BY <1>4 DEF StoreRefreshToken, Opening
  <2>3. QED
    BY <1>1, <1>3, <2>1, <2>2, WriteInvariant
<1>5. CASE SaveVerified(r)
  <2>1. WritesUser(u) /\ users'[u].refreshToken = users[u].refreshToken
    <3> DEFINE d == [users[u] EXCEPT !.emailVerified = TRUE,
                                     !.emailVerificationToken = Nil,
                                     !.emailVerificationTokenExpires = 0]
    <3>1. /\ d \in UserDocuments /\ d.email = users[u].email
          /\ d.refreshToken = users[u].refreshToken
      <4>1. users[u] \in UserDocuments
        BY <1>1, <1>2
      <4>2. QED
        BY <4>1 DEF UserDocuments
    <3>2. users' = [users EXCEPT ![u] = d]
      BY <1>1, <1>2, <1>5 DEF SaveVerified
    <3>3. QED
      BY <1>1, <1>2, <3>1, <3>2 DEF WritesUser
  <2>2. ended' = ended
    BY <1>5 DEF SaveVerified
  <2>3. QED
    BY <1>1, <1>3, <2>1, <2>2, WriteInvariant
<1>6. CASE SaveReset(r)
  <2> DEFINE session == IF requests[r].doc.refreshToken = "null"
                        THEN users[u].refreshToken ELSE "null"
  <2>1. /\ WritesUser(u) /\ users'[u].refreshToken = session
        /\ session \in {users[u].refreshToken, "null"}
    BY <1>1, <1>2, <1>6 DEF SaveReset, WritesUser, UserDocuments, RequestForms
  <2>2. ended' = IF Opening(u) \/ session = "hash" THEN ended ELSE ended \cup {u}
    BY <1>6 DEF SaveReset
  <2>3. QED
    BY <1>1, <1>2, <1>3, <2>1, <2>2, WriteInvariant
<1>7. CASE SaveChanged(r)
  <2>1. WritesUser(u) /\ users'[u].refreshToken = users[u].refreshToken
    BY <1>1, <1>2, <1>7 DEF SaveChanged, WritesUser, UserDocuments, RequestForms
  <2>2. ended' = ended
    BY <1>7 DEF SaveChanged
  <2>3. QED
    BY <1>1, <1>3, <2>1, <2>2, WriteInvariant
<1>8. QED
  BY <1>4, <1>5, <1>6, <1>7

\* A logout, and a token generated and stored
\* (auth.service.ts:142-155, users.service.ts:95-106, 157-205).
LEMMA UserStepKeeps ==
  ASSUME AccountsAssumption, AInv, NEW u \in Users,
         \/ Logout(u)
         \/ \E t \in Tokens : SendVerificationEmail(u, t) \/ ForgotPassword(u, t)
  PROVE  AInv'
<1>1. /\ users \in [Users -> UserDocuments] /\ users[u] \in UserDocuments
      /\ issued \subseteq Tokens /\ mailed \subseteq issued /\ clock \in 0..MaxTime
      /\ clock + Lifetime \in Nat
  BY DEF AInv, TypeOK, AccountsAssumption
<1>2. CASE Logout(u)
  <2>1. u \in Known /\ WritesUser(u) /\ users'[u].refreshToken = "empty"
    BY <1>1, <1>2 DEF Logout, WritesUser, UserDocuments
  <2>2. QED
    BY <1>1, <1>2, <2>1, WriteInvariant DEF Logout
<1>3. ASSUME NEW t \in Tokens, SendVerificationEmail(u, t) \/ ForgotPassword(u, t)
      PROVE  AInv'
  <2>1. WritesUser(u) /\ users'[u].refreshToken = users[u].refreshToken
    BY <1>1, <1>3 DEF SendVerificationEmail, ForgotPassword, WritesUser, UserDocuments
  <2>2. issued' \subseteq Tokens /\ mailed' \subseteq issued'
    BY <1>1, <1>3 DEF SendVerificationEmail, ForgotPassword, Mails
  <2>3. UNCHANGED <<requests, ended, clock>>
    BY <1>3 DEF SendVerificationEmail, ForgotPassword
  <2>4. QED
    BY <1>1, <2>1, <2>2, <2>3, WriteInvariant
<1>4. QED
  BY <1>2, <1>3

\* A request that begins with a signup, one that is dropped, and time.
LEMMA QuietStepKeeps ==
  ASSUME AccountsAssumption, AInv,
         \/ \E r \in Requests, e \in Emails, p \in Passwords : Signup(r, e, p)
         \/ \E r \in Requests : DropRequest(r)
         \/ Tick \/ UNCHANGED accountVars
  PROVE  AInv'
<1>1. /\ requests \in [Requests -> RequestForms]
      /\ issued \subseteq Tokens /\ mailed \subseteq issued /\ clock \in 0..MaxTime
  BY DEF AInv, TypeOK, RequestForms
<1>2. ASSUME NEW r \in Requests, NEW e \in Emails, NEW p \in Passwords, Signup(r, e, p)
      PROVE  AInv'
  <2> DEFINE new == [NoRequest EXCEPT !.at = "create", !.email = e, !.password = p]
  <2>1. new \in RequestForms /\ new.at = "create" /\ new.email = e
    BY DEF NoRequest, NoUser, RequestForms, UserDocuments
  <2>2. /\ requests' \in [Requests -> RequestForms] /\ requests'[r] = new
        /\ \A q \in Requests \ {r} : requests'[q] = requests[q]
        /\ UNCHANGED <<users, issued, mailed, ended, clock>>
    BY <1>1, <1>2, <2>1 DEF Signup
  <2>3. TypeOK' /\ AddressHeld' /\ OneAccountPerEmail' /\ Known' = Known
    BY <2>2 DEF AInv, TypeOK, RequestForms, AddressHeld, OneAccountPerEmail, Known
  <2>4. RequestsKnow'
    BY <2>1, <2>2, <2>3 DEF AInv, RequestsKnow
  <2>5. \A v \in Users : ~Opening(v) => ~Opening(v)'
    BY <2>1, <2>2 DEF Opening
  <2>6. EndedClosed'
    BY <2>2, <2>3, <2>5 DEF AInv, EndedClosed, Known
  <2>7. QED
    BY <2>3, <2>4, <2>6 DEF AInv
<1>3. ASSUME NEW r \in Requests, DropRequest(r)
      PROVE  AInv'
  BY <1>1, <1>3, WriteInvariant DEF DropRequest
<1>4. CASE Tick
  <2>1. clock' \in 0..MaxTime
    BY <1>1, <1>4 DEF Tick, AccountsAssumption
  <2>2. QED
    BY <1>1, <1>4, <2>1, WriteInvariant DEF Tick
<1>5. CASE UNCHANGED accountVars
  BY <1>1, <1>5, WriteInvariant DEF accountVars
<1>6. QED
  BY <1>2, <1>3, <1>4, <1>5

\* Every step keeps the invariant.
LEMMA AccountsStep ==
  ASSUME AccountsAssumption, AInv, [Next]_accountVars
  PROVE  AInv'
<1>1. ASSUME NEW r \in Requests, RequestStep(r)
      PROVE  AInv'
  <2>1. CASE \E u \in Users, p \in Passwords :
               Login(r, u, p) \/ FindToReset(r, u, p) \/ FindToChange(r, u, p)
    BY <2>1, LoadStepKeeps
  <2>2. CASE \E u \in Users :
               LoginWithOtp(r, u) \/ RefreshToken(r, u) \/ FindToVerify(r, u)
    BY <2>2, LoadStepKeeps
  <2>3. QED
    BY <1>1, <2>1, <2>2, CreateKeeps, SaveStepKeeps, QuietStepKeeps DEF RequestStep
<1>2. QED
  BY <1>1, UserStepKeeps, QuietStepKeeps DEF Next

-----------------------------------------------------------------------------
(* Mailed tokens.                                                          *)

\* A document keeps its tokens, loses them, or is given one just generated:
\* no save writes back a token that was read before
\* (users.service.ts:95-106, 138-155, 157-232).
LEMMA TokensKept ==
  ASSUME AInv, [Next]_accountVars, NEW v \in Users
  PROVE  /\ users'[v].emailVerificationToken
              \in {users[v].emailVerificationToken, Nil} \cup (Tokens \ issued)
         /\ users'[v].resetPasswordToken
              \in {users[v].resetPasswordToken, Nil} \cup (Tokens \ issued)
<1> DEFINE Kept == /\ users'[v].emailVerificationToken
                        \in {users[v].emailVerificationToken, Nil} \cup (Tokens \ issued)
                   /\ users'[v].resetPasswordToken
                        \in {users[v].resetPasswordToken, Nil} \cup (Tokens \ issued)
<1>1. users \in [Users -> UserDocuments] /\ users[v] \in UserDocuments
  BY DEF AInv, TypeOK
<1>2. ASSUME NEW r \in Requests, NEW u \in Users, CreateUser(r, u)
      PROVE  Kept
  <2> DEFINE new == [NoUser EXCEPT !.email = requests[r].email,
                                   !.password = requests[r].password]
  <2>1. new.emailVerificationToken = Nil /\ new.resetPasswordToken = Nil
    BY DEF NoUser
  <2>2. users'[v] \in {users[v], new}
    BY <1>1, <1>2 DEF CreateUser
  <2>3. QED
    BY <2>1, <2>2
<1>3. ASSUME NEW r \in Requests, StoreRefreshToken(r)
      PROVE  Kept
  BY <1>1, <1>3 DEF StoreRefreshToken, UserDocuments
<1>4. ASSUME NEW r \in Requests, SaveVerified(r)
      PROVE  Kept
  BY <1>1, <1>4 DEF SaveVerified, UserDocuments
<1>5. ASSUME NEW r \in Requests, SaveReset(r)
      PROVE  Kept
  BY <1>1, <1>5 DEF SaveReset, UserDocuments
<1>6. ASSUME NEW r \in Requests, SaveChanged(r)
      PROVE  Kept
  BY <1>1, <1>6 DEF SaveChanged, UserDocuments
<1>7. ASSUME NEW u \in Users, Logout(u)
      PROVE  Kept
  BY <1>1, <1>7 DEF Logout, UserDocuments
<1>8. ASSUME NEW u \in Users, NEW t \in Tokens,
             SendVerificationEmail(u, t) \/ ForgotPassword(u, t)
      PROVE  Kept
  <2>1. t \in Tokens \ issued
    BY <1>8 DEF SendVerificationEmail, ForgotPassword, Mails
  <2>2. CASE SendVerificationEmail(u, t)
    BY <1>1, <2>1, <2>2 DEF SendVerificationEmail, UserDocuments
  <2>3. CASE ForgotPassword(u, t)
    BY <1>1, <2>1, <2>3 DEF ForgotPassword, UserDocuments
  <2>4. QED
    BY <1>8, <2>2, <2>3
<1>9. CASE UNCHANGED users
  BY <1>9
<1>10. QED
  BY <1>2, <1>3, <1>4, <1>5, <1>6, <1>7, <1>8, <1>9
     DEF Next, RequestStep, Signup, Login, LoginWithOtp, RefreshToken, FindToVerify,
         FindToReset, FindToChange, DropRequest, Tick, accountVars

-----------------------------------------------------------------------------
(* The theorems.                                                           *)

\* The invariant holds of every behaviour.
LEMMA AccountsAlways == AccountsAssumption => (AccountsSpec => []AInv)
<1> SUFFICES ASSUME AccountsAssumption
             PROVE  AccountsSpec => []AInv
  OBVIOUS
<1>1. Init => AInv
  BY AccountsInit
<1>2. AInv /\ [Next]_accountVars => AInv'
  BY AccountsStep
<1>3. QED
  BY <1>1, <1>2, PTL DEF AccountsSpec

\* Documents and requests keep their forms; only tokens that were generated
\* are ever mailed.
THEOREM AccountsTypeCorrect == AccountsAssumption => (AccountsSpec => []TypeOK)
<1>1. AInv => TypeOK
  BY DEF AInv
<1>2. QED
  BY <1>1, AccountsAlways, PTL

\* Two documents never have the same address, although both signups may have
\* found it free (users.service.ts:64-87, user.schema.ts:10-12).
THEOREM AddressesAreUnique ==
  AccountsAssumption => (AccountsSpec => []OneAccountPerEmail)
<1>1. AInv => OneAccountPerEmail
  BY DEF AInv
<1>2. QED
  BY <1>1, AccountsAlways, PTL

\* Once a logout or a reset has left an account without a session, no write
\* of a request that was under way brings one back (auth.service.ts:142-155,
\* users.service.ts:207-232).
THEOREM EndedSessionsStayEnded ==
  AccountsAssumption => (AccountsSpec => []SessionsStayEnded)
<1>1. AInv => SessionsStayEnded
  BY DEF AInv, EndedClosed, SessionsStayEnded
<1>2. QED
  BY <1>1, AccountsAlways, PTL

\* A mailed token that was used, or replaced, is never good again, whatever
\* documents were read before and are saved after
\* (users.service.ts:138-155, 207-232).
THEOREM UsedTokensStayDead ==
  AccountsAssumption => (AccountsSpec => DeadTokensStayDead)
<1> SUFFICES ASSUME AccountsAssumption
             PROVE  AccountsSpec => DeadTokensStayDead
  OBVIOUS
<1>1. AInv /\ [Next]_accountVars =>
        [\A t \in issued : ~Good(t) => ~Good(t)']_accountVars
  <2> SUFFICES ASSUME AInv, [Next]_accountVars, NEW t \in issued, Good(t)'
               PROVE  Good(t)
    OBVIOUS
  <2>1. t \in Tokens /\ t # Nil
    BY DEF AInv, TypeOK, AccountsAssumption
  <2>2. PICK v \in Users : t \in {users'[v].emailVerificationToken,
                                 users'[v].resetPasswordToken}
    BY DEF Good
  <2>3. t \in {users[v].emailVerificationToken, users[v].resetPasswordToken}
    BY <2>1, <2>2, TokensKept
  <2>4. QED
    BY <2>3 DEF Good
<1>2. QED
  BY <1>1, AccountsAlways, PTL DEF AccountsSpec, DeadTokensStayDead
=============================================================================
