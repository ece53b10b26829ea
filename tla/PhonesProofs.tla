---------------------------- MODULE PhonesProofs ----------------------------
(* Telephone numbers and one-time codes for any number of accounts, codes   *)
(* and requests.                                                            *)
EXTENDS Phones, TLAPS

\* The document d of the collection os has been stored, be it deleted since:
\* no other code is ever stored in its place.
Sent(d, os) == os[d].phoneNumber \in Numbers /\ os[d].otp \in Codes

CodesSent == \A d \in Otps : otps[d] = NoOtp \/ Sent(d, otps)

AcceptedFor(u, n, os, acc) ==
  \E a \in acc : a.user = u /\ os[a.doc].phoneNumber = n

\* What a request q knows of the codes os and of those accepted, acc: one that
\* checks a code has the number of that code, and one that sets a number has
\* had a code of this number accepted for its own account.
Holds(q, os, acc) ==
  /\ q.at # "idle" => q.phoneNumber \in Numbers
  /\ q.at \in {"text", "expired", "valid"} => q.doc \in Otps /\ Sent(q.doc, os)
  /\ q.at = "valid" => os[q.doc].phoneNumber = q.phoneNumber
  /\ q.at \in {"find", "valid"} /\ ~q.login => q.user \in Users
  /\ q.at \in {"check", "set"} =>
       q.user \in Users /\ AcceptedFor(q.user, q.phoneNumber, os, acc)

RequestsHold == \A r \in Requests : Holds(requests[r], otps, accepted)

AcceptedGone == \A a \in accepted : Sent(a.doc, otps) /\ ~otps[a.doc].stored

CodesInv ==
  /\ TypeOK
  /\ CodesSent
  /\ RequestsHold
  /\ AcceptedGone
  /\ OnePhoneOwner
  /\ EnrolledByItsCode

RequestForms ==
  [at : {"idle", "store", "text", "find", "expired", "valid", "check", "set"},
   user : Users \cup {Nil}, phoneNumber : Numbers \cup {Nil},
   doc : Otps \cup {Nil}, login : BOOLEAN]

OtpDocuments ==
  [phoneNumber : Numbers \cup {Nil}, otp : Codes \cup {Nil}, expiresAt : Nat,
   stored : BOOLEAN]

\* What the proofs use of the parts of the type invariant.
LEMMA PhoneTypes ==
  ASSUME TypeOK
  PROVE  /\ phones \in [Users -> Numbers \cup {Nil}]
         /\ otps \in [Otps -> OtpDocuments]
         /\ texts \subseteq [to : Numbers, otp : Codes, body : {"sms_2fa"}]
         /\ requests \in [Requests -> RequestForms]
         /\ accepted \subseteq [doc : Otps, user : Users \cup {Nil}]
         /\ clock \in 0..MaxTime
BY DEF TypeOK, OtpDocuments, RequestForms

\* At start nobody has a number and no code was sent.
LEMMA PhonesInit == PhonesAssumption /\ Init => CodesInv
<1> SUFFICES ASSUME PhonesAssumption, Init
             PROVE  CodesInv
  OBVIOUS
<1> USE DEF PhonesAssumption, Init
<1>1. TypeOK
  BY DEF TypeOK, NoOtp, NoRequest
<1>2. CodesSent /\ AcceptedGone /\ OnePhoneOwner /\ EnrolledByItsCode
  BY DEF CodesSent, AcceptedGone, OnePhoneOwner, EnrolledByItsCode
<1>3. RequestsHold
  BY DEF RequestsHold, Holds, NoRequest
<1>4. QED
  BY <1>1, <1>2, <1>3 DEF CodesInv

-----------------------------------------------------------------------------
(* Codes are only ever added and deleted.                                  *)

\* The step changes no code that was sent but to delete it, and forgets none
\* that was accepted.
CodesStay ==
  /\ accepted \subseteq accepted'
  /\ \A d \in Otps : Sent(d, otps) =>
       /\ Sent(d, otps')
       /\ otps'[d].phoneNumber = otps[d].phoneNumber
       /\ otps'[d].stored => otps[d].stored

\* What a request knows stays true while codes stay.
LEMMA HoldsStays ==
  ASSUME CodesInv, CodesStay, NEW q, Holds(q, otps, accepted)
  PROVE  Holds(q, otps', accepted')
<1>1. ASSUME NEW u, NEW n, AcceptedFor(u, n, otps, accepted)
      PROVE  AcceptedFor(u, n, otps', accepted')
  BY <1>1, PhoneTypes DEF CodesInv, CodesStay, AcceptedGone, AcceptedFor
<1>2. QED
  BY <1>1 DEF CodesStay, Holds, Sent

\* A step of one request keeps the invariant if codes stay, the codes it
\* stores and accepts are good, and it goes on knowing what it should.
LEMMA RequestMoves ==
  ASSUME CodesInv, CodesStay, NEW r \in Requests, NEW q \in RequestForms,
         requests' = [requests EXCEPT ![r] = q], Holds(q, otps', accepted'),
         otps' \in [Otps -> OtpDocuments],
         \A d \in Otps : otps'[d] = NoOtp \/ Sent(d, otps'),
         accepted' \subseteq [doc : Otps, user : Users \cup {Nil}],
         \A a \in accepted' \ accepted : Sent(a.doc, otps') /\ ~otps'[a.doc].stored,
         texts' \subseteq [to : Numbers, otp : Codes, body : {"sms_2fa"}],
         UNCHANGED <<phones, clock>>
  PROVE  CodesInv'
<1>1. TypeOK'
  BY PhoneTypes DEF CodesInv, TypeOK, OtpDocuments, RequestForms
<1>2. CodesSent'
  BY DEF CodesSent, NoOtp
<1>3. RequestsHold'
  <2>1. ASSUME NEW s \in Requests
        PROVE  Holds(requests'[s], otps', accepted')
    BY PhoneTypes, HoldsStays DEF CodesInv, RequestsHold
  <2>2. QED
    BY <2>1 DEF RequestsHold
<1>4. AcceptedGone'
  BY PhoneTypes DEF CodesInv, AcceptedGone, CodesStay
<1>5. OnePhoneOwner'
  BY DEF CodesInv, OnePhoneOwner
<1>6. EnrolledByItsCode'
  BY PhoneTypes DEF CodesInv, EnrolledByItsCode, CodesStay, AcceptedGone
<1>7. QED
  BY <1>1, <1>2, <1>3, <1>4, <1>5, <1>6 DEF CodesInv

\* A step that touches no code is one of RequestMoves.
LEMMA RequestGoesOn ==
  ASSUME CodesInv, NEW r \in Requests, NEW q \in RequestForms,
         requests' = [requests EXCEPT ![r] = q], Holds(q, otps, accepted),
         UNCHANGED <<phones, otps, texts, accepted, clock>>
  PROVE  CodesInv'
<1>1. CodesStay
  BY DEF CodesStay
<1>2. QED
  BY <1>1, RequestMoves, PhoneTypes DEF CodesInv, CodesSent

\* A request that is over knows nothing.
LEMMA IdleOK ==
  ASSUME PhonesAssumption
  PROVE  NoRequest \in RequestForms /\ \A os, acc : Holds(NoRequest, os, acc)
BY DEF PhonesAssumption, NoRequest, RequestForms, Holds

\* A code that is deleted stays in its place: the document keeps its number.
LEMMA DeleteOK ==
  ASSUME CodesInv, NEW d \in Otps, Sent(d, otps), NEW acc, accepted \subseteq acc,
         otps' = [otps EXCEPT ![d].stored = FALSE], accepted' = acc
  PROVE  /\ CodesStay
         /\ otps' \in [Otps -> OtpDocuments]
         /\ ~otps'[d].stored
         /\ \A e \in Otps : otps'[e] = NoOtp \/ Sent(e, otps')
<1> DEFINE gone == [otps[d] EXCEPT !.stored = FALSE]
<1>1. otps[d] \in OtpDocuments /\ otps \in [Otps -> OtpDocuments]
  BY PhoneTypes DEF CodesInv
<1>2. /\ gone \in OtpDocuments /\ ~gone.stored
      /\ gone.phoneNumber = otps[d].phoneNumber /\ gone.otp = otps[d].otp
  BY <1>1 DEF OtpDocuments
<1>3. otps' = [otps EXCEPT ![d] = gone]
  BY <1>1
<1> HIDE DEF gone
<1>4. /\ otps' \in [Otps -> OtpDocuments] /\ otps'[d] = gone
      /\ \A e \in Otps \ {d} : otps'[e] = otps[e]
  BY <1>1, <1>2, <1>3
<1>5. QED
  BY <1>2, <1>4 DEF CodesStay, Sent, CodesInv, CodesSent

-----------------------------------------------------------------------------
(* The actions, one by one.                                                *)

\* A request that begins knows its number (auth.service.ts:199-253).
LEMMA BeginKeeps ==
  ASSUME PhonesAssumption, CodesInv, NEW r \in Requests, NEW n \in Numbers,
         \/ SendLoginOtp(r, n) \/ VerifyLoginOtp(r, n)
         \/ \E u \in Users :
              SendPhoneEnrollmentOtp(r, u, n) \/ VerifyPhoneEnrollmentOtp(r, u, n)
  PROVE  CodesInv'
<1> DEFINE stores == [NoRequest EXCEPT !.at = "store", !.phoneNumber = n]
           logs(u) == [NoRequest EXCEPT !.at = "find", !.user = u,
                                        !.phoneNumber = n, !.login = TRUE]
           finds(u) == [NoRequest EXCEPT !.at = "find", !.user = u, !.phoneNumber = n]
<1>1. stores \in RequestForms /\ Holds(stores, otps, accepted)
  BY DEF NoRequest, RequestForms, Holds
<1>2. ASSUME NEW u \in Users \cup {Nil}
      PROVE  logs(u) \in RequestForms /\ Holds(logs(u), otps, accepted)
  BY DEF NoRequest, RequestForms, Holds
<1>3. ASSUME NEW u \in Users
      PROVE  finds(u) \in RequestForms /\ Holds(finds(u), otps, accepted)
  BY DEF NoRequest, RequestForms, Holds
<1> HIDE DEF stores, logs, finds
<1>4. ASSUME NEW q \in RequestForms, Holds(q, otps, accepted), Begins(r, q)
      PROVE  CodesInv'
  BY <1>4, RequestGoesOn DEF Begins
<1>5. CASE SendLoginOtp(r, n) \/ \E u \in Users : SendPhoneEnrollmentOtp(r, u, n)
  BY <1>1, <1>4, <1>5 DEF SendLoginOtp, SendPhoneEnrollmentOtp, stores
<1>6. CASE VerifyLoginOtp(r, n)
  <2>1. PICK u \in Users \cup {Nil} : Begins(r, logs(u))
    BY <1>6 DEF VerifyLoginOtp, Owners, logs
  <2>2. QED
    BY <1>2, <1>4, <2>1
<1>7. ASSUME NEW u \in Users, VerifyPhoneEnrollmentOtp(r, u, n)
      PROVE  CodesInv'
  BY <1>3, <1>4, <1>7 DEF VerifyPhoneEnrollmentOtp, finds
<1>8. QED
  BY <1>5, <1>6, <1>7

\* A new code takes no other's place (otp.service.ts:20-31).
LEMMA StoreKeeps ==
  ASSUME PhonesAssumption, CodesInv, NEW r \in Requests, NEW d \in Otps,
         NEW c \in Codes, StoreOtp(r, d, c)
  PROVE  CodesInv'
<1> DEFINE sent == [phoneNumber |-> requests[r].phoneNumber, otp |-> c,
                    expiresAt |-> clock + Lifetime, stored |-> TRUE]
           q == [requests[r] EXCEPT !.at = "text", !.doc = d]
<1>1. /\ requests[r] \in RequestForms /\ requests[r].phoneNumber \in Numbers
      /\ Holds(requests[r], otps, accepted)
  BY PhoneTypes DEF CodesInv, RequestsHold, Holds, StoreOtp
<1>2. sent \in OtpDocuments /\ sent.phoneNumber \in Numbers /\ sent.otp \in Codes
  BY <1>1, PhoneTypes DEF CodesInv, OtpDocuments, PhonesAssumption
<1>3. otps' = [otps EXCEPT ![d] = sent] /\ requests' = [requests EXCEPT ![r] = q]
  BY DEF StoreOtp
<1>4. /\ q \in RequestForms /\ q.at = "text" /\ q.doc = d
      /\ q.phoneNumber \in Numbers
  BY <1>1 DEF RequestForms
<1> HIDE DEF sent, q
<1>5. ~Sent(d, otps)
  BY DEF StoreOtp, NoOtp, Sent, PhonesAssumption
<1>6. /\ otps' \in [Otps -> OtpDocuments] /\ otps'[d] = sent
      /\ \A e \in Otps \ {d} : otps'[e] = otps[e]
  BY <1>2, <1>3, PhoneTypes DEF CodesInv
<1>7. CodesStay /\ Sent(d, otps')
  BY <1>2, <1>5, <1>6 DEF CodesStay, Sent, StoreOtp
<1>8. Holds(q, otps', accepted')
  BY <1>4, <1>7 DEF Holds
<1>9. \A e \in Otps : otps'[e] = NoOtp \/ Sent(e, otps')
  BY <1>6, <1>7 DEF CodesInv, CodesSent, Sent
<1>10. QED
  BY <1>3, <1>4, <1>6, <1>7, <1>8, <1>9, RequestMoves, PhoneTypes
     DEF CodesInv, StoreOtp

\* The text names the number and the code of the document.
LEMMA TextKeeps ==
  ASSUME PhonesAssumption, CodesInv, NEW r \in Requests, TextOtp(r)
  PROVE  CodesInv'
<1>1. /\ requests[r].phoneNumber \in Numbers
      /\ otps[requests[r].doc].otp \in Codes
  BY DEF CodesInv, RequestsHold, Holds, Sent, TextOtp
<1>2. texts' \subseteq [to : Numbers, otp : Codes, body : {"sms_2fa"}]
  BY <1>1, PhoneTypes DEF TextOtp, CodesInv
<1>3. CodesStay
  BY DEF CodesStay, TextOtp
<1>4. QED
  BY <1>2, <1>3, RequestMoves, IdleOK, PhoneTypes
     DEF CodesInv, CodesSent, TextOtp, Ends

\* The code found has the number of the request (otp.service.ts:34-48).
LEMMA FindKeeps ==
  ASSUME CodesInv, NEW r \in Requests, NEW d \in Otps, FindOtp(r, d)
  PROVE  CodesInv'
<1> DEFINE q == [requests[r] EXCEPT
                   !.at = IF otps[d].expiresAt < clock THEN "expired" ELSE "valid",
                   !.doc = d]
<1>1. /\ requests[r] \in RequestForms /\ requests[r].at = "find"
      /\ Holds(requests[r], otps, accepted)
  BY PhoneTypes DEF CodesInv, RequestsHold, FindOtp
<1>2. Sent(d, otps) /\ otps[d].phoneNumber = requests[r].phoneNumber
  BY DEF FindOtp, CodesInv, CodesSent, NoOtp
<1>3. /\ q \in RequestForms /\ q.at \in {"expired", "valid"} /\ q.doc = d
      /\ q.phoneNumber = requests[r].phoneNumber /\ q.user = requests[r].user
      /\ q.login = requests[r].login
  BY <1>1 DEF RequestForms
<1>4. requests' = [requests EXCEPT ![r] = q]
  BY DEF FindOtp
<1> HIDE DEF q
<1>5. Holds(q, otps, accepted)
  BY <1>1, <1>2, <1>3 DEF Holds
<1>6. QED
  BY <1>3, <1>4, <1>5, RequestGoesOn DEF FindOtp

\* An expired code is deleted, and the request fails.
LEMMA ExpiredKeeps ==
  ASSUME PhonesAssumption, CodesInv, NEW r \in Requests, DeleteExpired(r)
  PROVE  CodesInv'
<1> DEFINE d == requests[r].doc
<1>1. d \in Otps /\ Sent(d, otps)
  BY DEF CodesInv, RequestsHold, Holds, DeleteExpired
<1>2. /\ CodesStay /\ otps' \in [Otps -> OtpDocuments]
      /\ \A e \in Otps : otps'[e] = NoOtp \/ Sent(e, otps')
  BY <1>1, DeleteOK DEF DeleteExpired
<1>3. QED
  BY <1>2, RequestMoves, IdleOK, PhoneTypes DEF CodesInv, DeleteExpired, Ends

\* A code that is accepted is deleted in the same step, and the request that
\* goes on has had it accepted for its account (otp.service.ts:46).
LEMMA AcceptKeeps ==
  ASSUME PhonesAssumption, CodesInv, NEW r \in Requests, DeleteAccepted(r)
  PROVE  CodesInv'
<1> DEFINE d == requests[r].doc
           a == [doc |-> d, user |-> requests[r].user]
           q == [requests[r] EXCEPT !.at = "check"]
<1>1. /\ requests[r] \in RequestForms /\ requests[r].at = "valid"
      /\ Holds(requests[r], otps, accepted)
  BY PhoneTypes DEF CodesInv, RequestsHold, DeleteAccepted
<1>2. /\ d \in Otps /\ Sent(d, otps)
      /\ otps[d].phoneNumber = requests[r].phoneNumber
      /\ requests[r].phoneNumber \in Numbers
  BY <1>1 DEF Holds
<1>3. a \in [doc : Otps, user : Users \cup {Nil}] /\ accepted' = accepted \cup {a}
  BY <1>1, <1>2 DEF RequestForms, DeleteAccepted
<1>4. /\ CodesStay /\ otps' \in [Otps -> OtpDocuments] /\ ~otps'[d].stored
      /\ \A e \in Otps : otps'[e] = NoOtp \/ Sent(e, otps')
  BY <1>2, <1>3, DeleteOK DEF DeleteAccepted
<1>5. Sent(d, otps') /\ otps'[d].phoneNumber = requests[r].phoneNumber
  BY <1>2, <1>4 DEF CodesStay
<1>6. ASSUME NEW p \in RequestForms, requests' = [requests EXCEPT ![r] = p],
             Holds(p, otps', accepted')
      PROVE  CodesInv'
  BY <1>3, <1>4, <1>5, <1>6, RequestMoves, PhoneTypes DEF CodesInv, DeleteAccepted
<1>7. CASE requests[r].login
  BY <1>6, <1>7, IdleOK DEF DeleteAccepted, Ends
<1>8. CASE ~requests[r].login
  <2>1. /\ q \in RequestForms /\ q.at = "check"
        /\ q.user = requests[r].user /\ q.phoneNumber = requests[r].phoneNumber
    <3>1. requests[r] \in RequestForms
      BY <1>1
    <3>2. QED
      BY <3>1 DEF RequestForms
  <2>2. AcceptedFor(q.user, q.phoneNumber, otps', accepted')
    <3>1. a \in accepted' /\ a.user = q.user /\ otps'[a.doc].phoneNumber = q.phoneNumber
      BY <1>3, <1>5, <2>1
    <3>2. QED
      BY <3>1 DEF AcceptedFor
  <2>3. Holds(q, otps', accepted')
    BY <1>1, <1>2, <1>8, <2>1, <2>2 DEF Holds
  <2>4. QED
    BY <1>6, <1>8, <2>1, <2>3 DEF DeleteAccepted, Goes
<1>9. QED
  BY <1>7, <1>8

\* The number is looked up once more before it is set.
LEMMA CheckKeeps ==
  ASSUME CodesInv, NEW r \in Requests, CheckOwner(r)
  PROVE  CodesInv'
<1> DEFINE q == [requests[r] EXCEPT !.at = "set"]
<1>1. /\ requests[r] \in RequestForms /\ requests[r].at = "check"
      /\ Holds(requests[r], otps, accepted)
  BY PhoneTypes DEF CodesInv, RequestsHold, CheckOwner
<1>2. q \in RequestForms /\ Holds(q, otps, accepted)
  BY <1>1 DEF RequestForms, Holds
<1>3. QED
  BY <1>2, RequestGoesOn DEF CheckOwner, Goes

\* The unique index decides who gets the number (user.schema.ts:18-22).
LEMMA SetKeeps ==
  ASSUME PhonesAssumption, CodesInv, NEW r \in Requests, SetVerifiedPhoneNumber(r)
  PROVE  CodesInv'
<1> DEFINE u == requests[r].user
           n == requests[r].phoneNumber
<1>1. /\ u \in Users /\ n \in Numbers /\ AcceptedFor(u, n, otps, accepted)
      /\ UNCHANGED <<otps, texts, accepted, clock>>
  BY DEF CodesInv, RequestsHold, Holds, SetVerifiedPhoneNumber
<1>2. /\ phones' \in [Users -> Numbers \cup {Nil}] /\ phones'[u] = n
      /\ \A v \in Users \ {u} : phones'[v] = phones[v] /\ phones[v] # n
  BY <1>1, PhoneTypes DEF CodesInv, SetVerifiedPhoneNumber, Owners
<1>3. requests' \in [Requests -> RequestForms]
      /\ \A s \in Requests : requests'[s] \in {requests[s], NoRequest}
  BY IdleOK, PhoneTypes DEF CodesInv, SetVerifiedPhoneNumber, Ends
<1>4. TypeOK'
  BY <1>1, <1>2, <1>3 DEF CodesInv, TypeOK, RequestForms
<1>5. RequestsHold'
  <2>1. \A s \in Requests : Holds(requests'[s], otps, accepted)
    BY <1>3, IdleOK DEF CodesInv, RequestsHold
  <2>2. QED
    BY <1>1, <2>1 DEF RequestsHold
<1>6. OnePhoneOwner'
  BY <1>2 DEF CodesInv, OnePhoneOwner
<1>7. EnrolledByItsCode'
  BY <1>1, <1>2 DEF CodesInv, EnrolledByItsCode, AcceptedFor
<1>8. CodesSent' /\ AcceptedGone'
  BY <1>1 DEF CodesInv, CodesSent, AcceptedGone
<1>9. QED
  BY <1>4, <1>5, <1>6, <1>7, <1>8 DEF CodesInv

\* Every step keeps the invariant.
LEMMA PhonesStep ==
  ASSUME PhonesAssumption, CodesInv, [Next]_phoneVars
  PROVE  CodesInv'
<1>1. CASE Tick \/ UNCHANGED phoneVars
  <2>1. clock' \in 0..MaxTime /\ UNCHANGED <<phones, otps, texts, requests, accepted>>
    BY <1>1, PhoneTypes DEF CodesInv, Tick, phoneVars, PhonesAssumption
  <2>2. QED
    BY <2>1 DEF CodesInv, TypeOK, CodesSent, RequestsHold, AcceptedGone,
                OnePhoneOwner, EnrolledByItsCode
<1>2. ASSUME NEW r \in Requests, DropRequest(r)
      PROVE  CodesInv'
  BY <1>2, RequestGoesOn, IdleOK DEF DropRequest, Ends
<1>3. QED
  BY <1>1, <1>2, BeginKeeps, StoreKeeps, TextKeeps, FindKeeps, ExpiredKeeps,
     AcceptKeeps, CheckKeeps, SetKeeps DEF Next, RequestStep

-----------------------------------------------------------------------------
(* The theorems.                                                           *)

\* The invariant holds of every behaviour.
LEMMA PhonesAlways == PhonesAssumption => (PhonesSpec => []CodesInv)
<1> SUFFICES ASSUME PhonesAssumption
             PROVE  PhonesSpec => []CodesInv
  OBVIOUS
<1>1. Init => CodesInv
  BY PhonesInit
<1>2. CodesInv /\ [Next]_phoneVars => CodesInv'
  BY PhonesStep
<1>3. QED
  BY <1>1, <1>2, PTL DEF PhonesSpec

\* Numbers, codes, texts and requests keep their forms.
THEOREM PhonesTypeCorrect == PhonesAssumption => (PhonesSpec => []TypeOK)
<1>1. CodesInv => TypeOK
  BY DEF CodesInv
<1>2. QED
  BY <1>1, PhonesAlways, PTL

\* Two accounts never have one number, although both may have passed the
\* check (auth.service.ts:236-253, user.schema.ts:18-22).
THEOREM NumbersAreUnique == PhonesAssumption => (PhonesSpec => []OnePhoneOwner)
<1>1. CodesInv => OnePhoneOwner
  BY DEF CodesInv
<1>2. QED
  BY <1>1, PhonesAlways, PTL

\* Nobody gets a number without the code sent to it having been accepted for
\* his own account (auth.service.ts:236-253).
THEOREM NumbersAreProved == PhonesAssumption => (PhonesSpec => []EnrolledByItsCode)
<1>1. CodesInv => EnrolledByItsCode
  BY DEF CodesInv
<1>2. QED
  BY <1>1, PhonesAlways, PTL

\* A code that was accepted is never found again (otp.service.ts:46).
THEOREM AcceptedCodesStayGone ==
  PhonesAssumption => (PhonesSpec => []AcceptedCodesAreGone)
<1>1. CodesInv => AcceptedCodesAreGone
  BY DEF CodesInv, AcceptedGone, AcceptedCodesAreGone
<1>2. QED
  BY <1>1, PhonesAlways, PTL
=============================================================================
