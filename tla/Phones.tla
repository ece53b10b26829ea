------------------------------- MODULE Phones -------------------------------
(***************************************************************************)
(* Telephone numbers and one-time codes: OtpService (otp.service.ts), the  *)
(* four code handlers of AuthService (auth.service.ts:198-253) and         *)
(* setVerifiedPhoneNumber.  One collection holds the codes for logging in  *)
(* and for enrolling a number; a handler makes up to four database calls,  *)
(* and other handlers may run between any two of them.                     *)
(***************************************************************************)
EXTENDS Naturals

CONSTANTS
  Users,     \* accounts; they all exist and are active
  Numbers,   \* telephone numbers
  Codes,     \* six-digit codes
  Otps,      \* documents of the otps collection (those to come too)
  Requests,  \* requests between two awaits at the same time
  Lifetime,  \* how long a code is good for
  MaxTime,   \* bound of the clock
  Nil

PhonesAssumption ==
  /\ Lifetime \in Nat
  /\ MaxTime \in Nat
  /\ Nil \notin Users \cup Numbers \cup Codes \cup Otps

VARIABLES
  phones,    \* phoneNumber of the users; phoneVerified goes with it
  otps,      \* the otps collection
  texts,     \* messages handed to Twilio
  requests,  \* requests between two awaits
  accepted,  \* history: codes that were accepted, and for whom
  clock

phoneVars == <<phones, otps, texts, requests, accepted, clock>>

NoOtp == [phoneNumber |-> Nil, otp |-> Nil, expiresAt |-> 0, stored |-> FALSE]

NoRequest ==
  [at |-> "idle", user |-> Nil, phoneNumber |-> Nil, doc |-> Nil,
   login |-> FALSE]

TypeOK ==
  /\ phones \in [Users -> Numbers \cup {Nil}]
  /\ otps \in [Otps -> [phoneNumber : Numbers \cup {Nil}, otp : Codes \cup {Nil},
                        expiresAt : Nat, stored : BOOLEAN]]
  /\ texts \subseteq [to : Numbers, otp : Codes, body : {"sms_2fa"}]
  /\ requests \in [Requests ->
       [at : {"idle", "store", "text", "find", "expired", "valid", "check", "set"},
        user : Users \cup {Nil}, phoneNumber : Numbers \cup {Nil},
        doc : Otps \cup {Nil}, login : BOOLEAN]]
  /\ accepted \subseteq [doc : Otps, user : Users \cup {Nil}]
  /\ clock \in 0..MaxTime

Init ==
  /\ phones = [u \in Users |-> Nil]
  /\ otps = [d \in Otps |-> NoOtp]
  /\ texts = {}
  /\ requests = [r \in Requests |-> NoRequest]
  /\ accepted = {}
  /\ clock = 0

Owners(n) == {u \in Users : phones[u] = n}

Begins(r, request) ==
  /\ requests[r] = NoRequest
  /\ requests' = [requests EXCEPT ![r] = request]
  /\ UNCHANGED <<phones, otps, texts, accepted, clock>>

Goes(r, at) == requests' = [requests EXCEPT ![r].at = at]
Ends(r) == requests' = [requests EXCEPT ![r] = NoRequest]

-----------------------------------------------------------------------------
(* Sending a code.                                                         *)

SendLoginOtp(r, n) ==
  /\ Owners(n) # {}
  /\ Begins(r, [NoRequest EXCEPT !.at = "store", !.phoneNumber = n])

SendPhoneEnrollmentOtp(r, u, n) ==
  /\ Owners(n) \subseteq {u}
  /\ Begins(r, [NoRequest EXCEPT !.at = "store", !.phoneNumber = n])

\* A new document, whatever codes the number already has.
StoreOtp(r, d, c) ==
  /\ requests[r].at = "store"
  /\ otps[d] = NoOtp
  /\ otps' = [otps EXCEPT ![d] =
       [phoneNumber |-> requests[r].phoneNumber, otp |-> c,
        expiresAt |-> clock + Lifetime, stored |-> TRUE]]
  /\ requests' = [requests EXCEPT ![r].at = "text", ![r].doc = d]
  /\ UNCHANGED <<phones, texts, accepted, clock>>

\* TwilioVerifyService.sendOtp composes a message with the code and sends
\* the text "sms_2fa".
TextOtp(r) ==
  LET d == requests[r].doc
  IN  /\ requests[r].at = "text"
      /\ texts' = texts \cup
           {[to |-> requests[r].phoneNumber, otp |-> otps[d].otp, body |-> "sms_2fa"]}
      /\ Ends(r)
      /\ UNCHANGED <<phones, otps, accepted, clock>>

-----------------------------------------------------------------------------
(* Checking a code: validateOtp between what the two handlers do.          *)

\* The account is looked up by its number before the code is checked.
VerifyLoginOtp(r, n) ==
  \E u \in Owners(n) \cup {Nil} :
    /\ u = Nil => Owners(n) = {}
    /\ Begins(r, [NoRequest EXCEPT !.at = "find", !.user = u,
                                   !.phoneNumber = n, !.login = TRUE])

VerifyPhoneEnrollmentOtp(r, u, n) ==
  Begins(r, [NoRequest EXCEPT !.at = "find", !.user = u, !.phoneNumber = n])

\* Faulty: the code is looked up without the number it was sent to.
FindOtp_AnyNumber(r, d) ==
  /\ requests[r].at = "find"
  /\ otps[d].stored
  /\ requests' = [requests EXCEPT
       ![r].at = IF otps[d].expiresAt < clock THEN "expired" ELSE "valid",
       ![r].doc = d]
  /\ UNCHANGED <<phones, otps, texts, accepted, clock>>

\* Some document with the number and the code the customer typed; without
\* one the request fails (DropRequest).
FindOtp(r, d) ==
  /\ requests[r].at = "find"
  /\ otps[d].stored
  /\ otps[d].phoneNumber = requests[r].phoneNumber
  /\ requests' = [requests EXCEPT
       ![r].at = IF otps[d].expiresAt < clock THEN "expired" ELSE "valid",
       ![r].doc = d]
  /\ UNCHANGED <<phones, otps, texts, accepted, clock>>

DeleteExpired(r) ==
  /\ requests[r].at = "expired"
  /\ otps' = [otps EXCEPT ![requests[r].doc].stored = FALSE]
  /\ Ends(r)
  /\ UNCHANGED <<phones, texts, accepted, clock>>

\* Faulty: the code stays when it was right.
DeleteAccepted_Kept(r) ==
  /\ requests[r].at = "valid"
  /\ accepted' = accepted \cup {[doc |-> requests[r].doc, user |-> requests[r].user]}
  /\ IF requests[r].login THEN Ends(r) ELSE Goes(r, "check")
  /\ UNCHANGED <<phones, otps, texts, clock>>

\* The code is accepted even if another request has just deleted it.  A login
\* goes on as Login of module Accounts.
DeleteAccepted(r) ==
  /\ requests[r].at = "valid"
  /\ otps' = [otps EXCEPT ![requests[r].doc].stored = FALSE]
  /\ accepted' = accepted \cup {[doc |-> requests[r].doc, user |-> requests[r].user]}
  /\ IF requests[r].login THEN Ends(r) ELSE Goes(r, "check")
  /\ UNCHANGED <<phones, texts, clock>>

CheckOwner(r) ==
  /\ requests[r].at = "check"
  /\ Owners(requests[r].phoneNumber) \subseteq {requests[r].user}
  /\ Goes(r, "set")
  /\ UNCHANGED <<phones, otps, texts, accepted, clock>>

\* Faulty: phoneNumber has no unique index.
SetVerifiedPhoneNumber_NoIndex(r) ==
  /\ requests[r].at = "set"
  /\ phones' = [phones EXCEPT ![requests[r].user] = requests[r].phoneNumber]
  /\ Ends(r)
  /\ UNCHANGED <<otps, texts, accepted, clock>>

\* The sparse unique index refuses a number that was taken since CheckOwner.
SetVerifiedPhoneNumber(r) ==
  /\ requests[r].at = "set"
  /\ Owners(requests[r].phoneNumber) \subseteq {requests[r].user}
  /\ phones' = [phones EXCEPT ![requests[r].user] = requests[r].phoneNumber]
  /\ Ends(r)
  /\ UNCHANGED <<otps, texts, accepted, clock>>

-----------------------------------------------------------------------------
\* A check or a call fails, or the process dies: what was written stays.
DropRequest(r) ==
  /\ requests[r] # NoRequest
  /\ Ends(r)
  /\ UNCHANGED <<phones, otps, texts, accepted, clock>>

Tick ==
  /\ clock < MaxTime
  /\ clock' = clock + 1
  /\ UNCHANGED <<phones, otps, texts, requests, accepted>>

RequestStep(r) ==
  \/ \E n \in Numbers : SendLoginOtp(r, n) \/ VerifyLoginOtp(r, n)
  \/ \E u \in Users, n \in Numbers :
       SendPhoneEnrollmentOtp(r, u, n) \/ VerifyPhoneEnrollmentOtp(r, u, n)
  \/ \E d \in Otps, c \in Codes : StoreOtp(r, d, c)
  \/ TextOtp(r)
  \/ \E d \in Otps : FindOtp(r, d)
  \/ DeleteExpired(r)
  \/ DeleteAccepted(r)
  \/ CheckOwner(r)
  \/ SetVerifiedPhoneNumber(r)
  \/ DropRequest(r)

Next == Tick \/ \E r \in Requests : RequestStep(r)

PhonesSpec == Init /\ [][Next]_phoneVars

-----------------------------------------------------------------------------
(* Properties.                                                             *)

\* "This phone number is already in use" (auth.service.ts:244): two accounts
\* never have the same number, although both may have passed the check
\* (user.schema.ts:18-22).
OnePhoneOwner ==
  \A u, v \in Users : phones[u] = phones[v] /\ phones[u] # Nil => u = v

\* An account's number is one whose code was accepted for this account
\* (auth.service.ts:237-247), never for another number or account.
EnrolledByItsCode ==
  \A u \in Users : phones[u] # Nil =>
    \E a \in accepted : a.user = u /\ otps[a.doc].phoneNumber = phones[u]

\* "Delete OTP after successful validation" (otp.service.ts:46): once a code
\* has been accepted no later request finds it, even when another request
\* was checking or deleting it at the same time.
AcceptedCodesAreGone == \A a \in accepted : ~otps[a.doc].stored

=============================================================================
