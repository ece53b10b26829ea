----------------------------- MODULE Addresses -----------------------------
(***************************************************************************)
(* One customer's delivery addresses: AddressesService                     *)
(* (addresses.service.ts).  Making an address the default takes two        *)
(* writes, one that takes the mark from the others and one that sets it,   *)
(* and another request may write in between.                               *)
(***************************************************************************)
EXTENDS Naturals

CONSTANTS
  Addrs,     \* address documents of the customer (those to come too)
  Requests,  \* requests between two writes at the same time
  Nil

AddressesAssumption == Nil \notin Addrs

VARIABLES
  addresses,  \* "none" for a document that does not exist, else its mark
  requests    \* requests that have unset the others and are to write

addressVars == <<addresses, requests>>

\* `disturbed` is history: another request has made a default meanwhile.
NoRequest == [at |-> "idle", addr |-> Nil, disturbed |-> FALSE]

TypeOK ==
  /\ addresses \in [Addrs -> {"none", "plain", "default"}]
  /\ requests \in [Requests ->
       [at : {"idle", "create", "update"}, addr : Addrs \cup {Nil},
        disturbed : BOOLEAN]]

Init ==
  /\ addresses = [a \in Addrs |-> "none"]
  /\ requests = [r \in Requests |-> NoRequest]

Stored == {a \in Addrs : addresses[a] # "none"}
Defaults == {a \in Addrs : addresses[a] = "default"}

\* updateMany: every document of `others` loses the mark.
Unmarked(others) ==
  [a \in Addrs |-> IF a \in others \cap Stored THEN "plain" ELSE addresses[a]]

-----------------------------------------------------------------------------
(* Requests with isDefault: two writes.                                    *)

Unset(r, at, a, others) ==
  /\ requests[r] = NoRequest
  /\ addresses' = Unmarked(others)
  /\ requests' = [requests EXCEPT ![r] =
       [at |-> at, addr |-> a, disturbed |-> FALSE]]

UnsetForCreate(r) == Unset(r, "create", Nil, Addrs)

\* Faulty: the others keep the mark.
UnsetForUpdate_None(r, a) == Unset(r, "update", a, {})

\* The address need not exist, nor be the customer's.
UnsetForUpdate(r, a) == Unset(r, "update", a, Addrs \ {a})

WriteDefault(r, a) ==
  /\ addresses' = [addresses EXCEPT ![a] = "default"]
  /\ requests' = [s \in Requests |->
       IF s = r \/ requests[s] = NoRequest THEN NoRequest
       ELSE [requests[s] EXCEPT !.disturbed = TRUE]]

CreateDefault(r, a) ==
  /\ requests[r].at = "create"
  /\ a \notin Stored
  /\ WriteDefault(r, a)

\* An address that is not there, or no longer, ends the request
\* (DropRequest) with the others unset.
UpdateDefault(r, a) ==
  /\ requests[r].at = "update"
  /\ requests[r].addr = a
  /\ a \in Stored
  /\ WriteDefault(r, a)

-----------------------------------------------------------------------------
(* Other requests: one write.                                              *)

Create(a) ==
  /\ a \notin Stored
  /\ addresses' = [addresses EXCEPT ![a] = "plain"]
  /\ UNCHANGED requests

\* With isDefault: false; an update without isDefault leaves the mark alone.
Update(a) ==
  /\ a \in Stored
  /\ addresses' = [addresses EXCEPT ![a] = "plain"]
  /\ UNCHANGED requests

Remove(a) ==
  /\ a \in Stored
  /\ addresses' = [addresses EXCEPT ![a] = "none"]
  /\ UNCHANGED requests

DropRequest(r) ==
  /\ requests[r] # NoRequest
  /\ requests' = [requests EXCEPT ![r] = NoRequest]
  /\ UNCHANGED addresses

Next ==
  \/ \E r \in Requests : UnsetForCreate(r) \/ DropRequest(r)
  \/ \E r \in Requests, a \in Addrs :
       UnsetForUpdate(r, a) \/ CreateDefault(r, a) \/ UpdateDefault(r, a)
  \/ \E a \in Addrs : Create(a) \/ Update(a) \/ Remove(a)

AddressesSpec == Init /\ [][Next]_addressVars

-----------------------------------------------------------------------------
(* Properties.                                                             *)

\* A request that makes an address the default, while no other one does,
\* leaves the customer with this default and no other, whatever overlapping
\* requests left behind before (addresses.service.ts:26-27, 31-32).
OneDefaultWhenAlone ==
  [][\A r \in Requests, a \in Addrs :
       /\ requests[r] # NoRequest /\ ~requests[r].disturbed
       /\ CreateDefault(r, a) \/ UpdateDefault(r, a)
       => Defaults' = {a}]_addressVars
=============================================================================
