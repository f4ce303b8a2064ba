------------------------------- MODULE Lease -------------------------------
(***************************************************************************)
(* pool.work_lease as lease.rs drives it: one row per workflow with a      *)
(* fence counter, an owner and an expiry time read against the database's  *)
(* clock.  A claimant keeps the token its claim returned until it claims   *)
(* again; it has no other way to learn that its lease lapsed.              *)
(***************************************************************************)
EXTENDS Naturals

CONSTANTS
  Workflows,
  Gateways,
  Duration,   \* lease_secs: how long a claim lasts
  MaxFence,   \* bound on the fence counter of a row
  MaxTime     \* bound on the clock

ASSUME DurationAssumption == Duration \in Nat \ {0}
ASSUME BoundsAssumption == MaxFence \in Nat /\ MaxTime \in Nat

VARIABLES
  fence,      \* fence[w]: work_lease.fence_token, 0 when there is no row
  owner,      \* owner[w]: {} when there is no row, else {lease_owner}
  until,      \* until[w]: work_lease.lease_until
  now,        \* the database's now()
  token       \* token[g][w]: the fence g's last claim returned, 0 for none

vars == <<fence, owner, until, now, token>>

TypeOK ==
  /\ fence \in [Workflows -> Nat]
  /\ owner \in [Workflows -> SUBSET Gateways]
  /\ until \in [Workflows -> Nat]
  /\ now \in Nat
  /\ token \in [Gateways -> [Workflows -> Nat]]

Init ==
  /\ fence = [w \in Workflows |-> 0]
  /\ owner = [w \in Workflows |-> {}]
  /\ until = [w \in Workflows |-> 0]
  /\ now = 0
  /\ token = [g \in Gateways |-> [w \in Workflows |-> 0]]

\* Mutant: a change of owner leaves the fence where it was.
ClaimKeepsFence(g, w) ==
  /\ fence[w] < MaxFence
  /\ until[w] <= now \/ owner[w] = {g}
  /\ fence' = [fence EXCEPT ![w] = IF @ = 0 THEN 1 ELSE @]
  /\ owner' = [owner EXCEPT ![w] = {g}]
  /\ until' = [until EXCEPT ![w] = now + Duration]
  /\ token' = [token EXCEPT ![g][w] = fence'[w]]
  /\ UNCHANGED now

\* Mutant: the upsert has no WHERE clause, so a live lease can be taken.
ClaimIgnoresHolder(g, w) ==
  /\ fence[w] < MaxFence
  /\ fence' = [fence EXCEPT ![w] = @ + 1]
  /\ owner' = [owner EXCEPT ![w] = {g}]
  /\ until' = [until EXCEPT ![w] = now + Duration]
  /\ token' = [token EXCEPT ![g][w] = fence[w] + 1]
  /\ UNCHANGED now

(* claim: one upsert.  The first claim inserts the row at fence 1; a later *)
(* one advances the fence, and is declined while another owner's lease is  *)
(* live.  A claimant re-enters its own lease.                              *)
ClaimLease(g, w) ==
  /\ fence[w] < MaxFence
  /\ until[w] <= now \/ owner[w] = {g}
  /\ fence' = [fence EXCEPT ![w] = @ + 1]
  /\ owner' = [owner EXCEPT ![w] = {g}]
  /\ until' = [until EXCEPT ![w] = now + Duration]
  /\ token' = [token EXCEPT ![g][w] = fence[w] + 1]
  /\ UNCHANGED now

(* require_fence succeeds: the row exists and still carries g's token.     *)
RequireFence(g, w) == token[g][w] # 0 /\ token[g][w] = fence[w]

(* release: keyed on the presented token, and advances the fence so that   *)
(* nothing the released holder still has in hand can commit.               *)
ReleaseLease(g, w) ==
  /\ fence[w] < MaxFence
  /\ RequireFence(g, w)
  /\ fence' = [fence EXCEPT ![w] = @ + 1]
  /\ until' = [until EXCEPT ![w] = now]
  /\ UNCHANGED <<owner, now, token>>

(* The clock advances; any number of leases may lapse at once.             *)
Tick ==
  /\ now < MaxTime
  /\ now' = now + 1
  /\ UNCHANGED <<fence, owner, until, token>>

Next ==
  \/ \E g \in Gateways, w \in Workflows : ClaimLease(g, w) \/ ReleaseLease(g, w)
  \/ Tick

Spec == Init /\ [][Next]_vars

(***************************************************************************)
(* Properties                                                              *)
(***************************************************************************)

(* No token runs ahead of its row, and no two claimants hold the same      *)
(* token: the reason a stale holder's fence can never come back to match.  *)
TokensBehindFence ==
  \A g \in Gateways, w \in Workflows : token[g][w] <= fence[w]

TokensDistinct ==
  \A g, h \in Gateways, w \in Workflows :
    token[g][w] # 0 /\ token[g][w] = token[h][w] => g = h

(* The row's fence was handed to whoever the row names as owner.           *)
FenceBelongsToOwner ==
  \A g \in Gateways, w \in Workflows : RequireFence(g, w) => owner[w] = {g}

(* A released or lapsed lease is the only kind whose live owner lacks the  *)
(* current token.                                                          *)
LiveOwnerHasFence ==
  \A g \in Gateways, w \in Workflows :
    until[w] > now /\ owner[w] = {g} => RequireFence(g, w)

Inv ==
  TokensBehindFence /\ TokensDistinct /\ FenceBelongsToOwner /\ LiveOwnerHasFence

(* The counter implements the abstract lease: every claim, release and     *)
(* lapse of the row is one of FencedLease, with "current" the claimants    *)
(* require_fence would let through and "held" the owner of a live lease.   *)
currentBar == [w \in Workflows |-> {g \in Gateways : RequireFence(g, w)}]
heldBar == [w \in Workflows |-> IF until[w] > now THEN owner[w] ELSE {}]

Abstract == INSTANCE FencedLease WITH current <- currentBar, held <- heldBar

ImplementsFencedLease == Abstract!LeaseSpec

=============================================================================
