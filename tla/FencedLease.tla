---------------------------- MODULE FencedLease ----------------------------
(***************************************************************************)
(* What a lease on a workflow's write lane promises (pool-workflow,        *)
(* lease.rs, architecture.md 7.5): while a claimant's lease is live nobody *)
(* else is given one, and a claimant's token stays current only until the  *)
(* next claim or the next release.                                         *)
(*                                                                         *)
(* The fence counter of pool.work_lease is reduced to the one thing it     *)
(* decides, namely whose token the row still carries.  Module Lease keeps  *)
(* the counter, the owner and the clock, and is shown to implement this    *)
(* module.                                                                 *)
(***************************************************************************)

CONSTANTS
  Workflows,   \* the workflows a lease can be taken on
  Gateways     \* claimants: one element per process start, because the
               \* owner string carries a nonce drawn at startup

VARIABLES
  current,     \* current[w]: the claimants whose token equals the row's fence
  held         \* held[w]: the owner of w's lease while lease_until > now()

leaseVars == <<current, held>>

LeaseTypeOK ==
  /\ current \in [Workflows -> SUBSET Gateways]
  /\ held \in [Workflows -> SUBSET Gateways]

LeaseInit ==
  /\ current = [w \in Workflows |-> {}]
  /\ held = [w \in Workflows |-> {}]

(* The WHERE clause of the claiming upsert: no live lease, or one's own.   *)
Claimable(g, w) == held[w] \subseteq {g}

(* claim: the fence advances, so every token handed out before is stale.   *)
Claim(g, w) ==
  /\ Claimable(g, w)
  /\ current' = [current EXCEPT ![w] = {g}]
  /\ held' = [held EXCEPT ![w] = {g}]

(* require_fence: the test a commit makes in its own transaction.  It does *)
(* not look at the lease's expiry.                                         *)
HasFence(g, w) == g \in current[w]

(* release: an update keyed on the presented token; a stale one matches no *)
(* row and changes nothing.                                                *)
Release(g, w) ==
  IF HasFence(g, w)
  THEN /\ current' = [current EXCEPT ![w] = {}]
       /\ held' = [held EXCEPT ![w] = {}]
  ELSE UNCHANGED leaseVars

(* Time passes and the leases of the workflows in S lapse.  Their tokens   *)
(* stay current until somebody claims.                                     *)
Lapse(S) ==
  /\ held' = [w \in Workflows |-> IF w \in S THEN {} ELSE held[w]]
  /\ UNCHANGED current

LeaseNext ==
  \/ \E g \in Gateways, w \in Workflows : Claim(g, w) \/ Release(g, w)
  \/ \E S \in SUBSET Workflows : Lapse(S)

LeaseSpec == LeaseInit /\ [][LeaseNext]_leaseVars

=============================================================================
