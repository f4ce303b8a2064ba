---------------------------- MODULE LeaseProofs ----------------------------
(***************************************************************************)
(* Proofs about Lease, for any workflows, claimants, lease duration and    *)
(* bounds.  Inv is inductive together with TypeOK: a token handed out by a *)
(* claim is one more than the fence, and so more than every older token.   *)
(***************************************************************************)
EXTENDS Lease, TLAPS

(* The rows and the tokens keep their types.                               *)
LEMMA LeaseTypeStep == TypeOK /\ [Next]_vars => TypeOK'
<1> SUFFICES ASSUME TypeOK, [Next]_vars PROVE TypeOK'
  OBVIOUS
<1> USE DurationAssumption DEF TypeOK
<1>1. ASSUME NEW g \in Gateways, NEW w \in Workflows, ClaimLease(g, w)
      PROVE  TypeOK'
  BY <1>1 DEF ClaimLease
<1>2. ASSUME NEW g \in Gateways, NEW w \in Workflows, ReleaseLease(g, w)
      PROVE  TypeOK'
  BY <1>2 DEF ReleaseLease
<1>3. CASE Tick
  BY <1>3 DEF Tick
<1>4. CASE UNCHANGED vars
  BY <1>4 DEF vars
<1> QED
  BY <1>1, <1>2, <1>3, <1>4 DEF Next

(* Every claim, release and tick of lease.rs keeps tokens behind their     *)
(* row's fence, apart from each other and with the owner the row names.    *)
LEMMA LeaseInvStep == TypeOK /\ Inv /\ [Next]_vars => Inv'
<1> SUFFICES ASSUME TypeOK, Inv, [Next]_vars PROVE Inv'
  OBVIOUS
<1> USE DurationAssumption
    DEF TypeOK, Inv, TokensBehindFence, TokensDistinct, FenceBelongsToOwner,
        LiveOwnerHasFence, RequireFence
<1>1. ASSUME NEW g \in Gateways, NEW w \in Workflows, ClaimLease(g, w)
      PROVE  Inv'
  <2> USE <1>1 DEF ClaimLease
  <2>1. \A h \in Gateways, v \in Workflows :
          token'[h][v] = IF h = g /\ v = w THEN fence[w] + 1 ELSE token[h][v]
    OBVIOUS
  <2>2. TokensBehindFence'
    BY <2>1
  <2>3. TokensDistinct'
    BY <2>1
  <2>4. FenceBelongsToOwner'
    BY <2>1
  <2>5. LiveOwnerHasFence'
    <3> SUFFICES ASSUME NEW h \in Gateways, NEW v \in Workflows,
                        until'[v] > now', owner'[v] = {h}
                 PROVE  token'[h][v] # 0 /\ token'[h][v] = fence'[v]
      <4> HIDE <1>1 DEF ClaimLease, TypeOK, Inv, TokensBehindFence, TokensDistinct,
                        FenceBelongsToOwner
      <4> QED
        BY Zenon
    <3>1. CASE v = w
      <4>1. h = g
        BY Zenon, <3>1
      <4> QED
        BY <2>1, <3>1, <4>1
    <3>2. CASE v # w
      BY <2>1, <3>2
    <3> QED
      BY <3>1, <3>2
  <2> QED
    BY <2>2, <2>3, <2>4, <2>5
<1>2. ASSUME NEW g \in Gateways, NEW w \in Workflows, ReleaseLease(g, w)
      PROVE  Inv'
  BY <1>2 DEF ReleaseLease
<1>3. CASE Tick
  BY <1>3 DEF Tick
<1>4. CASE UNCHANGED vars
  BY <1>4 DEF vars
<1> QED
  BY Zenon, <1>1, <1>2, <1>3, <1>4 DEF Next

(* work_lease and the claimants' tokens always have their types.           *)
THEOREM LeaseTypeCorrect == Spec => []TypeOK
<1>1. Init => TypeOK
  BY DEF Init, TypeOK
<1> QED
  BY <1>1, LeaseTypeStep, PTL DEF Spec

(* A stale token never matches its row again: fences only grow, no two     *)
(* claimants share one, and whoever passes require_fence is the row's      *)
(* owner.                                                                  *)
THEOREM LeaseSafe == Spec => []Inv
<1>1. Init => Inv
  BY DEF Init, Inv, TokensBehindFence, TokensDistinct, FenceBelongsToOwner,
         LiveOwnerHasFence, RequireFence
<1> QED
  BY <1>1, LeaseTypeCorrect, LeaseInvStep, PTL DEF Spec

(* Each step of the row is a claim, a release or a lapse of the abstract   *)
(* lease, or changes nothing there.                                        *)
LEMMA LeaseStepRefines ==
  TypeOK /\ Inv /\ [Next]_vars => [Abstract!LeaseNext]_(Abstract!leaseVars)
<1> SUFFICES ASSUME TypeOK, Inv, [Next]_vars
             PROVE  [Abstract!LeaseNext]_(Abstract!leaseVars)
  OBVIOUS
<1> USE DEF TypeOK, RequireFence, currentBar, heldBar
<1>1. ASSUME NEW g \in Gateways, NEW w \in Workflows, ClaimLease(g, w)
      PROVE  Abstract!Claim(g, w)
  <2> USE <1>1, DurationAssumption DEF ClaimLease
  <2>1. Abstract!Claimable(g, w)
    BY DEF Abstract!Claimable
  <2>2. currentBar' = [currentBar EXCEPT ![w] = {g}]
    <3>1. \A v \in Workflows : v # w => currentBar'[v] = currentBar[v]
      OBVIOUS
    <3>2. currentBar'[w] = {g}
      BY DEF Inv, TokensBehindFence
    <3> QED
      BY Zenon, <3>1, <3>2
  <2>3. heldBar' = [heldBar EXCEPT ![w] = {g}]
    <3>1. \A v \in Workflows : v # w => heldBar'[v] = heldBar[v]
      OBVIOUS
    <3>2. heldBar'[w] = {g}
      OBVIOUS
    <3> QED
      BY Zenon, <3>1, <3>2
  <2> QED
    BY <2>1, <2>2, <2>3 DEF Abstract!Claim
<1>2. ASSUME NEW g \in Gateways, NEW w \in Workflows, ReleaseLease(g, w)
      PROVE  Abstract!Release(g, w)
  <2> USE <1>2 DEF ReleaseLease
  <2>1. Abstract!HasFence(g, w)
    BY DEF Abstract!HasFence
  <2>2. currentBar' = [currentBar EXCEPT ![w] = {}]
    <3>1. \A v \in Workflows : v # w => currentBar'[v] = currentBar[v]
      OBVIOUS
    <3>2. currentBar'[w] = {}
      BY DEF Inv, TokensBehindFence
    <3> QED
      BY Zenon, <3>1, <3>2
  <2>3. heldBar' = [heldBar EXCEPT ![w] = {}]
    <3>1. \A v \in Workflows : v # w => heldBar'[v] = heldBar[v]
      OBVIOUS
    <3>2. heldBar'[w] = {}
      OBVIOUS
    <3> QED
      BY Zenon, <3>1, <3>2
  <2> QED
    BY <2>1, <2>2, <2>3 DEF Abstract!Release
<1>3. ASSUME Tick
      PROVE  Abstract!Lapse({w \in Workflows : until[w] <= now + 1})
  BY <1>3 DEF Tick, Abstract!Lapse
<1>4. CASE UNCHANGED vars
  BY <1>4 DEF vars, Abstract!leaseVars
<1>5. ASSUME Tick PROVE Abstract!LeaseNext
  <2> DEFINE S == {w \in Workflows : until[w] <= now + 1}
  <2>1. S \in SUBSET Workflows
    OBVIOUS
  <2>2. Abstract!Lapse(S)
    BY <1>3, <1>5
  <2> HIDE DEF S
  <2> QED
    BY <2>1, <2>2, Zenon DEF Abstract!LeaseNext, Abstract!Lapse
<1>6. ASSUME NEW g \in Gateways, NEW w \in Workflows,
             ClaimLease(g, w) \/ ReleaseLease(g, w)
      PROVE  Abstract!LeaseNext
  BY <1>1, <1>2, <1>6, Zenon DEF Abstract!LeaseNext
<1> QED
  BY <1>4, <1>5, <1>6, Zenon DEF Next

(* The fence counter implements the abstract lease the write path is built *)
(* on: what module FencedLease says of claims, fence checks and releases   *)
(* is what lease.rs does.                                                  *)
THEOREM LeaseRefines == Spec => ImplementsFencedLease
<1>1. Init => Abstract!LeaseInit
  BY DEF Init, Abstract!LeaseInit, currentBar, heldBar, RequireFence
<1> QED
  BY <1>1, LeaseTypeCorrect, LeaseSafe, LeaseStepRefines, PTL
     DEF Spec, ImplementsFencedLease, Abstract!LeaseSpec

=============================================================================
