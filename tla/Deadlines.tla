----------------------------- MODULE Deadlines -----------------------------
(***************************************************************************)
(* The guardrails of deadlines.rs: which configurations load, and where a  *)
(* workflow that started at one block stands at another.  Heights come     *)
(* from TIG and are signed; ages are u32 and saturate.                     *)
(***************************************************************************)
EXTENDS Integers

CONSTANTS
  U32Max,       \* the largest u32
  Heights       \* the block heights, a set of integers

ASSUME WidthAssumption == U32Max \in Nat \ {0}
ASSUME HeightsAssumption == Heights \subseteq Int /\ Heights # {}

U32 == 0..U32Max

Guardrails ==
  [max_assignment_age : U32, package_due_age : U32, workflow_expiry_age : U32,
   proof_reserve : U32]

(* from_config_json: all positive, package due plus reserve (checked_add)  *)
(* exactly the expiry age, and assignment before the package is due.       *)
Loads(g) ==
  /\ \A f \in DOMAIN g : g[f] > 0
  /\ g.package_due_age + g.proof_reserve <= U32Max
  /\ g.package_due_age + g.proof_reserve = g.workflow_expiry_age
  /\ g.max_assignment_age < g.package_due_age

(* A block behind the start is age zero; an age beyond u32 is the largest. *)
Age(started, current) ==
  CASE current - started < 0 -> 0
    [] current - started > U32Max -> U32Max
    [] OTHER -> current - started

Ladder == <<"Assignable", "RunningOut", "InProofReserve", "Expired">>

(* How far down the ladder a workflow is: Ladder[Rung].                    *)
Rung(g, started, current) ==
  LET age == Age(started, current) IN
  IF age >= g.workflow_expiry_age THEN 4
  ELSE IF age >= g.package_due_age THEN 3
  ELSE IF age >= g.max_assignment_age THEN 2
  ELSE 1

Standing(g, started, current) == Ladder[Rung(g, started, current)]

(* u32::saturating_sub *)
SaturatingSub(a, b) == IF a > b THEN a - b ELSE 0

UntilPackageDue(g, started, current) ==
  SaturatingSub(g.package_due_age, Age(started, current))

UntilExpiry(g, started, current) ==
  SaturatingSub(g.workflow_expiry_age, Age(started, current))

MayAssign(g, started, current) == Standing(g, started, current) = "Assignable"

=============================================================================
