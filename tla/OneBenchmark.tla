---------------------------- MODULE OneBenchmark ----------------------------
(***************************************************************************)
(* What the precommit write path promises, whatever crashes, stalls and    *)
(* lost answers lie between (tig_integration.md 10, architecture.md 13):   *)
(* a workflow causes at most one benchmark at TIG, for ever, and the       *)
(* benchmark it is bound to is the one it caused.                          *)
(***************************************************************************)
CONSTANTS Workflows, Benchmarks

VARIABLES
  caused,   \* caused[w]: the benchmarks TIG created for workflow w
  owned     \* owned[w]: the benchmark the pool attributes to w, if any

promiseVars == <<caused, owned>>

PromiseInit ==
  /\ caused = [w \in Workflows |-> {}]
  /\ owned = [w \in Workflows |-> {}]

Cause(w, b) ==
  /\ caused[w] = {}
  /\ \A v \in Workflows : b \notin caused[v]
  /\ caused' = [caused EXCEPT ![w] = {b}]
  /\ UNCHANGED owned

Attribute(w) ==
  /\ owned[w] = {} /\ caused[w] # {}
  /\ owned' = [owned EXCEPT ![w] = caused[w]]
  /\ UNCHANGED caused

PromiseNext ==
  \E w \in Workflows : Attribute(w) \/ \E b \in Benchmarks : Cause(w, b)

Promise == PromiseInit /\ [][PromiseNext]_promiseVars

=============================================================================
