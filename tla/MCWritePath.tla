---------------------------- MODULE MCWritePath ----------------------------
(* WritePath for TLC.                                                      *)
EXTENDS WritePath, TLC

(* Every generation of a workflow is decided at a block of its own.        *)
MCTuple == [i \in Intents |-> i]

(* The bounds of a behaviour.  Each shape has room for one of the cases: a *)
(* fault and a second sender, a second generation, or a second workflow.   *)
VARIABLE shape

AWorkflow == CHOOSE w \in Workflows : TRUE

Shapes ==
  {[workflows |-> {AWorkflow}, gateways |-> Gateways, generations |-> 1,
    sends |-> MaxSends, faults |-> MaxFaults, ends |-> TRUE]}
  \union
  {[workflows |-> {AWorkflow}, gateways |-> {g}, generations |-> MaxGeneration,
    sends |-> 1, faults |-> 0, ends |-> TRUE] : g \in Gateways}
  \union
  {[workflows |-> Workflows, gateways |-> {g}, generations |-> 1,
    sends |-> 1, faults |-> 0, ends |-> FALSE] : g \in Gateways}

Within(s) ==
  /\ faults <= s.faults
  /\ \A w \in Workflows \ s.workflows : state[w] = "NONE"
  /\ s.ends \/ (/\ \A w \in Workflows : ~Terminal(state[w])
                /\ \A a \in Attempts : tig[a] # "past")
  /\ \A i \in Intents : i[2] > s.generations => intent[i] = "NONE"
  /\ \A a \in Attempts : a[3] > s.sends => outcome[a] = "NONE"
  /\ \A g \in Gateways \ s.gateways : gw[g] = IdleState

MCInit == Init /\ shape \in Shapes

MCNext == Next /\ UNCHANGED shape /\ Within(shape)'

MCSpec == MCInit /\ [][MCNext]_<<vars, shape>>

(* Every shape without its bounds, under WritePath's fairness.             *)
MCFairSpec == MCInit /\ [][Next /\ UNCHANGED shape]_<<vars, shape>> /\ Fairness

Symmetry == Permutations(Gateways)

=============================================================================
