---------------------------- MODULE MCLifecycle ----------------------------
(* Lifecycle for TLC.                                                      *)
EXTENDS Lifecycle, TLC

MCHeights == 0..MaxHeight

MCGuards == [max_assignment_age |-> 1, package_due_age |-> 2,
             workflow_expiry_age |-> 3, proof_reserve |-> 1]

(* The bounds of a behaviour.  Each shape has room for one of the cases: a *)
(* long chain, a fault, a second workflow, or a second controller.         *)
VARIABLE shape

AWorkflow == CHOOSE w \in Workflows : TRUE

Shapes ==
  {[workflows |-> {AWorkflow}, controllers |-> {c}, height |-> MaxHeight, faults |-> 0] :
     c \in Controllers}
  \union
  {[workflows |-> {AWorkflow}, controllers |-> {c}, height |-> 5, faults |-> MaxFaults] :
     c \in Controllers}
  \union
  {[workflows |-> Workflows, controllers |-> {c}, height |-> 4, faults |-> 0] :
     c \in Controllers}
  \union
  {[workflows |-> {AWorkflow}, controllers |-> Controllers, height |-> 4, faults |-> 0]}

Within(s) ==
  /\ \A w \in Workflows \ s.workflows : ~Exists(w)
  /\ \A c \in Controllers \ s.controllers : ctl[c] = NoPass(0)
  /\ height <= s.height /\ faults <= s.faults

MCInit == Init /\ shape \in Shapes

MCNext == Next /\ UNCHANGED shape /\ Within(shape)'

MCSpec == MCInit /\ [][MCNext]_<<vars, shape>>

Symmetry == Permutations(Controllers)

=============================================================================
