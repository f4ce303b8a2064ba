---------------------------- MODULE MCIngestion -----------------------------
(* Ingestion for TLC.                                                      *)
EXTENDS Ingestion, TLC

(* The active set grows with the chain; a block that was skipped leaves    *)
(* more to read than one budget.                                           *)
MCActiveIds == [h \in 1..MaxHeight |-> 1..(h - 1)]

(* The bounds of a behaviour: a long chain with faults, or a second        *)
(* controller.                                                             *)
VARIABLE shape

Shapes ==
  {[controllers |-> {c}, height |-> MaxHeight, faults |-> MaxFaults] : c \in Controllers}
  \union {[controllers |-> Controllers, height |-> 2, faults |-> 0]}

Within(s) ==
  /\ \A c \in Controllers \ s.controllers : ctl[c] = Fresh
  /\ head <= s.height /\ faults <= s.faults

MCInit == Init /\ shape \in Shapes

MCNext == Next /\ UNCHANGED shape /\ Within(shape)'

MCSpec == MCInit /\ [][MCNext]_<<vars, shape>>

Alone == \E c \in Controllers : shape.controllers = {c}

(* A lone controller admits at most one decision per block, across         *)
(* restarts, failed ticks and warm-ups (service.rs tick, decide.rs).       *)
DecidesOncePerBlock == Alone => OncePerBlock

(* A lone controller's record of missed heights is exact: it has every     *)
(* height passed over between two observed blocks, and none that was       *)
(* observed, before or after (restart.rs record_block_gap).                *)
GapRecordIsExact == Alone => MissedAreRecorded /\ GapsAreTrue

(* A lone controller admits nothing at a block whose reconciliation        *)
(* forbids claiming (service.rs Seen.blocks_claiming).                     *)
BlockedNeverDecides == [][Alone => AdmitsUnblocked]_vars

Symmetry == Permutations(Controllers)

=============================================================================
