----------------------------- MODULE WritePath -----------------------------
(***************************************************************************)
(* The precommit write path as a whole: any number of gateway processes,   *)
(* the controller's block pass, an operator, TIG and the clock, meeting    *)
(* only in the database's tables and in TIG's window.                      *)
(***************************************************************************)
EXTENDS Gateway, BlockPass

CONSTANT MaxFaults   \* bound on crashes, failed calls and blocked writes

ASSUME FaultsAssumption == MaxFaults \in Nat

VARIABLE faults      \* how many faults have happened

vars == <<ledgerVars, leaseVars, tig, gw, ctl, faults>>

TypeOK ==
  /\ LedgerTypeOK /\ LeaseTypeOK /\ TigTypeOK /\ GatewayTypeOK /\ BlockTypeOK
  /\ faults \in 0..MaxFaults

Init ==
  /\ LedgerInit /\ LeaseInit /\ TigInit /\ GatewayInit /\ BlockInit
  /\ faults = 0

Fault == /\ faults < MaxFaults
         /\ faults' = faults + 1

GatewayActs(g) ==
  /\ \/ GatewayStep(g) /\ UNCHANGED faults
     \/ GatewayFault(g) /\ Fault
  /\ UNCHANGED ctl

ControllerActs ==
  /\ \/ BlockStep /\ UNCHANGED faults
     \/ BlockFault /\ Fault
  /\ UNCHANGED <<leaseVars, gw>>

TigActs(a) == TigMoves(a) /\ UNCHANGED <<ledgerVars, leaseVars, gw, ctl, faults>>

OperatorFails(w) == FailWorkflow(w) /\ UNCHANGED <<leaseVars, tig, gw, ctl, faults>>

(* admit_precommit for a workflow that has a decision already: the changed *)
(* payload it takes a new generation for.  The generations are numbered    *)
(* consecutively.  decide_once never asks for one; the code that follows a *)
(* decision is written for callers that do.                                *)
NewGeneration(w, n) ==
  /\ \A m \in 1..MaxGeneration : intent[<<w, m>>] # "NONE" <=> m < n
  /\ n > 1
  /\ AdmitPrecommit(w, n)
  /\ UNCHANGED <<leaseVars, tig, gw, ctl, faults>>

(* The database clock passes a lease's expiry or an attempt's call timeout.*)
LeaseLapses(w) ==
  /\ held[w] # {}
  /\ Lapse({w})
  /\ UNCHANGED <<ledgerVars, tig, gw, ctl, faults>>

AttemptOutlivesCall(a) ==
  AttemptAges(a) /\ UNCHANGED <<leaseVars, tig, gw, ctl, faults>>

Next ==
  \/ \E g \in Gateways : GatewayActs(g)
  \/ ControllerActs
  \/ \E a \in Attempts : TigActs(a) \/ AttemptOutlivesCall(a)
  \/ \E w \in Workflows :
       \/ OperatorFails(w) \/ LeaseLapses(w)
       \/ \E n \in 1..MaxGeneration : NewGeneration(w, n)

Spec == Init /\ [][Next]_vars

(* Every process is a loop that sleeps and polls, and the clock runs.      *)
(* Nothing is assumed of TIG or of the operator.                           *)
Fairness ==
  /\ \A g \in Gateways : WF_vars(GatewayStep(g) /\ UNCHANGED <<ctl, faults>>)
  /\ WF_vars(BlockStep /\ UNCHANGED <<leaseVars, gw, faults>>)
  /\ \A w \in Workflows : WF_vars(LeaseLapses(w))
  /\ \A a \in Attempts : WF_vars(AttemptOutlivesCall(a))

(***************************************************************************)
(* Safety                                                                  *)
(***************************************************************************)

(* No workflow ever causes two benchmarks at TIG, nor has two requests     *)
(* that may yet do so.  Nothing in the tables says this directly: the lane *)
(* index closes only until an outcome is known, and a superseded           *)
(* generation, a stalled sender and a restarted process each see no        *)
(* attempt of their own (claim.rs decide, attempt.rs begin_fenced).        *)
AtMostOneBenchmark ==
  \A a, b \in Attempts :
    /\ WorkflowOf(a) = WorkflowOf(b)
    /\ Applied(a) \/ tig[a] = "wire"
    /\ Applied(b) \/ tig[b] = "wire"
    => a = b

(* Network-wide, no two requests whose fate is open are ever under way at  *)
(* TIG at the same time, a stalled sender's or a dead one's included: what *)
(* the tuple search needs in order to be conclusive (migration 0004).      *)
OneRequestUnderWay ==
  \A a, b \in Attempts : tig[a] = "wire" /\ tig[b] = "wire" => a = b

(* The ledger tells the truth about TIG.  No row means nothing was sent; a *)
(* refused write was not applied and never will be; an accepted one was,   *)
(* also where a process that never sent anything recorded it from the      *)
(* tuple search (attempt.rs, drive.rs).                                    *)
LedgerIsTrue ==
  \A a \in Attempts :
    /\ outcome[a] = "NONE" => tig[a] = "unsent"
    /\ outcome[a] = "REJECTED" => tig[a] \in {"unsent", "refused"}
    /\ outcome[a] = "ACCEPTED" => Applied(a)

(* A workflow is bound only to a benchmark its own write created and TIG   *)
(* has confirmed (bind.rs, reconcile.rs).                                  *)
BoundToOwnWrite ==
  \A w \in Workflows : \A b \in bound[w] :
    WorkflowOf(b) = w /\ tig[b] \in {"confirmed", "past"}

(* The write path keeps the promise of OneBenchmark.                       *)
causedBar == [w \in Workflows |-> {a \in Attempts : WorkflowOf(a) = w /\ Applied(a)}]

Promised == INSTANCE OneBenchmark
              WITH Benchmarks <- Attempts, caused <- causedBar, owned <- bound

KeepsPromise == Promised!Promise

(***************************************************************************)
(* Why the safety properties hold: with these they are inductive           *)
(***************************************************************************)

(* The lane index: network-wide one attempt at a time is without a         *)
(* definite outcome.                                                       *)
OneUnresolved ==
  \A a, b \in Attempts : Unresolved(a) /\ Unresolved(b) => a = b

(* A workflow has at most one attempt that may have reached TIG.           *)
OneLiveAttempt ==
  \A a, b \in Attempts :
    /\ WorkflowOf(a) = WorkflowOf(b)
    /\ MayHaveReachedTig(a) /\ MayHaveReachedTig(b)
    => a = b

OneCurrentToken ==
  \A w \in Workflows : \A g, h \in current[w] : g = h

(* A process about to begin an attempt whose token is still current has    *)
(* not been overtaken: nothing was sent for its workflow since it decided. *)
TransmitIsFresh ==
  \A g \in Gateways :
    gw[g].pc = "transmit" /\ HasFence(g, WorkOf(g)) => ~TransmittedPrecommit(WorkOf(g))

(* An attempt row waits for the one process that inserted it, and nobody   *)
(* else gives it an outcome before that process has sent.                  *)
BegunIsUnsent ==
  \A g \in Gateways :
    gw[g].pc = "begun" =>
      /\ outcome[gw[g].att] = "PENDING" /\ tig[gw[g].att] = "unsent"
      /\ \A h \in Gateways : gw[h].pc = "begun" /\ gw[h].att = gw[g].att => h = g

SentHasLeft ==
  \A g \in Gateways : gw[g].pc = "sent" => tig[gw[g].att] # "unsent"

(* The attempt a reconciling process settles is the one TIG applied.       *)
SettledIsApplied ==
  \A g \in Gateways :
    gw[g].pc \in {"settle", "reconcile"} => Applied(gw[g].att)

(* What a window shows was applied, and what it shows as confirmed was     *)
(* confirmed, however old the window is.                                   *)
WindowIsTrue(window) ==
  /\ \A a \in window.shown : Applied(a)
  /\ \A a \in window.confirmed : tig[a] \in {"confirmed", "past"}

WindowsAreTrue ==
  WindowIsTrue(ctl.win) /\ \A g \in Gateways : WindowIsTrue(gw[g].win)

UnboundWhileDecided ==
  \A w \in Workflows : state[w] \in {"NONE", "DECIDED"} => bound[w] = {}

IInv ==
  /\ TypeOK
  /\ OneUnresolved /\ LedgerIsTrue /\ OneLiveAttempt
  /\ OneCurrentToken /\ TransmitIsFresh
  /\ BegunIsUnsent /\ SentHasLeft /\ SettledIsApplied
  /\ WindowsAreTrue /\ BoundToOwnWrite /\ UnboundWhileDecided

(***************************************************************************)
(* Liveness, under Fairness                                                *)
(***************************************************************************)

(* A write whose answer was lost is settled once TIG shows it confirmed:   *)
(* some process finds it, waits out the sender's call timeout and takes    *)
(* the attempt out of the lane, while the confirmation stays in the window *)
(* and the intent stays claimable (drive.rs, AlreadyConfirmed).            *)
LostAnswerSettled ==
  \A a \in Attempts :
    (Unresolved(a) /\ tig[a] = "confirmed") ~>
       (~Unresolved(a) \/ tig[a] = "past" \/ intent[IntentOf(a)] = "CONFIRMED")

(* A confirmed precommit reaches its workflow: it is bound, unless the     *)
(* workflow ends or the precommit leaves the window first (bind.rs).       *)
ConfirmedIsBound ==
  \A a \in Attempts :
    (tig[a] = "confirmed" /\ state[WorkflowOf(a)] = "DECIDED") ~>
       (a \in bound[WorkflowOf(a)] \/ Terminal(state[WorkflowOf(a)])
        \/ tig[a] = "past")

(***************************************************************************)
(* What comments in the code say of it, and the code does not do           *)
(***************************************************************************)

(* bind.rs: workflow and intent move "from the same evidence, so they      *)
(* cannot disagree": a bound workflow's intent is settled.                 *)
BoundIntentSettles ==
  \A w \in Workflows, a \in Attempts :
    (a \in bound[w]) ~> (intent[IntentOf(a)] = "CONFIRMED")

(* drive.rs: a write found confirmed has its attempt settled "so the lane  *)
(* reopens".                                                               *)
BoundWriteSettles ==
  \A w \in Workflows, a \in Attempts : (a \in bound[w]) ~> ~Unresolved(a)

(* claim.rs: an ended workflow's intent is not transmitted; workflow.rs:   *)
(* the clock does not expire a workflow past an unsettled write.           *)
NoWriteAfterExpiry ==
  \A w \in Workflows : state[w] = "EXPIRED" => ~UnsettledWrite(w)

(* bind.rs: a generation older than the newest "was superseded before it   *)
(* was sent".                                                              *)
SupersededNeverSent ==
  \A a \in Attempts : MayHaveReachedTig(a) => NewestGeneration(IntentOf(a))

=============================================================================
