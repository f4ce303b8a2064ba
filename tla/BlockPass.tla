----------------------------- MODULE BlockPass -----------------------------
(***************************************************************************)
(* pool-controller's pass over one block, as far as the precommit write    *)
(* path goes (service.rs, reconciler.rs, bind.rs, decide.rs): bind the     *)
(* confirmed precommits to the workflows that sent them, sweep the         *)
(* unfinished workflows for expiry, then admit at most one precommit.      *)
(* The pass works throughout from the window of the block's snapshot.      *)
(***************************************************************************)
EXTENDS Tig

VARIABLE ctl    \* the controller's local state

BlockPcs == {"idle", "bind", "settle", "sweep"}

AnyIntent == CHOOSE i \in Intents : TRUE

(* The fields: where the pass is; the snapshot's window; the workflows of  *)
(* the current loop still to visit; the workflows whose state the pass     *)
(* could not establish, for which blocks_claiming holds new work back; and *)
(* the intent being settled.                                               *)
BlockStates ==
  [pc : BlockPcs, win : Windows, todo : SUBSET Workflows,
   unknown : SUBSET Workflows, job : Intents]

NoBlock ==
  [pc |-> "idle", win |-> NoWindow, todo |-> {}, unknown |-> {},
   job |-> AnyIntent]

BlockTypeOK == ctl \in BlockStates

BlockInit == ctl = NoBlock

(* The pass is at the head of loop pc, with "rest" still to visit.         *)
Visiting(pc, rest, unknown, window) ==
  [NoBlock EXCEPT !.pc = pc, !.todo = rest, !.unknown = unknown,
                  !.win = IF rest = {} THEN NoWindow ELSE window]

Visited(pc, w, unknown) == Visiting(pc, ctl.todo \ {w}, unknown, ctl.win)

(* A block is taken in and in_state lists the DECIDED workflows.           *)
StartBlock ==
  /\ ctl.pc = "idle"
  /\ ctl' = Visiting("bind", {w \in Workflows : state[w] = "DECIDED"}, {},
                     TigWindow)
  /\ UNCHANGED <<ledgerVars, tig>>

(***************************************************************************)
(* bind_one                                                                *)
(***************************************************************************)

(* The newest generation among the workflow's claimable intents: the one   *)
(* whose settings are searched for.                                        *)
NewestClaimable(w) ==
  {i \in ClaimableIntents :
     i[1] = w /\ \A j \in ClaimableIntents : j[1] = w => j[2] <= i[2]}

(* Several candidates, or a workflow with no intent to search for: the     *)
(* pass does not know this workflow's state.                               *)
CannotTell(w) ==
  TransmittedPrecommit(w) /\ (\/ NewestClaimable(w) = {}
                              \/ \E i \in NewestClaimable(w) : FoundSeveral(i, ctl.win))

Finds(w, i, b) ==
  /\ TransmittedPrecommit(w)
  /\ i \in NewestClaimable(w)
  /\ FoundConfirmed(i, ctl.win, b)

(* The workflow first, then the intent: two transactions.  A workflow that *)
(* moved since it was listed, or a benchmark that has an owner, makes the  *)
(* first fail.                                                             *)
BindOne ==
  /\ ctl.pc = "bind"
  /\ \E w \in ctl.todo :
       \/ \E i \in Intents, b \in Attempts :
            /\ Finds(w, i, b)
            /\ \/ /\ ConfirmPrecommit(w, b)
                  /\ ctl' = [ctl EXCEPT !.pc = "settle", !.job = i]
               \/ /\ ~MayConfirm(w, b)
                  /\ ctl' = Visited("bind", w, ctl.unknown \cup {w})
                  /\ UNCHANGED ledgerVars
       \/ /\ \A i \in Intents, b \in Attempts : ~Finds(w, i, b)
          /\ ctl' = Visited("bind", w,
                            ctl.unknown \cup {v \in {w} : CannotTell(v)})
          /\ UNCHANGED ledgerVars
  /\ UNCHANGED tig

BindSettle ==
  /\ ctl.pc = "settle"
  /\ SettleIntent(ctl.job)
  /\ ctl' = Visited("bind", ctl.job[1], ctl.unknown)
  /\ UNCHANGED tig

(***************************************************************************)
(* The expiry sweep.  Whether a workflow is past its guardrail is a fact   *)
(* about block heights, left open here.                                    *)
(***************************************************************************)
StartSweep ==
  /\ ctl.pc = "bind" /\ ctl.todo = {}
  /\ ctl' = Visiting("sweep",
                     {w \in Workflows : Unfinished(state[w])} \ ctl.unknown,
                     ctl.unknown, NoWindow)
  /\ UNCHANGED <<ledgerVars, tig>>

SweepOne ==
  /\ ctl.pc = "sweep"
  /\ \E w \in ctl.todo :
       /\ ctl' = Visited("sweep", w, ctl.unknown)
       /\ ExpireWorkflow(w) \/ UNCHANGED ledgerVars
  /\ UNCHANGED tig

(***************************************************************************)
(* The decision: the first generation of a new workflow, or nothing.       *)
(* claiming_refused holds it back while any workflow's state is unknown.   *)
(***************************************************************************)
DecideOnce ==
  /\ ctl.pc = "sweep" /\ ctl.todo = {}
  /\ ctl' = NoBlock
  /\ \/ /\ ctl.unknown = {}
        /\ \E w \in Workflows : state[w] = "NONE" /\ AdmitPrecommit(w, 1)
     \/ UNCHANGED ledgerVars
  /\ UNCHANGED tig

BlockStep ==
  \/ StartBlock \/ BindOne \/ BindSettle
  \/ StartSweep \/ SweepOne \/ DecideOnce

(* A database call fails: the workflow at hand joins the unknown ones.     *)
BlockDatabaseFails ==
  /\ \/ /\ ctl.pc \in {"bind", "sweep"}
        /\ \E w \in ctl.todo : ctl' = Visited(ctl.pc, w, ctl.unknown \cup {w})
     \/ /\ ctl.pc = "settle"
        /\ ctl' = Visited("bind", ctl.job[1], ctl.unknown \cup {ctl.job[1]})
  /\ UNCHANGED <<ledgerVars, tig>>

(* The controller dies and is restarted, with nothing but the tables.      *)
BlockCrash ==
  /\ ctl.pc # "idle"
  /\ ctl' = NoBlock
  /\ UNCHANGED <<ledgerVars, tig>>

BlockFault == BlockDatabaseFails \/ BlockCrash

=============================================================================
