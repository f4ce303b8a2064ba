------------------------------ MODULE Gateway ------------------------------
(***************************************************************************)
(* tig-gateway's precommit loop: read TIG's window and the claimable       *)
(* intents, then for each intent claim the lease, decide (claim.rs), act   *)
(* (drive.rs, transmit.rs) and release.  Several processes may run at      *)
(* once; each may stall between any two steps for any time, lose a         *)
(* database call, or die.                                                  *)
(***************************************************************************)
EXTENDS Tig

ASSUME GatewaysAssumption == Gateways # {}

VARIABLE gw     \* gw[g]: the local state of gateway process g

Pcs == {"pass", "transmit", "begun", "sent", "settle", "reconcile", "release",
        "dead"}

AnyAttempt == CHOOSE a \in Attempts : TRUE

(* The fields: where the process is; the intents of this pass still to     *)
(* handle; the window of this pass; and the attempt being handled, whose   *)
(* intent is the one claimed.  A process between two passes is one whose   *)
(* pass has nothing left to handle.                                        *)
GatewayStates ==
  [pc : Pcs, todo : SUBSET Intents, win : Windows, att : Attempts]

IdleState == [pc |-> "pass", todo |-> {}, win |-> NoWindow, att |-> AnyAttempt]

GatewayTypeOK == gw \in [Gateways -> GatewayStates]

GatewayInit == gw = [g \in Gateways |-> IdleState]

FirstAttempt(i) == <<i[1], i[2], 1>>

JobOf(g) == IntentOf(gw[g].att)
WorkOf(g) == WorkflowOf(gw[g].att)

(* g goes on from label "from" to label "to".                              *)
Goto(g, from, to) == /\ gw[g].pc = from
                     /\ gw' = [gw EXCEPT ![g].pc = to]

(* g is between two intents of its pass, with "rest" still to handle.      *)
Between(g, rest) ==
  IF rest = {} THEN IdleState
  ELSE [IdleState EXCEPT !.todo = rest, !.win = gw[g].win]

(***************************************************************************)
(* The pass                                                                *)
(***************************************************************************)

(* service::run's loop body up to run_once: the window is read first, the  *)
(* claimable intents next, and neither is read again during the pass.      *)
StartPass(g) ==
  /\ gw[g].pc = "pass" /\ gw[g].todo = {} /\ ClaimableIntents # {}
  /\ gw' = [gw EXCEPT ![g].todo = ClaimableIntents, ![g].win = TigWindow]
  /\ UNCHANGED <<ledgerVars, leaseVars, tig>>

(***************************************************************************)
(* handle: the lease before anything else, then, under it, the reads and   *)
(* decide, from those rows and the window of the pass.  The reads are      *)
(* taken together with the claim: what others can still change in them     *)
(* does not depend on the lease, so it can as well change before the claim *)
(* or after the decision.                                                  *)
(***************************************************************************)

(* Something may be in flight for this very intent: reconcile it.          *)
OwesReconciliation(i) == \E a \in AttemptsFor(i) : MayHaveReachedTig(a)

(* precommit_siblings                                                      *)
NewestGeneration(i) ==
  \A n \in 1..MaxGeneration : intent[<<i[1], n>>] # "NONE" => n <= i[2]

\* Mutant: an attempt under another generation goes unnoticed.
SiblingIgnored(i) == FALSE

SiblingTransmitted(i) ==
  \E a \in Attempts :
    WorkflowOf(a) = i[1] /\ IntentOf(a) # i /\ MayHaveReachedTig(a)

DecidesTransmit(i) ==
  /\ AttemptsFor(i) = {}
  /\ ~Terminal(state[i[1]])
  /\ intent[i] # "OUTCOME_UNKNOWN"
  /\ NewestGeneration(i)
  /\ ~SiblingTransmitted(i)

\* Mutant: an attempt that never got a response is not settled.
SettlesAmbiguousOnly(i, window, a) ==
  /\ OwesReconciliation(i)
  /\ \E b \in Attempts : FoundConfirmed(i, window, b)
  /\ a \in AttemptsFor(i) /\ outcome[a] = "AMBIGUOUS"

(* AlreadyConfirmed, with an attempt of the intent left to settle.  One    *)
(* with no response that is younger than the call timeout is left to its   *)
(* sender.                                                                 *)
DecidesSettle(i, window, a) ==
  /\ OwesReconciliation(i)
  /\ \E b \in Attempts : FoundConfirmed(i, window, b)
  /\ a \in AttemptsFor(i) /\ Unresolved(a)
  /\ outcome[a] = "PENDING" => a \in aged

Handling(g, i, pc, a) ==
  [Between(g, gw[g].todo \ {i}) EXCEPT !.pc = pc, !.att = a]

Decide(g, i) ==
  \/ /\ DecidesTransmit(i)
     /\ gw' = [gw EXCEPT ![g] = Handling(g, i, "transmit", FirstAttempt(i))]
  \/ \E a \in Attempts :
       /\ DecidesSettle(i, gw[g].win, a)
       /\ \/ /\ outcome[a] = "PENDING"
             /\ gw' = [gw EXCEPT ![g] = Handling(g, i, "settle", a)]
          \/ /\ outcome[a] = "AMBIGUOUS"
             /\ gw' = [gw EXCEPT ![g] = Handling(g, i, "reconcile", a)]
  \/ /\ ~DecidesTransmit(i)
     /\ \A a \in Attempts : ~DecidesSettle(i, gw[g].win, a)
     /\ gw' = [gw EXCEPT ![g] = Handling(g, i, "release", FirstAttempt(i))]

Handle(g) ==
  /\ gw[g].pc = "pass"
  /\ \E i \in gw[g].todo : Claim(g, i[1]) /\ Decide(g, i)
  /\ UNCHANGED <<ledgerVars, tig>>

(* LeaseHeldElsewhere: the intent is passed over.                          *)
PassOver(g) ==
  /\ gw[g].pc = "pass"
  /\ \E i \in gw[g].todo :
       /\ ~Claimable(g, i[1])
       /\ gw' = [gw EXCEPT ![g] = Between(g, gw[g].todo \ {i})]
  /\ UNCHANGED <<ledgerVars, leaseVars, tig>>

(***************************************************************************)
(* Transmit: gate and pacing, the attempt row, the request, the response   *)
(***************************************************************************)

(* The write gate refuses, after the decision and before the attempt.      *)
GateBlocks(g) ==
  /\ Goto(g, "transmit", "release")
  /\ UNCHANGED <<ledgerVars, leaseVars, tig>>

(* begin_fenced: fence check and attempt row in one transaction.  A lost   *)
(* fence or an occupied lane ends the handling without one.                *)
Begin(g) ==
  /\ gw[g].pc = "transmit"
  /\ \/ \E a \in Attempts :
          /\ IntentOf(a) = JobOf(g)
          /\ HasFence(g, WorkOf(g))
          /\ BeginAttempt(a)
          /\ gw' = [gw EXCEPT ![g].pc = "begun", ![g].att = a]
     \/ /\ ~HasFence(g, WorkOf(g)) \/ ~LaneFree
        /\ gw' = [gw EXCEPT ![g].pc = "release"]
        /\ UNCHANGED ledgerVars
  /\ UNCHANGED <<leaseVars, tig>>

(* send_or_release, when the transmitter's own checks refuse: nothing left *)
(* the process, so the attempt is closed as refused.                       *)
RefuseUnsent(g) ==
  /\ Goto(g, "begun", "release")
  /\ ResolveAttempt(gw[g].att, "REJECTED")
  /\ UNCHANGED <<leaseVars, tig>>

(* post: the one HTTP request of this attempt.                             *)
Send(g) ==
  /\ Goto(g, "begun", "sent")
  /\ Transmit(gw[g].att)
  /\ UNCHANGED <<ledgerVars, leaseVars>>

\* Mutant: a server error is taken for a refusal.
ServerErrorRefuses(a) ==
  {"AMBIGUOUS", "REJECTED"} \cup (IF Applied(a) THEN {"ACCEPTED"} ELSE {})

(* post's classification.  A transport failure, a 5xx, 408 or 429, or an   *)
(* unreadable body is ambiguous whatever became of the request; only a     *)
(* readable 2xx is an acceptance and only another 4xx a refusal.           *)
Classifications(a) ==
  {"AMBIGUOUS"} \cup (IF Applied(a) THEN {"ACCEPTED"} ELSE {})
                \cup (IF tig[a] = "refused" THEN {"REJECTED"} ELSE {})

(* resolve, by the sender.  A classification that is possible when the     *)
(* response arrives stays possible, so the two are one step.  The row may  *)
(* have been given an outcome by a reconciling process meanwhile; then the *)
(* call fails and changes nothing.                                         *)
Record(g) ==
  /\ Goto(g, "sent", "release")
  /\ \/ \E answer \in Classifications(gw[g].att) :
          ResolveAttempt(gw[g].att, answer)
     \/ outcome[gw[g].att] # "PENDING" /\ UNCHANGED ledgerVars
  /\ UNCHANGED <<leaseVars, tig>>

(***************************************************************************)
(* AlreadyConfirmed: the missing response is recorded as the ambiguity it  *)
(* was, then the ambiguity is settled by what the window showed            *)
(***************************************************************************)
RecordMissing(g) ==
  /\ gw[g].pc = "settle"
  /\ \/ /\ ResolveAttempt(gw[g].att, "AMBIGUOUS")
        /\ gw' = [gw EXCEPT ![g].pc = "reconcile"]
     \/ /\ outcome[gw[g].att] # "PENDING"
        /\ gw' = [gw EXCEPT ![g].pc = "release"]
        /\ UNCHANGED ledgerVars
  /\ UNCHANGED <<leaseVars, tig>>

Reconcile(g) ==
  /\ Goto(g, "reconcile", "release")
  /\ \/ ReconcileAttempt(gw[g].att)
     \/ outcome[gw[g].att] # "AMBIGUOUS" /\ UNCHANGED ledgerVars
  /\ UNCHANGED <<leaseVars, tig>>

(***************************************************************************)
(* The end of handle, and what can go wrong                                *)
(***************************************************************************)
ReleaseIntent(g) ==
  /\ gw[g].pc = "release"
  /\ Release(g, WorkOf(g))
  /\ gw' = [gw EXCEPT ![g] = Between(g, gw[g].todo)]
  /\ UNCHANGED <<ledgerVars, tig>>

(* A database call fails.  Where the claim fails nothing follows; after it *)
(* handle still tries to release.  A failed release leaves the lease to    *)
(* lapse, and an attempt row whose commit was not acknowledged is left     *)
(* without a request.                                                      *)
DatabaseFails(g) ==
  /\ \/ /\ gw[g].pc = "pass"
        /\ \E i \in gw[g].todo :
             gw' = [gw EXCEPT ![g] = Between(g, gw[g].todo \ {i})]
     \/ /\ gw[g].pc \in {"transmit", "begun", "sent", "settle", "reconcile"}
        /\ gw' = [gw EXCEPT ![g].pc = "release"]
     \/ /\ gw[g].pc = "release"
        /\ gw' = [gw EXCEPT ![g] = Between(g, gw[g].todo)]
  /\ UNCHANGED <<ledgerVars, leaseVars, tig>>

(* The process dies.  A restarted one is another element of Gateways.      *)
Crash(g) ==
  /\ gw[g].pc # "dead"
  /\ gw' = [gw EXCEPT ![g] = [IdleState EXCEPT !.pc = "dead"]]
  /\ UNCHANGED <<ledgerVars, leaseVars, tig>>

GatewayStep(g) ==
  \/ StartPass(g) \/ Handle(g) \/ PassOver(g) \/ Begin(g) \/ Send(g)
  \/ Record(g) \/ RecordMissing(g) \/ Reconcile(g) \/ ReleaseIntent(g)

GatewayFault(g) ==
  \/ GateBlocks(g) \/ RefuseUnsent(g) \/ DatabaseFails(g) \/ Crash(g)

=============================================================================
