-------------------------- MODULE WritePathProofs ---------------------------
(***************************************************************************)
(* The properties of WritePath, for any workflows, processes, generations, *)
(* sends, faults and tuples: type correctness first; then why the attempt  *)
(* ledger stays true of TIG and holds one live attempt per workflow; then  *)
(* why what a process relies on between two of its database transactions   *)
(* stays true whatever the others do meanwhile; then the windows, the      *)
(* bindings and the theorems.                                              *)
(***************************************************************************)
EXTENDS WritePath, TLAPS

(***************************************************************************)
(* Names                                                                   *)
(***************************************************************************)

(* An attempt names its workflow and its intent.                           *)
LEMMA AttemptNames ==
  \A a \in Attempts : WorkflowOf(a) \in Workflows /\ IntentOf(a) \in Intents
                      /\ IntentOf(a)[1] = WorkflowOf(a)
BY DEF Attempts, Intents, WorkflowOf, IntentOf

(* An intent names its workflow, and its first attempt is one of its own.  *)
LEMMA IntentNames ==
  \A i \in Intents : /\ i[1] \in Workflows
                     /\ FirstAttempt(i) \in Attempts
                     /\ IntentOf(FirstAttempt(i)) = i
                     /\ WorkflowOf(FirstAttempt(i)) = i[1]
BY BoundsAssumption DEF Attempts, Intents, WorkflowOf, IntentOf, FirstAttempt

(* A workflow has an intent for every generation.                          *)
LEMMA GenerationNames ==
  \A w \in Workflows, n \in 1..MaxGeneration : <<w, n>> \in Intents
BY DEF Intents

(* There is an attempt and an intent for an idle process to hold.          *)
LEMMA DefaultNames == AnyAttempt \in Attempts /\ AnyIntent \in Intents
<1>1. PICK w \in Workflows : TRUE
  BY WorkflowsAssumption
<1>2. <<w, 1, 1>> \in Attempts /\ <<w, 1>> \in Intents
  BY <1>1, BoundsAssumption DEF Attempts, Intents
<1> QED
  BY <1>2 DEF AnyAttempt, AnyIntent

(***************************************************************************)
(* Types                                                                   *)
(***************************************************************************)

(* The local states the processes take on are well formed.                 *)
LEMMA LocalTypes ==
  /\ NoWindow \in Windows
  /\ TigWindow \in Windows
  /\ IdleState \in GatewayStates
  /\ NoBlock \in BlockStates
<1>1. NoWindow \in Windows
  BY DEF NoWindow, Windows
<1>2. TigWindow \in Windows
  BY DEF TigWindow, Windows
<1>3. IdleState \in GatewayStates
  BY <1>1, DefaultNames DEF IdleState, GatewayStates, Pcs
<1>4. NoBlock \in BlockStates
  BY <1>1, DefaultNames DEF NoBlock, BlockStates, BlockPcs
<1> QED
  BY <1>1, <1>2, <1>3, <1>4

(* A process between two intents, or handling one.                         *)
LEMMA HandlingTypes ==
  ASSUME GatewayTypeOK, NEW g \in Gateways
  PROVE  /\ \A rest \in SUBSET Intents : Between(g, rest) \in GatewayStates
         /\ \A i \in Intents, pc \in Pcs, a \in Attempts :
              Handling(g, i, pc, a) \in GatewayStates
<1>1. \A rest \in SUBSET Intents : Between(g, rest) \in GatewayStates
  BY Zenon, LocalTypes DEF Between, GatewayStates, GatewayTypeOK
<1>2. \A i \in Intents : gw[g].todo \ {i} \in SUBSET Intents
  BY DEF GatewayTypeOK, GatewayStates
<1>3. \A i \in Intents, pc \in Pcs, a \in Attempts :
        Handling(g, i, pc, a) \in GatewayStates
  <2> TAKE i \in Intents, pc \in Pcs, a \in Attempts
  <2> DEFINE B == Between(g, gw[g].todo \ {i})
  <2>1. B \in GatewayStates
    BY <1>1, <1>2
  <2>2. Handling(g, i, pc, a) = [B EXCEPT !.pc = pc, !.att = a]
    BY DEF Handling
  <2> HIDE DEF B
  <2> QED
    BY Zenon, <2>1, <2>2 DEF GatewayStates
<1> QED
  BY <1>1, <1>3

(* Every database transaction of WriteLedger keeps the tables' types.      *)
LEMMA LedgerTypeStep ==
  ASSUME LedgerTypeOK
  PROVE  /\ \A w \in Workflows, n \in 1..MaxGeneration :
              AdmitPrecommit(w, n) => LedgerTypeOK'
         /\ \A a \in Attempts : BeginAttempt(a) => LedgerTypeOK'
         /\ \A a \in Attempts, answer \in Outcomes :
              ResolveAttempt(a, answer) => LedgerTypeOK'
         /\ \A a \in Attempts : ReconcileAttempt(a) => LedgerTypeOK'
         /\ \A i \in Intents : SettleIntent(i) => LedgerTypeOK'
         /\ \A w \in Workflows, b \in Attempts :
              ConfirmPrecommit(w, b) => LedgerTypeOK'
         /\ \A w \in Workflows : ExpireWorkflow(w) => LedgerTypeOK'
         /\ \A w \in Workflows : FailWorkflow(w) => LedgerTypeOK'
         /\ \A a \in Attempts : AttemptAges(a) => LedgerTypeOK'
         /\ UNCHANGED ledgerVars => LedgerTypeOK'
<1> USE DEF LedgerTypeOK, IntentStates, Outcomes, WorkflowStates
<1>1. \A w \in Workflows, n \in 1..MaxGeneration :
        AdmitPrecommit(w, n) => LedgerTypeOK'
  BY GenerationNames DEF AdmitPrecommit
<1>2. \A a \in Attempts : BeginAttempt(a) => LedgerTypeOK'
  BY DEF BeginAttempt
<1>3. \A a \in Attempts, answer \in Outcomes :
        ResolveAttempt(a, answer) => LedgerTypeOK'
  BY AttemptNames DEF ResolveAttempt
<1>4. \A a \in Attempts : ReconcileAttempt(a) => LedgerTypeOK'
  BY DEF ReconcileAttempt
<1>5. \A i \in Intents : SettleIntent(i) => LedgerTypeOK'
  BY DEF SettleIntent
<1>6. \A w \in Workflows, b \in Attempts :
        ConfirmPrecommit(w, b) => LedgerTypeOK'
  BY DEF ConfirmPrecommit
<1>7. \A w \in Workflows : ExpireWorkflow(w) => LedgerTypeOK'
  BY DEF ExpireWorkflow
<1>8. \A w \in Workflows : FailWorkflow(w) => LedgerTypeOK'
  BY DEF FailWorkflow
<1>9. \A a \in Attempts : AttemptAges(a) => LedgerTypeOK'
  BY DEF AttemptAges
<1>10. UNCHANGED ledgerVars => LedgerTypeOK'
  BY DEF ledgerVars
<1> QED
  BY Zenon, <1>1, <1>2, <1>3, <1>4, <1>5, <1>6, <1>7, <1>8, <1>9, <1>10

(* Every step and every fault of a gateway process keeps the types.        *)
LEMMA GatewayTypeStep ==
  ASSUME LedgerTypeOK, LeaseTypeOK, TigTypeOK, GatewayTypeOK,
         NEW g \in Gateways, GatewayStep(g) \/ GatewayFault(g)
  PROVE  LedgerTypeOK' /\ LeaseTypeOK' /\ TigTypeOK' /\ GatewayTypeOK'
<1>1. gw[g] \in GatewayStates /\ gw[g].att \in Attempts
      /\ gw[g].todo \in SUBSET Intents
  BY DEF GatewayTypeOK, GatewayStates
<1>2. /\ UNCHANGED ledgerVars => LedgerTypeOK'
      /\ UNCHANGED leaseVars => LeaseTypeOK'
      /\ UNCHANGED tig => TigTypeOK'
  BY LedgerTypeStep DEF LeaseTypeOK, leaseVars, TigTypeOK
<1>3. ASSUME NEW s \in GatewayStates, gw' = [gw EXCEPT ![g] = s]
      PROVE  GatewayTypeOK'
  BY <1>3 DEF GatewayTypeOK
<1>4. ASSUME NEW pc \in Pcs, gw' = [gw EXCEPT ![g].pc = pc]
      PROVE  GatewayTypeOK'
  BY <1>4, <1>1 DEF GatewayTypeOK, GatewayStates
<1>5. WorkOf(g) \in Workflows
  BY <1>1, AttemptNames DEF WorkOf
<1>6. CASE StartPass(g)
  <2>1. ClaimableIntents \in SUBSET Intents
    BY DEF ClaimableIntents
  <2>2. GatewayTypeOK'
    BY Zenon, <1>6, <2>1, LocalTypes DEF StartPass, GatewayTypeOK, GatewayStates
  <2> QED
    BY <1>2, <1>6, <2>2 DEF StartPass
<1>7. CASE Handle(g)
  <2>1. PICK i \in gw[g].todo : Claim(g, i[1]) /\ Decide(g, i)
    BY <1>7 DEF Handle
  <2>2. i \in Intents /\ i[1] \in Workflows /\ FirstAttempt(i) \in Attempts
    BY <1>1, <2>1, IntentNames
  <2>3. LeaseTypeOK'
    BY <2>1, <2>2 DEF LeaseTypeOK, Claim
  <2>4. \A pc \in Pcs, a \in Attempts : Handling(g, i, pc, a) \in GatewayStates
    BY <2>2, HandlingTypes
  <2>5. GatewayTypeOK'
    <3> USE DEF Pcs
    <3>1. ASSUME gw' = [gw EXCEPT ![g] = Handling(g, i, "transmit", FirstAttempt(i))]
          PROVE  GatewayTypeOK'
      BY Zenon, <1>3, <2>2, <2>4, <3>1
    <3>2. ASSUME NEW a \in Attempts,
                 \/ gw' = [gw EXCEPT ![g] = Handling(g, i, "settle", a)]
                 \/ gw' = [gw EXCEPT ![g] = Handling(g, i, "reconcile", a)]
          PROVE  GatewayTypeOK'
      BY <1>3, <2>4, <3>2
    <3>3. ASSUME gw' = [gw EXCEPT ![g] = Handling(g, i, "release", FirstAttempt(i))]
          PROVE  GatewayTypeOK'
      BY Zenon, <1>3, <2>2, <2>4, <3>3
    <3> QED
      BY Zenon, <2>1, <3>1, <3>2, <3>3 DEF Decide
  <2> QED
    BY <1>2, <1>7, <2>3, <2>5 DEF Handle
<1>8. CASE PassOver(g)
  <2>1. PICK i \in gw[g].todo : gw' = [gw EXCEPT ![g] = Between(g, gw[g].todo \ {i})]
    BY Zenon, <1>8 DEF PassOver
  <2>2. Between(g, gw[g].todo \ {i}) \in GatewayStates
    BY <1>1, HandlingTypes
  <2> QED
    BY Zenon, <1>2, <1>3, <1>8, <2>1, <2>2 DEF PassOver
<1>9. CASE Begin(g)
  <2>1. ASSUME NEW a \in Attempts, BeginAttempt(a),
               gw' = [gw EXCEPT ![g].pc = "begun", ![g].att = a]
        PROVE  LedgerTypeOK' /\ GatewayTypeOK'
    BY ZenonT(60), <2>1, LedgerTypeStep DEF GatewayTypeOK, GatewayStates, Pcs
  <2>2. ASSUME gw' = [gw EXCEPT ![g].pc = "release"]
        PROVE  GatewayTypeOK'
    BY <1>4, <2>2 DEF Pcs
  <2> QED
    BY Zenon, <1>2, <1>9, <2>1, <2>2 DEF Begin
<1>10. CASE Send(g)
  BY Zenon, <1>1, <1>2, <1>4, <1>10 DEF Send, Goto, Transmit, TigTypeOK, TigStates, Pcs
<1>11. CASE Record(g)
  <2>1. Classifications(gw[g].att) \in SUBSET Outcomes
    BY Zenon DEF Classifications, Outcomes
  <2>2. LedgerTypeOK'
    BY Zenon, <1>1, <1>2, <1>11, <2>1, LedgerTypeStep DEF Record
  <2> QED
    BY Zenon, <1>2, <1>4, <1>11, <2>2 DEF Record, Goto, Pcs
<1>12. CASE RecordMissing(g)
  <2>1. LedgerTypeOK'
    BY Zenon, <1>1, <1>2, <1>12, LedgerTypeStep DEF RecordMissing, Outcomes
  <2> QED
    BY Zenon, <1>2, <1>4, <1>12, <2>1 DEF RecordMissing, Pcs
<1>13. CASE Reconcile(g)
  <2>1. LedgerTypeOK'
    BY Zenon, <1>1, <1>2, <1>13, LedgerTypeStep DEF Reconcile
  <2> QED
    BY <1>2, <1>4, <1>13, <2>1 DEF Reconcile, Goto, Pcs
<1>14. CASE ReleaseIntent(g)
  <2>1. LeaseTypeOK'
    BY <1>2, <1>5, <1>14 DEF ReleaseIntent, Release, LeaseTypeOK
  <2>2. Between(g, gw[g].todo) \in GatewayStates
    BY <1>1, HandlingTypes
  <2> QED
    BY Zenon, <1>2, <1>3, <1>14, <2>1, <2>2 DEF ReleaseIntent
<1>15. CASE GateBlocks(g)
  BY <1>2, <1>4, <1>15 DEF GateBlocks, Goto, Pcs
<1>16. CASE RefuseUnsent(g)
  <2>1. LedgerTypeOK'
    BY <1>1, <1>16, LedgerTypeStep DEF RefuseUnsent, Outcomes
  <2> QED
    BY <1>2, <1>4, <1>16, <2>1 DEF RefuseUnsent, Goto, Pcs
<1>17. CASE DatabaseFails(g)
  <2>1. \A i \in gw[g].todo : Between(g, gw[g].todo \ {i}) \in GatewayStates
    BY <1>1, HandlingTypes
  <2>2. Between(g, gw[g].todo) \in GatewayStates
    BY Zenon, <1>1, HandlingTypes
  <2>3. GatewayTypeOK'
    BY Zenon, <1>3, <1>4, <1>17, <2>1, <2>2 DEF DatabaseFails, Pcs
  <2> QED
    BY <1>2, <1>17, <2>3 DEF DatabaseFails
<1>18. CASE Crash(g)
  <2>1. [IdleState EXCEPT !.pc = "dead"] \in GatewayStates
    BY LocalTypes DEF GatewayStates, Pcs
  <2> QED
    BY Zenon, <1>2, <1>3, <1>18, <2>1 DEF Crash
<1> QED
  BY Zenon, <1>6, <1>7, <1>8, <1>9, <1>10, <1>11, <1>12, <1>13, <1>14, <1>15, <1>16,
     <1>17, <1>18 DEF GatewayStep, GatewayFault

(* The controller's loops are well formed.                                 *)
LEMMA VisitingTypes ==
  ASSUME NEW pc \in BlockPcs, NEW rest \in SUBSET Workflows,
         NEW unknown \in SUBSET Workflows, NEW window \in Windows
  PROVE  Visiting(pc, rest, unknown, window) \in BlockStates
<1> DEFINE win == IF rest = {} THEN NoWindow ELSE window
<1>1. win \in Windows
  BY LocalTypes
<1>2. Visiting(pc, rest, unknown, window)
        = [NoBlock EXCEPT !.pc = pc, !.todo = rest, !.unknown = unknown, !.win = win]
  BY DEF Visiting
<1> HIDE DEF win
<1> QED
  BY ZenonT(60), <1>1, <1>2, LocalTypes DEF BlockStates

(* Every step and every fault of the controller keeps the types.           *)
LEMMA BlockTypeStep ==
  ASSUME LedgerTypeOK, TigTypeOK, BlockTypeOK, BlockStep \/ BlockFault
  PROVE  LedgerTypeOK' /\ TigTypeOK' /\ BlockTypeOK'
<1>1. /\ ctl \in BlockStates /\ ctl.job \in Intents /\ ctl.win \in Windows
      /\ ctl.todo \in SUBSET Workflows /\ ctl.unknown \in SUBSET Workflows
  BY DEF BlockTypeOK, BlockStates
<1>2. /\ UNCHANGED ledgerVars => LedgerTypeOK'
      /\ UNCHANGED tig => TigTypeOK'
  BY LedgerTypeStep DEF TigTypeOK
<1>3. \A pc \in BlockPcs, w \in Workflows, unknown \in SUBSET Workflows :
        Visited(pc, w, unknown) \in BlockStates
  BY Zenon, <1>1, VisitingTypes DEF Visited
<1>4. ctl.job[1] \in Workflows
  BY <1>1, IntentNames
<1>5. CASE StartBlock
  <2>1. {w \in Workflows : state[w] = "DECIDED"} \in SUBSET Workflows
    OBVIOUS
  <2>2. BlockTypeOK'
    BY Zenon, <1>5, <2>1, VisitingTypes, LocalTypes DEF StartBlock, BlockTypeOK, BlockPcs
  <2> QED
    BY <1>2, <1>5, <2>2 DEF StartBlock
<1>6. CASE BindOne
  <2>1. PICK w \in ctl.todo :
          \/ \E i \in Intents, b \in Attempts :
               \/ /\ ConfirmPrecommit(w, b)
                  /\ ctl' = [ctl EXCEPT !.pc = "settle", !.job = i]
               \/ /\ ctl' = Visited("bind", w, ctl.unknown \cup {w})
                  /\ UNCHANGED ledgerVars
          \/ /\ ctl' = Visited("bind", w,
                               ctl.unknown \cup {v \in {w} : CannotTell(v)})
             /\ UNCHANGED ledgerVars
    BY ZenonT(60), <1>6 DEF BindOne
  <2>2. w \in Workflows /\ ctl.unknown \cup {w} \in SUBSET Workflows
        /\ ctl.unknown \cup {v \in {w} : CannotTell(v)} \in SUBSET Workflows
    BY ZenonT(60), <1>1, <2>1
  <2>3. LedgerTypeOK'
    BY Zenon, <1>2, <2>1, <2>2, LedgerTypeStep
  <2>4. \A i \in Intents : [ctl EXCEPT !.pc = "settle", !.job = i] \in BlockStates
    BY Zenon, <1>1 DEF BlockStates, BlockPcs
  <2>5. BlockTypeOK'
    BY Zenon, <1>3, <2>1, <2>2, <2>4 DEF BlockTypeOK, BlockPcs
  <2> QED
    BY Zenon, <1>2, <1>6, <2>3, <2>5 DEF BindOne
<1>7. CASE BindSettle
  <2>1. LedgerTypeOK'
    BY Zenon, <1>1, <1>7, LedgerTypeStep DEF BindSettle
  <2> QED
    BY Zenon, <1>1, <1>2, <1>3, <1>4, <1>7, <2>1 DEF BindSettle, BlockTypeOK, BlockPcs
<1>8. CASE StartSweep
  <2>1. {w \in Workflows : Unfinished(state[w])} \ ctl.unknown \in SUBSET Workflows
    OBVIOUS
  <2>2. BlockTypeOK'
    BY <1>1, <1>8, <2>1, VisitingTypes, LocalTypes DEF StartSweep, BlockTypeOK, BlockPcs
  <2> QED
    BY <1>2, <1>8, <2>2 DEF StartSweep
<1>9. CASE SweepOne
  <2>1. PICK w \in ctl.todo : /\ ctl' = Visited("sweep", w, ctl.unknown)
                              /\ ExpireWorkflow(w) \/ UNCHANGED ledgerVars
    BY <1>9 DEF SweepOne
  <2>2. w \in Workflows
    BY <1>1
  <2>3. LedgerTypeOK'
    BY <1>2, <2>1, <2>2, LedgerTypeStep
  <2> QED
    BY Zenon, <1>1, <1>2, <1>3, <1>9, <2>1, <2>2, <2>3 DEF SweepOne, BlockTypeOK, BlockPcs
<1>10. CASE DecideOnce
  <2>1. LedgerTypeOK'
    BY <1>2, <1>10, LedgerTypeStep, BoundsAssumption DEF DecideOnce
  <2> QED
    BY <1>2, <1>10, <2>1, LocalTypes DEF DecideOnce, BlockTypeOK
<1>11. CASE BlockDatabaseFails
  <2>1. \A w \in ctl.todo : w \in Workflows /\ ctl.unknown \cup {w} \in SUBSET Workflows
    BY <1>1
  <2>2. ctl.unknown \cup {ctl.job[1]} \in SUBSET Workflows
    BY <1>1, <1>4
  <2>3. BlockTypeOK'
    BY ZenonT(60), <1>3, <1>4, <1>11, <2>1, <2>2 DEF BlockDatabaseFails, BlockTypeOK, BlockPcs
  <2> QED
    BY <1>2, <1>11, <2>3 DEF BlockDatabaseFails
<1>12. CASE BlockCrash
  BY Zenon, <1>2, <1>12, LocalTypes DEF BlockCrash, BlockTypeOK
<1> QED
  BY Zenon, <1>5, <1>6, <1>7, <1>8, <1>9, <1>10, <1>11, <1>12 DEF BlockStep, BlockFault

(* Every step of the write path keeps the types.                           *)
LEMMA TypeStep == TypeOK /\ [Next]_vars => TypeOK'
<1> SUFFICES ASSUME TypeOK, [Next]_vars PROVE TypeOK'
  OBVIOUS
<1> USE DEF TypeOK
<1>1. /\ UNCHANGED ledgerVars => LedgerTypeOK'
      /\ UNCHANGED leaseVars => LeaseTypeOK'
      /\ UNCHANGED tig => TigTypeOK'
      /\ UNCHANGED gw => GatewayTypeOK'
      /\ UNCHANGED ctl => BlockTypeOK'
      /\ UNCHANGED faults \/ Fault => (faults \in 0..MaxFaults)'
  BY LedgerTypeStep, FaultsAssumption
     DEF LeaseTypeOK, leaseVars, TigTypeOK, GatewayTypeOK, BlockTypeOK, Fault
<1>2. ASSUME NEW g \in Gateways, GatewayActs(g) PROVE TypeOK'
  BY <1>1, <1>2, GatewayTypeStep DEF GatewayActs
<1>3. CASE ControllerActs
  BY <1>1, <1>3, BlockTypeStep DEF ControllerActs
<1>4. ASSUME NEW a \in Attempts, TigActs(a) PROVE TypeOK'
  <2>1. TigTypeOK'
    BY <1>4 DEF TigActs, TigMoves, TigTypeOK, TigStates
  <2> QED
    BY <1>1, <1>4, <2>1 DEF TigActs
<1>5. ASSUME NEW a \in Attempts, AttemptOutlivesCall(a) PROVE TypeOK'
  BY <1>1, <1>5, LedgerTypeStep DEF AttemptOutlivesCall
<1>6. ASSUME NEW w \in Workflows, OperatorFails(w) PROVE TypeOK'
  BY <1>1, <1>6, LedgerTypeStep DEF OperatorFails
<1>7. ASSUME NEW w \in Workflows, LeaseLapses(w) PROVE TypeOK'
  <2>1. LeaseTypeOK'
    BY <1>7 DEF LeaseLapses, Lapse, LeaseTypeOK
  <2> QED
    BY <1>1, <1>7, <2>1 DEF LeaseLapses
<1>8. ASSUME NEW w \in Workflows, NEW n \in 1..MaxGeneration, NewGeneration(w, n)
      PROVE  TypeOK'
  BY Zenon, <1>1, <1>8, LedgerTypeStep DEF NewGeneration
<1>9. CASE UNCHANGED vars
  BY <1>1, <1>9 DEF vars
<1> QED
  BY <1>2, <1>3, <1>4, <1>5, <1>6, <1>7, <1>8, <1>9 DEF Next

(* The tables and the local states of all processes keep their types.      *)
THEOREM TypeCorrect == Spec => []TypeOK
<1>1. Init => TypeOK
  <2> SUFFICES ASSUME Init PROVE TypeOK
    OBVIOUS
  <2>1. LedgerTypeOK /\ LeaseTypeOK /\ TigTypeOK
    BY DEF Init, LedgerInit, LedgerTypeOK, LeaseInit, LeaseTypeOK, TigInit, TigTypeOK,
           TigStates, IntentStates, Outcomes, WorkflowStates
  <2>2. GatewayTypeOK /\ BlockTypeOK
    BY LocalTypes DEF Init, GatewayInit, GatewayTypeOK, BlockInit, BlockTypeOK
  <2> QED
    BY <2>1, <2>2, FaultsAssumption DEF Init, TypeOK
<1> QED
  BY <1>1, TypeStep, PTL DEF Spec


(***************************************************************************)
(* What a step changes                                                     *)
(***************************************************************************)

(* A step of one process leaves the local states of the others alone.      *)
LEMMA OthersStay ==
  ASSUME GatewayTypeOK, NEW g \in Gateways, GatewayStep(g) \/ GatewayFault(g)
  PROVE  \A h \in Gateways \ {g} : gw'[h] = gw[h]
<1> USE DEF GatewayTypeOK
<1>1. CASE StartPass(g) \/ Handle(g) \/ PassOver(g)
  BY Zenon, <1>1 DEF StartPass, Handle, Decide, PassOver
<1>2. CASE Begin(g) \/ Send(g) \/ Record(g) \/ RecordMissing(g) \/ Reconcile(g)
           \/ ReleaseIntent(g)
  BY Zenon, <1>2 DEF Begin, Send, Record, RecordMissing, Reconcile, ReleaseIntent, Goto
<1>3. CASE GatewayFault(g)
  BY Zenon, <1>3 DEF GatewayFault, GateBlocks, RefuseUnsent, DatabaseFails, Crash, Goto
<1> QED
  BY Zenon, <1>1, <1>2, <1>3 DEF GatewayStep

(* TIG never takes back what it did: sent stays sent, applied stays        *)
(* applied and confirmed stays confirmed.                                  *)
TigAdvances ==
  \A a \in Attempts :
    /\ tig[a] # "unsent" => tig'[a] # "unsent"
    /\ Applied(a) => Applied(a)'
    /\ tig[a] \in {"confirmed", "past"} => tig'[a] \in {"confirmed", "past"}

(* TIG keeps what it took (tig-client: the service outside the pool).      *)
LEMMA TigMonotone == TypeOK /\ [Next]_vars => TigAdvances
<1> SUFFICES ASSUME TypeOK, [Next]_vars PROVE TigAdvances
  OBVIOUS
<1> USE DEF TigAdvances, Applied
<1>1. ASSUME UNCHANGED tig PROVE TigAdvances
  BY <1>1
<1>2. ASSUME NEW g \in Gateways, GatewayActs(g) PROVE TigAdvances
  <2>1. CASE Send(g)
    BY <2>1 DEF Send, Transmit, TypeOK, TigTypeOK
  <2>2. CASE UNCHANGED tig
    BY <1>1, <2>2
  <2> QED
    BY Zenon, <1>2, <2>1, <2>2 DEF GatewayActs, GatewayStep, GatewayFault, StartPass, Handle,
       PassOver, Begin, Record, RecordMissing, Reconcile, ReleaseIntent,
       GateBlocks, RefuseUnsent, DatabaseFails, Crash
<1>3. CASE ControllerActs
  <2>1. UNCHANGED tig
    BY Zenon, <1>3 DEF ControllerActs, BlockStep, BlockFault, StartBlock, BindOne, BindSettle,
       StartSweep, SweepOne, DecideOnce, BlockDatabaseFails, BlockCrash
  <2> QED
    BY <1>1, <2>1
<1>4. ASSUME NEW a \in Attempts, TigActs(a) PROVE TigAdvances
  BY <1>4 DEF TigActs, TigMoves, TypeOK, TigTypeOK
<1>5. CASE \/ \E a \in Attempts : AttemptOutlivesCall(a)
           \/ \E w \in Workflows :
                \/ OperatorFails(w) \/ LeaseLapses(w)
                \/ \E n \in 1..MaxGeneration : NewGeneration(w, n)
           \/ UNCHANGED vars
  BY Zenon, <1>1, <1>5 DEF AttemptOutlivesCall, OperatorFails, LeaseLapses, NewGeneration, vars
<1> QED
  BY <1>2, <1>3, <1>4, <1>5 DEF Next

(* The steps that touch the attempt ledger or TIG, and those that do not.  *)
LEMMA LedgerSteps ==
  ASSUME TypeOK, [Next]_vars
  PROVE  \/ UNCHANGED <<outcome, tig>>
         \/ \E g \in Gateways :
              \/ Begin(g) \/ Send(g) \/ Record(g) \/ RecordMissing(g)
              \/ Reconcile(g) \/ RefuseUnsent(g)
         \/ \E a \in Attempts : TigMoves(a) /\ UNCHANGED outcome
<1> USE DEF ledgerVars
<1>1. ASSUME NEW g \in Gateways, GatewayActs(g)
      PROVE  \/ UNCHANGED <<outcome, tig>>
             \/ Begin(g) \/ Send(g) \/ Record(g) \/ RecordMissing(g)
             \/ Reconcile(g) \/ RefuseUnsent(g)
  BY Zenon, <1>1 DEF GatewayActs, GatewayStep, GatewayFault, StartPass, Handle, PassOver,
     ReleaseIntent, GateBlocks, DatabaseFails, Crash
<1>2. CASE ControllerActs
  <2>1. CASE BindOne
    BY ZenonT(60), <2>1 DEF BindOne, ConfirmPrecommit
  <2>2. CASE BlockStep /\ ~BindOne
    BY Zenon, <2>2 DEF BlockStep, StartBlock, BindSettle, SettleIntent, StartSweep, SweepOne,
       ExpireWorkflow, DecideOnce, AdmitPrecommit
  <2>3. CASE BlockFault
    BY <2>3 DEF BlockFault, BlockDatabaseFails, BlockCrash
  <2> QED
    BY <1>2, <2>1, <2>2, <2>3 DEF ControllerActs
<1>3. ASSUME NEW a \in Attempts, TigActs(a) PROVE TigMoves(a) /\ UNCHANGED outcome
  BY <1>3 DEF TigActs
<1>4. CASE \/ \E a \in Attempts : AttemptOutlivesCall(a)
           \/ \E w \in Workflows :
                \/ OperatorFails(w) \/ LeaseLapses(w)
                \/ \E n \in 1..MaxGeneration : NewGeneration(w, n)
           \/ UNCHANGED vars
  BY Zenon, <1>4 DEF AttemptOutlivesCall, AttemptAges, OperatorFails, FailWorkflow, LeaseLapses,
     NewGeneration, AdmitPrecommit, vars
<1> QED
  BY Zenon, <1>1, <1>2, <1>3, <1>4 DEF Next

(***************************************************************************)
(* The ledger: one unresolved attempt, one live attempt per workflow, and  *)
(* outcomes that are true of TIG                                           *)
(***************************************************************************)

(* An attempt that gets a response was waiting for one, and no other       *)
(* attempt changes.                                                        *)
LEMMA ResolveEffect ==
  ASSUME LedgerTypeOK, NEW a \in Attempts, NEW answer \in Outcomes,
         ResolveAttempt(a, answer)
  PROVE  /\ outcome[a] = "PENDING" /\ outcome'[a] = answer
         /\ \A b \in Attempts \ {a} : outcome'[b] = outcome[b]
BY DEF ResolveAttempt, LedgerTypeOK

(* A response or a reconciliation never makes an attempt live or           *)
(* unresolved that was not.                                                *)
LEMMA AnswersOnlyClose ==
  ASSUME LedgerTypeOK, NEW a \in Attempts, NEW answer \in Outcomes \ {"NONE"},
         ResolveAttempt(a, answer) \/ ReconcileAttempt(a)
  PROVE  \A b \in Attempts : /\ Unresolved(b)' => Unresolved(b)
                             /\ MayHaveReachedTig(b)' => MayHaveReachedTig(b)
BY DEF ResolveAttempt, ReconcileAttempt, LedgerTypeOK, Unresolved, MayHaveReachedTig, Outcomes

(* What each of the six ledger steps of a process does to the ledger.      *)
LEMMA GatewayLedger ==
  ASSUME IInv, NEW g \in Gateways,
         \/ Begin(g) \/ Send(g) \/ Record(g) \/ RecordMissing(g)
         \/ Reconcile(g) \/ RefuseUnsent(g)
  PROVE  OneUnresolved' /\ LedgerIsTrue' /\ OneLiveAttempt'
<1> DEFINE att == gw[g].att
<1>1. att \in Attempts /\ LedgerTypeOK /\ TigTypeOK
  BY DEF IInv, TypeOK, GatewayTypeOK, GatewayStates
<1>2. ASSUME UNCHANGED outcome
      PROVE  OneUnresolved' /\ OneLiveAttempt'
  BY <1>2 DEF IInv, OneUnresolved, OneLiveAttempt, Unresolved, MayHaveReachedTig
<1>3. ASSUME UNCHANGED <<outcome, tig>>
      PROVE  LedgerIsTrue'
  BY <1>3 DEF IInv, LedgerIsTrue, Applied
<1>4. ASSUME \A b \in Attempts : /\ Unresolved(b)' => Unresolved(b)
                                 /\ MayHaveReachedTig(b)' => MayHaveReachedTig(b)
      PROVE  OneUnresolved' /\ OneLiveAttempt'
  BY <1>4 DEF IInv, OneUnresolved, OneLiveAttempt
<1>5. ASSUME NEW answer \in Outcomes \ {"NONE"}, ResolveAttempt(att, answer),
             UNCHANGED tig,
             answer = "REJECTED" => tig[att] \in {"unsent", "refused"},
             answer = "ACCEPTED" => Applied(att)
      PROVE  OneUnresolved' /\ LedgerIsTrue' /\ OneLiveAttempt'
  <2>1. LedgerIsTrue'
    BY <1>1, <1>5, ResolveEffect DEF IInv, LedgerIsTrue, Applied
  <2> QED
    BY <1>1, <1>4, <1>5, <2>1, AnswersOnlyClose
<1>6. CASE Begin(g)
  <2>1. CASE UNCHANGED ledgerVars
    BY <1>2, <1>3, <1>6, <2>1 DEF Begin, ledgerVars
  <2>2. ASSUME NEW a \in Attempts, IntentOf(a) = JobOf(g), HasFence(g, WorkOf(g)),
               BeginAttempt(a), gw[g].pc = "transmit", UNCHANGED tig
        PROVE  OneUnresolved' /\ LedgerIsTrue' /\ OneLiveAttempt'
    <3>1. WorkflowOf(a) = WorkOf(g)
      BY <1>1, <2>2, AttemptNames DEF JobOf, WorkOf
    <3>2. ~TransmittedPrecommit(WorkOf(g))
      BY <2>2 DEF IInv, TransmitIsFresh
    <3>3. \A b \in Attempts : outcome'[b] = IF b = a THEN "PENDING" ELSE outcome[b]
      BY <1>1, <2>2 DEF BeginAttempt, LedgerTypeOK
    <3>4. OneUnresolved'
      BY <2>2, <3>3 DEF OneUnresolved, BeginAttempt, LaneFree, Unresolved
    <3>5. OneLiveAttempt'
      BY <3>1, <3>2, <3>3 DEF IInv, OneLiveAttempt, TransmittedPrecommit, MayHaveReachedTig
    <3>6. LedgerIsTrue'
      BY <2>2, <3>3 DEF IInv, LedgerIsTrue, Applied
    <3> QED
      BY <3>4, <3>5, <3>6
  <2> QED
    BY <1>6, <2>1, <2>2 DEF Begin
<1>7. CASE Send(g)
  <2>1. outcome[att] = "PENDING" /\ UNCHANGED outcome
        /\ tig' = [tig EXCEPT ![att] = "wire"] /\ tig[att] = "unsent"
    BY <1>7 DEF Send, Goto, Transmit, IInv, BegunIsUnsent, ledgerVars
  <2>2. LedgerIsTrue'
    BY <1>1, <2>1 DEF IInv, LedgerIsTrue, Applied, TigTypeOK
  <2> QED
    BY <1>2, <2>1, <2>2
<1>8. CASE Record(g)
  <2>1. ASSUME NEW answer \in Classifications(att), ResolveAttempt(att, answer)
        PROVE  OneUnresolved' /\ LedgerIsTrue' /\ OneLiveAttempt'
    BY <1>5, <1>8, <2>1 DEF Record, Classifications, Outcomes
  <2> QED
    BY Zenon, <1>2, <1>3, <1>8, <2>1 DEF Record, ledgerVars
<1>9. CASE RecordMissing(g)
  <2>1. ASSUME ResolveAttempt(att, "AMBIGUOUS")
        PROVE  OneUnresolved' /\ LedgerIsTrue' /\ OneLiveAttempt'
    BY Zenon, <1>5, <1>9, <2>1 DEF RecordMissing, Outcomes
  <2> QED
    BY Zenon, <1>2, <1>3, <1>9, <2>1 DEF RecordMissing, ledgerVars
<1>10. CASE Reconcile(g)
  <2>1. ASSUME ReconcileAttempt(att)
        PROVE  OneUnresolved' /\ LedgerIsTrue' /\ OneLiveAttempt'
    <3>1. Applied(att) /\ UNCHANGED tig
      BY <1>10 DEF Reconcile, Goto, IInv, SettledIsApplied
    <3>2. LedgerIsTrue'
      BY <1>1, <2>1, <3>1 DEF ReconcileAttempt, IInv, LedgerIsTrue, Applied, LedgerTypeOK
    <3>3. "ACCEPTED" \in Outcomes \ {"NONE"}
      BY Zenon DEF Outcomes
    <3> QED
      BY <1>1, <1>4, <2>1, <3>2, <3>3, AnswersOnlyClose
  <2> QED
    BY <1>2, <1>3, <1>10, <2>1 DEF Reconcile, ledgerVars
<1>11. CASE RefuseUnsent(g)
  <2>1. tig[att] = "unsent"
    BY <1>11 DEF RefuseUnsent, Goto, IInv, BegunIsUnsent
  <2> QED
    BY <1>5, <1>11, <2>1 DEF RefuseUnsent, Outcomes
<1> QED
  BY <1>6, <1>7, <1>8, <1>9, <1>10, <1>11

(* Every step of the write path keeps the ledger's three invariants.       *)
LEMMA LedgerStep ==
  IInv /\ [Next]_vars => OneUnresolved' /\ LedgerIsTrue' /\ OneLiveAttempt'
<1> SUFFICES ASSUME IInv, [Next]_vars
             PROVE  OneUnresolved' /\ LedgerIsTrue' /\ OneLiveAttempt'
  OBVIOUS
<1>1. CASE UNCHANGED <<outcome, tig>>
  BY <1>1 DEF IInv, OneUnresolved, OneLiveAttempt, LedgerIsTrue, Applied, Unresolved,
     MayHaveReachedTig
<1>2. ASSUME NEW a \in Attempts, TigMoves(a), UNCHANGED outcome
      PROVE  OneUnresolved' /\ LedgerIsTrue' /\ OneLiveAttempt'
  <2>1. OneUnresolved' /\ OneLiveAttempt'
    BY <1>2 DEF IInv, OneUnresolved, OneLiveAttempt, Unresolved, MayHaveReachedTig
  <2>2. LedgerIsTrue'
    BY <1>2 DEF IInv, TypeOK, TigTypeOK, LedgerIsTrue, Applied, TigMoves
  <2> QED
    BY <2>1, <2>2
<1> QED
  BY <1>1, <1>2, GatewayLedger, LedgerSteps DEF IInv


(***************************************************************************)
(* The processes                                                           *)
(***************************************************************************)

(* A claim hands the token to the claimant alone, a release clears it, and *)
(* no other step of a process touches it.                                  *)
LEMMA TokenStep ==
  ASSUME TypeOK, OneCurrentToken, NEW g \in Gateways, GatewayStep(g) \/ GatewayFault(g)
  PROVE  /\ OneCurrentToken'
         /\ \A h \in Gateways \ {g}, w \in Workflows :
              h \in current'[w] => h \in current[w]
<1>1. CASE UNCHANGED leaseVars
  BY <1>1 DEF OneCurrentToken, leaseVars
<1>2. CASE Handle(g)
  <2>1. PICK i \in gw[g].todo : Claim(g, i[1])
    BY <1>2 DEF Handle
  <2> QED
    BY <2>1 DEF Claim, OneCurrentToken, TypeOK, LeaseTypeOK
<1>3. CASE ReleaseIntent(g)
  <2>1. Release(g, WorkOf(g))
    BY <1>3 DEF ReleaseIntent
  <2> QED
    BY <1>1, <2>1 DEF Release, OneCurrentToken, TypeOK, LeaseTypeOK
<1> QED
  BY <1>1, <1>2, <1>3 DEF GatewayStep, GatewayFault, StartPass, PassOver, Begin, Send,
     Record, RecordMissing, Reconcile, GateBlocks, RefuseUnsent, DatabaseFails, Crash

(* A process that decides to settle an attempt has found that attempt's    *)
(* own benchmark: the candidate carries the workflow's tuple, was applied, *)
(* and a workflow has only one live attempt.                               *)
LEMMA SettlesItsOwn ==
  ASSUME IInv, NEW g \in Gateways, NEW i \in Intents, NEW a \in Attempts,
         DecidesSettle(i, gw[g].win, a)
  PROVE  Applied(a)
<1>1. PICK b \in Attempts : FoundConfirmed(i, gw[g].win, b)
  BY DEF DecidesSettle
<1>2. b \in gw[g].win.shown /\ Tuple[IntentOf(b)] = Tuple[i]
  BY <1>1 DEF FoundConfirmed, Candidates
<1>3. Applied(b)
  BY <1>2 DEF IInv, WindowsAreTrue, WindowIsTrue
<1>4. MayHaveReachedTig(b)
  BY <1>3 DEF IInv, TypeOK, LedgerTypeOK, LedgerIsTrue, Applied, MayHaveReachedTig, Outcomes
<1>5. WorkflowOf(b) = i[1]
  BY <1>2, AttemptNames, TupleAssumption
<1>6. WorkflowOf(a) = i[1] /\ MayHaveReachedTig(a)
  BY AttemptNames DEF DecidesSettle, AttemptsFor, Unresolved, MayHaveReachedTig
<1> QED
  BY <1>3, <1>4, <1>5, <1>6 DEF IInv, OneLiveAttempt

(* A process that decides to transmit for a workflow sees no live attempt  *)
(* of it, of this generation or of another.                                *)
LEMMA DecidesFresh ==
  ASSUME NEW i \in Intents, DecidesTransmit(i)
  PROVE  ~TransmittedPrecommit(i[1])
BY AttemptNames DEF DecidesTransmit, AttemptsFor, SiblingTransmitted, TransmittedPrecommit,
   MayHaveReachedTig

(* The invariants of one process, as far as its own state goes.            *)
Fresh(h) ==
  gw[h].pc = "transmit" /\ HasFence(h, WorkOf(h)) => ~TransmittedPrecommit(WorkOf(h))

Waiting(h) ==
  gw[h].pc = "begun" => outcome[gw[h].att] = "PENDING" /\ tig[gw[h].att] = "unsent"

Left(h) == gw[h].pc = "sent" => tig[gw[h].att] # "unsent"

Found(h) == gw[h].pc \in {"settle", "reconcile"} => Applied(gw[h].att)

(* A step that leaves h with an attempt row to send inserted that row.     *)
Begins(h) == gw'[h].pc = "begun" => outcome[gw'[h].att] = "NONE"

(* A process handling an intent has the label and the attempt it was given *)
(* and keeps the window of its pass; between intents it has no attempt in  *)
(* hand.                                                                   *)
LEMMA LocalEffect ==
  ASSUME GatewayTypeOK, NEW g \in Gateways
  PROVE  /\ \A rest \in SUBSET Intents :
              /\ Between(g, rest).pc = "pass"
              /\ Between(g, rest).win \in {NoWindow, gw[g].win}
         /\ \A i \in Intents, pc \in Pcs, a \in Attempts :
              /\ Handling(g, i, pc, a).pc = pc
              /\ Handling(g, i, pc, a).att = a
              /\ Handling(g, i, pc, a).win \in {NoWindow, gw[g].win}
<1>1. IdleState \in GatewayStates /\ IdleState.pc = "pass" /\ IdleState.win = NoWindow
  BY LocalTypes DEF IdleState
<1>2. \A rest \in SUBSET Intents :
        /\ Between(g, rest).pc = "pass"
        /\ Between(g, rest).win \in {NoWindow, gw[g].win}
  BY <1>1 DEF Between, GatewayStates
<1>3. ASSUME NEW i \in Intents, NEW pc \in Pcs, NEW a \in Attempts
      PROVE  /\ Handling(g, i, pc, a).pc = pc
             /\ Handling(g, i, pc, a).att = a
             /\ Handling(g, i, pc, a).win \in {NoWindow, gw[g].win}
  <2> DEFINE B == Between(g, gw[g].todo \ {i})
  <2>1. gw[g].todo \ {i} \in SUBSET Intents
    BY DEF GatewayTypeOK, GatewayStates
  <2>2. B \in GatewayStates /\ B.win \in {NoWindow, gw[g].win}
    BY <1>2, <2>1, HandlingTypes
  <2>3. Handling(g, i, pc, a) = [B EXCEPT !.pc = pc, !.att = a]
    BY DEF Handling
  <2> HIDE DEF B
  <2> QED
    BY <2>2, <2>3 DEF GatewayStates
<1> QED
  BY <1>2, <1>3

(* The next label of a process, and what is known of its attempt there.    *)
LEMMA OwnStep ==
  ASSUME IInv, NEW g \in Gateways, GatewayStep(g) \/ GatewayFault(g), TigAdvances
  PROVE  Fresh(g)' /\ Waiting(g)' /\ Left(g)' /\ Found(g)' /\ Begins(g)
<1>1. /\ gw[g].att \in Attempts /\ gw[g].todo \in SUBSET Intents
      /\ LedgerTypeOK /\ TigTypeOK /\ GatewayTypeOK /\ gw[g] \in GatewayStates
  BY DEF IInv, TypeOK, GatewayTypeOK, GatewayStates
<1>2. ASSUME gw'[g].pc \in {"pass", "release", "dead"}
      PROVE  Fresh(g)' /\ Waiting(g)' /\ Left(g)' /\ Found(g)' /\ Begins(g)
  BY <1>2 DEF Begins, Fresh, Waiting, Left, Found
<1>3. ASSUME NEW pc \in Pcs, gw' = [gw EXCEPT ![g].pc = pc]
      PROVE  gw'[g].pc = pc /\ gw'[g].att = gw[g].att
  BY <1>1, <1>3 DEF GatewayTypeOK, GatewayStates
<1>4. \A s \in GatewayStates : gw' = [gw EXCEPT ![g] = s] => gw'[g] = s
  BY DEF IInv, TypeOK, GatewayTypeOK
<1>5. CASE StartPass(g)
  <2>1. gw'[g].pc = "pass"
    BY <1>1, <1>5 DEF StartPass, GatewayTypeOK, GatewayStates
  <2> QED
    BY <1>2, <2>1
<1>6. CASE Handle(g)
  <2>1. PICK i \in gw[g].todo : Decide(g, i) /\ Claim(g, i[1])
    BY <1>6 DEF Handle
  <2>2. i \in Intents /\ FirstAttempt(i) \in Attempts /\ WorkflowOf(FirstAttempt(i)) = i[1]
    BY <1>1, <2>1, IntentNames
  <2>3. UNCHANGED <<outcome, tig>>
    BY <1>6 DEF Handle, ledgerVars
  <2>4. ASSUME NEW pc \in Pcs, NEW a \in Attempts,
               gw' = [gw EXCEPT ![g] = Handling(g, i, pc, a)]
        PROVE  gw'[g].pc = pc /\ gw'[g].att = a
    <3>1. Handling(g, i, pc, a) \in GatewayStates
      BY <1>1, <2>2, HandlingTypes
    <3>2. Handling(g, i, pc, a).pc = pc /\ Handling(g, i, pc, a).att = a
      BY <1>1, <2>2, LocalEffect
    <3> QED
      BY Zenon, <1>4, <2>4, <3>1, <3>2
  <2>5. ASSUME DecidesTransmit(i),
               gw' = [gw EXCEPT ![g] = Handling(g, i, "transmit", FirstAttempt(i))]
        PROVE  Fresh(g)' /\ Waiting(g)' /\ Left(g)' /\ Found(g)' /\ Begins(g)
    <3>1. gw'[g].pc = "transmit" /\ gw'[g].att = FirstAttempt(i)
      BY ZenonT(60), <2>2, <2>4, <2>5 DEF Pcs
    <3>2. ~TransmittedPrecommit(i[1])
      BY <2>2, <2>5, DecidesFresh
    <3>3. Fresh(g)'
      BY <2>2, <2>3, <3>1, <3>2
         DEF Fresh, WorkOf, TransmittedPrecommit, MayHaveReachedTig
    <3> QED
      BY <3>1, <3>3 DEF Begins, Waiting, Left, Found
  <2>6. ASSUME NEW a \in Attempts, DecidesSettle(i, gw[g].win, a),
               \/ gw' = [gw EXCEPT ![g] = Handling(g, i, "settle", a)]
               \/ gw' = [gw EXCEPT ![g] = Handling(g, i, "reconcile", a)]
        PROVE  Fresh(g)' /\ Waiting(g)' /\ Left(g)' /\ Found(g)' /\ Begins(g)
    <3>1. gw'[g].pc \in {"settle", "reconcile"} /\ gw'[g].att = a
      BY Zenon, <2>4, <2>6 DEF Pcs
    <3>2. Applied(a)
      BY <2>2, <2>6, SettlesItsOwn
    <3> QED
      BY <2>3, <3>1, <3>2 DEF Begins, Fresh, Waiting, Left, Found, Applied
  <2>7. ASSUME gw' = [gw EXCEPT ![g] = Handling(g, i, "release", FirstAttempt(i))]
        PROVE  gw'[g].pc = "release"
    BY Zenon, <2>2, <2>4, <2>7 DEF Pcs
  <2> QED
    BY ZenonT(60), <1>2, <2>1, <2>5, <2>6, <2>7 DEF Decide
<1>7. ASSUME NEW rest \in SUBSET Intents, gw' = [gw EXCEPT ![g] = Between(g, rest)]
       PROVE  gw'[g].pc = "pass"
  <2>1. Between(g, rest) \in GatewayStates /\ Between(g, rest).pc = "pass"
    BY <1>1, HandlingTypes, LocalEffect
  <2> QED
    BY ZenonT(60), <1>4, <1>7, <2>1
<1>8. CASE PassOver(g) \/ ReleaseIntent(g)
  <2>1. gw'[g].pc = "pass"
    <3>1. PICK rest : gw' = [gw EXCEPT ![g] = Between(g, rest)]
                      /\ rest \in SUBSET gw[g].todo
      BY Zenon, <1>8 DEF PassOver, ReleaseIntent
    <3> QED
      BY Zenon, <1>1, <1>7, <3>1
  <2> QED
    BY <1>2, <2>1
<1>9. CASE Begin(g)
  <2>1. ASSUME NEW a \in Attempts, BeginAttempt(a), UNCHANGED tig,
               gw' = [gw EXCEPT ![g].pc = "begun", ![g].att = a]
        PROVE  Fresh(g)' /\ Waiting(g)' /\ Left(g)' /\ Found(g)' /\ Begins(g)
    <3>1. gw'[g].pc = "begun" /\ gw'[g].att = a
      BY <1>1, <2>1 DEF GatewayTypeOK, GatewayStates
    <3>2. outcome[a] = "NONE" /\ outcome'[a] = "PENDING" /\ tig'[a] = "unsent"
      BY Zenon, <1>1, <2>1 DEF BeginAttempt, LedgerTypeOK, IInv, LedgerIsTrue
    <3> QED
      BY <3>1, <3>2 DEF Begins, Fresh, Waiting, Left, Found
  <2>2. ASSUME gw' = [gw EXCEPT ![g].pc = "release"]
        PROVE  gw'[g].pc = "release"
    BY <1>3, <2>2 DEF Pcs
  <2> QED
    BY <1>2, <1>9, <2>1, <2>2 DEF Begin
<1>10. CASE Send(g)
  <2>1. gw'[g].pc = "sent" /\ gw'[g].att = gw[g].att
    BY <1>3, <1>10 DEF Send, Goto, Pcs
  <2>2. tig'[gw[g].att] = "wire"
    BY <1>1, <1>10 DEF Send, Transmit, TigTypeOK
  <2> QED
    BY <2>1, <2>2 DEF Begins, Fresh, Waiting, Left, Found
<1>11. CASE Record(g) \/ Reconcile(g) \/ GateBlocks(g) \/ RefuseUnsent(g)
  <2>1. gw'[g].pc = "release"
    BY <1>3, <1>11 DEF Record, Reconcile, GateBlocks, RefuseUnsent, Goto, Pcs
  <2> QED
    BY <1>2, <2>1
<1>12. CASE RecordMissing(g)
  <2>1. gw'[g].pc \in {"reconcile", "release"} /\ gw'[g].att = gw[g].att
    BY <1>3, <1>12 DEF RecordMissing, Pcs
  <2>2. Applied(gw[g].att)'
    BY <1>1, <1>12, <2>1 DEF RecordMissing, IInv, SettledIsApplied, Applied
  <2> QED
    BY <2>1, <2>2 DEF Begins, Fresh, Waiting, Left, Found
<1>13. CASE DatabaseFails(g)
  <2>1. \A i \in gw[g].todo : gw[g].todo \ {i} \in SUBSET Intents
    BY <1>1
  <2>2. gw'[g].pc \in {"pass", "release"}
    BY Zenon, <1>1, <1>3, <1>13, <1>7, <2>1 DEF DatabaseFails, Pcs
  <2> QED
    BY <1>2, <2>2
<1>14. CASE Crash(g)
  <2>1. gw'[g].pc = "dead"
    <3> DEFINE D == [IdleState EXCEPT !.pc = "dead"]
    <3>1. D \in GatewayStates /\ D.pc = "dead"
      BY LocalTypes DEF GatewayStates, Pcs
    <3>2. gw' = [gw EXCEPT ![g] = D]
      BY <1>14 DEF Crash
    <3> HIDE DEF D
    <3> QED
      BY Zenon, <1>4, <3>1, <3>2
  <2> QED
    BY <1>2, <2>1
<1> QED
  BY <1>5, <1>6, <1>8, <1>9, <1>10, <1>11, <1>12, <1>13, <1>14
     DEF GatewayStep, GatewayFault

(* A step of one process does not disturb what another one relies on: the  *)
(* fence keeps a second attempt away from a process about to begin, and    *)
(* an attempt row that waits for its sender is nobody else's.              *)
LEMMA OthersStep ==
  ASSUME IInv, NEW g \in Gateways, NEW h \in Gateways \ {g},
         GatewayStep(g) \/ GatewayFault(g), TigAdvances,
         \/ UNCHANGED <<outcome, tig>>
         \/ Begin(g) \/ Send(g) \/ Record(g) \/ RecordMissing(g)
         \/ Reconcile(g) \/ RefuseUnsent(g)
  PROVE  Fresh(h)' /\ Waiting(h)' /\ Left(h)' /\ Found(h)'
<1> DEFINE mine == gw[g].att
           its == gw[h].att
<1>1. gw'[h] = gw[h]
  BY OthersStay DEF IInv, TypeOK
<1>2. /\ mine \in Attempts /\ its \in Attempts /\ WorkOf(h) \in Workflows
      /\ LedgerTypeOK /\ TigTypeOK
  BY AttemptNames DEF IInv, TypeOK, GatewayTypeOK, GatewayStates, WorkOf
<1>3. Left(h)' /\ Found(h)'
  BY <1>1, <1>2 DEF Left, Found, TigAdvances, Applied, IInv, SentHasLeft, SettledIsApplied
<1>4. Waiting(h)'
  <2> SUFFICES ASSUME gw[h].pc = "begun"
               PROVE  outcome'[its] = "PENDING" /\ tig'[its] = "unsent"
    BY <1>1 DEF Waiting
  <2>1. /\ outcome[its] = "PENDING" /\ tig[its] = "unsent"
        /\ gw[g].pc = "begun" => mine # its
    BY ZenonT(60) DEF IInv, BegunIsUnsent
  <2>2. ASSUME UNCHANGED <<outcome, tig>>
        PROVE  outcome'[its] = "PENDING" /\ tig'[its] = "unsent"
    BY <2>1, <2>2
  <2>3. CASE Begin(g)
    BY <1>2, <2>1, <2>2, <2>3 DEF Begin, BeginAttempt, LedgerTypeOK, ledgerVars
  <2>4. CASE Send(g)
    BY <1>2, <2>1, <2>4 DEF Send, Goto, Transmit, TigTypeOK, ledgerVars
  <2>5. CASE Record(g)
    <3>1. mine # its
      BY <2>1, <2>5 DEF Record, Goto, IInv, SentHasLeft
    <3> QED
      BY Zenon, <1>2, <2>1, <2>2, <2>5, <3>1
         DEF Record, ResolveAttempt, LedgerTypeOK, ledgerVars
  <2>6. CASE RecordMissing(g)
    <3>1. mine # its
      BY <2>1, <2>6 DEF RecordMissing, IInv, SettledIsApplied, Applied
    <3> QED
      BY Zenon, <1>2, <2>1, <2>2, <2>6, <3>1
         DEF RecordMissing, ResolveAttempt, LedgerTypeOK, ledgerVars
  <2>7. CASE Reconcile(g)
    BY Zenon, <1>2, <2>1, <2>2, <2>7 DEF Reconcile, ReconcileAttempt, LedgerTypeOK, ledgerVars
  <2>8. CASE RefuseUnsent(g)
    BY <1>2, <2>1, <2>8 DEF RefuseUnsent, Goto, ResolveAttempt, LedgerTypeOK
  <2> QED
    BY Zenon, <2>2, <2>3, <2>4, <2>5, <2>6, <2>7, <2>8
<1>5. Fresh(h)'
  <2> SUFFICES ASSUME gw[h].pc = "transmit", h \in current'[WorkOf(h)],
                      NEW b \in Attempts, WorkflowOf(b) = WorkOf(h)
               PROVE  ~MayHaveReachedTig(b)'
    BY Zenon, <1>1 DEF Fresh, WorkOf, HasFence, TransmittedPrecommit
  <2>1. h \in current[WorkOf(h)]
    BY Zenon, <1>2, TokenStep DEF IInv
  <2>2. ~MayHaveReachedTig(b)
    BY Zenon, <2>1 DEF IInv, TransmitIsFresh, HasFence, TransmittedPrecommit
  <2>3. ASSUME MayHaveReachedTig(b)' => MayHaveReachedTig(b)
        PROVE  ~MayHaveReachedTig(b)'
    BY <2>2, <2>3
  <2>4. ASSUME UNCHANGED outcome PROVE ~MayHaveReachedTig(b)'
    BY <2>2, <2>4 DEF MayHaveReachedTig
  <2>5. CASE Begin(g)
    <3>1. ASSUME NEW a \in Attempts, IntentOf(a) = JobOf(g), HasFence(g, WorkOf(g)),
                 BeginAttempt(a)
          PROVE  ~MayHaveReachedTig(b)'
      <4>1. WorkflowOf(a) = WorkOf(g)
        BY ZenonT(60), <1>2, <3>1, AttemptNames DEF JobOf, WorkOf
      <4>2. WorkOf(g) # WorkOf(h)
        BY Zenon, <1>2, <2>1, <3>1 DEF HasFence, IInv, OneCurrentToken
      <4>3. outcome'[b] = outcome[b]
        BY <1>2, <3>1, <4>1, <4>2 DEF BeginAttempt, LedgerTypeOK
      <4> QED
        BY <2>2, <4>3 DEF MayHaveReachedTig
    <3> QED
      BY <2>4, <2>5, <3>1 DEF Begin, ledgerVars
  <2>6. ASSUME NEW answer \in Outcomes \ {"NONE"},
               ResolveAttempt(mine, answer) \/ ReconcileAttempt(mine)
        PROVE  ~MayHaveReachedTig(b)'
    BY ZenonT(60), <1>2, <2>3, <2>6, AnswersOnlyClose
  <2>7. CASE Record(g)
    BY Zenon, <2>4, <2>6, <2>7 DEF Record, Classifications, Outcomes, ledgerVars
  <2>8. CASE RecordMissing(g) \/ RefuseUnsent(g)
    BY <2>4, <2>6, <2>8 DEF RecordMissing, RefuseUnsent, Outcomes, ledgerVars
  <2>9. CASE Reconcile(g)
    <3>1. "ACCEPTED" \in Outcomes \ {"NONE"}
      BY ZenonT(60) DEF Outcomes
    <3> QED
      BY ZenonT(60), <2>4, <2>6, <2>9, <3>1 DEF Reconcile, ledgerVars
  <2>10. CASE Send(g)
    BY Zenon, <2>4, <2>10 DEF Send, ledgerVars
  <2> QED
    BY ZenonT(60), <2>4, <2>5, <2>7, <2>8, <2>9, <2>10
<1> QED
  BY <1>3, <1>4, <1>5

(* Every step of the write path keeps what the processes rely on.          *)
LEMMA ProcessStep ==
  IInv /\ [Next]_vars =>
    /\ OneCurrentToken' /\ TransmitIsFresh'
    /\ BegunIsUnsent' /\ SentHasLeft' /\ SettledIsApplied'
<1> SUFFICES ASSUME IInv, [Next]_vars
             PROVE  /\ OneCurrentToken' /\ TransmitIsFresh'
                    /\ BegunIsUnsent' /\ SentHasLeft' /\ SettledIsApplied'
  OBVIOUS
<1>1. TypeOK /\ TigAdvances
  BY TigMonotone DEF IInv
<1>2. ASSUME NEW g \in Gateways, GatewayActs(g)
      PROVE  /\ OneCurrentToken' /\ TransmitIsFresh'
             /\ BegunIsUnsent' /\ SentHasLeft' /\ SettledIsApplied'
  <2>1. GatewayStep(g) \/ GatewayFault(g)
    BY <1>2 DEF GatewayActs
  <2>2. \/ UNCHANGED <<outcome, tig>>
        \/ Begin(g) \/ Send(g) \/ Record(g) \/ RecordMissing(g)
        \/ Reconcile(g) \/ RefuseUnsent(g)
    BY <2>1 DEF GatewayStep, GatewayFault, StartPass, Handle, PassOver,
       ReleaseIntent, GateBlocks, DatabaseFails, Crash, ledgerVars
  <2>3. \A h \in Gateways : Fresh(h)' /\ Waiting(h)' /\ Left(h)' /\ Found(h)'
    BY Zenon, <1>1, <2>1, <2>2, OwnStep, OthersStep
  <2>4. OneCurrentToken'
    BY <2>1, TokenStep DEF IInv
  <2>5. TransmitIsFresh' /\ SentHasLeft' /\ SettledIsApplied'
    BY <2>3 DEF TransmitIsFresh, SentHasLeft, SettledIsApplied, Fresh, Left, Found
  <2>6. \A h \in Gateways \ {g} : gw'[h] = gw[h]
    BY <1>1, <2>1, OthersStay DEF TypeOK
  <2>7. ASSUME NEW p \in Gateways, NEW q \in Gateways, gw'[p].pc = "begun",
               gw'[q].pc = "begun", gw'[p].att = gw'[q].att
        PROVE  q = p
    <3>1. Begins(g)
      BY <1>1, <2>1, OwnStep
    <3>2. \A h \in Gateways \ {g} :
            gw'[h].pc = "begun" => outcome[gw'[h].att] = "PENDING"
      BY <2>6 DEF IInv, BegunIsUnsent
    <3>3. CASE p # g /\ q # g
      BY <2>6, <2>7, <3>3 DEF IInv, BegunIsUnsent
    <3> QED
      BY <2>7, <3>1, <3>2, <3>3 DEF Begins
  <2>8. BegunIsUnsent'
    BY <2>3, <2>7 DEF BegunIsUnsent, Waiting
  <2> QED
    BY <2>4, <2>5, <2>8
<1>3. ASSUME UNCHANGED <<gw, current, outcome>>,
             \A a \in Attempts : tig[a] = "unsent" => tig'[a] = "unsent"
      PROVE  /\ OneCurrentToken' /\ TransmitIsFresh'
             /\ BegunIsUnsent' /\ SentHasLeft' /\ SettledIsApplied'
  <2>1. \A g \in Gateways : gw[g].att \in Attempts
    BY <1>1 DEF TypeOK, GatewayTypeOK, GatewayStates
  <2>2. OneCurrentToken' /\ TransmitIsFresh'
    BY <1>3 DEF IInv, OneCurrentToken, TransmitIsFresh, HasFence, WorkOf,
       TransmittedPrecommit, MayHaveReachedTig
  <2>3. BegunIsUnsent'
    BY <1>3, <2>1 DEF IInv, BegunIsUnsent
  <2>4. SentHasLeft' /\ SettledIsApplied'
    BY <1>1, <1>3, <2>1 DEF IInv, SentHasLeft, SettledIsApplied, TigAdvances, Applied
  <2> QED
    BY <2>2, <2>3, <2>4
<1>4. CASE ControllerActs
  <2>1. UNCHANGED <<gw, current>> /\ UNCHANGED <<outcome, tig>>
    <3>1. CASE BindOne
      BY ZenonT(60), <1>4, <3>1 DEF ControllerActs, BindOne, ConfirmPrecommit, ledgerVars, leaseVars
    <3>2. CASE ~BindOne
      BY ZenonT(60), <1>4, <3>2 DEF ControllerActs, BlockStep, BlockFault, StartBlock, BindSettle,
         SettleIntent, StartSweep, SweepOne, ExpireWorkflow, DecideOnce, AdmitPrecommit,
         BlockDatabaseFails, BlockCrash, ledgerVars, leaseVars
    <3> QED
      BY <3>1, <3>2
  <2> QED
    BY <1>3, <2>1
<1>5. ASSUME NEW a \in Attempts, TigActs(a)
      PROVE  UNCHANGED <<gw, current, outcome>>
             /\ \A b \in Attempts : tig[b] = "unsent" => tig'[b] = "unsent"
  BY <1>1, <1>5 DEF TigActs, TigMoves, ledgerVars, leaseVars, TypeOK, TigTypeOK
<1>6. CASE \/ \E a \in Attempts : AttemptOutlivesCall(a)
           \/ \E w \in Workflows :
                \/ OperatorFails(w) \/ LeaseLapses(w)
                \/ \E n \in 1..MaxGeneration : NewGeneration(w, n)
           \/ UNCHANGED vars
  <2>1. UNCHANGED <<gw, current, outcome, tig>>
    BY ZenonT(60), <1>6 DEF AttemptOutlivesCall, AttemptAges, OperatorFails, FailWorkflow,
       LeaseLapses, Lapse, NewGeneration, AdmitPrecommit, vars, ledgerVars, leaseVars
  <2> QED
    BY <1>3, <2>1
<1> QED
  BY <1>2, <1>3, <1>4, <1>5, <1>6 DEF Next


(***************************************************************************)
(* The windows and the binding                                             *)
(***************************************************************************)

(* The window a process has next is the one it had, none, or TIG's of now. *)
LEMMA GatewayWindow ==
  ASSUME GatewayTypeOK, NEW g \in Gateways, GatewayStep(g) \/ GatewayFault(g)
  PROVE  \/ gw'[g].win \in {NoWindow, gw[g].win}
         \/ gw'[g].win = TigWindow /\ UNCHANGED tig
<1> DEFINE Keeps == gw'[g].win \in {NoWindow, gw[g].win}
<1>1. gw[g].todo \in SUBSET Intents /\ gw[g] \in GatewayStates
  BY DEF GatewayTypeOK, GatewayStates
<1>2. \A s \in GatewayStates : gw' = [gw EXCEPT ![g] = s] => gw'[g] = s
  BY Zenon DEF GatewayTypeOK
<1>3. ASSUME NEW pc \in Pcs, gw' = [gw EXCEPT ![g].pc = pc] PROVE Keeps
  BY <1>1, <1>3 DEF GatewayTypeOK, GatewayStates
<1>4. ASSUME NEW rest \in SUBSET Intents, gw' = [gw EXCEPT ![g] = Between(g, rest)]
      PROVE  Keeps
  <2>1. Between(g, rest) \in GatewayStates
        /\ Between(g, rest).win \in {NoWindow, gw[g].win}
    BY HandlingTypes, LocalEffect
  <2> QED
    BY Zenon, <1>2, <1>4, <2>1
<1>5. ASSUME NEW i \in Intents, NEW pc \in Pcs, NEW a \in Attempts,
             gw' = [gw EXCEPT ![g] = Handling(g, i, pc, a)]
      PROVE  Keeps
  <2>1. Handling(g, i, pc, a) \in GatewayStates
        /\ Handling(g, i, pc, a).win \in {NoWindow, gw[g].win}
    BY HandlingTypes, LocalEffect
  <2> QED
    BY Zenon, <1>2, <1>5, <2>1
<1>6. \A i \in gw[g].todo : gw[g].todo \ {i} \in SUBSET Intents
  BY <1>1
<1>7. CASE StartPass(g)
  BY <1>1, <1>7 DEF StartPass, GatewayTypeOK, GatewayStates
<1>8. CASE Handle(g)
  <2>1. PICK i \in gw[g].todo : Decide(g, i)
    BY <1>8 DEF Handle
  <2>2. i \in Intents /\ FirstAttempt(i) \in Attempts
    BY <1>1, <2>1, IntentNames
  <2>3. {"transmit", "settle", "reconcile", "release"} \subseteq Pcs
    BY DEF Pcs
  <2> HIDE DEF Keeps
  <2>4. Keeps
    BY <1>5, <2>1, <2>2, <2>3 DEF Decide
  <2> QED
    BY <2>4 DEF Keeps
<1>9. CASE PassOver(g) \/ ReleaseIntent(g)
  <2>1. PICK rest \in SUBSET Intents : gw' = [gw EXCEPT ![g] = Between(g, rest)]
    BY Zenon, <1>1, <1>6, <1>9 DEF PassOver, ReleaseIntent
  <2> QED
    BY Zenon, <1>4, <2>1
<1>10. CASE Begin(g)
  BY <1>1, <1>3, <1>10 DEF Begin, GatewayTypeOK, GatewayStates, Pcs
<1>11. CASE Send(g) \/ Record(g) \/ RecordMissing(g) \/ Reconcile(g)
  BY <1>3, <1>11 DEF Send, Record, RecordMissing, Reconcile, Goto, Pcs
<1>12. CASE GateBlocks(g) \/ RefuseUnsent(g)
  BY <1>3, <1>12 DEF GateBlocks, RefuseUnsent, Goto, Pcs
<1>13. CASE DatabaseFails(g)
  <2>1. \/ \E rest \in SUBSET Intents : gw' = [gw EXCEPT ![g] = Between(g, rest)]
        \/ gw' = [gw EXCEPT ![g].pc = "release"]
    BY Zenon, <1>1, <1>6, <1>13 DEF DatabaseFails
  <2>2. "release" \in Pcs
    BY DEF Pcs
  <2> QED
    BY <1>3, <1>4, <2>1, <2>2
<1>14. CASE Crash(g)
  <2> DEFINE D == [IdleState EXCEPT !.pc = "dead"]
  <2>1. D \in GatewayStates /\ D.win = NoWindow
    BY LocalTypes DEF GatewayStates, Pcs, IdleState
  <2>2. gw' = [gw EXCEPT ![g] = D]
    BY <1>14 DEF Crash
  <2> HIDE DEF D
  <2> QED
    BY <1>2, <2>1, <2>2
<1> QED
  BY Zenon, <1>7, <1>8, <1>9, <1>10, <1>11, <1>12, <1>13, <1>14 DEF GatewayStep, GatewayFault

(* So it is for the controller.                                            *)
LEMMA BlockWindow ==
  ASSUME BlockTypeOK, BlockStep \/ BlockFault
  PROVE  ctl'.win \in {NoWindow, ctl.win, TigWindow} /\ UNCHANGED tig
<1>1. \A pc, rest, unknown, window :
        Visiting(pc, rest, unknown, window).win \in {NoWindow, window}
  BY LocalTypes DEF Visiting, BlockStates
<1>2. \A pc, w, unknown : Visited(pc, w, unknown).win \in {NoWindow, ctl.win}
  BY <1>1 DEF Visited
<1>3. NoBlock.win = NoWindow
  BY DEF NoBlock
<1>4. CASE StartBlock \/ StartSweep
  BY <1>1, <1>4 DEF StartBlock, StartSweep
<1>5. CASE BindOne
  <2>1. UNCHANGED tig
    BY ZenonT(60), <1>5 DEF BindOne
  <2>2. PICK w \in ctl.todo :
          \/ \E i \in Intents : ctl' = [ctl EXCEPT !.pc = "settle", !.job = i]
          \/ ctl' = Visited("bind", w, ctl.unknown \cup {w})
          \/ ctl' = Visited("bind", w,
                            ctl.unknown \cup {v \in {w} : CannotTell(v)})
    BY Zenon, <1>5 DEF BindOne
  <2>3. \A i \in Intents : [ctl EXCEPT !.pc = "settle", !.job = i].win = ctl.win
    BY DEF BlockTypeOK, BlockStates
  <2>4. /\ Visited("bind", w, ctl.unknown \cup {w}).win \in {NoWindow, ctl.win}
        /\ Visited("bind", w, ctl.unknown \cup {v \in {w} : CannotTell(v)}).win
             \in {NoWindow, ctl.win}
    BY <1>2
  <2> QED
    BY ZenonT(60), <2>1, <2>2, <2>3, <2>4
<1>6. CASE BindSettle \/ SweepOne
  BY <1>2, <1>6 DEF BindSettle, SweepOne
<1>7. CASE DecideOnce \/ BlockCrash
  BY <1>3, <1>7 DEF DecideOnce, BlockCrash
<1>8. CASE BlockDatabaseFails
  <2>1. UNCHANGED tig
    BY <1>8 DEF BlockDatabaseFails
  <2>2. \E pc, w : ctl' = Visited(pc, w, ctl.unknown \cup {w})
    BY Zenon, <1>8 DEF BlockDatabaseFails
  <2> QED
    BY <1>2, <2>1, <2>2
<1> QED
  BY <1>4, <1>5, <1>6, <1>7, <1>8 DEF BlockStep, BlockFault

(* No step makes a window untrue, however old it is.                       *)
LEMMA WindowStep == IInv /\ [Next]_vars => WindowsAreTrue'
<1> SUFFICES ASSUME IInv, [Next]_vars PROVE WindowsAreTrue'
  OBVIOUS
<1>1. TypeOK /\ TigAdvances
  BY TigMonotone DEF IInv
<1>2. \A window \in Windows : WindowIsTrue(window) => WindowIsTrue(window)'
  BY <1>1 DEF TigAdvances, WindowIsTrue, Windows
<1>3. WindowIsTrue(NoWindow)'
  BY DEF WindowIsTrue, NoWindow
<1>4. ASSUME UNCHANGED tig PROVE WindowIsTrue(TigWindow)'
  BY <1>4 DEF WindowIsTrue, TigWindow, Applied
<1>5. /\ ctl.win \in Windows /\ WindowIsTrue(ctl.win)
      /\ \A g \in Gateways : gw[g].win \in Windows /\ WindowIsTrue(gw[g].win)
  BY <1>1 DEF IInv, WindowsAreTrue, TypeOK, BlockTypeOK, BlockStates, GatewayTypeOK,
     GatewayStates
<1>6. ASSUME UNCHANGED ctl PROVE WindowIsTrue(ctl.win)'
  BY <1>2, <1>5, <1>6 DEF WindowIsTrue
<1>7. ASSUME NEW g \in Gateways, gw'[g].win = gw[g].win PROVE WindowIsTrue(gw[g].win)'
  BY <1>2, <1>5, <1>7 DEF WindowIsTrue
<1>8. ASSUME NEW g \in Gateways, GatewayActs(g) PROVE WindowsAreTrue'
  <2>1. GatewayStep(g) \/ GatewayFault(g)
    BY <1>8 DEF GatewayActs
  <2>2. \/ gw'[g].win \in {NoWindow, gw[g].win}
        \/ gw'[g].win = TigWindow /\ UNCHANGED tig
    BY <1>1, <2>1, GatewayWindow DEF TypeOK
  <2>3. UNCHANGED tig => TigWindow' = TigWindow
    BY DEF TigWindow
  <2>4. WindowIsTrue(gw[g].win)'
    BY <1>3, <1>4, <1>7, <2>2, <2>3 DEF WindowIsTrue, NoWindow
  <2>5. \A h \in Gateways \ {g} : WindowIsTrue(gw[h].win)'
    BY <1>1, <1>7, <2>1, OthersStay DEF TypeOK
  <2> QED
    BY <1>6, <1>8, <2>4, <2>5 DEF WindowsAreTrue, GatewayActs
<1>9. CASE ControllerActs
  <2>1. ctl'.win \in {NoWindow, ctl.win, TigWindow} /\ UNCHANGED tig
    BY <1>1, <1>9, BlockWindow DEF ControllerActs, TypeOK
  <2>2. TigWindow' = TigWindow
    BY <2>1 DEF TigWindow
  <2>3. WindowIsTrue(ctl.win)'
    <3>1. CASE ctl'.win = ctl.win
      BY <1>2, <1>5, <3>1 DEF WindowIsTrue
    <3>2. CASE ctl'.win = NoWindow
      BY <3>2 DEF WindowIsTrue, NoWindow
    <3>3. CASE ctl'.win = TigWindow
      BY <1>4, <2>1, <2>2, <3>3 DEF WindowIsTrue
    <3> QED
      BY <2>1, <3>1, <3>2, <3>3
  <2> QED
    BY <1>7, <1>9, <2>3 DEF WindowsAreTrue, ControllerActs
<1>10. CASE UNCHANGED <<gw, ctl>>
  BY <1>6, <1>7, <1>10 DEF WindowsAreTrue
<1> QED
  BY Zenon, <1>8, <1>9, <1>10 DEF Next, TigActs, AttemptOutlivesCall, OperatorFails, LeaseLapses,
     NewGeneration, vars

(* The benchmark bind_one finds for a workflow is one its own write        *)
(* created, and TIG has confirmed it.                                      *)
LEMMA FindsItsOwn ==
  ASSUME IInv, NEW w \in Workflows, NEW i \in Intents, NEW b \in Attempts,
         Finds(w, i, b)
  PROVE  WorkflowOf(b) = w /\ tig[b] \in {"confirmed", "past"}
<1>1. /\ b \in ctl.win.confirmed /\ Tuple[IntentOf(b)] = Tuple[i]
      /\ i[1] = w
  BY DEF Finds, FoundConfirmed, Candidates, NewestClaimable
<1>2. WorkflowOf(b) = w
  BY <1>1, AttemptNames, TupleAssumption
<1> QED
  BY <1>1, <1>2 DEF IInv, WindowsAreTrue, WindowIsTrue

(* A step changes a workflow's binding only from nothing to what bind_one  *)
(* found, and no workflow goes back to DECIDED.                            *)
LEMMA BindingSteps ==
  ASSUME TypeOK, [Next]_vars
  PROVE  \/ /\ UNCHANGED bound
            /\ \A w \in Workflows : state'[w] \in {"NONE", "DECIDED"} =>
                                    state[w] \in {"NONE", "DECIDED"}
         \/ /\ \E w \in Workflows, i \in Intents, b \in Attempts :
                 Finds(w, i, b) /\ ConfirmPrecommit(w, b)
            /\ UNCHANGED tig
<1> DEFINE Stays == /\ UNCHANGED bound
                    /\ \A w \in Workflows : state'[w] \in {"NONE", "DECIDED"} =>
                                            state[w] \in {"NONE", "DECIDED"}
<1> USE DEF TypeOK, LedgerTypeOK, ledgerVars
<1>1. ASSUME UNCHANGED <<state, bound>> PROVE Stays
  BY <1>1
<1>2. ASSUME NEW g \in Gateways, GatewayActs(g) PROVE Stays
  <2>1. UNCHANGED <<state, bound>>
    <3> HIDE DEF TypeOK, LedgerTypeOK
    <3>1. CASE GatewayStep(g)
      BY Zenon, <3>1 DEF GatewayStep, StartPass, Handle, PassOver, Begin, BeginAttempt, Send, Record,
         RecordMissing, ResolveAttempt, Reconcile, ReconcileAttempt, ReleaseIntent
    <3>2. CASE GatewayFault(g)
      BY <3>2 DEF GatewayFault, GateBlocks, RefuseUnsent, ResolveAttempt, DatabaseFails, Crash
    <3> QED
      BY ZenonT(60), <1>2, <3>1, <3>2 DEF GatewayActs
  <2> QED
    BY <1>1, <2>1
<1>3. ASSUME NEW w \in Workflows, NEW n \in 1..MaxGeneration, AdmitPrecommit(w, n)
      PROVE  Stays
  BY <1>3 DEF AdmitPrecommit
<1>4. ASSUME NEW w \in Workflows, ExpireWorkflow(w) \/ FailWorkflow(w) PROVE Stays
  BY <1>4 DEF ExpireWorkflow, FailWorkflow
<1>5. CASE ControllerActs /\ BindOne
  <2>1. ctl.todo \subseteq Workflows
    BY DEF BlockTypeOK, BlockStates
  <2>2. \/ \E w \in Workflows, i \in Intents, b \in Attempts :
             Finds(w, i, b) /\ ConfirmPrecommit(w, b)
        \/ UNCHANGED ledgerVars
    BY ZenonT(60), <1>5, <2>1 DEF BindOne
  <2> QED
    BY Zenon, <1>1, <1>5, <2>2 DEF BindOne
<1>6. CASE ControllerActs /\ ~BindOne
  <2>1. \/ UNCHANGED <<state, bound>>
        \/ \E w \in Workflows : ExpireWorkflow(w) \/ AdmitPrecommit(w, 1)
    BY <1>6 DEF ControllerActs, BlockStep, BlockFault, StartBlock, BindSettle, SettleIntent,
       StartSweep, SweepOne, DecideOnce, BlockDatabaseFails, BlockCrash, BlockTypeOK, BlockStates
  <2>2. 1 \in 1..MaxGeneration
    BY BoundsAssumption
  <2> QED
    BY Zenon, <1>1, <1>3, <1>4, <2>1, <2>2
<1>7. CASE \/ \E a \in Attempts : TigActs(a) \/ AttemptOutlivesCall(a)
           \/ \E w \in Workflows : LeaseLapses(w)
           \/ UNCHANGED vars
  <2>1. UNCHANGED <<state, bound>>
    BY Zenon, <1>7 DEF TigActs, AttemptOutlivesCall, AttemptAges, LeaseLapses, vars
  <2> QED
    BY <1>1, <2>1
<1>8. CASE \E w \in Workflows :
             OperatorFails(w) \/ \E n \in 1..MaxGeneration : NewGeneration(w, n)
  BY <1>3, <1>4, <1>8 DEF OperatorFails, NewGeneration
<1> QED
  BY <1>2, <1>5, <1>6, <1>7, <1>8 DEF Next

(* Every step keeps the workflows bound to their own confirmed writes.     *)
LEMMA BindingStep ==
  IInv /\ [Next]_vars => BoundToOwnWrite' /\ UnboundWhileDecided'
<1> SUFFICES ASSUME IInv, [Next]_vars PROVE BoundToOwnWrite' /\ UnboundWhileDecided'
  OBVIOUS
<1>1. TypeOK /\ TigAdvances /\ LedgerTypeOK
  BY Zenon, TigMonotone DEF IInv, TypeOK
<1>2. ASSUME UNCHANGED bound,
             \A w \in Workflows : state'[w] \in {"NONE", "DECIDED"} =>
                                  state[w] \in {"NONE", "DECIDED"}
      PROVE  BoundToOwnWrite' /\ UnboundWhileDecided'
  BY <1>1, <1>2 DEF IInv, BoundToOwnWrite, UnboundWhileDecided, TigAdvances, LedgerTypeOK
<1>3. ASSUME NEW w \in Workflows, NEW i \in Intents, NEW b \in Attempts,
             Finds(w, i, b), ConfirmPrecommit(w, b), UNCHANGED tig
      PROVE  BoundToOwnWrite' /\ UnboundWhileDecided'
  <2>1. WorkflowOf(b) = w /\ tig[b] \in {"confirmed", "past"}
    BY <1>3, FindsItsOwn
  <2> QED
    BY <1>1, <1>3, <2>1 DEF ConfirmPrecommit, IInv, BoundToOwnWrite, UnboundWhileDecided,
       LedgerTypeOK
<1> QED
  BY Zenon, <1>1, <1>2, <1>3, BindingSteps

(***************************************************************************)
(* The theorems                                                            *)
(***************************************************************************)

(* Before anything happens nothing is owed and nothing was sent.           *)
LEMMA InitIInv == Init /\ TypeOK => IInv
<1> SUFFICES ASSUME Init, TypeOK PROVE IInv
  OBVIOUS
<1>1. OneUnresolved /\ LedgerIsTrue /\ OneLiveAttempt
  BY DEF Init, LedgerInit, TigInit, OneUnresolved, LedgerIsTrue, OneLiveAttempt, Unresolved,
     MayHaveReachedTig
<1>2. OneCurrentToken
  BY DEF Init, LeaseInit, OneCurrentToken
<1>3. \A g \in Gateways : gw[g].pc = "pass" /\ gw[g].win = NoWindow
  BY Zenon DEF Init, GatewayInit, IdleState
<1>4. TransmitIsFresh /\ BegunIsUnsent /\ SentHasLeft /\ SettledIsApplied
  BY Zenon, <1>3 DEF TransmitIsFresh, BegunIsUnsent, SentHasLeft, SettledIsApplied
<1>5. WindowsAreTrue
  BY <1>3 DEF Init, BlockInit, NoBlock, WindowsAreTrue, WindowIsTrue, NoWindow
<1>6. BoundToOwnWrite /\ UnboundWhileDecided
  BY DEF Init, LedgerInit, BoundToOwnWrite, UnboundWhileDecided
<1> QED
  BY <1>1, <1>2, <1>4, <1>5, <1>6 DEF IInv

(* The inductive invariant holds in every reachable state.                 *)
THEOREM Inductive == Spec => []IInv
<1>1. IInv /\ [Next]_vars => IInv'
  BY TypeStep, LedgerStep, ProcessStep, WindowStep, BindingStep DEF IInv
<1> QED
  BY <1>1, TypeCorrect, InitIInv, PTL DEF Spec

(* What the ledger says follows what TIG does: a request under way or      *)
(* applied has a live attempt, and one under way an unresolved one.        *)
LEMMA LiveAtTig ==
  ASSUME IInv, NEW a \in Attempts
  PROVE  /\ Applied(a) \/ tig[a] = "wire" => MayHaveReachedTig(a)
         /\ tig[a] = "wire" => Unresolved(a)
BY DEF IInv, TypeOK, LedgerTypeOK, Outcomes, LedgerIsTrue, Applied, MayHaveReachedTig, Unresolved

(* No workflow ever causes two benchmarks at TIG, whatever processes       *)
(* stall, crash or overtake each other and however many generations are    *)
(* admitted.                                                               *)
THEOREM OneBenchmarkPerWorkflow == Spec => []AtMostOneBenchmark
<1>1. IInv => AtMostOneBenchmark
  BY LiveAtTig DEF IInv, OneLiveAttempt, AtMostOneBenchmark
<1> QED
  BY <1>1, Inductive, PTL

(* Network-wide at most one request is ever under way at TIG.              *)
THEOREM OneRequestAtATime == Spec => []OneRequestUnderWay
<1>1. IInv => OneRequestUnderWay
  BY LiveAtTig DEF IInv, OneUnresolved, OneRequestUnderWay
<1> QED
  BY <1>1, Inductive, PTL

(* An outcome the ledger records is what happened at TIG, whoever recorded *)
(* it.                                                                     *)
THEOREM LedgerTruth == Spec => []LedgerIsTrue
<1>1. IInv => LedgerIsTrue
  BY DEF IInv
<1> QED
  BY <1>1, Inductive, PTL

(* A workflow is bound only to a confirmed benchmark its own write         *)
(* created.                                                                *)
THEOREM BindingTruth == Spec => []BoundToOwnWrite
<1>1. IInv => BoundToOwnWrite
  BY DEF IInv
<1> QED
  BY <1>1, Inductive, PTL

(* Each step causes one benchmark for a workflow that had none, attributes *)
(* that one to it, or does neither.                                        *)
LEMMA PromiseStep ==
  IInv /\ [Next]_vars => [Promised!PromiseNext]_(Promised!promiseVars)
<1> SUFFICES ASSUME IInv, [Next]_vars
             PROVE  [Promised!PromiseNext]_(Promised!promiseVars)
  OBVIOUS
<1>1. TypeOK /\ TigTypeOK /\ LedgerTypeOK
  BY DEF IInv, TypeOK
<1>2. ASSUME \A a \in Attempts : Applied(a)' <=> Applied(a)
      PROVE  UNCHANGED causedBar
  BY <1>2 DEF causedBar
<1>3. ASSUME NEW w \in Workflows, NEW i \in Intents, NEW b \in Attempts,
             Finds(w, i, b), ConfirmPrecommit(w, b), UNCHANGED tig
      PROVE  Promised!PromiseNext
  <2>1. WorkflowOf(b) = w /\ Applied(b)
    BY <1>3, FindsItsOwn DEF Applied
  <2>2. causedBar[w] = {b}
    BY <2>1, LiveAtTig DEF causedBar, IInv, OneLiveAttempt
  <2>3. UNCHANGED causedBar
    BY <1>2, <1>3 DEF Applied
  <2>4. bound[w] = {} /\ bound' = [bound EXCEPT ![w] = {b}]
    BY <1>3 DEF ConfirmPrecommit, MayConfirm, IInv, UnboundWhileDecided
  <2>5. Promised!Attribute(w)
    BY <2>2, <2>3, <2>4 DEF Promised!Attribute
  <2> QED
    BY <2>5 DEF Promised!PromiseNext
<1>4. ASSUME NEW a \in Attempts, TigMoves(a), UNCHANGED bound
      PROVE  [Promised!PromiseNext]_(Promised!promiseVars)
  <2>1. CASE tig[a] = "wire" /\ tig' = [tig EXCEPT ![a] = "pending"]
    <3> DEFINE w == WorkflowOf(a)
    <3>1. w \in Workflows /\ ~Applied(a)
      BY <2>1, AttemptNames DEF Applied
    <3>2. \A b \in Attempts : WorkflowOf(b) = w => ~Applied(b)
      BY <2>1, <3>1, LiveAtTig DEF IInv, OneLiveAttempt
    <3>3. \A b \in Attempts : Applied(b)' <=> Applied(b) \/ b = a
      BY <1>1, <2>1 DEF Applied, TigTypeOK
    <3>4. causedBar[w] = {} /\ \A v \in Workflows : a \notin causedBar[v]
      BY <3>1, <3>2 DEF causedBar
    <3>5. causedBar' = [causedBar EXCEPT ![w] = {a}]
      <4>1. \A v \in Workflows : v # w => causedBar'[v] = causedBar[v]
        BY <3>3 DEF causedBar
      <4>2. causedBar'[w] = {a}
        BY <3>1, <3>2, <3>3 DEF causedBar
      <4> QED
        BY Zenon, <3>1, <4>1, <4>2 DEF causedBar
    <3>6. Promised!Cause(w, a)
      BY <1>4, <3>4, <3>5 DEF Promised!Cause
    <3> QED
      BY <3>1, <3>6 DEF Promised!PromiseNext
  <2>2. CASE ~(tig[a] = "wire" /\ tig' = [tig EXCEPT ![a] = "pending"])
    <3>1. \A b \in Attempts : Applied(b)' <=> Applied(b)
      BY <1>1, <1>4, <2>2 DEF TigMoves, Applied, TigTypeOK
    <3> QED
      BY <1>2, <1>4, <3>1 DEF Promised!promiseVars
  <2> QED
    BY <2>1, <2>2
<1>5. ASSUME NEW g \in Gateways, Send(g)
      PROVE  \A a \in Attempts : Applied(a)' <=> Applied(a)
  BY <1>1, <1>5 DEF Send, Transmit, Applied, TigTypeOK
<1>6. \/ \E a \in Attempts : TigMoves(a)
      \/ \E g \in Gateways : Send(g)
      \/ UNCHANGED tig
  BY Zenon, <1>1, LedgerSteps DEF Begin, Record, RecordMissing, Reconcile, RefuseUnsent
<1>7. ASSUME UNCHANGED bound
      PROVE  [Promised!PromiseNext]_(Promised!promiseVars)
  <2>1. UNCHANGED tig => \A a \in Attempts : Applied(a)' <=> Applied(a)
    BY DEF Applied
  <2> QED
    BY <1>2, <1>4, <1>5, <1>6, <1>7, <2>1 DEF Promised!promiseVars
<1> QED
  BY <1>1, <1>3, <1>7, BindingSteps

(* The write path keeps its promise: one benchmark per workflow, for ever, *)
(* and the one attributed to a workflow is the one it caused.              *)
THEOREM PromiseKept == Spec => KeepsPromise
<1>1. Init => Promised!PromiseInit
  BY DEF Init, LedgerInit, TigInit, Applied, causedBar, Promised!PromiseInit
<1> QED
  BY <1>1, Inductive, PromiseStep, PTL DEF Spec, KeepsPromise, Promised!Promise

=============================================================================
