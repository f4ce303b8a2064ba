-------------------------- MODULE LifecycleProofs ---------------------------
(***************************************************************************)
(* The properties of Lifecycle, for any workflows, controllers, guardrails, *)
(* limit, window and bounds.                                               *)
(*                                                                         *)
(* None is inductive.  IInv is: the rows are true of TIG (World), the limit *)
(* counts a finite set (Limit), and what a pass has read or done is still so *)
(* when it acts on it (Passes).  A lone controller sweeps only after its   *)
(* restart loop has offered the evidence that the block shows, so work that *)
(* is proved has left the states an expiry is made from.                   *)
(***************************************************************************)
EXTENDS LifecyclePasses, FiniteSetTheorems

(***************************************************************************)
(* The invariant is inductive                                              *)
(***************************************************************************)

(* A controller's step neither begins nor settles a write, and is no       *)
(* fault.                                                                  *)
LEMMA ControllerLeaves ==
  ASSUME NEW c \in Controllers, ControllerStep(c)
  PROVE  UNCHANGED <<inFlight, faults>>
<1> USE DEF chainVars
<1>1. CASE OfferFraud(c) \/ OfferBenchmark(c) \/ OfferProof(c) \/ OfferVerified(c)
  <2>1. ASSUME NEW shown, NEW from, NEW transition, NEW next,
               Offer(c, shown, from, transition, next)
        PROVE  UNCHANGED <<inFlight, faults>>
    BY Zenon, <2>1, OfferWrites
  <2>2. CASE OfferFraud(c)
    BY Zenon, <2>1, <2>2 DEF OfferFraud
  <2>3. CASE OfferBenchmark(c)
    BY Zenon, <2>1, <2>3 DEF OfferBenchmark
  <2>4. CASE OfferProof(c)
    BY <2>1, <2>4 DEF OfferProof
  <2>5. CASE OfferVerified(c)
    BY <2>1, <2>5 DEF OfferVerified
  <2> QED
    BY <1>1, <2>2, <2>3, <2>4, <2>5
<1>2. CASE TakeBlock(c) \/ StartRestart(c) \/ CheckActive(c) \/ StartSweep(c)
  BY <1>2 DEF TakeBlock, StartRestart, CheckActive, StartSweep
<1>3. CASE \E w \in Workflows : BindOne(c, w) \/ AdvanceOne(c, w) \/ JudgeOne(c, w)
  BY Zenon, <1>3 DEF BindOne, AdvanceOne, JudgeOne
<1>4. CASE ExpireOne(c) \/ Decide(c)
  BY <1>4 DEF ExpireOne, Decide
<1> QED
  BY <1>1, <1>2, <1>3, <1>4 DEF ControllerStep

(* The types are kept.                                                     *)
LEMMA TypeStep ==
  ASSUME IInv, Progress, [Next]_vars
  PROVE  TypeOK'
<1>1. /\ inFlight \subseteq Workflows /\ faults \in 0..MaxFaults
      /\ ctl \in [Controllers -> CtlType]
  BY DEF IInv, World, TypeOK, CtlType
<1>2. inFlight' \subseteq Workflows
  <2>1. CASE \E c \in Controllers : ControllerStep(c)
    BY <1>1, <2>1, ControllerLeaves
  <2>2. CASE \E c \in Controllers : CallFails(c) \/ Crash(c)
    BY <1>1, <2>2 DEF CallFails, Crash, chainVars
  <2>3. CASE NewBlock \/ UNCHANGED vars
    BY <1>1, <2>3 DEF NewBlock, vars, chainVars
  <2>4. CASE \E w \in Workflows :
               SendPrecommit(w) \/ BeginWrite(w) \/ SettleWrite(w) \/ OperatorFails(w)
    BY <1>1, <2>4 DEF SendPrecommit, BeginWrite, SettleWrite, OperatorFails,
       chainVars
  <2> QED
    BY <2>1, <2>2, <2>3, <2>4 DEF Next
<1>3. faults' \in 0..MaxFaults
  <2>1. CASE \E c \in Controllers : ControllerStep(c)
    BY <1>1, <2>1, ControllerLeaves
  <2>2. CASE \E c \in Controllers : CallFails(c) \/ Crash(c)
    <3>1. faults < MaxFaults /\ faults' = faults + 1
      BY <2>2 DEF CallFails, Crash
    <3> QED
      BY <1>1, <3>1, LifecycleAssumption
  <2>3. CASE NewBlock \/ UNCHANGED vars
    BY <1>1, <2>3 DEF NewBlock, vars
  <2>4. CASE \E w \in Workflows :
               SendPrecommit(w) \/ BeginWrite(w) \/ SettleWrite(w) \/ OperatorFails(w)
    BY <1>1, <2>4 DEF SendPrecommit, BeginWrite, SettleWrite, OperatorFails
  <2> QED
    BY <2>1, <2>2, <2>3, <2>4 DEF Next
<1>4. ctl' \in [Controllers -> CtlType]
  <2>1. CASE \E c \in Controllers : ControllerStep(c) \/ CallFails(c) \/ Crash(c)
    BY <2>1, ControllerMoves DEF Only
  <2>2. CASE NewBlock \/ UNCHANGED vars
    BY <1>1, <2>2 DEF NewBlock, vars
  <2>3. CASE \E w \in Workflows :
               SendPrecommit(w) \/ BeginWrite(w) \/ SettleWrite(w) \/ OperatorFails(w)
    BY <1>1, <2>3 DEF SendPrecommit, BeginWrite, SettleWrite, OperatorFails
  <2> QED
    BY <2>1, <2>2, <2>3 DEF Next
<1> QED
  BY <1>2, <1>3, <1>4 DEF TypeOK, Progress, EvidenceType, CtlType

(* An admission opens one interval, where there was room for it; nothing   *)
(* else opens one.                                                         *)
LEMMA LimitStep ==
  ASSUME IInv, Progress, [Next]_vars
  PROVE  Limit'
<1>1. /\ TypeOK /\ row \in [Workflows -> Rows] /\ newest \in Int
      /\ IsFiniteSet(OpenIntervals) /\ Cardinality(OpenIntervals) <= UnverifiedLimit
      /\ Cardinality(OpenIntervals) \in Nat
  BY LifecycleAssumption, FS_CardinalityType
     DEF IInv, World, Limit, WithinLimit, TypeOK, Blocks
<1>2. ASSUME OpenIntervals' \subseteq OpenIntervals PROVE Limit'
  <2>1. /\ IsFiniteSet(OpenIntervals')
        /\ Cardinality(OpenIntervals') <= Cardinality(OpenIntervals)
    BY Zenon, <1>1, <1>2, FS_Subset
  <2>2. Cardinality(OpenIntervals') \in Nat
    BY <2>1, FS_CardinalityType
  <2>3. Cardinality(OpenIntervals') <= UnverifiedLimit
    BY <1>1, <2>1, <2>2, LimitAssumption
  <2> QED
    BY <2>1, <2>3 DEF Limit, WithinLimit
<1>3. CASE UNCHANGED row
  BY <1>2, <1>3 DEF OpenIntervals, Exists
<1>4. ASSUME NEW w \in Workflows, Create(w, newest) PROVE Limit'
  <2>1. /\ \A v \in Workflows \ {w} : row'[v] = row[v]
        /\ row[w].state = "NONE" /\ row'[w].state = "DECIDED" /\ row'[w].to = 0
    BY <1>1, <1>4, CreateDoes
  <2>2. OpenIntervals' = OpenIntervals \cup {w} /\ w \notin OpenIntervals
    BY <2>1 DEF OpenIntervals, Exists
  <2>3. Cardinality(OpenIntervals) < UnverifiedLimit
    BY <1>4 DEF Create, MayAdmit
  <2>4. /\ IsFiniteSet(OpenIntervals \cup {w})
        /\ Cardinality(OpenIntervals \cup {w}) = Cardinality(OpenIntervals) + 1
    BY <1>1, <2>2, FS_AddElement
  <2>5. Cardinality(OpenIntervals') <= UnverifiedLimit
    BY <1>1, <2>2, <2>3, <2>4, LimitAssumption
  <2> QED
    BY <2>2, <2>4, <2>5 DEF Limit, WithinLimit
<1>5. ASSUME NEW w \in Workflows, Writes(w), ~Create(w, newest),
             UNCHANGED <<height, chain, sent, newest>>
      PROVE  Limit'
  <2>1. (\A v \in Workflows \ {w} : row'[v] = row[v]) /\ Grew(w)
    BY <1>5, WriteKeepsTruth DEF IInv
  <2>2. Exists(w)
    BY <1>5 DEF Writes, Exists, BeforePrecommit, BeforeBenchmark, BeforeProof,
       BeforeVerified,
       Due, IsUnfinished, States, TerminalStates, Fail
  <2>3. OpenIntervals' \subseteq OpenIntervals
    BY <2>1, <2>2 DEF OpenIntervals, Exists, Grew
  <2> QED
    BY <1>2, <2>3
<1>6. CASE UNCHANGED vars
  BY <1>3, <1>6 DEF vars
<1>7. CASE Next
  <2>1. \/ UNCHANGED row
        \/ UNCHANGED <<height, chain, sent, newest>> /\ \E w \in Workflows : Writes(w)
        \/ NewBlock
        \/ \E w \in Workflows : SendPrecommit(w)
    BY <1>7, StepKinds
  <2>2. NewBlock \/ (\E w \in Workflows : SendPrecommit(w)) => UNCHANGED row
    BY DEF NewBlock, SendPrecommit
  <2> QED
    BY <1>3, <1>4, <1>5, <2>1, <2>2
<1> QED
  BY <1>6, <1>7

(* The invariant holds at first ...                                        *)
LEMMA InitHolds == Init => IInv
<1> SUFFICES ASSUME Init PROVE IInv
  BY Zenon
<1>1. /\ row = [w \in Workflows |-> NoRow] /\ height = 1 /\ newest = 0 /\ faults = 0
      /\ chain = [w \in Workflows |-> NoEvidence] /\ sent = [w \in Workflows |-> 0]
      /\ inFlight = {} /\ ctl = [c \in Controllers |-> NoPass(0)]
  BY DEF Init, RowInit
<1>2. 0 \in Blocks /\ 1 \in Blocks /\ 0 \in 0..MaxFaults
  BY LifecycleAssumption DEF Blocks
<1>3. NoPass(0) \in CtlType /\ NoPass(0).pc = "idle" /\ NoPass(0).at = 0
  BY Zenon, <1>2, NoPassType
<1>4. TypeOK
  <2>1. NoEvidence \in EvidenceType
    BY Zenon, <1>2 DEF NoEvidence, EvidenceType
  <2> QED
    BY <1>1, <1>2, <1>3, <2>1, NoRowType DEF TypeOK, EvidenceType, CtlType
<1>5. ASSUME NEW w \in Workflows PROVE Truth(w)
  <2>1. row[w] = NoRow /\ chain[w] = NoEvidence /\ sent[w] = 0
    BY Zenon, <1>1
  <2>2. Ordered(w)
    BY <1>1, <2>1 DEF Ordered, NoEvidence
  <2>3. Bound(w) /\ IntervalIsTrue(w)
    BY <1>1, <2>1 DEF Bound, Early, NoRow, IntervalIsTrue, Exists
  <2>4. HasEvidence(w)
    BY <2>1 DEF HasEvidence, NoRow, PastBenchmark
  <2> QED
    BY Zenon, <2>2, <2>3, <2>4 DEF Truth
<1>6. Limit
  <2>1. OpenIntervals = {}
    BY Zenon, <1>1 DEF OpenIntervals, Exists, NoRow
  <2> QED
    BY <2>1, FS_EmptySet, LimitAssumption DEF Limit, WithinLimit
<1>7. ASSUME NEW c \in Controllers PROVE PassOK(c)
  <2>1. ctl[c].pc = "idle" /\ ctl[c].at = 0
    BY <1>1, <1>3
  <2>2. ctl[c].pc \notin Advancing \cup RestartSteps \cup SweepSteps
    BY <2>1 DEF Advancing, RestartSteps, SweepSteps
  <2>3. Placed(c) /\ Knows(c)
    BY <1>1, <2>1, <2>2 DEF Placed, Knows
  <2>4. /\ Judged(c) /\ BindsShown(c) /\ MissesNone(c) /\ SweepsResolved(c)
        /\ Offered(c) /\ Thorough(c)
    BY <2>1, <2>2 DEF Judged, BindsShown, MissesNone, SweepsResolved, Offered,
       Thorough
  <2> QED
    BY <2>3, <2>4 DEF PassOK
<1> QED
  BY <1>1, <1>4, <1>5, <1>6, <1>7 DEF IInv, World, Passes

(* ... and every step of the system keeps it.                              *)
LEMMA Inductive == IInv /\ [Next]_vars => IInv'
<1> SUFFICES ASSUME IInv, [Next]_vars PROVE IInv'
  OBVIOUS
<1>1. Progress
  BY ProgressStep
<1>2. TypeOK' /\ Limit' /\ Passes'
  BY <1>1, TypeStep, LimitStep, PassesStep
<1>3. 1 <= height' /\ newest' <= height' /\ \A w \in Workflows : Truth(w)'
  <2>1. 1 <= height /\ height \in Int /\ height' \in Int /\ height' >= height
    BY <1>1, LifecycleAssumption DEF IInv, World, TypeOK, Progress, Blocks
  <2> QED
    BY <1>1, <2>1 DEF Progress
<1> QED
  BY <1>2, <1>3 DEF IInv, World

(* IInv is an invariant of the specification.                              *)
LEMMA Invariance == Spec => []IInv
BY InitHolds, Inductive, PTL DEF Spec

(***************************************************************************)
(* What the specification promises                                         *)
(***************************************************************************)

(* Every variable keeps its type: also the rows that the loops of a pass   *)
(* keep from their listing, and what the report collects.                  *)
THEOREM Typed == Spec => []TypeOK
<1>1. IInv => TypeOK
  BY DEF IInv, World
<1> QED
  BY <1>1, Invariance, PTL

(* The pool never holds more open unverified intervals than the limit,     *)
(* however many controllers admit workflows at once.                       *)
THEOREM LimitIsKept == Spec => []WithinLimit
<1>1. IInv => WithinLimit
  BY DEF IInv, Limit
<1> QED
  BY <1>1, Invariance, PTL

(* An interval is closed exactly by the transition into VERIFIED or a      *)
(* terminal state, at the block that TIG's evidence names, and by the      *)
(* clock no earlier than the guardrail allows.                             *)
THEOREM IntervalsHold == Spec => []IntervalsAreTrue
<1>1. IInv => IntervalsAreTrue
  BY DEF IInv, World, Truth, IntervalIsTrue, IntervalsAreTrue
<1> QED
  BY <1>1, Invariance, PTL

(* No row is ahead of what TIG confirmed for it.                           *)
THEOREM RowsAreEvidenced == Spec => []Evidenced
<1>1. IInv => Evidenced
  BY DEF IInv, World, Truth, HasEvidence, Evidenced, PastBenchmark
<1> QED
  BY <1>1, Invariance, PTL

(* A pass that has come to its sweep has reported every workflow that TIG  *)
(* has active and whose verification the pool missed.                      *)
THEOREM MissedVerificationsAreReported == Spec => []MissedIsReported
<1>1. IInv => MissedIsReported
  <2> SUFFICES ASSUME IInv, NEW c \in Controllers, NEW w \in Workflows,
                      ctl[c].pc \in {"sweep", "expire"},
                      row[w].state = "PROOF_CONFIRMED", ActiveAt(w, ctl[c].at)
               PROVE  \E x \in Complaints : <<w, x>> \in ctl[c].report
    BY DEF MissedIsReported
  <2>1. MissesNone(c)
    BY DEF IInv, Passes, PassOK
  <2>2. row[w].state \notin Closed
    BY DEF Closed, TerminalStates
  <2>3. ctl[c].pc \in SweepSteps /\ ctl[c].pc \notin RestartSteps
    BY Zenon DEF SweepSteps, RestartSteps, Advancing
  <2> QED
    BY <2>1, <2>2, <2>3 DEF MissesNone
<1> QED
  BY <1>1, Invariance, PTL

(* What a step changes of a row is never what is final of it.              *)
THEOREM RowsKeepTheirHistory == Spec => HistoryIsKept
<1>1. ASSUME IInv, [Next]_vars
      PROVE  [\A w \in Workflows : row'[w] # row[w] =>
                /\ Rank[row'[w].state] >= Rank[row[w].state]
                /\ ~IsTerminal(row[w].state)
                /\ row[w].to # 0 => row'[w].to = row[w].to
                /\ row[w].known => row'[w].known /\ row'[w].started = row[w].started
                /\ Exists(w) => row'[w].from = row[w].from]_vars
  <2>1. Progress
    BY <1>1, ProgressStep
  <2> QED
    BY <2>1 DEF Progress, Grew
<1> QED
  BY <1>1, Invariance, PTL DEF Spec, HistoryIsKept

(* Only the sweep's own write expires a row, and it finds the row as it    *)
(* was judged.                                                             *)
LEMMA ExpiredBySweep ==
  ASSUME IInv, Next, NEW w \in Workflows,
         row'[w].state = "EXPIRED", row[w].state # "EXPIRED"
  PROVE  \E d \in Controllers :
           /\ Only(d) /\ ctl[d].pc = "expire" /\ ctl[d].w = w
           /\ Due(row[w], ctl[d].at)
<1>1. /\ TypeOK /\ row \in [Workflows -> Rows] /\ height \in Int /\ newest \in Int
      /\ ctl \in [Controllers -> CtlType]
  BY LifecycleAssumption DEF IInv, World, TypeOK, CtlType, Blocks
<1>2. row' # row
  OBVIOUS
<1>3. ASSUME NEW v \in Workflows, NEW to \in States \ {"EXPIRED"}, NEW close \in Int,
             Move(v, to, close)
      PROVE  FALSE
  <2>1. row'[v].state = to /\ \A u \in Workflows \ {v} : row'[u] = row[u]
    BY <1>1, <1>3, MoveDoes DEF Moves
  <2> QED
    BY <2>1
<1>4. ASSUME NEW v \in Workflows, NEW anchor \in Int, Create(v, anchor)
      PROVE  FALSE
  <2>1. row'[v].state = "DECIDED" /\ \A u \in Workflows \ {v} : row'[u] = row[u]
    BY <1>1, <1>4, CreateDoes
  <2> QED
    BY <2>1
<1>5. ASSUME NEW v \in Workflows, ConfirmPrecommit(v, sent[v]) PROVE FALSE
  <2>1. sent[v] \in Int
    BY <1>1, WorkflowTypes
  <2>2. row'[v].state = "PRECOMMIT_CONFIRMED" /\ \A u \in Workflows \ {v} : row'[u] = row[u]
    BY <1>1, <1>5, <2>1, ConfirmPrecommitDoes
  <2> QED
    BY <2>2
<1>6. {"FRAUDULENT", "STOPPED", "BENCHMARK_CONFIRMED", "PROOF_CONFIRMED", "VERIFIED",
       "FAILED"} \subseteq States \ {"EXPIRED"} /\ "EXPIRED" \in States /\ 0 \in Int
  BY DEF States, TerminalStates
<1>7. ~NewBlock /\ \A v \in Workflows :
        ~(SendPrecommit(v) \/ BeginWrite(v) \/ SettleWrite(v) \/ OperatorFails(v))
  <2>1. \A v \in Workflows : OperatorFails(v) => Move(v, "FAILED", height)
    BY DEF OperatorFails, Fail
  <2> QED
    BY <1>1, <1>2, <1>3, <1>6, <2>1 DEF NewBlock, SendPrecommit, BeginWrite,
       SettleWrite
<1>8. PICK d \in Controllers : ControllerStep(d)
  BY <1>2, <1>7 DEF Next, CallFails, Crash
<1>9. ctl[d].w \in Workflows /\ ctl[d].at \in Int
  BY <1>1, LifecycleAssumption DEF CtlType, Blocks
<1>10. chain[ctl[d].w].fraud \in Int /\ chain[ctl[d].w].benchmark \in Int
  BY <1>1, <1>9, WorkflowTypes
<1>11. ~OfferFraud(d)
  <2>1. OfferFraud(d) =>
          UNCHANGED row \/ Move(ctl[d].w, "FRAUDULENT", chain[ctl[d].w].fraud)
    BY OfferWrites DEF OfferFraud, ConfirmFraud
  <2> QED
    BY <1>2, <1>3, <1>6, <1>9, <1>10, <2>1
<1>12. ~OfferBenchmark(d)
  <2>1. OfferBenchmark(d) =>
          \/ UNCHANGED row
          \/ ConfirmBenchmark(ctl[d].w, chain[ctl[d].w].stopped, chain[ctl[d].w].benchmark)
    BY OfferWrites DEF OfferBenchmark
  <2>2. OfferBenchmark(d) =>
          \/ UNCHANGED row
          \/ Move(ctl[d].w, "STOPPED", chain[ctl[d].w].benchmark)
          \/ Move(ctl[d].w, "BENCHMARK_CONFIRMED", 0)
    BY <2>1 DEF ConfirmBenchmark
  <2> QED
    BY <1>2, <1>3, <1>6, <1>9, <1>10, <2>2
<1>13. ~OfferProof(d)
  <2>1. OfferProof(d) => UNCHANGED row \/ Move(ctl[d].w, "PROOF_CONFIRMED", 0)
    BY OfferWrites DEF OfferProof, ConfirmProof
  <2> QED
    BY <1>2, <1>3, <1>6, <1>9, <2>1
<1>14. ~OfferVerified(d)
  <2>1. OfferVerified(d) => UNCHANGED row \/ Move(ctl[d].w, "VERIFIED", ctl[d].at)
    BY OfferWrites DEF OfferVerified, ConfirmVerified
  <2> QED
    BY <1>2, <1>3, <1>6, <1>9, <2>1
<1>15. ~Decide(d)
  <2>1. Decide(d) => UNCHANGED row \/ \E v \in Workflows : Create(v, ctl[d].at)
    BY Zenon DEF Decide
  <2> QED
    BY <1>2, <1>4, <1>9, <2>1
<1>16. \A v \in Workflows : ~(BindOne(d, v) \/ AdvanceOne(d, v) \/ JudgeOne(d, v))
  <2>1. ASSUME NEW v \in Workflows, BindOne(d, v)
        PROVE  UNCHANGED row \/ ConfirmPrecommit(v, sent[v])
    BY Zenon, <2>1 DEF BindOne
  <2> QED
    BY Zenon, <1>2, <1>5, <2>1 DEF AdvanceOne, JudgeOne
<1>17. ExpireOne(d)
  BY <1>2, <1>8, <1>11, <1>12, <1>13, <1>14, <1>15, <1>16
     DEF ControllerStep, TakeBlock, StartRestart, CheckActive, StartSweep
<1>18. /\ ctl[d].pc = "expire" /\ Outcome(ctl[d].w, ctl[d].revision, States) = "ok"
       /\ Expire(ctl[d].w, ctl[d].at)
       /\ \E X \in SUBSET {"ExpiryFailed"} : Left(d, "sweep", ctl[d].w, X)
  BY Zenon, <1>1, <1>2, <1>17, ExpireOneDoes
<1>19. \A v \in Workflows \ {ctl[d].w} : row'[v] = row[v]
  BY <1>1, <1>6, <1>9, <1>18, MoveDoes DEF Expire, Moves
<1>20. ctl[d].w = w
  BY Zenon, <1>19
<1>21. Due(row[ctl[d].w], ctl[d].at)
  BY Zenon, <1>18, InPass
<1> QED
  BY Zenon, <1>18, <1>20, <1>21 DEF Left

(* The clock never ends work that has reached TIG, though another          *)
(* controller may have moved the row since it was judged.                  *)
THEOREM ProvedWorkIsNotExpired == Spec => ProvedNeverExpires
<1>1. ASSUME IInv, [Next]_vars
      PROVE  [\A w \in Workflows :
                row'[w].state = "EXPIRED" /\ row[w].state # "EXPIRED" =>
                  IsUnfinished(row[w].state)]_vars
  <2>1. ASSUME Next, NEW w \in Workflows,
               row'[w].state = "EXPIRED", row[w].state # "EXPIRED"
        PROVE  IsUnfinished(row[w].state)
    BY <1>1, <2>1, ExpiredBySweep DEF Due
  <2> QED
    BY Zenon, <1>1, <2>1
<1> QED
  BY <1>1, Invariance, PTL DEF Spec, ProvedNeverExpires

(* A row that the sweep expires was bound to every precommit that the      *)
(* swept block shows.                                                      *)
LEMMA ExpiredIsBound ==
  ASSUME IInv, NEW c \in Controllers, ctl[c].pc = "expire",
         Due(row[ctl[c].w], ctl[c].at), Shown(chain[ctl[c].w].precommit, ctl[c].at)
  PROVE  row[ctl[c].w].known
<1>1. PassOK(c) /\ ctl[c] \in CtlType
  BY DEF IInv, World, Passes, TypeOK, CtlType
<1>2. ctl[c].w \in Workflows
  BY Zenon, <1>1 DEF CtlType
<1>3. <<ctl[c].w, "BindFailed">> \notin ctl[c].report
  BY Zenon, <1>1 DEF PassOK, Placed, SweepsResolved, SweepSteps
<1>4. ~IsTerminal(row[ctl[c].w].state)
  BY Zenon DEF Due, IsUnfinished
<1> QED
  BY <1>1, <1>2, <1>3, <1>4 DEF PassOK, BindsShown

(* A row that a sole controller expires has not both its benchmark and its *)
(* proof in the swept block.                                               *)
LEMMA ExpiredShowsNoWork ==
  ASSUME IInv, NEW c \in Controllers, Alone(c), ctl[c].pc = "expire",
         Due(row[ctl[c].w], ctl[c].at), row[ctl[c].w].known
  PROVE  ~ShowsWork(ctl[c].w, ctl[c].at)
<1> DEFINE w == ctl[c].w
           at == ctl[c].at
<1>1. TypeOK /\ PassOK(c) /\ ctl[c] \in CtlType
  BY DEF IInv, World, Passes, TypeOK, CtlType
<1>2. w \in Workflows /\ at \in Int
  BY <1>1, LifecycleAssumption DEF CtlType, Blocks
<1>3. SUFFICES ASSUME ShowsWork(w, at) PROVE FALSE
  BY Zenon
<1>4. at > 1
  <2>1. Ordered(w) /\ chain[w].benchmark \in Nat /\ chain[w].precommit \in Nat /\ sent[w] \in Nat
    BY <1>1, <1>2, WorkflowTypes DEF IInv, World, Truth
  <2>2. chain[w].benchmark # 0 /\ chain[w].benchmark <= at
    BY Zenon, <1>3 DEF ShowsWork, Shown
  <2> HIDE DEF w, at
  <2> QED
    BY <1>2, <2>1, <2>2 DEF Ordered
<1>5. <<w, "Failed">> \notin ctl[c].report
  BY <1>1 DEF PassOK, Placed, SweepsResolved, SweepSteps
<1>6. ctl[c].pc \in SweepSteps /\ ctl[c].pc \notin RestartSteps
  BY DEF SweepSteps, RestartSteps, Advancing
<1>7. row[w].state \in Finished
  BY <1>1, <1>2, <1>3, <1>4, <1>5, <1>6 DEF PassOK, Thorough
<1> QED
  BY Zenon, <1>7 DEF Due, IsUnfinished, Finished, IsTerminal

(* With one controller at a time, no pass expires a workflow against the   *)
(* evidence in its own block.                                              *)
THEOREM ExpiryIsInformed == Spec => ExpiryHeedsEvidence
<1>1. ASSUME IInv, [Next]_vars
      PROVE  [\A w \in Workflows, c \in Controllers :
                /\ row'[w].state = "EXPIRED" /\ row[w].state # "EXPIRED"
                /\ ctl'[c] # ctl[c] /\ (\A d \in Controllers \ {c} : ctl[d] = NoPass(0))
                => /\ Shown(chain[w].precommit, ctl[c].at) => row[w].known
                   /\ ~(/\ row[w].known
                        /\ Shown(chain[w].benchmark, ctl[c].at)
                        /\ Shown(chain[w].proof, ctl[c].at))]_vars
  <2>1. ASSUME Next, NEW w \in Workflows, NEW c \in Controllers,
               row'[w].state = "EXPIRED", row[w].state # "EXPIRED", ctl'[c] # ctl[c],
               \A d \in Controllers \ {c} : ctl[d] = NoPass(0)
        PROVE  /\ Shown(chain[w].precommit, ctl[c].at) => row[w].known
               /\ ~(row[w].known /\ ShowsWork(w, ctl[c].at))
    <3>1. PICK d \in Controllers :
            /\ Only(d) /\ ctl[d].pc = "expire" /\ ctl[d].w = w
            /\ Due(row[w], ctl[d].at)
      BY <1>1, <2>1, ExpiredBySweep
    <3>2. d = c
      BY <2>1, <3>1 DEF Only
    <3>3. Alone(c)
      <4>1. NoPass(0).at = 0
        BY DEF NoPass
      <4> QED
        BY <2>1, <4>1 DEF Alone
    <3>4. Shown(chain[w].precommit, ctl[c].at) => row[w].known
      BY <1>1, <3>1, <3>2, ExpiredIsBound
    <3>5. ~(row[w].known /\ ShowsWork(w, ctl[c].at))
      BY <1>1, <3>1, <3>2, <3>3, ExpiredShowsNoWork
    <3> QED
      BY Zenon, <3>4, <3>5
  <2> QED
    BY <1>1, <2>1 DEF ShowsWork
<1> QED
  BY <1>1, Invariance, PTL DEF Spec, ExpiryHeedsEvidence

=============================================================================
