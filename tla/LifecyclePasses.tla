-------------------------- MODULE LifecyclePasses ---------------------------
(***************************************************************************)
(* A controller's pass keeps what it relies on: its own steps advance the  *)
(* pass, and those of the others, which may move the same rows and bind the *)
(* same workflows, take nothing from it.                                   *)
(***************************************************************************)
EXTENDS LifecycleSteps

(* What the block of a pass shows of a workflow stays: only later blocks   *)
(* bring more.                                                             *)
LEMMA BlocksStay ==
  ASSUME IInv, Progress, NEW c \in Controllers, NEW w \in Workflows
  PROVE  LET at == ctl[c].at IN
         /\ Shown(chain'[w].precommit, at) <=> Shown(chain[w].precommit, at)
         /\ Shown(chain'[w].benchmark, at) <=> Shown(chain[w].benchmark, at)
         /\ Shown(chain'[w].proof, at) <=> Shown(chain[w].proof, at)
         /\ chain'[w].verified # 0 /\ chain'[w].verified < at <=> ActiveAt(w, at)
<1> DEFINE at == ctl[c].at
<1>1. TypeOK /\ Placed(c) /\ newest <= height /\ Extended(w) /\ chain'[w] \in EvidenceType
  BY Zenon DEF IInv, World, Passes, PassOK, Progress
<1>2. at \in Int /\ height \in Int /\ newest \in Int /\ at <= height
  <2>1. ctl[c] \in CtlType /\ newest \in Blocks /\ height \in Blocks
    BY <1>1 DEF TypeOK, CtlType
  <2>2. at \in Int /\ height \in Int /\ newest \in Int
    BY <2>1, LifecycleAssumption DEF CtlType, Blocks
  <2> QED
    BY <1>1, <2>2 DEF Placed
<1>3. /\ chain[w].precommit \in Int /\ chain[w].benchmark \in Int /\ chain[w].proof \in Int
      /\ chain[w].verified \in Int
  BY <1>1, WorkflowTypes
<1>4. ASSUME NEW k \in Kinds
      PROVE  \/ chain'[w][k] = chain[w][k]
             \/ chain[w][k] = 0 /\ chain'[w][k] > at
  BY <1>1, <1>2 DEF Extended
<1>5. /\ chain'[w].precommit = chain[w].precommit \/ (chain[w].precommit = 0 /\ chain'[w].precommit > at)
      /\ chain'[w].benchmark = chain[w].benchmark \/ (chain[w].benchmark = 0 /\ chain'[w].benchmark > at)
      /\ chain'[w].proof = chain[w].proof \/ (chain[w].proof = 0 /\ chain'[w].proof > at)
      /\ chain'[w].verified = chain[w].verified \/ (chain[w].verified = 0 /\ chain'[w].verified > at)
  BY Zenon, <1>4 DEF Kinds
<1>6. /\ chain'[w].precommit \in Int /\ chain'[w].benchmark \in Int /\ chain'[w].proof \in Int
      /\ chain'[w].verified \in Int
  BY <1>1, LifecycleAssumption DEF EvidenceType, Blocks
<1> HIDE DEF at
<1>7. /\ Shown(chain'[w].precommit, at) <=> Shown(chain[w].precommit, at)
      /\ Shown(chain'[w].benchmark, at) <=> Shown(chain[w].benchmark, at)
      /\ Shown(chain'[w].proof, at) <=> Shown(chain[w].proof, at)
      /\ chain'[w].verified # 0 /\ chain'[w].verified < at <=> ActiveAt(w, at)
  BY <1>2, <1>3, <1>5, <1>6, LifecycleAssumption DEF Shown, ActiveAt
<1> QED
  BY Zenon, <1>7 DEF at

(* What is final about a row stays.                                        *)
LEMMA RowsStay ==
  ASSUME Progress, NEW w \in Workflows
  PROVE  /\ row[w].known => row'[w].known
         /\ IsTerminal(row[w].state) => IsTerminal(row'[w].state)
         /\ row[w].state \in Closed => row'[w].state \in Closed
         /\ row[w].state \in Finished => row'[w].state \in Finished
         /\ row[w].state \in PastBenchmark \cup TerminalStates =>
              row'[w].state \in PastBenchmark \cup TerminalStates
BY Zenon DEF Progress, Grew

(* A row of the same revision is the same row.                             *)
LEMMA RevisionsStay ==
  ASSUME TypeOK, Progress, NEW w \in Workflows
  PROVE  /\ row'[w].revision >= row[w].revision
         /\ row'[w].revision = row[w].revision => row'[w] = row[w]
<1>1. row[w].revision \in Int /\ row'[w].revision \in Int
  BY WorkflowTypes DEF Progress, Rows
<1>2. row'[w] = row[w] \/ row'[w].revision > row[w].revision
  BY Zenon DEF Progress, Grew
<1> QED
  BY <1>1, <1>2

(* A transaction that moves a row binds no benchmark.                      *)
LEMMA MoveBindsNone ==
  ASSUME TypeOK, NEW w \in Workflows, NEW to \in States, NEW close \in Int
  PROVE  /\ Move(w, to, close) => NoneBound
         /\ Create(w, close) => NoneBound
<1>1. row \in [Workflows -> Rows]
  BY DEF TypeOK
<1>2. ASSUME Move(w, to, close) PROVE NoneBound
  <2>1. /\ \A v \in Workflows \ {w} : row'[v] = row[v]
        /\ row'[w].known = row[w].known
    BY Zenon, <1>1, <1>2, MoveDoes DEF Moves
  <2> QED
    BY <2>1 DEF NoneBound
<1>3. ASSUME Create(w, close) PROVE NoneBound
  <2>1. /\ \A v \in Workflows \ {w} : row'[v] = row[v]
        /\ row'[w].known = FALSE
    BY Zenon, <1>1, <1>3, CreateDoes
  <2> QED
    BY <2>1 DEF NoneBound
<1> QED
  BY <1>2, <1>3

(* Only bind_one binds a row.                                              *)
LEMMA OthersBindNone ==
  ASSUME IInv, NEW c \in Controllers, ControllerStep(c),
         \A w \in Workflows : ~BindOne(c, w)
  PROVE  NoneBound
<1>1. TypeOK /\ ctl[c] \in CtlType /\ newest \in Blocks
  BY DEF IInv, World, TypeOK, CtlType
<1>2. ctl[c].w \in Workflows /\ ctl[c].at \in Int /\ newest \in Int
  BY <1>1, LifecycleAssumption DEF CtlType, Blocks
<1>3. /\ chain[ctl[c].w].fraud \in Int /\ chain[ctl[c].w].benchmark \in Int
  BY <1>1, <1>2, WorkflowTypes
<1>4. ASSUME UNCHANGED row PROVE NoneBound
  BY <1>4 DEF NoneBound
<1>5. {"FRAUDULENT", "STOPPED", "BENCHMARK_CONFIRMED", "PROOF_CONFIRMED", "VERIFIED",
       "EXPIRED"} \subseteq States /\ 0 \in Int
  BY DEF States, TerminalStates
<1>6. CASE OfferFraud(c)
  <2>1. UNCHANGED row \/ Move(ctl[c].w, "FRAUDULENT", chain[ctl[c].w].fraud)
    BY <1>6, OfferWrites DEF OfferFraud, ConfirmFraud
  <2> QED
    BY Zenon, <1>1, <1>2, <1>3, <1>4, <1>5, <2>1, MoveBindsNone
<1>7. CASE OfferBenchmark(c)
  <2>1. \/ UNCHANGED row
        \/ Move(ctl[c].w, "STOPPED", chain[ctl[c].w].benchmark)
        \/ Move(ctl[c].w, "BENCHMARK_CONFIRMED", 0)
    <3>1. \/ UNCHANGED row
          \/ ConfirmBenchmark(ctl[c].w, chain[ctl[c].w].stopped, chain[ctl[c].w].benchmark)
      BY <1>7, OfferWrites DEF OfferBenchmark
    <3> QED
      BY <3>1 DEF ConfirmBenchmark
  <2> QED
    BY Zenon, <1>1, <1>2, <1>3, <1>4, <1>5, <2>1, MoveBindsNone
<1>8. CASE OfferProof(c)
  <2>1. UNCHANGED row \/ Move(ctl[c].w, "PROOF_CONFIRMED", 0)
    BY <1>8, OfferWrites DEF OfferProof, ConfirmProof
  <2> QED
    BY Zenon, <1>1, <1>2, <1>4, <1>5, <2>1, MoveBindsNone
<1>9. CASE OfferVerified(c)
  <2>1. UNCHANGED row \/ Move(ctl[c].w, "VERIFIED", ctl[c].at)
    BY <1>9, OfferWrites DEF OfferVerified, ConfirmVerified
  <2> QED
    BY Zenon, <1>1, <1>2, <1>4, <1>5, <2>1, MoveBindsNone
<1>10. CASE ExpireOne(c)
  <2>1. UNCHANGED row \/ Move(ctl[c].w, "EXPIRED", ctl[c].at)
    BY <1>10 DEF ExpireOne, Expire
  <2> QED
    BY <1>1, <1>2, <1>4, <1>5, <2>1, MoveBindsNone
<1>11. CASE Decide(c)
  <2>1. UNCHANGED row \/ \E w \in Workflows : Create(w, ctl[c].at)
    BY <1>11 DEF Decide
  <2> QED
    BY <1>1, <1>2, <1>4, <1>5, <2>1, MoveBindsNone
<1>12. CASE \E w \in Workflows : AdvanceOne(c, w) \/ JudgeOne(c, w)
  BY Zenon, <1>4, <1>12 DEF AdvanceOne, JudgeOne
<1>13. CASE TakeBlock(c) \/ StartRestart(c) \/ CheckActive(c) \/ StartSweep(c)
  BY Zenon, <1>4, <1>13 DEF TakeBlock, StartRestart, CheckActive, StartSweep
<1> QED
  BY <1>6, <1>7, <1>8, <1>9, <1>10, <1>11, <1>12, <1>13 DEF ControllerStep

(* A controller that did not move keeps its invariants.                    *)
LEMMA OtherKeeps ==
  ASSUME IInv, Progress, NEW c \in Controllers, ctl'[c] = ctl[c],
         Alone(c)' /\ ctl[c].at > 1 => Alone(c) /\ NoneBound
  PROVE  PassOK(c)'
<1>1. PassOK(c) /\ TypeOK /\ ctl[c] \in CtlType /\ newest' >= newest
  BY DEF IInv, Passes, World, TypeOK, CtlType, Progress
<1>2. /\ ctl[c].w \in Workflows /\ ctl[c].todo \subseteq Workflows
      /\ ctl[c].at \in Int /\ newest \in Int /\ newest' \in Int /\ ctl[c].revision \in Int
  BY <1>1, LifecycleAssumption DEF CtlType, Blocks, Progress, TypeOK
<1>3. Placed(c)' /\ Knows(c)'
  <2>1. Placed(c)'
    BY <1>1, <1>2 DEF PassOK, Placed
  <2>2. Knows(c)'
    BY Zenon, <1>1, <1>2, RowsStay DEF PassOK, Knows
  <2> QED
    BY <2>1, <2>2
<1>4. Judged(c)'
  <2>1. row[ctl[c].w].revision \in Int /\ row'[ctl[c].w].revision \in Int
    BY <1>1, <1>2, WorkflowTypes DEF Progress, Rows
  <2>2. /\ row'[ctl[c].w].revision >= row[ctl[c].w].revision
        /\ row'[ctl[c].w].revision = row[ctl[c].w].revision =>
             row'[ctl[c].w] = row[ctl[c].w]
    BY Zenon, <1>1, <1>2, RevisionsStay
  <2> QED
    BY <1>1, <1>2, <2>1, <2>2 DEF PassOK, Judged, Due
<1>5. BindsShown(c)'
  BY Zenon, <1>1, <1>2, BlocksStay, RowsStay DEF PassOK, BindsShown
<1>6. MissesNone(c)'
  BY Zenon, <1>1, <1>2, BlocksStay, RowsStay DEF PassOK, MissesNone, ActiveAt
<1>7. SweepsResolved(c)'
  BY <1>1 DEF PassOK, SweepsResolved
<1>8. Offered(c)'
  BY Zenon, <1>1, <1>2, BlocksStay, RowsStay DEF PassOK, Offered, ShowsWork
<1>9. Thorough(c)'
  BY Zenon, <1>1, <1>2, BlocksStay, RowsStay
  DEF PassOK, Thorough, ShowsWork, NoneBound
<1> QED
  BY Zenon, <1>3, <1>4, <1>5, <1>6, <1>7, <1>8, <1>9 DEF PassOK

(* No block up to the first shows a precommit.                             *)
LEMMA FirstBlockShowsNone ==
  ASSUME IInv, NEW w \in Workflows, NEW at \in Int, at <= 1
  PROVE  ~Shown(chain[w].precommit, at)
<1>1. TypeOK /\ Ordered(w)
  BY Zenon DEF IInv, World, Truth
<1>2. chain[w].precommit \in Nat /\ sent[w] \in Nat
  BY <1>1, WorkflowTypes
<1> QED
  BY <1>1, <1>2 DEF Ordered, Shown

(* A step of another controller after which c is alone found c alone, and  *)
(* bound nothing, once c is past the first block.                          *)
LEMMA AloneStays ==
  ASSUME IInv, Progress, NEW c \in Controllers, NEW d \in Controllers \ {c},
         ControllerStep(d) \/ CallFails(d) \/ Crash(d),
         Alone(c)', ctl[c].at > 1
  PROVE  Alone(c) /\ NoneBound
<1>1. /\ TypeOK /\ Placed(c) /\ newest <= height /\ ctl \in [Controllers -> CtlType]
      /\ newest \in Blocks /\ height \in Blocks
  BY Zenon DEF IInv, World, Passes, PassOK, TypeOK, CtlType
<1>2. /\ ctl[c].at \in Int /\ ctl[d].at \in Nat /\ newest \in Int /\ height \in Int
  BY <1>1, LifecycleAssumption DEF CtlType, Blocks
<1>3. height > 1
  BY <1>1, <1>2 DEF Placed
<1>4. /\ Only(d)
      /\ \/ TakeBlock(d)
         \/ ctl[d].pc # "idle" /\ ctl'[d].pc # "idle" /\ ctl'[d].at = ctl[d].at
         \/ /\ ctl[d].pc # "idle" /\ ctl'[d].pc = "idle"
            /\ ctl'[d].at \in {ctl[d].at, ctl[d].at - 1}
  BY ControllerMoves
<1>5. ctl'[d].at = 0 \/ (ctl'[d].at = 1 /\ ctl'[d].pc # "idle")
  BY DEF Alone
<1>6. ~TakeBlock(d)
  BY <1>1, <1>3, <1>5, TakeBlockDoes
<1>7. ctl[d].at = 0 \/ (ctl[d].at = 1 /\ ctl[d].pc # "idle")
  BY <1>2, <1>4, <1>5, <1>6
<1>8. Alone(c)
  BY <1>4, <1>7 DEF Alone, Only
<1>9. ASSUME NEW w \in Workflows, BindOne(d, w) PROVE NoneBound
  <2>1. ~Shown(chain[w].precommit, ctl[d].at)
    BY <1>2, <1>7, FirstBlockShowsNone
  <2>2. UNCHANGED row
    BY Zenon, <1>1, <1>9, <2>1, BindOneDoes
  <2> QED
    BY <2>2 DEF NoneBound
<1>10. CASE CallFails(d) \/ Crash(d)
  BY Zenon, <1>8, <1>10 DEF CallFails, Crash, NoneBound
<1>11. CASE ControllerStep(d)
  BY Zenon, <1>8, <1>9, <1>11, OthersBindNone
<1> QED
  BY <1>8, <1>10, <1>11

(* A workflow is left: what the invariants ask of it has been settled.     *)
LEMMA LeaveKeeps ==
  ASSUME IInv, Progress, NEW c \in Controllers, NEW w \in ctl[c].todo,
         NEW loop \in {"bind", "restart", "sweep"}, NEW X \in SUBSET Complaints,
         Left(c, loop, w, X),
         loop = "bind" => /\ ctl[c].pc = "bind"
                          /\ Shown(chain[w].precommit, ctl[c].at) =>
                               row'[w].known \/ "BindFailed" \in X,
         loop = "restart" => /\ ctl[c].pc \in RestartSteps /\ UNCHANGED row
                             /\ ActiveAt(w, ctl[c].at) => row[w].state \in Closed \/ X # {}
                             /\ /\ Alone(c) /\ ctl[c].at > 1
                                /\ ShowsWork(w, ctl[c].at) /\ row[w].known
                                => row[w].state \in Finished \/ "Failed" \in X,
         loop = "sweep" => /\ ctl[c].pc \in SweepSteps /\ NoneBound
                           /\ "BindFailed" \notin X /\ "Failed" \notin X
  PROVE  PassOK(c)'
<1>1. PassOK(c) /\ TypeOK /\ ctl[c] \in CtlType /\ newest' >= newest
  BY Zenon DEF IInv, Passes, World, TypeOK, CtlType, Progress
<1>2. /\ ctl[c].todo \subseteq Workflows /\ w \in Workflows
      /\ ctl[c].at \in Int /\ newest \in Int /\ newest' \in Int
  BY <1>1, LifecycleAssumption DEF CtlType, Blocks, Progress, TypeOK
<1>3. /\ ctl'[c].pc = loop /\ ctl'[c].at = ctl[c].at
      /\ ctl'[c].todo = ctl[c].todo \ {w}
      /\ \A v \in ctl'[c].todo : ctl'[c].read[v] = ctl[c].read[v]
      /\ ctl'[c].report = ctl[c].report \cup {<<w, x>> : x \in X}
      /\ \A d \in Controllers \ {c} : ctl'[d] = ctl[d]
  BY DEF Left, Only
<1>4. /\ loop \notin Advancing \cup {"expire"} /\ ctl[c].pc # "idle"
      /\ loop \in RestartSteps <=> loop = "restart"
      /\ loop \in SweepSteps <=> loop = "sweep"
  BY DEF Advancing, RestartSteps, SweepSteps
<1>5. Placed(c)' /\ Knows(c)'
  <2>1. Placed(c)'
    BY <1>1, <1>2, <1>3, <1>4 DEF PassOK, Placed
  <2>2. Knows(c)'
    BY Zenon, <1>1, <1>2, <1>3, <1>4, RowsStay DEF PassOK, Knows
  <2> QED
    BY Zenon, <2>1, <2>2
<1>6. Judged(c)'
  BY Zenon, <1>3, <1>4 DEF Judged
<1>7. BindsShown(c)'
  <2> SUFFICES ASSUME NEW v \in Workflows, Shown(chain'[v].precommit, ctl[c].at)
               PROVE  \/ row'[v].known \/ IsTerminal(row'[v].state)
                      \/ <<v, "BindFailed">> \in ctl'[c].report
                      \/ loop = "bind" /\ v \in ctl[c].todo \ {w}
    BY Zenon, <1>3 DEF BindsShown, IsTerminal
  <2>1. \/ row[v].known \/ IsTerminal(row[v].state)
        \/ <<v, "BindFailed">> \in ctl[c].report
        \/ ctl[c].pc = "bind" /\ v \in ctl[c].todo
    BY Zenon, <1>1, <1>4, BlocksStay DEF PassOK, BindsShown
  <2>2. CASE v = w /\ loop = "bind"
    BY Zenon, <1>3, <2>2, BlocksStay
  <2>3. CASE ~(v = w /\ loop = "bind")
    <3>1. loop # "bind" => ctl[c].pc # "bind"
      BY Zenon DEF RestartSteps, SweepSteps, Advancing
    <3> QED
      BY Zenon, <1>3, <2>1, <2>3, <3>1, RowsStay
  <2> QED
    BY Zenon, <2>2, <2>3
<1>8. MissesNone(c)'
  <2> SUFFICES ASSUME NEW v \in Workflows, loop # "bind",
                      chain'[v].verified # 0, chain'[v].verified < ctl[c].at
               PROVE  \/ row'[v].state \in Closed
                      \/ \E x \in Complaints : <<v, x>> \in ctl'[c].report
                      \/ loop = "restart" /\ v \in ctl[c].todo \ {w}
    BY Zenon, <1>3, <1>4 DEF MissesNone, ActiveAt, RestartSteps, SweepSteps,
       Advancing
  <2>1. ActiveAt(v, ctl[c].at)
    BY Zenon, BlocksStay
  <2>2. ctl[c].pc \in RestartSteps \cup SweepSteps
    OBVIOUS
  <2>3. \/ row[v].state \in Closed
        \/ \E x \in Complaints : <<v, x>> \in ctl[c].report
        \/ ctl[c].pc \in RestartSteps /\ v \in ctl[c].todo
    BY Zenon, <1>1, <2>1, <2>2 DEF PassOK, MissesNone
  <2>4. ctl[c].pc \in RestartSteps => loop = "restart"
    BY DEF RestartSteps, SweepSteps, Advancing
  <2> QED
    BY <1>3, <2>1, <2>3, <2>4, RowsStay
<1>9. SweepsResolved(c)'
  BY Zenon, <1>1, <1>3, <1>4 DEF PassOK, SweepsResolved
<1>10. Offered(c)'
  BY Zenon, <1>3 DEF Offered
<1>11. Thorough(c)'
  <2> SUFFICES ASSUME Alone(c), ctl[c].at > 1, loop # "bind"
               PROVE  /\ loop = "restart" =>
                           \A v \in ctl'[c].todo : row'[v].known => ctl'[c].read[v].known
                      /\ \A v \in Workflows :
                           ShowsWork(v, ctl[c].at)' /\ row'[v].known
                           => \/ row'[v].state \in Finished
                              \/ <<v, "Failed">> \in ctl'[c].report
                              \/ loop = "restart" /\ v \in ctl[c].todo \ {w}
    BY <1>3, <1>4 DEF Thorough, Alone, ShowsWork
  <2>1. ctl[c].pc \in RestartSteps \cup SweepSteps /\ NoneBound
    BY DEF NoneBound
  <2>2. loop = "restart" => \A v \in ctl'[c].todo : row'[v].known => ctl'[c].read[v].known
    BY Zenon, <1>1, <1>2, <1>3, <2>1 DEF PassOK, Thorough, NoneBound
  <2>3. ASSUME NEW v \in Workflows, ShowsWork(v, ctl[c].at)', row'[v].known
        PROVE  \/ row'[v].state \in Finished
               \/ <<v, "Failed">> \in ctl'[c].report
               \/ loop = "restart" /\ v \in ctl[c].todo \ {w}
    <3>1. ShowsWork(v, ctl[c].at) /\ row[v].known
      BY Zenon, <1>3, <2>1, <2>3, BlocksStay DEF ShowsWork, NoneBound
    <3>2. \/ row[v].state \in Finished
          \/ <<v, "Failed">> \in ctl[c].report
          \/ ctl[c].pc \in RestartSteps /\ v \in ctl[c].todo
      BY Zenon, <1>1, <2>1, <3>1 DEF PassOK, Thorough
    <3>3. ctl[c].pc \in RestartSteps => loop = "restart"
      BY DEF RestartSteps, SweepSteps, Advancing
    <3> QED
      BY Zenon, <1>3, <3>1, <3>2, <3>3, RowsStay
  <2> QED
    BY Zenon, <2>2, <2>3
<1> QED
  BY Zenon, <1>5, <1>6, <1>7, <1>8, <1>9, <1>10, <1>11 DEF PassOK

(* The row at hand goes on to the next step of advance_one.                *)
LEMMA KeptKeeps ==
  ASSUME IInv, Progress, NEW c \in Controllers, NEW w \in ctl[c].todo,
         NEW next \in Advancing, NEW state, NEW revision,
         Kept(c, next, w, state, revision), ctl[c].pc \in RestartSteps, NoneBound,
         row'[w].known, state \in Closed => row'[w].state \in Closed,
         next = "proof" /\ Shown(chain[w].benchmark, ctl[c].at) =>
           row'[w].state \in PastBenchmark \cup TerminalStates,
         next \in {"verified", "active"} /\ ShowsWork(w, ctl[c].at) =>
           row'[w].state \in Finished
  PROVE  PassOK(c)'
<1>1. PassOK(c) /\ TypeOK /\ ctl[c] \in CtlType /\ newest' >= newest
  BY Zenon DEF IInv, Passes, World, TypeOK, CtlType, Progress
<1>2. /\ ctl[c].todo \subseteq Workflows /\ w \in Workflows
      /\ ctl[c].at \in Int /\ newest \in Int /\ newest' \in Int
  BY <1>1, LifecycleAssumption DEF CtlType, Blocks, Progress, TypeOK
<1>3. /\ ctl'[c].pc = next /\ ctl'[c].at = ctl[c].at
      /\ ctl'[c].todo = ctl[c].todo /\ ctl'[c].read = ctl[c].read
      /\ ctl'[c].report = ctl[c].report /\ ctl'[c].w = w /\ ctl'[c].state = state
      /\ \A d \in Controllers \ {c} : ctl'[d] = ctl[d]
  BY DEF Kept, Only
<1>4. /\ next \in RestartSteps /\ next \notin SweepSteps
      /\ next # "idle" /\ next # "bind" /\ next # "expire"
      /\ ctl[c].pc # "idle" /\ ctl[c].pc # "bind" /\ ctl[c].pc # "expire"
      /\ ctl[c].pc \notin SweepSteps
  BY DEF Advancing, RestartSteps, SweepSteps
<1>5. Placed(c)' /\ Knows(c)'
  <2>1. Placed(c)'
    BY <1>1, <1>2, <1>3, <1>4 DEF PassOK, Placed
  <2>2. Knows(c)'
    BY Zenon, <1>1, <1>2, <1>3, <1>4, RowsStay DEF PassOK, Knows
  <2> QED
    BY <2>1, <2>2
<1>6. Judged(c)' /\ SweepsResolved(c)'
  BY Zenon, <1>3, <1>4 DEF Judged, SweepsResolved
<1>7. BindsShown(c)'
  BY Zenon, <1>1, <1>2, <1>3, <1>4, BlocksStay, RowsStay DEF PassOK, BindsShown
<1>8. MissesNone(c)'
  <2>1. MissesNone(c)
    BY Zenon, <1>1 DEF PassOK
  <2>2. ASSUME NEW v \in Workflows, ActiveAt(v, ctl[c].at)'
        PROVE  ActiveAt(v, ctl[c].at)
    BY Zenon, <1>3, <2>2, BlocksStay DEF ActiveAt
  <2>3. \A v \in Workflows : row[v].state \in Closed => row'[v].state \in Closed
    BY Zenon, RowsStay
  <2> QED
    BY Zenon, <1>3, <1>4, <2>1, <2>2, <2>3 DEF MissesNone, ActiveAt
<1>9. Offered(c)'
  <2>1. /\ Shown(chain'[w].benchmark, ctl[c].at) <=> Shown(chain[w].benchmark, ctl[c].at)
        /\ Shown(chain'[w].proof, ctl[c].at) <=> Shown(chain[w].proof, ctl[c].at)
    BY Zenon, <1>2, BlocksStay
  <2> QED
    BY Zenon, <1>3, <2>1 DEF Offered, ShowsWork
<1>10. Thorough(c)'
  BY Zenon, <1>1, <1>2, <1>3, <1>4, BlocksStay, RowsStay
  DEF PassOK, Thorough, ShowsWork, NoneBound, Alone
<1> QED
  BY <1>5, <1>6, <1>7, <1>8, <1>9, <1>10 DEF PassOK

(* An offer of the restart loop: what the invariants need is that a        *)
(* transition that was made, or was not allowed, leaves the row where the  *)
(* next step expects it.                                                   *)
LEMMA OfferKeeps ==
  ASSUME IInv, Progress, NoneBound, NEW c \in Controllers, ctl[c].pc \in Advancing,
         NEW shown, NEW from, NEW transition, NEW next \in Advancing,
         Offer(c, shown, from, transition, next),
         LET w == ctl[c].w IN
         \/ UNCHANGED row /\ (~shown \/ Outcome(w, ctl[c].revision, from) = "not_allowed")
         \/ shown /\ transition
         => /\ next = "proof" /\ Shown(chain[w].benchmark, ctl[c].at) =>
                 row'[w].state \in PastBenchmark \cup TerminalStates
            /\ next \in {"verified", "active"} /\ ShowsWork(w, ctl[c].at) =>
                 row'[w].state \in Finished
  PROVE  PassOK(c)'
<1> DEFINE w == ctl[c].w
<1>1. /\ TypeOK /\ PassOK(c) /\ ctl[c] \in CtlType /\ row' \in [Workflows -> Rows]
      /\ next \in PassSteps
  BY Zenon DEF IInv, Passes, World, TypeOK, CtlType, Progress, Advancing, PassSteps
<1>2. /\ w \in ctl[c].todo /\ w \in Workflows /\ row[w].known /\ ctl[c].pc \in RestartSteps
      /\ ctl[c].state \in Closed => row[w].state \in Closed
  BY Zenon, <1>1 DEF PassOK, Placed, Knows, CtlType, RestartSteps
<1>3. row'[w].known /\ (row[w].state \in Closed => row'[w].state \in Closed)
  BY Zenon, <1>2, RowsStay
<1>4. {"Contradicted"} \in SUBSET Complaints /\ {"Failed"} \in SUBSET Complaints
  BY DEF Complaints
<1>5. \/ /\ ~shown \/ Outcome(w, ctl[c].revision, from) = "not_allowed"
         /\ UNCHANGED row /\ Kept(c, next, w, ctl[c].state, ctl[c].revision)
      \/ /\ shown /\ transition
         /\ Kept(c, next, w, row'[w].state, row'[w].revision)
      \/ UNCHANGED row /\ IsTerminal(row[w].state) /\ Left(c, "restart", w, {"Contradicted"})
      \/ UNCHANGED row /\ Left(c, "restart", w, {"Failed"})
  BY <1>1, OfferDoes, Zenon
<1> HIDE DEF w
<1>6. CASE /\ ~shown \/ Outcome(w, ctl[c].revision, from) = "not_allowed"
           /\ UNCHANGED row /\ Kept(c, next, w, ctl[c].state, ctl[c].revision)
  BY Zenon, <1>2, <1>3, <1>6, KeptKeeps DEF w
<1>7. CASE /\ shown /\ transition
           /\ Kept(c, next, w, row'[w].state, row'[w].revision)
  BY Zenon, <1>2, <1>3, <1>7, KeptKeeps DEF w
<1>8. CASE UNCHANGED row /\ IsTerminal(row[w].state) /\ Left(c, "restart", w, {"Contradicted"})
  BY Zenon, <1>2, <1>4, <1>8, LeaveKeeps DEF IsTerminal, Finished
<1>9. CASE UNCHANGED row /\ Left(c, "restart", w, {"Failed"})
  BY Zenon, <1>2, <1>4, <1>9, LeaveKeeps
<1> QED
  BY Zenon, <1>5, <1>6, <1>7, <1>8, <1>9

(* The four offers of advance_one.                                         *)
LEMMA OffersKeep ==
  ASSUME IInv, Progress, NEW c \in Controllers,
         OfferFraud(c) \/ OfferBenchmark(c) \/ OfferProof(c) \/ OfferVerified(c)
  PROVE  PassOK(c)'
<1> DEFINE w == ctl[c].w
           at == ctl[c].at
<1>1. ctl[c].pc \in {"fraud", "benchmark", "proof", "verified"} /\ ctl[c].pc \in Advancing
  BY Zenon DEF OfferFraud, OfferBenchmark, OfferProof, OfferVerified, Advancing
<1>2. NoneBound
  BY Zenon, <1>1, OthersBindNone DEF ControllerStep, BindOne
<1>3. TypeOK /\ PassOK(c) /\ ctl[c] \in CtlType
  BY DEF IInv, World, Passes, TypeOK, CtlType
<1>4. w \in Workflows
  BY <1>3 DEF CtlType
<1>5. Bound(w) /\ row[w].known /\ row \in [Workflows -> Rows]
  BY <1>1, <1>3, <1>4 DEF IInv, World, Truth, PassOK, Knows, TypeOK
<1>6. row[w].state \in States \ {"DECIDED", "PRECOMMIT_SUBMITTED"}
  BY Zenon, <1>3, <1>4, <1>5, WorkflowTypes DEF Bound, Early
<1>7. /\ chain[w].fraud \in Int /\ chain[w].benchmark \in Int /\ at \in Int /\ 0 \in Int
      /\ {"FRAUDULENT", "STOPPED", "BENCHMARK_CONFIRMED", "PROOF_CONFIRMED",
          "VERIFIED"} \subseteq States
  BY <1>3, <1>4, WorkflowTypes, LifecycleAssumption
     DEF CtlType, Blocks, States, TerminalStates
<1>8. ASSUME NEW from, Outcome(w, ctl[c].revision, from) = "not_allowed"
      PROVE  row[w].state \notin from /\ row[w].state \notin TerminalStates
  BY Zenon, <1>8 DEF Outcome, IsTerminal
<1> HIDE DEF w, at
<1>9. ASSUME NEW to \in States, NEW close \in Int, Move(w, to, close)
      PROVE  row'[w].state = to
  BY Zenon, <1>4, <1>5, <1>9, MoveDoes DEF Moves
<1>10. CASE OfferFraud(c)
  <2> DEFINE shown == Shown(chain[w].fraud, at)
             next == IF shown THEN "active" ELSE "benchmark"
  <2>1. Offer(c, shown, States, ConfirmFraud(w, chain[w].fraud), next)
    BY Zenon, <1>10 DEF OfferFraud, w, at
  <2>2. next \in Advancing /\ next # "proof" /\ next # "verified"
        /\ (next = "active" => shown)
    BY DEF Advancing
  <2>3. ASSUME shown
        PROVE  /\ Outcome(w, ctl[c].revision, States) # "not_allowed"
               /\ ConfirmFraud(w, chain[w].fraud) => row'[w].state \in Finished
    BY <1>6, <1>7, <1>8, <1>9 DEF ConfirmFraud, Finished, TerminalStates
  <2> HIDE DEF shown, next
  <2> QED
    BY Zenon, <1>1, <1>2, <2>1, <2>2, <2>3, OfferKeeps DEF w
<1>11. CASE OfferBenchmark(c)
  <2> DEFINE shown == Shown(chain[w].benchmark, at)
             transition == ConfirmBenchmark(w, chain[w].stopped, chain[w].benchmark)
  <2>1. Offer(c, shown, BeforeBenchmark, transition, "proof")
    BY Zenon, <1>11 DEF OfferBenchmark, w, at
  <2>2. transition => row'[w].state \in PastBenchmark \cup TerminalStates
    BY <1>7, <1>9 DEF ConfirmBenchmark, PastBenchmark, TerminalStates
  <2>3. Outcome(w, ctl[c].revision, BeforeBenchmark) = "not_allowed" =>
          row[w].state \in PastBenchmark \cup TerminalStates
    BY <1>6, <1>8 DEF PastBenchmark, BeforeBenchmark, States
  <2>4. "proof" \in Advancing
    BY DEF Advancing
  <2> HIDE DEF transition
  <2> QED
    BY Zenon, <1>1, <1>2, <2>1, <2>2, <2>3, <2>4, OfferKeeps DEF w, at
<1>12. CASE OfferProof(c)
  <2> DEFINE shown == Shown(chain[w].proof, at)
  <2>1. Offer(c, shown, BeforeProof, ConfirmProof(w), "verified") /\ ctl[c].pc = "proof"
    BY Zenon, <1>12 DEF OfferProof, w, at
  <2>2. ConfirmProof(w) => row'[w].state \in Finished
    BY <1>7, <1>9 DEF ConfirmProof, Finished
  <2>3. ShowsWork(w, at) => shown /\ row[w].state \in PastBenchmark \cup TerminalStates
    BY Zenon, <1>3, <2>1 DEF PassOK, Offered, ShowsWork, w, at
  <2>4. Outcome(w, ctl[c].revision, BeforeProof) = "not_allowed" /\ ShowsWork(w, at) =>
          row[w].state \in Finished
    BY <1>8, <2>3 DEF PastBenchmark, BeforeProof, Finished
  <2>5. "verified" \in Advancing
    BY DEF Advancing
  <2> HIDE DEF shown
  <2> QED
    BY Zenon, <1>1, <1>2, <2>1, <2>2, <2>3, <2>4, <2>5, OfferKeeps DEF w, at
<1>13. CASE OfferVerified(c)
  <2> DEFINE shown == VerifiedIn(w, at)
  <2>1. /\ Offer(c, shown, BeforeVerified, ConfirmVerified(w, at), "active")
        /\ ctl[c].pc = "verified"
    BY <1>13 DEF OfferVerified, w, at
  <2>2. ConfirmVerified(w, at) => row'[w].state \in Finished
    BY <1>7, <1>9 DEF ConfirmVerified, Finished
  <2>3. ShowsWork(w, at) => row[w].state \in Finished
    BY Zenon, <1>3, <2>1 DEF PassOK, Offered, w, at
  <2>4. "active" \in Advancing
    BY DEF Advancing
  <2> HIDE DEF shown
  <2> QED
    BY Zenon, <1>1, <1>2, <2>1, <2>2, <2>3, <2>4, OfferKeeps DEF w, at
<1> QED
  BY Zenon, <1>10, <1>11, <1>12, <1>13

(* advance_one begins: a workflow without a benchmark is active nowhere    *)
(* unless its precommit was sent, and one that the window does not mention *)
(* shows no work.                                                          *)
LEMMA AdvanceKeeps ==
  ASSUME IInv, Progress, NEW c \in Controllers, NEW w \in Workflows, AdvanceOne(c, w)
  PROVE  PassOK(c)'
<1> DEFINE r == ctl[c].read[w]
<1>1. TypeOK /\ PassOK(c) /\ Ordered(w)
  BY DEF IInv, World, Passes, Truth
<1>2. /\ ctl[c].pc = "restart" /\ w \in ctl[c].todo /\ UNCHANGED row
      /\ \/ /\ ~r.known
            /\ \E X \in SUBSET {"PrecommitSearchOwed"} :
                 Left(c, "restart", w, X) /\ (sent[w] # 0 => X # {})
         \/ /\ r.known /\ ~KnownToTig(w, ctl[c].at)
            /\ Left(c, "restart", w, {"OutsideWindow"})
         \/ r.known /\ Kept(c, "fraud", w, r.state, r.revision)
  BY Zenon, <1>1, AdvanceOneDoes
<1>3. NoneBound
  BY <1>2 DEF NoneBound
<1>4. /\ ctl[c].pc \in RestartSteps /\ "fraud" \in Advancing
      /\ SUBSET {"PrecommitSearchOwed"} \subseteq SUBSET Complaints
      /\ {"OutsideWindow"} \in SUBSET Complaints
  BY Zenon, <1>2 DEF RestartSteps, Advancing, Complaints
<1>5. /\ r.known => row[w].known
      /\ r.state \in Closed => row[w].state \in Closed
      /\ Alone(c) /\ ctl[c].at > 1 /\ row[w].known => r.known
  BY Zenon, <1>1, <1>2, <1>4 DEF PassOK, Knows, Thorough
<1>6. ActiveAt(w, ctl[c].at) => sent[w] # 0
  BY Zenon, <1>1 DEF ActiveAt, Ordered
<1>7. ShowsWork(w, ctl[c].at) => KnownToTig(w, ctl[c].at)
  BY DEF ShowsWork, KnownToTig
<1> HIDE DEF r
<1>8. CASE ~r.known
  <2>1. PICK X \in SUBSET Complaints : Left(c, "restart", w, X) /\ (sent[w] # 0 => X # {})
    BY Zenon, <1>2, <1>4, <1>8
  <2> QED
    BY Zenon, <1>2, <1>4, <1>5, <1>6, <1>8, <2>1, LeaveKeeps
<1>9. CASE ~KnownToTig(w, ctl[c].at) /\ Left(c, "restart", w, {"OutsideWindow"})
  BY Zenon, <1>2, <1>4, <1>7, <1>9, LeaveKeeps
<1>10. CASE r.known /\ Kept(c, "fraud", w, r.state, r.revision)
  BY Zenon, <1>2, <1>3, <1>4, <1>5, <1>10, KeptKeeps
<1> QED
  BY <1>2, <1>8, <1>9, <1>10

(* A block is taken in: the DECIDED rows are the ones whose precommit it   *)
(* may show.                                                               *)
LEMMA TakeBlockKeeps ==
  ASSUME IInv, Progress, NEW c \in Controllers, TakeBlock(c)
  PROVE  PassOK(c)'
<1>1. TypeOK /\ 1 <= height /\ \A w \in Workflows : Truth(w)
  BY DEF IInv, World
<1>2. /\ ctl'[c].pc = "bind" /\ ctl'[c].at = height
      /\ ctl'[c].todo = InStates({"DECIDED"})
  BY <1>1, TakeBlockDoes
<1>3. /\ UNCHANGED <<row, chain>> /\ newest' = IF height > newest THEN height ELSE newest
      /\ height \in Int /\ newest \in Int
  BY <1>1, LifecycleAssumption DEF TakeBlock, chainVars, TypeOK, Blocks
<1>4. ctl'[c].pc \notin RestartSteps \cup SweepSteps /\ ctl'[c].pc \notin Advancing
      /\ ctl'[c].pc # "expire"
  BY <1>2 DEF RestartSteps, SweepSteps, Advancing
<1>5. Placed(c)' /\ Knows(c)'
  <2>1. Placed(c)'
    BY <1>1, <1>2, <1>3, <1>4 DEF Placed
  <2>2. Knows(c)'
    BY Zenon, <1>1, <1>2, <1>3, <1>4 DEF Knows
  <2> QED
    BY <2>1, <2>2
<1>6. ASSUME NEW w \in Workflows, Shown(chain[w].precommit, height), ~row[w].known
      PROVE  IsTerminal(row[w].state) \/ w \in InStates({"DECIDED"})
  BY Zenon, <1>1, <1>6 DEF Truth, Ordered, Bound, Early, Shown, Exists,
     IsTerminal, InStates
<1>7. BindsShown(c)'
  BY <1>2, <1>3, <1>6 DEF BindsShown
<1>8. Judged(c)' /\ MissesNone(c)' /\ SweepsResolved(c)' /\ Offered(c)' /\ Thorough(c)'
  BY Zenon, <1>2, <1>4 DEF Judged, MissesNone, SweepsResolved, Offered, Thorough
<1> QED
  BY <1>5, <1>7, <1>8 DEF PassOK

(* bind_one: a shown precommit is bound, or the failure is reported.       *)
LEMMA BindKeeps ==
  ASSUME IInv, Progress, NEW c \in Controllers, NEW w \in Workflows, BindOne(c, w)
  PROVE  PassOK(c)'
<1>1. TypeOK /\ Ordered(w) /\ sent[w] \in Int /\ row \in [Workflows -> Rows]
  BY WorkflowTypes DEF IInv, World, Truth, TypeOK
<1>2. /\ ctl[c].pc = "bind" /\ w \in ctl[c].todo
      /\ \E X \in SUBSET {"BindFailed"} :
           /\ Left(c, "bind", w, X)
           /\ sent[w] # 0 /\ Shown(chain[w].precommit, ctl[c].at) =>
                X = {"BindFailed"} \/ ConfirmPrecommit(w, sent[w])
  BY Zenon, <1>1, BindOneDoes
<1>3. PICK X \in SUBSET Complaints :
        /\ Left(c, "bind", w, X)
        /\ sent[w] # 0 /\ Shown(chain[w].precommit, ctl[c].at) =>
             "BindFailed" \in X \/ ConfirmPrecommit(w, sent[w])
  BY <1>2 DEF Complaints
<1>4. Shown(chain[w].precommit, ctl[c].at) => sent[w] # 0
  BY Zenon, <1>1 DEF Shown, Ordered
<1>5. ConfirmPrecommit(w, sent[w]) => row'[w].known
  BY Zenon, <1>1, ConfirmPrecommitDoes
<1> QED
  BY Zenon, <1>2, <1>3, <1>4, <1>5, LeaveKeeps

(* The reconciliation begins with every row that is not terminal.          *)
LEMMA StartRestartKeeps ==
  ASSUME IInv, Progress, NEW c \in Controllers, StartRestart(c)
  PROVE  PassOK(c)'
<1>1. TypeOK /\ PassOK(c) /\ \A w \in Workflows : Ordered(w) /\ Bound(w)
  BY DEF IInv, World, Passes, Truth
<1>2. /\ ctl[c].pc = "bind" /\ ctl[c].todo = {} /\ Enter(c, "restart", Nonterminal)
      /\ UNCHANGED <<row, chain, newest>>
  BY DEF StartRestart, chainVars
<1>3. "restart" \in PassSteps /\ Nonterminal \in SUBSET Workflows
  BY DEF PassSteps, Nonterminal, InStates
<1>4. /\ ctl'[c].pc = "restart" /\ ctl'[c].at = ctl[c].at
      /\ ctl'[c].todo = Nonterminal
      /\ \A v \in Nonterminal : ctl'[c].read[v] = row[v]
      /\ ctl'[c].report = ctl[c].report
  BY <1>1, <1>2, <1>3, EnterDoes DEF Entered
<1>5. /\ ctl'[c].pc \notin Advancing /\ ctl'[c].pc # "expire" /\ ctl'[c].pc \notin SweepSteps
  BY <1>4 DEF Advancing, SweepSteps
<1>6. Placed(c)' /\ Knows(c)'
  <2>1. Placed(c)'
    BY <1>1, <1>2, <1>4, <1>5 DEF PassOK, Placed
  <2>2. Knows(c)'
    BY Zenon, <1>1, <1>2, <1>4, <1>5 DEF PassOK, Knows
  <2> QED
    BY <2>1, <2>2
<1>7. BindsShown(c)'
  BY Zenon, <1>1, <1>2, <1>4 DEF PassOK, BindsShown
<1>8. ASSUME NEW w \in Workflows, Exists(w)
      PROVE  IsTerminal(row[w].state) \/ w \in Nonterminal
  BY Zenon, <1>1, <1>8, WorkflowTypes DEF Exists, IsTerminal, Nonterminal, InStates
<1>9. ASSUME NEW w \in Workflows, ActiveAt(w, ctl[c].at) \/ row[w].known
      PROVE  Exists(w)
  BY Zenon, <1>1, <1>9 DEF ActiveAt, Ordered, Bound, Early, Exists
<1>10. MissesNone(c)'
  BY Zenon, <1>2, <1>4, <1>8, <1>9 DEF MissesNone, ActiveAt, Closed, IsTerminal,
     RestartSteps
<1>11. Thorough(c)'
  BY Zenon, <1>2, <1>3, <1>4, <1>8, <1>9 DEF Thorough, Finished, IsTerminal,
     RestartSteps
<1>12. Judged(c)' /\ SweepsResolved(c)' /\ Offered(c)'
  BY Zenon, <1>4, <1>5 DEF Judged, SweepsResolved, Offered
<1> QED
  BY <1>6, <1>7, <1>10, <1>11, <1>12 DEF PassOK

(* A pass that goes on with its sweep, or comes to it with nothing left to *)
(* restart, owes the rows nothing more.                                    *)
LEMMA SweepGoesOn ==
  ASSUME NEW c \in Controllers, PassOK(c), UNCHANGED <<row, chain>>,
         ctl[c].pc \in SweepSteps \/ (ctl[c].pc \in RestartSteps /\ ctl[c].todo = {}),
         ctl'[c].pc \in SweepSteps, ctl'[c].at = ctl[c].at,
         ctl'[c].report = ctl[c].report,
         \A d \in Controllers \ {c} : ctl'[d] = ctl[d]
  PROVE  Knows(c)' /\ BindsShown(c)' /\ MissesNone(c)' /\ Offered(c)' /\ Thorough(c)'
<1>1. /\ ctl'[c].pc \notin RestartSteps /\ ctl'[c].pc \notin Advancing
      /\ ctl[c].pc \in RestartSteps \cup SweepSteps
      /\ ctl[c].pc \in RestartSteps => \A w \in Workflows : w \notin ctl[c].todo
      /\ ctl[c].pc \notin {"idle", "bind"} /\ ctl'[c].pc \notin {"proof", "verified", "active"}
  BY Zenon DEF SweepSteps, RestartSteps, Advancing
<1>2. Knows(c)' /\ Offered(c)'
  BY Zenon, <1>1 DEF Knows, Offered
<1>3. BindsShown(c)'
  BY Zenon, <1>1 DEF PassOK, BindsShown
<1>4. MissesNone(c)'
  BY Zenon, <1>1 DEF PassOK, MissesNone, ActiveAt
<1>5. Thorough(c)'
  <2>1. Alone(c)' => Alone(c)
    BY Zenon DEF Alone
  <2> QED
    BY Zenon, <1>1, <2>1 DEF PassOK, Thorough, ShowsWork
<1> QED
  BY <1>2, <1>3, <1>4, <1>5

(* The sweep begins with the unfinished rows that the pass could resolve.  *)
LEMMA StartSweepKeeps ==
  ASSUME IInv, Progress, NEW c \in Controllers, StartSweep(c)
  PROVE  PassOK(c)'
<1> DEFINE listed == UnfinishedRows \ Unresolved(c)
<1>1. TypeOK /\ PassOK(c)
  BY DEF IInv, World, Passes
<1>2. /\ ctl[c].pc = "restart" /\ ctl[c].todo = {} /\ Enter(c, "sweep", listed)
      /\ UNCHANGED <<row, chain, newest>>
  BY DEF StartSweep, chainVars
<1>3. "sweep" \in PassSteps /\ listed \in SUBSET Workflows
  BY DEF PassSteps, UnfinishedRows
<1>4. /\ ctl'[c].pc = "sweep" /\ ctl'[c].at = ctl[c].at /\ ctl'[c].todo = listed
      /\ ctl'[c].report = ctl[c].report
      /\ \A d \in Controllers \ {c} : ctl'[d] = ctl[d]
  BY <1>1, <1>2, <1>3, EnterDoes DEF Entered, Only
<1>5. /\ ctl'[c].pc \notin Advancing /\ ctl'[c].pc # "expire"
      /\ ctl'[c].pc \in SweepSteps /\ ctl[c].pc \in RestartSteps
  BY <1>2, <1>4 DEF Advancing, SweepSteps, RestartSteps
<1>6. Knows(c)' /\ BindsShown(c)' /\ MissesNone(c)' /\ Offered(c)' /\ Thorough(c)'
  BY Zenon, <1>1, <1>2, <1>4, <1>5, SweepGoesOn
<1>7. Placed(c)' /\ Judged(c)'
  BY Zenon, <1>1, <1>2, <1>4, <1>5 DEF PassOK, Placed, Judged
<1>8. SweepsResolved(c)'
  BY <1>3, <1>4 DEF SweepsResolved, Unresolved, Reports
<1> QED
  BY <1>6, <1>7, <1>8 DEF PassOK

(* A judgement is of the row as it is.                                     *)
LEMMA JudgeKeeps ==
  ASSUME IInv, Progress, NEW c \in Controllers, NEW w \in Workflows, JudgeOne(c, w)
  PROVE  PassOK(c)'
<1>1. TypeOK /\ PassOK(c) /\ row[w].revision \in Nat
  BY WorkflowTypes DEF IInv, World, Passes
<1>2. /\ ctl[c].pc = "sweep" /\ w \in ctl[c].todo /\ UNCHANGED row
      /\ \/ Left(c, "sweep", w, {})
         \/ /\ Due(row[w], ctl[c].at)
            /\ Kept(c, "expire", w, ctl[c].state, row[w].revision)
  BY <1>1, JudgeOneDoes
<1>3. UNCHANGED <<chain, newest>> /\ NoneBound /\ {} \in SUBSET Complaints
  BY <1>2 DEF JudgeOne, chainVars, NoneBound
<1>4. CASE Left(c, "sweep", w, {})
  BY <1>2, <1>3, <1>4, LeaveKeeps DEF SweepSteps
<1>5. CASE /\ Due(row[w], ctl[c].at)
           /\ Kept(c, "expire", w, ctl[c].state, row[w].revision)
  <2>1. /\ ctl'[c].pc = "expire" /\ ctl'[c].at = ctl[c].at /\ ctl'[c].todo = ctl[c].todo
        /\ ctl'[c].report = ctl[c].report /\ ctl'[c].w = w
        /\ ctl'[c].revision = row[w].revision
        /\ \A d \in Controllers \ {c} : ctl'[d] = ctl[d]
    BY Zenon, <1>5 DEF Kept, Only
  <2>2. ctl'[c].pc \in SweepSteps /\ ctl[c].pc \in SweepSteps /\ ctl[c].pc # "idle"
    BY <1>2, <2>1 DEF SweepSteps
  <2>3. Knows(c)' /\ BindsShown(c)' /\ MissesNone(c)' /\ Offered(c)' /\ Thorough(c)'
    BY Zenon, <1>1, <1>2, <1>3, <2>1, <2>2, SweepGoesOn
  <2>4. Placed(c)'
    BY Zenon, <1>1, <1>2, <1>3, <2>1, <2>2 DEF PassOK, Placed
  <2>5. Judged(c)'
    BY <1>1, <1>2, <1>5, <2>1 DEF Judged, Due
  <2>6. SweepsResolved(c)'
    BY Zenon, <1>1, <2>1, <2>2 DEF PassOK, SweepsResolved
  <2> QED
    BY <2>3, <2>4, <2>5, <2>6 DEF PassOK
<1> QED
  BY <1>2, <1>4, <1>5

(* The last look at a workflow: what TIG has active is closed here or is   *)
(* reported.                                                               *)
LEMMA CheckActiveKeeps ==
  ASSUME IInv, Progress, NEW c \in Controllers, CheckActive(c)
  PROVE  PassOK(c)'
<1> DEFINE w == ctl[c].w
<1>1. TypeOK /\ PassOK(c)
  BY DEF IInv, World, Passes
<1>2. /\ ctl[c].pc = "active" /\ UNCHANGED row
      /\ \E X \in SUBSET {"VerificationMissed"} :
           /\ Left(c, "restart", w, X)
           /\ ActiveAt(w, ctl[c].at) /\ ctl[c].state \notin Closed => X # {}
  BY <1>1, CheckActiveDoes
<1>3. PICK X \in SUBSET Complaints :
        /\ Left(c, "restart", w, X)
        /\ ActiveAt(w, ctl[c].at) /\ ctl[c].state \notin Closed => X # {}
  BY <1>2 DEF Complaints
<1>4. ctl[c].pc \in Advancing /\ ctl[c].pc \in RestartSteps
  BY <1>2 DEF Advancing, RestartSteps
<1>5. /\ w \in ctl[c].todo
      /\ ctl[c].state \in Closed => row[w].state \in Closed
      /\ ShowsWork(w, ctl[c].at) => row[w].state \in Finished
  BY Zenon, <1>1, <1>2, <1>4 DEF PassOK, Placed, Knows, Offered
<1> HIDE DEF w
<1> QED
  BY <1>2, <1>3, <1>4, <1>5, LeaveKeeps

(* The sweep's own write.                                                  *)
LEMMA ExpireKeeps ==
  ASSUME IInv, Progress, NEW c \in Controllers, ExpireOne(c)
  PROVE  PassOK(c)'
<1>1. TypeOK /\ PassOK(c)
  BY DEF IInv, World, Passes
<1>2. /\ ctl[c].pc = "expire"
      /\ \E X \in SUBSET {"ExpiryFailed"} : Left(c, "sweep", ctl[c].w, X)
  BY <1>1, ExpireOneDoes
<1>3. PICK X \in SUBSET Complaints :
        Left(c, "sweep", ctl[c].w, X) /\ "BindFailed" \notin X /\ "Failed" \notin X
  BY <1>2 DEF Complaints
<1>4. NoneBound
  BY Zenon, <1>2, OthersBindNone DEF ControllerStep, BindOne
<1>5. ctl[c].w \in ctl[c].todo /\ ctl[c].pc \in SweepSteps
  BY <1>1, <1>2 DEF PassOK, Placed, SweepSteps
<1> QED
  BY Zenon, <1>3, <1>4, <1>5, LeaveKeeps

(* A failed call leaves its workflow with the complaint of its loop.       *)
LEMMA CallFailsKeeps ==
  ASSUME IInv, Progress, NEW c \in Controllers, CallFails(c)
  PROVE  PassOK(c)'
<1>1. TypeOK /\ PassOK(c)
  BY DEF IInv, World, Passes
<1>2. /\ UNCHANGED row
      /\ \/ /\ ctl[c].pc = "bind"
            /\ \E w \in ctl[c].todo : Left(c, "bind", w, {"BindFailed"})
         \/ /\ ctl[c].pc = "sweep"
            /\ \E w \in ctl[c].todo : Left(c, "sweep", w, {"ExpiryFailed"})
         \/ /\ ctl[c].pc \in Advancing
            /\ Left(c, "restart", ctl[c].w, {"Failed"})
  BY <1>1, CallFailsDoes
<1>3. /\ {"BindFailed"} \in SUBSET Complaints /\ {"ExpiryFailed"} \in SUBSET Complaints
      /\ {"Failed"} \in SUBSET Complaints /\ NoneBound
  BY <1>2 DEF Complaints, NoneBound
<1>4. ASSUME ctl[c].pc = "bind", NEW w \in ctl[c].todo, Left(c, "bind", w, {"BindFailed"})
      PROVE  PassOK(c)'
  BY <1>3, <1>4, LeaveKeeps
<1>5. ASSUME ctl[c].pc = "sweep", NEW w \in ctl[c].todo, Left(c, "sweep", w, {"ExpiryFailed"})
      PROVE  PassOK(c)'
  BY <1>3, <1>5, LeaveKeeps DEF SweepSteps
<1>6. ASSUME ctl[c].pc \in Advancing, Left(c, "restart", ctl[c].w, {"Failed"})
      PROVE  PassOK(c)'
  <2>1. ctl[c].w \in ctl[c].todo /\ ctl[c].pc \in RestartSteps
    BY <1>1, <1>6 DEF PassOK, Placed, RestartSteps
  <2> QED
    BY Zenon, <1>2, <1>3, <1>6, <2>1, LeaveKeeps
<1> QED
  BY <1>2, <1>4, <1>5, <1>6

(* A pass that is over asks for nothing.                                   *)
LEMMA EndKeeps ==
  ASSUME IInv, Progress, NEW c \in Controllers, Decide(c) \/ Crash(c)
  PROVE  PassOK(c)'
<1>1. TypeOK /\ PassOK(c) /\ ctl[c] \in CtlType /\ newest' >= newest
  BY DEF IInv, World, Passes, TypeOK, CtlType, Progress
<1>2. ctl[c].at \in Int /\ newest \in Int /\ newest' \in Int
  BY <1>1, LifecycleAssumption DEF CtlType, Blocks, TypeOK, Progress
<1>3. ctl'[c].pc = "idle" /\ ctl'[c].at \in {ctl[c].at, ctl[c].at - 1}
  BY PassEnds
<1>4. ctl'[c].pc \notin Advancing \cup RestartSteps \cup SweepSteps
  BY <1>3 DEF Advancing, RestartSteps, SweepSteps
<1>5. Placed(c)' /\ Knows(c)'
  <2>1. Placed(c)'
    BY <1>1, <1>2, <1>3, <1>4 DEF PassOK, Placed
  <2>2. Knows(c)'
    BY Zenon, <1>1, <1>2, <1>3, <1>4 DEF PassOK, Knows
  <2> QED
    BY <2>1, <2>2
<1>6. /\ Judged(c)' /\ BindsShown(c)' /\ MissesNone(c)' /\ SweepsResolved(c)'
      /\ Offered(c)' /\ Thorough(c)'
  BY Zenon, <1>3, <1>4 DEF Judged, BindsShown, MissesNone, SweepsResolved,
     Offered, Thorough
<1> QED
  BY <1>5, <1>6 DEF PassOK

(* Every step of a controller keeps its own invariants.                    *)
LEMMA OwnStepKeeps ==
  ASSUME IInv, Progress, NEW c \in Controllers,
         ControllerStep(c) \/ CallFails(c) \/ Crash(c)
  PROVE  PassOK(c)'
BY TakeBlockKeeps, StartRestartKeeps, BindKeeps, AdvanceKeeps, JudgeKeeps,
   OffersKeep,
   CheckActiveKeeps, StartSweepKeeps, ExpireKeeps, CallFailsKeeps, EndKeeps
   DEF ControllerStep

(* ... and every other controller's.                                       *)
LEMMA PassesStep ==
  ASSUME IInv, Progress, [Next]_vars
  PROVE  Passes'
<1>1. SUFFICES ASSUME NEW c \in Controllers PROVE PassOK(c)'
  BY DEF Passes
<1>2. TypeOK /\ height \in Int
  BY LifecycleAssumption DEF IInv, World, TypeOK, Blocks
<1>3. ASSUME NEW d \in Controllers, ControllerStep(d) \/ CallFails(d) \/ Crash(d)
      PROVE  PassOK(c)'
  <2>1. CASE d = c
    BY <1>3, <2>1, OwnStepKeeps
  <2>2. CASE d # c
    <3>1. ctl'[c] = ctl[c]
      BY <1>3, <2>2, ControllerMoves DEF Only
    <3>2. Alone(c)' /\ ctl[c].at > 1 => Alone(c) /\ NoneBound
      BY <1>3, <2>2, AloneStays
    <3> QED
      BY <3>1, <3>2, OtherKeeps
  <2> QED
    BY <2>1, <2>2
<1>4. ASSUME UNCHANGED ctl, NoneBound PROVE PassOK(c)'
  BY <1>4, OtherKeeps DEF Alone
<1>5. CASE NewBlock \/ UNCHANGED vars
  BY <1>4, <1>5 DEF NewBlock, vars, NoneBound
<1>6. CASE \E w \in Workflows : SendPrecommit(w) \/ BeginWrite(w) \/ SettleWrite(w)
  BY <1>4, <1>6 DEF SendPrecommit, BeginWrite, SettleWrite, NoneBound
<1>7. CASE \E w \in Workflows : OperatorFails(w)
  <2>1. PICK w \in Workflows : Move(w, "FAILED", height) /\ UNCHANGED ctl
    BY <1>7 DEF OperatorFails, Fail
  <2>2. "FAILED" \in States
    BY DEF States, TerminalStates
  <2> QED
    BY <1>2, <1>4, <2>1, <2>2, MoveBindsNone
<1> QED
  BY <1>3, <1>5, <1>6, <1>7 DEF Next

=============================================================================
