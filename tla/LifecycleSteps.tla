--------------------------- MODULE LifecycleSteps ---------------------------
(***************************************************************************)
(* What the steps of Lifecycle do to the rows, to the chain and to the     *)
(* controllers, for any workflows, controllers, guardrails and bounds: each *)
(* handler is reduced to the few moves of LifecycleInvariant, a move of a row *)
(* is shown to be justified by TIG's evidence, and every step is shown to be *)
(* Progress.  The facts about ages that an expiry rests on come on the way, *)
(* and are theorems of their own.                                          *)
(***************************************************************************)
EXTENDS LifecycleInvariant, TLAPS

(***************************************************************************)
(* The steps of the controllers                                            *)
(***************************************************************************)

(* A workflow that was never admitted.                                     *)
LEMMA NoRowType == NoRow \in Rows
BY DEF NoRow, Rows

(* The placeholder of a resting controller is a workflow.                  *)
LEMMA AnyWorkflowIsOne == AnyWorkflow \in Workflows
BY LifecycleAssumption DEF AnyWorkflow

(* A pass that is over.                                                    *)
LEMMA NoPassType ==
  ASSUME NEW at \in Blocks
  PROVE  /\ NoPass(at) \in CtlType
         /\ NoPass(at).pc = "idle" /\ NoPass(at).at = at
BY AnyWorkflowIsOne, NoRowType DEF NoPass, CtlType, PassSteps

(* Leave takes the workflow off the list, keeps the rest of what was read  *)
(* and adds to the report.                                                 *)
LEMMA LeaveDoes ==
  ASSUME ctl \in [Controllers -> CtlType], NEW c \in Controllers,
         NEW loop \in PassSteps, NEW w \in Workflows,
         NEW complaints \in SUBSET Complaints, Leave(c, loop, w, complaints)
  PROVE  Left(c, loop, w, complaints)
<1> DEFINE p == [NoPass(ctl[c].at) EXCEPT
              !.pc = loop, !.todo = ctl[c].todo \ {w},
              !.read = [v \in Workflows |-> IF v \in ctl[c].todo \ {w}
                                            THEN ctl[c].read[v] ELSE NoRow],
              !.report = ctl[c].report \cup {<<w, x>> : x \in complaints}]
<1>1. ctl[c] \in CtlType /\ ctl[c].at \in Blocks
  BY DEF CtlType
<1>2. ctl' = [ctl EXCEPT ![c] = p]
  BY DEF Leave
<1>3. {<<w, x>> : x \in complaints} \subseteq Workflows \X Complaints
  OBVIOUS
<1>4. [v \in Workflows |-> IF v \in ctl[c].todo \ {w} THEN ctl[c].read[v] ELSE NoRow]
        \in [Workflows -> Rows]
  BY Zenon, <1>1, NoRowType DEF CtlType
<1>5. /\ p.pc = loop /\ p.at = ctl[c].at /\ p.todo = ctl[c].todo \ {w}
      /\ p.read = [v \in Workflows |-> IF v \in ctl[c].todo \ {w}
                                       THEN ctl[c].read[v] ELSE NoRow]
      /\ p.report = ctl[c].report \cup {<<w, x>> : x \in complaints}
      /\ p \in CtlType
  BY Zenon, <1>1, <1>3, <1>4, AnyWorkflowIsOne DEF CtlType, NoPass
<1> HIDE DEF p
<1> QED
  BY Zenon, <1>1, <1>2, <1>5 DEF CtlType, Left, Only

(* Enter lists rows and keeps what it reads of them.                       *)
LEMMA EnterDoes ==
  ASSUME TypeOK, NEW c \in Controllers, NEW loop \in PassSteps,
         NEW listed \in SUBSET Workflows, Enter(c, loop, listed)
  PROVE  Entered(c, loop, listed)
<1> DEFINE p == [NoPass(ctl[c].at) EXCEPT
              !.pc = loop, !.todo = listed,
              !.read = [w \in Workflows |-> IF w \in listed THEN row[w] ELSE NoRow],
              !.report = ctl[c].report]
<1>1. ctl \in [Controllers -> CtlType] /\ ctl[c] \in CtlType /\ ctl[c].at \in Blocks
  BY Zenon DEF CtlType, TypeOK
<1>2. ctl' = [ctl EXCEPT ![c] = p]
  BY Zenon DEF Enter
<1>3. [w \in Workflows |-> IF w \in listed THEN row[w] ELSE NoRow] \in [Workflows -> Rows]
  BY Zenon, NoRowType DEF TypeOK
<1>4. /\ p.pc = loop /\ p.at = ctl[c].at /\ p.todo = listed
      /\ p.read = [w \in Workflows |-> IF w \in listed THEN row[w] ELSE NoRow]
      /\ p.report = ctl[c].report
      /\ p \in CtlType
  BY Zenon, <1>1, <1>3, AnyWorkflowIsOne DEF CtlType, NoPass
<1> HIDE DEF p
<1> QED
  BY <1>1, <1>2, <1>4 DEF CtlType, Entered, Only

(* A block is taken in: bind has the DECIDED rows to visit.                *)
LEMMA TakeBlockDoes ==
  ASSUME TypeOK, NEW c \in Controllers, TakeBlock(c)
  PROVE  /\ Only(c)
         /\ ctl'[c].pc = "bind" /\ ctl'[c].at = height
         /\ ctl'[c].todo = InStates({"DECIDED"})
         /\ \A v \in ctl'[c].todo : ctl'[c].read[v] = row[v]
<1> DEFINE p == [NoPass(height) EXCEPT
          !.pc = "bind", !.todo = InStates({"DECIDED"}),
          !.read = [w \in Workflows |-> IF w \in InStates({"DECIDED"})
                                        THEN row[w] ELSE NoRow]]
<1>1. ctl \in [Controllers -> CtlType] /\ height \in Blocks
      /\ InStates({"DECIDED"}) \subseteq Workflows
  BY DEF CtlType, TypeOK, InStates
<1>2. ctl' = [ctl EXCEPT ![c] = p]
  BY DEF TakeBlock
<1>3. [w \in Workflows |-> IF w \in InStates({"DECIDED"}) THEN row[w] ELSE NoRow]
        \in [Workflows -> Rows]
  BY Zenon, NoRowType DEF TypeOK
<1>4. /\ p.pc = "bind" /\ p.at = height /\ p.todo = InStates({"DECIDED"})
      /\ p.read = [w \in Workflows |-> IF w \in InStates({"DECIDED"})
                                       THEN row[w] ELSE NoRow]
      /\ p \in CtlType
  BY Zenon, <1>1, <1>3, AnyWorkflowIsOne DEF CtlType, NoPass, PassSteps
<1> HIDE DEF p
<1> QED
  BY <1>1, <1>2, <1>4 DEF CtlType, Only

(* The steps within a loop.                                                *)
LEMMA KeepDoes ==
  ASSUME ctl \in [Controllers -> CtlType], NEW c \in Controllers, NEW pc \in PassSteps,
         NEW w \in Workflows, NEW state \in States \cup {"NONE"}, NEW revision \in Nat
  PROVE  /\ Step(c, pc) =>
              Kept(c, pc, ctl[c].w, ctl[c].state, ctl[c].revision)
         /\ ctl' = [ctl EXCEPT ![c].pc = pc, ![c].w = w, ![c].revision = revision]
              => Kept(c, pc, w, ctl[c].state, revision)
         /\ ctl' = [ctl EXCEPT ![c].pc = pc, ![c].state = state, ![c].revision = revision]
              => Kept(c, pc, ctl[c].w, state, revision)
         /\ ctl' = [ctl EXCEPT ![c].pc = pc, ![c].w = w,
                               ![c].state = state, ![c].revision = revision]
              => Kept(c, pc, w, state, revision)
<1> DEFINE p == ctl[c]
<1>1. p \in CtlType
  OBVIOUS
<1>2. ASSUME NEW q \in CtlType, ctl' = [ctl EXCEPT ![c] = q],
             q.at = p.at, q.todo = p.todo, q.read = p.read, q.report = p.report
      PROVE  Kept(c, q.pc, q.w, q.state, q.revision)
  BY <1>2 DEF Kept, Only
<1> HIDE DEF p
<1>3. ASSUME Step(c, pc)
      PROVE  Kept(c, pc, ctl[c].w, ctl[c].state, ctl[c].revision)
  <2> DEFINE q == [p EXCEPT !.pc = pc]
  <2>1. ctl' = [ctl EXCEPT ![c] = q]
    BY <1>3 DEF Step, p
  <2>2. q \in CtlType
    BY <1>1, Zenon DEF CtlType
  <2>3. /\ q.at = p.at /\ q.todo = p.todo /\ q.read = p.read /\ q.report = p.report
        /\ q.pc = pc /\ q.w = p.w /\ q.state = p.state /\ q.revision = p.revision
    BY <1>1 DEF CtlType
  <2> HIDE DEF q
  <2> QED
    BY Zenon, <1>2, <2>1, <2>2, <2>3 DEF p
<1>4. ASSUME ctl' = [ctl EXCEPT ![c].pc = pc, ![c].w = w, ![c].revision = revision]
      PROVE  Kept(c, pc, w, ctl[c].state, revision)
  <2> DEFINE q == [p EXCEPT !.pc = pc, !.w = w, !.revision = revision]
  <2>1. ctl' = [ctl EXCEPT ![c] = q]
    BY Zenon, <1>4 DEF Step, p
  <2>2. q \in CtlType
    BY <1>1, Zenon DEF CtlType
  <2>3. /\ q.at = p.at /\ q.todo = p.todo /\ q.read = p.read /\ q.report = p.report
        /\ q.pc = pc /\ q.w = w /\ q.state = p.state /\ q.revision = revision
    BY <1>1 DEF CtlType
  <2> HIDE DEF q
  <2> QED
    BY Zenon, <1>2, <2>1, <2>2, <2>3 DEF p
<1>5. ASSUME ctl' = [ctl EXCEPT ![c].pc = pc, ![c].state = state, ![c].revision = revision]
      PROVE  Kept(c, pc, ctl[c].w, state, revision)
  <2> DEFINE q == [p EXCEPT !.pc = pc, !.state = state, !.revision = revision]
  <2>1. ctl' = [ctl EXCEPT ![c] = q]
    BY Zenon, <1>5 DEF Step, p
  <2>2. q \in CtlType
    BY <1>1, Zenon DEF CtlType
  <2>3. /\ q.at = p.at /\ q.todo = p.todo /\ q.read = p.read /\ q.report = p.report
        /\ q.pc = pc /\ q.w = p.w /\ q.state = state /\ q.revision = revision
    BY <1>1 DEF CtlType
  <2> HIDE DEF q
  <2> QED
    BY Zenon, <1>2, <2>1, <2>2, <2>3 DEF p
<1>6. ASSUME ctl' = [ctl EXCEPT ![c].pc = pc, ![c].w = w,
                                 ![c].state = state, ![c].revision = revision]
      PROVE  Kept(c, pc, w, state, revision)
  <2> DEFINE q == [p EXCEPT !.pc = pc, !.w = w, !.state = state, !.revision = revision]
  <2>1. ctl' = [ctl EXCEPT ![c] = q]
    BY Zenon, <1>6 DEF Step, p
  <2>2. q \in CtlType
    BY <1>1, Zenon DEF CtlType
  <2>3. /\ q.at = p.at /\ q.todo = p.todo /\ q.read = p.read /\ q.report = p.report
        /\ q.pc = pc /\ q.w = w /\ q.state = state /\ q.revision = revision
    BY <1>1 DEF CtlType
  <2> HIDE DEF q
  <2> QED
    BY Zenon, <1>2, <2>1, <2>2, <2>3 DEF p
<1> QED
  BY Zenon, <1>3, <1>4, <1>5, <1>6 DEF p

(* What "ok" tells the caller of a transition.                             *)
LEMMA OkMeans ==
  ASSUME NEW w, NEW revision, NEW from, Outcome(w, revision, from) = "ok"
  PROVE  /\ row[w].revision = revision /\ ~IsTerminal(row[w].state)
         /\ row[w].state \in from
BY DEF Outcome

(* What an offer does to the row: its transition, or nothing.              *)
LEMMA OfferWrites ==
  ASSUME NEW c, NEW shown, NEW from, NEW transition, NEW next,
         Offer(c, shown, from, transition, next)
  PROVE  /\ UNCHANGED <<chainVars, newest, faults>>
         /\ \/ UNCHANGED row
            \/ /\ shown /\ transition
               /\ Outcome(ctl[c].w, ctl[c].revision, from) = "ok"
BY Zenon DEF Offer

(* A controller in a pass knows its block; the row at hand has a benchmark *)
(* while it is advanced, and is due while it is expired.                   *)
LEMMA InPass ==
  ASSUME IInv, NEW c \in Controllers, ctl[c].pc # "idle"
  PROVE  /\ ctl[c].at \in 1..newest /\ ctl[c].w \in Workflows
         /\ ctl[c].pc \in Advancing => row[ctl[c].w].known
         /\ ctl[c].pc = "expire" /\ Outcome(ctl[c].w, ctl[c].revision, States) = "ok"
              => Due(row[ctl[c].w], ctl[c].at)
<1>1. TypeOK /\ Placed(c) /\ Knows(c) /\ Judged(c)
  BY DEF IInv, World, Passes, PassOK
<1>2. ctl[c] \in CtlType /\ newest \in Blocks
  BY <1>1 DEF TypeOK, CtlType
<1>3. ctl[c].at \in Int /\ newest \in Int /\ ctl[c].w \in Workflows
  BY <1>2, LifecycleAssumption DEF CtlType, Blocks
<1>4. ctl[c].at \in 1..newest
  BY <1>1, <1>3 DEF Placed
<1>5. ctl[c].pc \in Advancing => row[ctl[c].w].known
  BY Zenon, <1>1 DEF Knows
<1>6. ctl[c].pc = "expire" /\ Outcome(ctl[c].w, ctl[c].revision, States) = "ok"
        => Due(row[ctl[c].w], ctl[c].at)
  BY <1>1, OkMeans DEF Judged
<1> QED
  BY Zenon, <1>3, <1>4, <1>5, <1>6

(* A transition moves the one row, and closes its interval once.           *)
LEMMA MovedIs ==
  ASSUME row \in [Workflows -> Rows], NEW w \in Workflows, NEW to \in States,
         NEW close \in Int
  PROVE  LET r == Moved(w, to, close) IN
         /\ r \in Rows
         /\ r.state = to /\ r.revision = row[w].revision + 1
         /\ r.known = row[w].known /\ r.started = row[w].started
         /\ r.from = row[w].from
         /\ r.to = IF row[w].to = 0 THEN close ELSE row[w].to
<1> DEFINE r == row[w]
<1>1. r \in Rows
  OBVIOUS
<1>2. r.revision + 1 \in Nat /\ Close(r.to, close) \in Int
  BY <1>1 DEF Rows, Close
<1>3. to \in States \cup {"NONE"}
  OBVIOUS
<1> HIDE DEF r
<1>4. [r EXCEPT !.state = to, !.revision = @ + 1, !.to = Close(@, close)] \in Rows
  BY <1>1, <1>2, <1>3, Zenon DEF Rows
<1>5. LET m == [r EXCEPT !.state = to, !.revision = @ + 1, !.to = Close(@, close)] IN
      /\ m.state = to /\ m.revision = r.revision + 1
      /\ m.known = r.known /\ m.started = r.started /\ m.from = r.from
      /\ m.to = IF r.to = 0 THEN close ELSE r.to
  BY <1>1 DEF Rows, Close
<1> QED
  BY <1>4, <1>5 DEF Moved, r

(* A transition changes one row, as Moves says.                            *)
LEMMA MoveDoes ==
  ASSUME row \in [Workflows -> Rows], NEW w \in Workflows, NEW to \in States,
         NEW close \in Int, Move(w, to, close)
  PROVE  Moves(w, to, close)
<1>1. row' = [row EXCEPT ![w] = Moved(w, to, close)]
  BY DEF Move
<1> QED
  BY <1>1, MovedIs DEF Moves

(* The confirmation of a precommit also binds the benchmark.               *)
LEMMA ConfirmPrecommitDoes ==
  ASSUME row \in [Workflows -> Rows], NEW w \in Workflows, NEW started \in Int,
         ConfirmPrecommit(w, started)
  PROVE  /\ row' \in [Workflows -> Rows]
         /\ \A v \in Workflows \ {w} : row'[v] = row[v]
         /\ row'[w].state = "PRECOMMIT_CONFIRMED"
         /\ row'[w].revision = row[w].revision + 1
         /\ row'[w].known = TRUE /\ row'[w].started = started
         /\ row'[w].from = row[w].from /\ row'[w].to = row[w].to
<1> DEFINE m == Moved(w, "PRECOMMIT_CONFIRMED", 0)
           r == [m EXCEPT !.known = TRUE, !.started = started]
<1>1. "PRECOMMIT_CONFIRMED" \in States
  BY DEF States
<1>2. /\ m \in Rows /\ m.state = "PRECOMMIT_CONFIRMED"
      /\ m.revision = row[w].revision + 1
      /\ m.from = row[w].from /\ m.to = row[w].to
  BY <1>1, MovedIs
<1>3. row' = [row EXCEPT ![w] = r]
  BY Zenon DEF ConfirmPrecommit
<1> HIDE DEF m
<1>4. r \in Rows
  BY <1>2, Zenon DEF Rows
<1>5. /\ r.state = m.state /\ r.revision = m.revision /\ r.known = TRUE
      /\ r.started = started /\ r.from = m.from /\ r.to = m.to
  BY <1>2 DEF Rows
<1> HIDE DEF r
<1> QED
  BY <1>2, <1>3, <1>4, <1>5

(* An admission opens the interval at the anchor.                          *)
LEMMA CreateDoes ==
  ASSUME row \in [Workflows -> Rows], NEW w \in Workflows, NEW anchor \in Int,
         Create(w, anchor)
  PROVE  /\ row' \in [Workflows -> Rows]
         /\ \A v \in Workflows \ {w} : row'[v] = row[v]
         /\ row[w].state = "NONE"
         /\ row'[w].state = "DECIDED" /\ row'[w].revision = 1
         /\ row'[w].known = FALSE /\ row'[w].started = 0
         /\ row'[w].from = anchor /\ row'[w].to = 0
<1> DEFINE r == [NoRow EXCEPT !.state = "DECIDED", !.revision = 1, !.from = anchor]
<1>1. "DECIDED" \in States \cup {"NONE"} /\ 1 \in Nat
  BY DEF States
<1>2. r \in Rows
  BY <1>1, NoRowType, Zenon DEF Rows
<1>3. /\ r.state = "DECIDED" /\ r.revision = 1 /\ r.known = FALSE
      /\ r.started = 0 /\ r.from = anchor /\ r.to = 0
  BY DEF NoRow
<1>4. row' = [row EXCEPT ![w] = r] /\ row[w].state = "NONE"
  BY DEF Create, Exists
<1> HIDE DEF r
<1> QED
  BY <1>2, <1>3, <1>4

(* The types of what a workflow's invariants are about.                    *)
LEMMA WorkflowTypes ==
  ASSUME TypeOK, NEW w \in Workflows
  PROVE  /\ row[w] \in Rows /\ row[w].state \in States \cup {"NONE"}
         /\ row[w].revision \in Nat /\ row[w].known \in BOOLEAN
         /\ row[w].started \in Int /\ row[w].from \in Int /\ row[w].to \in Int
         /\ chain[w].precommit \in Nat /\ chain[w].benchmark \in Nat
         /\ chain[w].stopped \in BOOLEAN /\ chain[w].proof \in Nat
         /\ chain[w].verified \in Nat /\ chain[w].fraud \in Nat
         /\ sent[w] \in Nat /\ height \in Nat /\ newest \in Nat
<1>1. Blocks \subseteq Nat
  BY LifecycleAssumption DEF Blocks
<1>2. row[w] \in Rows
  BY DEF TypeOK
<1>3. /\ row[w].state \in States \cup {"NONE"}
      /\ row[w].revision \in Nat /\ row[w].known \in BOOLEAN
      /\ row[w].started \in Int /\ row[w].from \in Int /\ row[w].to \in Int
  BY <1>2 DEF Rows
<1>4. chain[w] \in [precommit : Blocks, benchmark : Blocks,
                    stopped : BOOLEAN, proof : Blocks,
                    verified : Blocks, fraud : Blocks]
  BY DEF TypeOK
<1> QED
  BY Zenon, <1>1, <1>2, <1>3, <1>4 DEF TypeOK

(***************************************************************************)
(* What each action of a controller does to its pass                       *)
(***************************************************************************)

(* One workflow of the bind loop: left as it is, complained of, or bound.  *)
LEMMA BindOneDoes ==
  ASSUME TypeOK, NEW c \in Controllers, NEW w \in Workflows, BindOne(c, w)
  PROVE  /\ ctl[c].pc = "bind" /\ w \in ctl[c].todo
         /\ \E X \in SUBSET {"BindFailed"} :
              /\ Left(c, "bind", w, X)
              /\ sent[w] # 0 /\ Shown(chain[w].precommit, ctl[c].at) =>
                   \/ X = {"BindFailed"}
                   \/ ConfirmPrecommit(w, sent[w])
         /\ \/ UNCHANGED row
            \/ sent[w] # 0 /\ Shown(chain[w].precommit, ctl[c].at)
<1> DEFINE confirmed == sent[w] # 0 /\ Shown(chain[w].precommit, ctl[c].at)
           answer == Outcome(w, ctl[c].read[w].revision, BeforePrecommit)
           X == {x \in {"BindFailed"} : confirmed /\ answer # "ok"}
<1>1. /\ ctl[c].pc = "bind" /\ w \in ctl[c].todo
      /\ IF confirmed /\ answer = "ok"
         THEN ConfirmPrecommit(w, sent[w])
         ELSE UNCHANGED row
      /\ Leave(c, "bind", w, X)
  BY DEF BindOne
<1>2. X \in SUBSET {"BindFailed"} /\ X \in SUBSET Complaints
  BY Zenon DEF Complaints
<1>3. ctl \in [Controllers -> CtlType] /\ "bind" \in PassSteps
  BY DEF TypeOK, CtlType, PassSteps
<1>4. Left(c, "bind", w, X)
  BY Zenon, <1>1, <1>2, <1>3, LeaveDoes
<1>5. confirmed => X = {"BindFailed"} \/ ConfirmPrecommit(w, sent[w])
  BY Zenon, <1>1
<1>6. UNCHANGED row \/ confirmed
  BY <1>1
<1> QED
  BY Zenon, <1>1, <1>2, <1>4, <1>5, <1>6

(* The restart loop takes up one workflow, or is done with it.             *)
LEMMA AdvanceOneDoes ==
  ASSUME TypeOK, NEW c \in Controllers, NEW w \in Workflows, AdvanceOne(c, w)
  PROVE  /\ ctl[c].pc = "restart" /\ w \in ctl[c].todo /\ UNCHANGED row
         /\ LET r == ctl[c].read[w] IN
            \/ /\ ~r.known
               /\ \E X \in SUBSET {"PrecommitSearchOwed"} :
                    Left(c, "restart", w, X) /\ (sent[w] # 0 => X # {})
            \/ /\ r.known /\ ~KnownToTig(w, ctl[c].at)
               /\ Left(c, "restart", w, {"OutsideWindow"})
            \/ r.known /\ Kept(c, "fraud", w, r.state, r.revision)
<1> DEFINE r == ctl[c].read[w]
           X == {x \in {"PrecommitSearchOwed"} : sent[w] # 0}
<1>1. /\ ctl[c].pc = "restart" /\ w \in ctl[c].todo /\ UNCHANGED row
      /\ \/ ~r.known /\ Leave(c, "restart", w, X)
         \/ r.known /\ ~KnownToTig(w, ctl[c].at) /\ Leave(c, "restart", w, {"OutsideWindow"})
         \/ /\ r.known
            /\ ctl' = [ctl EXCEPT ![c].pc = "fraud", ![c].w = w,
                                  ![c].state = r.state, ![c].revision = r.revision]
  BY Zenon DEF AdvanceOne
<1>2. /\ ctl \in [Controllers -> CtlType]
      /\ "restart" \in PassSteps /\ "fraud" \in PassSteps
      /\ X \in SUBSET Complaints /\ {"OutsideWindow"} \in SUBSET Complaints
      /\ X \in SUBSET {"PrecommitSearchOwed"} /\ (sent[w] # 0 => X # {})
  BY DEF TypeOK, CtlType, PassSteps, Complaints
<1>3. r \in Rows
  BY <1>2 DEF CtlType
<1>4. r.state \in States \cup {"NONE"} /\ r.revision \in Nat
  BY Zenon, <1>3 DEF Rows
<1>5. CASE ~r.known /\ Leave(c, "restart", w, X)
  <2>1. Left(c, "restart", w, X)
    BY <1>2, <1>5, LeaveDoes
  <2> QED
    BY Zenon, <1>1, <1>2, <1>5, <2>1
<1>6. CASE r.known /\ ~KnownToTig(w, ctl[c].at) /\ Leave(c, "restart", w, {"OutsideWindow"})
  <2>1. Left(c, "restart", w, {"OutsideWindow"})
    BY <1>2, <1>6, LeaveDoes
  <2> QED
    BY Zenon, <1>1, <1>6, <2>1
<1>7. CASE /\ r.known
           /\ ctl' = [ctl EXCEPT ![c].pc = "fraud", ![c].w = w,
                                 ![c].state = r.state, ![c].revision = r.revision]
  <2>1. Kept(c, "fraud", w, r.state, r.revision)
    BY Zenon, <1>2, <1>4, <1>7, KeepDoes
  <2> QED
    BY Zenon, <1>1, <1>7, <2>1
<1> QED
  BY Zenon, <1>1, <1>5, <1>6, <1>7

(* One piece of evidence is offered to the row at hand, and taken in when  *)
(* the row's state is one it moves.                                        *)
LEMMA OfferDoes ==
  ASSUME TypeOK, row' \in [Workflows -> Rows], NEW c \in Controllers,
         NEW shown, NEW from, NEW transition, NEW next \in PassSteps,
         Offer(c, shown, from, transition, next)
  PROVE  LET w == ctl[c].w
             answer == Outcome(w, ctl[c].revision, from)
         IN
         \/ /\ ~shown \/ answer = "not_allowed"
            /\ UNCHANGED row /\ Kept(c, next, w, ctl[c].state, ctl[c].revision)
         \/ /\ shown /\ answer = "ok" /\ transition
            /\ Kept(c, next, w, row'[w].state, row'[w].revision)
         \/ /\ UNCHANGED row /\ IsTerminal(row[w].state)
            /\ Left(c, "restart", w, {"Contradicted"})
         \/ UNCHANGED row /\ Left(c, "restart", w, {"Failed"})
<1> DEFINE w == ctl[c].w
           answer == Outcome(w, ctl[c].revision, from)
<1>1. /\ ctl \in [Controllers -> CtlType] /\ ctl[c] \in CtlType /\ "restart" \in PassSteps
      /\ {"Contradicted"} \in SUBSET Complaints /\ {"Failed"} \in SUBSET Complaints
  BY DEF TypeOK, CtlType, PassSteps, Complaints
<1>2. w \in Workflows
  BY <1>1 DEF CtlType
<1>3. row'[w] \in Rows
  BY <1>2
<1>4. /\ row'[w].state \in States \cup {"NONE"} /\ row'[w].revision \in Nat
      /\ ctl[c].state \in States \cup {"NONE"} /\ ctl[c].revision \in Nat
  BY <1>1, <1>3 DEF Rows, CtlType
<1>5. \/ (~shown \/ answer = "not_allowed") /\ Step(c, next) /\ UNCHANGED row
      \/ /\ shown /\ answer = "ok" /\ transition
         /\ ctl' = [ctl EXCEPT ![c].pc = next, ![c].state = row'[w].state,
                               ![c].revision = row'[w].revision]
      \/ answer = "contradicted" /\ Leave(c, "restart", w, {"Contradicted"}) /\ UNCHANGED row
      \/ answer = "stale" /\ Leave(c, "restart", w, {"Failed"}) /\ UNCHANGED row
  BY Zenon DEF Offer
<1> HIDE DEF w
<1>6. CASE (~shown \/ answer = "not_allowed") /\ Step(c, next) /\ UNCHANGED row
  <2>1. Kept(c, next, ctl[c].w, ctl[c].state, ctl[c].revision)
    BY Zenon, <1>1, <1>2, <1>4, <1>6, KeepDoes
  <2> QED
    BY Zenon, <1>6, <2>1 DEF w
<1>7. CASE /\ shown /\ answer = "ok" /\ transition
           /\ ctl' = [ctl EXCEPT ![c].pc = next, ![c].state = row'[w].state,
                                 ![c].revision = row'[w].revision]
  <2>1. Kept(c, next, ctl[c].w, row'[w].state, row'[w].revision)
    BY Zenon, <1>1, <1>2, <1>4, <1>7, KeepDoes
  <2> QED
    BY Zenon, <1>7, <2>1 DEF w
<1>8. CASE answer = "contradicted" /\ Leave(c, "restart", w, {"Contradicted"}) /\ UNCHANGED row
  <2>1. Left(c, "restart", w, {"Contradicted"})
    BY <1>1, <1>2, <1>8, LeaveDoes
  <2>2. IsTerminal(row[w].state)
    BY Zenon, <1>8 DEF Outcome
  <2> QED
    BY Zenon, <1>8, <2>1, <2>2 DEF w
<1>9. CASE answer = "stale" /\ Leave(c, "restart", w, {"Failed"}) /\ UNCHANGED row
  <2>1. Left(c, "restart", w, {"Failed"})
    BY Zenon, <1>1, <1>2, <1>9, LeaveDoes
  <2> QED
    BY Zenon, <1>9, <2>1 DEF w
<1> QED
  BY Zenon, <1>5, <1>6, <1>7, <1>8, <1>9 DEF w

(* The last step of a restarted workflow: active without a record of it is *)
(* complained of.                                                          *)
LEMMA CheckActiveDoes ==
  ASSUME TypeOK, NEW c \in Controllers, CheckActive(c)
  PROVE  /\ ctl[c].pc = "active" /\ UNCHANGED row
         /\ \E X \in SUBSET {"VerificationMissed"} :
              /\ Left(c, "restart", ctl[c].w, X)
              /\ ActiveAt(ctl[c].w, ctl[c].at) /\ ctl[c].state \notin Closed => X # {}
<1> DEFINE w == ctl[c].w
           X == {x \in {"VerificationMissed"} :
                   /\ ctl[c].state # "VERIFIED" /\ ~IsTerminal(ctl[c].state)
                   /\ ActiveAt(w, ctl[c].at)}
<1>1. ctl[c].pc = "active" /\ UNCHANGED row /\ Leave(c, "restart", w, X)
  BY DEF CheckActive
<1>2. /\ ctl \in [Controllers -> CtlType] /\ ctl[c] \in CtlType /\ "restart" \in PassSteps
      /\ X \in SUBSET Complaints /\ X \in SUBSET {"VerificationMissed"}
  BY Zenon DEF TypeOK, CtlType, PassSteps, Complaints
<1>3. w \in Workflows
  BY Zenon, <1>2 DEF CtlType
<1>4. Left(c, "restart", w, X)
  BY Zenon, <1>1, <1>2, <1>3, LeaveDoes
<1>5. ActiveAt(w, ctl[c].at) /\ ctl[c].state \notin Closed => X # {}
  BY DEF Closed, IsTerminal
<1> QED
  BY Zenon, <1>1, <1>2, <1>4, <1>5

(* The sweep keeps a workflow that is due for expire, and passes the others. *)
LEMMA JudgeOneDoes ==
  ASSUME TypeOK, NEW c \in Controllers, NEW w \in Workflows, JudgeOne(c, w)
  PROVE  /\ ctl[c].pc = "sweep" /\ w \in ctl[c].todo /\ UNCHANGED row
         /\ \/ Left(c, "sweep", w, {})
            \/ /\ Due(row[w], ctl[c].at)
               /\ Kept(c, "expire", w, ctl[c].state, row[w].revision)
<1>1. /\ ctl[c].pc = "sweep" /\ w \in ctl[c].todo /\ UNCHANGED row
      /\ \/ Leave(c, "sweep", w, {})
         \/ /\ Due(row[w], ctl[c].at)
            /\ ctl' = [ctl EXCEPT ![c].pc = "expire", ![c].w = w, ![c].revision = row[w].revision]
  BY Zenon DEF JudgeOne
<1>2. /\ ctl \in [Controllers -> CtlType] /\ "sweep" \in PassSteps /\ "expire" \in PassSteps
      /\ {} \in SUBSET Complaints
  BY DEF TypeOK, CtlType, PassSteps
<1>3. row[w].revision \in Nat /\ ctl[c].state \in States \cup {"NONE"}
  BY Zenon, <1>2, WorkflowTypes DEF CtlType
<1>4. CASE Leave(c, "sweep", w, {})
  BY Zenon, <1>1, <1>2, <1>4, LeaveDoes
<1>5. CASE /\ Due(row[w], ctl[c].at)
           /\ ctl' = [ctl EXCEPT ![c].pc = "expire", ![c].w = w, ![c].revision = row[w].revision]
  <2>1. Kept(c, "expire", w, ctl[c].state, row[w].revision)
    BY Zenon, <1>2, <1>3, <1>5, KeepDoes
  <2> QED
    BY Zenon, <1>1, <1>5, <2>1
<1> QED
  BY Zenon, <1>1, <1>4, <1>5

(* A due workflow is expired unless its row was moved since it was read.   *)
LEMMA ExpireOneDoes ==
  ASSUME TypeOK, NEW c \in Controllers, ExpireOne(c)
  PROVE  /\ ctl[c].pc = "expire"
         /\ \E X \in SUBSET {"ExpiryFailed"} : Left(c, "sweep", ctl[c].w, X)
         /\ \/ UNCHANGED row
            \/ /\ Outcome(ctl[c].w, ctl[c].revision, States) = "ok"
               /\ Expire(ctl[c].w, ctl[c].at)
<1>1. /\ ctl[c].pc = "expire"
      /\ Leave(c, "sweep", ctl[c].w, {}) \/ Leave(c, "sweep", ctl[c].w, {"ExpiryFailed"})
      /\ \/ UNCHANGED row
         \/ /\ Outcome(ctl[c].w, ctl[c].revision, States) = "ok"
            /\ Expire(ctl[c].w, ctl[c].at)
  BY Zenon DEF ExpireOne
<1>2. /\ ctl \in [Controllers -> CtlType] /\ ctl[c] \in CtlType /\ "sweep" \in PassSteps
      /\ {} \in SUBSET Complaints /\ {"ExpiryFailed"} \in SUBSET Complaints
  BY Zenon DEF TypeOK, CtlType, PassSteps, Complaints
<1>3. ctl[c].w \in Workflows
  BY <1>2 DEF CtlType
<1>4. Left(c, "sweep", ctl[c].w, {}) \/ Left(c, "sweep", ctl[c].w, {"ExpiryFailed"})
  BY Zenon, <1>1, <1>2, <1>3, LeaveDoes
<1> QED
  BY Zenon, <1>1, <1>4

(* A failed call ends the pass, or one workflow's part of it.              *)
LEMMA CallFailsDoes ==
  ASSUME TypeOK, NEW c \in Controllers, CallFails(c)
  PROVE  /\ UNCHANGED row
         /\ \/ /\ ctl[c].pc = "bind"
               /\ \E w \in ctl[c].todo : Left(c, "bind", w, {"BindFailed"})
            \/ /\ ctl[c].pc = "sweep"
               /\ \E w \in ctl[c].todo : Left(c, "sweep", w, {"ExpiryFailed"})
            \/ /\ ctl[c].pc \in Advancing
               /\ Left(c, "restart", ctl[c].w, {"Failed"})
<1>1. /\ ctl \in [Controllers -> CtlType] /\ ctl[c] \in CtlType
      /\ {"bind", "sweep", "restart"} \subseteq PassSteps
      /\ {"BindFailed"} \in SUBSET Complaints /\ {"ExpiryFailed"} \in SUBSET Complaints
      /\ {"Failed"} \in SUBSET Complaints
  BY DEF TypeOK, CtlType, PassSteps, Complaints
<1>2. ctl[c].w \in Workflows /\ ctl[c].todo \subseteq Workflows
  BY <1>1 DEF CtlType
<1>3. /\ UNCHANGED row
      /\ \/ /\ ctl[c].pc = "bind"
            /\ \E w \in ctl[c].todo : Leave(c, "bind", w, {"BindFailed"})
         \/ /\ ctl[c].pc = "sweep"
            /\ \E w \in ctl[c].todo : Leave(c, "sweep", w, {"ExpiryFailed"})
         \/ /\ ctl[c].pc \in Advancing
            /\ Leave(c, "restart", ctl[c].w, {"Failed"})
  BY Zenon DEF CallFails, Advancing
<1>4. ASSUME NEW w \in Workflows
      PROVE  /\ Leave(c, "bind", w, {"BindFailed"}) => Left(c, "bind", w, {"BindFailed"})
             /\ Leave(c, "sweep", w, {"ExpiryFailed"}) => Left(c, "sweep", w, {"ExpiryFailed"})
             /\ Leave(c, "restart", w, {"Failed"}) => Left(c, "restart", w, {"Failed"})
  BY <1>1, LeaveDoes
<1> QED
  BY Zenon, <1>2, <1>3, <1>4

(* The pass is over, decided or cut short by a crash.                      *)
LEMMA PassEnds ==
  ASSUME IInv, NEW c \in Controllers, Decide(c) \/ Crash(c)
  PROVE  /\ Only(c) /\ ctl[c].pc # "idle" /\ ctl'[c].pc = "idle"
         /\ ctl'[c].at \in {ctl[c].at, ctl[c].at - 1}
         /\ Decide(c) => ctl'[c].at = ctl[c].at
<1>1. PICK at \in {ctl[c].at, ctl[c].at - 1} :
        /\ ctl' = [ctl EXCEPT ![c] = NoPass(at)] /\ ctl[c].pc # "idle"
        /\ Decide(c) => at = ctl[c].at
  <2>1. CASE Decide(c)
    BY Zenon, <2>1 DEF Decide
  <2>2. CASE Crash(c) /\ ~Decide(c)
    BY <2>2 DEF Crash
  <2> QED
    BY <2>1, <2>2
<1>2. ctl \in [Controllers -> CtlType] /\ ctl[c] \in CtlType /\ newest \in Blocks
  BY DEF IInv, World, TypeOK, CtlType
<1>3. ctl[c].at \in Blocks
  BY Zenon, <1>2 DEF CtlType
<1>4. at \in Blocks
  <2>1. ctl[c].at \in 1..newest
    BY Zenon, <1>1, InPass
  <2> QED
    BY <1>1, <1>2, <1>3, <2>1, LifecycleAssumption DEF Blocks
<1>5. NoPass(at) \in CtlType /\ NoPass(at).pc = "idle" /\ NoPass(at).at = at
  BY Zenon, <1>4, NoPassType
<1> QED
  BY Zenon, <1>1, <1>2, <1>5 DEF Only

(* A controller step is of one controller; it takes in a block, or goes on *)
(* with the same block, or ends the pass.                                  *)
LEMMA ControllerMoves ==
  ASSUME IInv, Progress, NEW c \in Controllers,
         ControllerStep(c) \/ CallFails(c) \/ Crash(c)
  PROVE  /\ Only(c)
         /\ \/ TakeBlock(c)
            \/ /\ ctl[c].pc # "idle" /\ ctl'[c].pc # "idle"
               /\ ctl'[c].at = ctl[c].at
            \/ /\ ctl[c].pc # "idle" /\ ctl'[c].pc = "idle"
               /\ ctl'[c].at \in {ctl[c].at, ctl[c].at - 1}
<1>1. TypeOK /\ row' \in [Workflows -> Rows]
  BY DEF IInv, World, Progress
<1>2. ASSUME NEW loop \in {"bind", "restart", "sweep"}, NEW w, NEW X, Left(c, loop, w, X)
      PROVE  Only(c) /\ ctl'[c].pc # "idle" /\ ctl'[c].at = ctl[c].at
  BY <1>2 DEF Left
<1>3. ASSUME NEW next \in {"fraud", "benchmark", "proof", "verified", "active", "expire"},
             NEW w, NEW state, NEW revision, Kept(c, next, w, state, revision)
      PROVE  Only(c) /\ ctl'[c].pc # "idle" /\ ctl'[c].at = ctl[c].at
  BY <1>3 DEF Kept
<1>4. ASSUME NEW shown, NEW from, NEW transition,
             NEW next \in {"benchmark", "proof", "verified", "active"},
             Offer(c, shown, from, transition, next)
      PROVE  Only(c) /\ ctl'[c].pc # "idle" /\ ctl'[c].at = ctl[c].at
  <2>1. next \in PassSteps
    BY DEF PassSteps
  <2> QED
    BY Zenon, <1>1, <1>2, <1>3, <1>4, <2>1, OfferDoes
<1>5. CASE OfferFraud(c)
  <2>1. ctl[c].pc # "idle"
    BY <1>5 DEF OfferFraud
  <2> QED
    BY Zenon, <1>4, <1>5, <2>1 DEF OfferFraud
<1>6. CASE OfferBenchmark(c)
  <2>1. ctl[c].pc # "idle"
    BY Zenon, <1>6 DEF OfferBenchmark
  <2> QED
    BY Zenon, <1>4, <1>6, <2>1 DEF OfferBenchmark
<1>7. CASE OfferProof(c)
  <2>1. ctl[c].pc # "idle"
    BY <1>7 DEF OfferProof
  <2> QED
    BY Zenon, <1>4, <1>7, <2>1 DEF OfferProof
<1>8. CASE OfferVerified(c)
  <2>1. ctl[c].pc # "idle"
    BY <1>8 DEF OfferVerified
  <2> QED
    BY <1>4, <1>8, <2>1 DEF OfferVerified
<1>9. CASE \E w \in Workflows : BindOne(c, w)
  BY Zenon, <1>1, <1>2, <1>9, BindOneDoes
<1>10. CASE \E w \in Workflows : AdvanceOne(c, w)
  <2>1. PICK w \in Workflows : AdvanceOne(c, w)
    BY <1>10
  <2> QED
    BY Zenon, <1>1, <1>2, <1>3, <2>1, AdvanceOneDoes
<1>11. CASE \E w \in Workflows : JudgeOne(c, w)
  BY Zenon, <1>1, <1>2, <1>3, <1>11, JudgeOneDoes
<1>12. CASE CheckActive(c)
  BY <1>1, <1>2, <1>12, CheckActiveDoes
<1>13. CASE ExpireOne(c)
  BY Zenon, <1>1, <1>2, <1>13, ExpireOneDoes
<1>14. CASE StartRestart(c)
  <2>1. ctl[c].pc = "bind" /\ Enter(c, "restart", Nonterminal)
    BY <1>14 DEF StartRestart
  <2>2. "restart" \in PassSteps /\ Nonterminal \in SUBSET Workflows
    BY DEF PassSteps, Nonterminal, InStates
  <2> QED
    BY <1>1, <2>1, <2>2, EnterDoes DEF Entered
<1>15. CASE StartSweep(c)
  <2>1. ctl[c].pc = "restart" /\ Enter(c, "sweep", UnfinishedRows \ Unresolved(c))
    BY <1>15 DEF StartSweep
  <2>2. "sweep" \in PassSteps /\ (UnfinishedRows \ Unresolved(c)) \in SUBSET Workflows
    BY DEF PassSteps, UnfinishedRows
  <2> QED
    BY Zenon, <1>1, <2>1, <2>2, EnterDoes DEF Entered
<1>16. CASE CallFails(c)
  BY Zenon, <1>1, <1>2, <1>16, CallFailsDoes DEF Advancing
<1>17. CASE Decide(c) \/ Crash(c)
  BY <1>17, PassEnds
<1>18. CASE TakeBlock(c)
  BY <1>1, <1>18, TakeBlockDoes
<1> QED
  BY Zenon, <1>5, <1>6, <1>7, <1>8, <1>9, <1>10, <1>11, <1>12, <1>13, <1>14,
     <1>15, <1>16, <1>17, <1>18 DEF ControllerStep

(***************************************************************************)
(* Deadlines: for every configuration that loads, any start and any block, *)
(* no clamp, saturation or end of u32 gives the wrong standing.            *)
(***************************************************************************)

(* from_config_json: the ages of a configuration that loads are in order.  *)
LEMMA LoadedIsOrdered ==
  ASSUME NEW g \in Guardrails, Loads(g)
  PROVE  /\ g.max_assignment_age \in Nat /\ g.package_due_age \in Nat
         /\ g.workflow_expiry_age \in Nat /\ g.proof_reserve \in Nat
         /\ 0 < g.max_assignment_age /\ g.max_assignment_age < g.package_due_age
         /\ g.package_due_age + g.proof_reserve = g.workflow_expiry_age
         /\ 0 < g.proof_reserve /\ g.workflow_expiry_age <= U32Max
<1>1. /\ g.max_assignment_age \in U32 /\ g.package_due_age \in U32
      /\ g.workflow_expiry_age \in U32 /\ g.proof_reserve \in U32
      /\ DOMAIN g = {"max_assignment_age", "package_due_age", "workflow_expiry_age",
                     "proof_reserve"}
  BY DEF Guardrails
<1>2. g.max_assignment_age > 0 /\ g.proof_reserve > 0
  BY <1>1 DEF Loads
<1> QED
  BY <1>1, <1>2, WidthAssumption DEF Loads, U32

(* age: a u32 that grows with the block and is zero up to the start.       *)
LEMMA AgeIsMonotonic ==
  ASSUME NEW started \in Int, NEW early \in Int, NEW late \in Int
  PROVE  /\ Age(started, late) \in 0..U32Max
         /\ late <= started => Age(started, late) = 0
         /\ early <= late => Age(started, early) <= Age(started, late)
BY WidthAssumption DEF Age

(* standing: the four standings are told apart by the age alone.           *)
LEMMA StandingByAge ==
  ASSUME NEW g \in Guardrails, Loads(g), NEW started \in Int, NEW current \in Int
  PROVE  LET age == Age(started, current) IN
         /\ Standing(g, started, current) = "Expired" <=> age >= g.workflow_expiry_age
         /\ MayAssign(g, started, current) <=> age < g.max_assignment_age
<1>1. Age(started, current) \in Nat
  BY AgeIsMonotonic
<1>2. /\ Ladder[1] = "Assignable" /\ Ladder[2] = "RunningOut"
      /\ Ladder[3] = "InProofReserve" /\ Ladder[4] = "Expired"
  BY DEF Ladder
<1>3. /\ Rung(g, started, current) \in 1..4
      /\ Rung(g, started, current) = 4 <=> Age(started, current) >= g.workflow_expiry_age
      /\ Rung(g, started, current) = 1 <=> Age(started, current) < g.max_assignment_age
  BY <1>1, LoadedIsOrdered DEF Rung
<1>4. /\ Standing(g, started, current) = "Expired" <=> Rung(g, started, current) = 4
      /\ Standing(g, started, current) = "Assignable" <=> Rung(g, started, current) = 1
  BY <1>2, <1>3 DEF Standing
<1> QED
  BY <1>3, <1>4 DEF MayAssign

(* At every block the runway the pool believes it has after the package is *)
(* due is the configured reserve, whole until then and never more; nothing *)
(* that may still be assigned is without it; and the runway is used up at  *)
(* exactly the blocks where the workflow is Expired (deadlines.rs: the     *)
(* checked sum at load and the saturating differences).                    *)
THEOREM ReserveIsKept ==
  ASSUME NEW g \in Guardrails, Loads(g), NEW started \in Int, NEW current \in Int
  PROVE  LET toDue == UntilPackageDue(g, started, current)
             toExpiry == UntilExpiry(g, started, current)
         IN /\ toDue > 0 => toExpiry - toDue = g.proof_reserve
            /\ toExpiry \in 0..(toDue + g.proof_reserve)
            /\ MayAssign(g, started, current) => toExpiry > g.proof_reserve
            /\ Standing(g, started, current) = "Expired" <=> toExpiry = 0
<1> DEFINE age == Age(started, current)
<1>1. age \in Nat
  BY AgeIsMonotonic
<1> HIDE DEF age
<1>2. /\ UntilPackageDue(g, started, current) =
           IF g.package_due_age > age THEN g.package_due_age - age ELSE 0
      /\ UntilExpiry(g, started, current) =
           IF g.workflow_expiry_age > age THEN g.workflow_expiry_age - age ELSE 0
  BY DEF UntilPackageDue, UntilExpiry, SaturatingSub, age
<1>3. /\ Standing(g, started, current) = "Expired" <=> age >= g.workflow_expiry_age
      /\ MayAssign(g, started, current) <=> age < g.max_assignment_age
  BY StandingByAge DEF age
<1> QED
  BY <1>1, <1>2, <1>3, LoadedIsOrdered

(* A later block never moves a workflow up the ladder, and a block read    *)
(* behind the one it started at leaves it assignable: a workflow that has  *)
(* barely begun is not expired by an old snapshot (deadlines.rs standing). *)
THEOREM AgesForward ==
  ASSUME NEW g \in Guardrails, Loads(g),
         NEW started \in Int, NEW early \in Int, NEW late \in Int
  PROVE  /\ early <= late => Rung(g, started, early) <= Rung(g, started, late)
         /\ late <= started => Rung(g, started, late) = 1
<1>1. /\ Age(started, early) \in Nat /\ Age(started, late) \in Nat
      /\ late <= started => Age(started, late) = 0
      /\ early <= late => Age(started, early) <= Age(started, late)
  BY AgeIsMonotonic
<1> QED
  BY <1>1, LoadedIsOrdered DEF Rung

(* Every step of a controller writes one row by one of its transactions,   *)
(* or none.                                                                *)
LEMMA ControllerWrites ==
  ASSUME IInv, NEW c \in Controllers, ControllerStep(c)
  PROVE  /\ UNCHANGED <<height, chain, sent>>
         /\ \/ UNCHANGED row
            \/ UNCHANGED newest /\ \E w \in Workflows : Writes(w)
<1> USE DEF chainVars
<1>1. CASE TakeBlock(c) \/ StartRestart(c) \/ CheckActive(c) \/ StartSweep(c)
  BY <1>1 DEF TakeBlock, StartRestart, CheckActive, StartSweep
<1>2. CASE \E w \in Workflows : AdvanceOne(c, w) \/ JudgeOne(c, w)
  BY Zenon, <1>2 DEF AdvanceOne, JudgeOne
<1>3. ASSUME NEW w \in Workflows, BindOne(c, w)
      PROVE  /\ UNCHANGED <<height, chain, sent, newest>>
             /\ UNCHANGED row \/ Writes(w)
  <2>1. ctl[c].at \in 1..newest
    BY Zenon, <1>3, InPass DEF BindOne
  <2>2. /\ UNCHANGED <<height, chain, sent, newest>>
        /\ \/ UNCHANGED row
           \/ /\ sent[w] # 0 /\ Shown(chain[w].precommit, ctl[c].at)
              /\ Outcome(w, ctl[c].read[w].revision, BeforePrecommit) = "ok"
              /\ ConfirmPrecommit(w, sent[w])
    BY Zenon, <1>3 DEF BindOne
  <2> QED
    BY Zenon, <2>1, <2>2, OkMeans DEF Writes
<1>4. CASE OfferFraud(c)
  <2>1. ctl[c].pc \in Advancing /\ ctl[c].pc # "idle"
    BY <1>4 DEF OfferFraud, Advancing
  <2>2. /\ UNCHANGED <<chainVars, newest>>
        /\ \/ UNCHANGED row
           \/ /\ Shown(chain[ctl[c].w].fraud, ctl[c].at)
              /\ ConfirmFraud(ctl[c].w, chain[ctl[c].w].fraud)
              /\ Outcome(ctl[c].w, ctl[c].revision, States) = "ok"
    BY <1>4, OfferWrites DEF OfferFraud
  <2> QED
    BY Zenon, <2>1, <2>2, OkMeans, InPass DEF Writes, IsTerminal
<1>5. CASE OfferBenchmark(c)
  <2>1. ctl[c].pc \in Advancing /\ ctl[c].pc # "idle"
    BY <1>5 DEF OfferBenchmark, Advancing
  <2>2. /\ UNCHANGED <<chainVars, newest>>
        /\ \/ UNCHANGED row
           \/ /\ Shown(chain[ctl[c].w].benchmark, ctl[c].at)
              /\ ConfirmBenchmark(ctl[c].w, chain[ctl[c].w].stopped, chain[ctl[c].w].benchmark)
              /\ Outcome(ctl[c].w, ctl[c].revision, BeforeBenchmark) = "ok"
    BY <1>5, OfferWrites DEF OfferBenchmark
  <2> QED
    BY Zenon, <2>1, <2>2, OkMeans, InPass DEF Writes
<1>6. CASE OfferProof(c)
  <2>1. ctl[c].pc \in Advancing /\ ctl[c].pc # "idle"
    BY <1>6 DEF OfferProof, Advancing
  <2>2. /\ UNCHANGED <<chainVars, newest>>
        /\ \/ UNCHANGED row
           \/ /\ Shown(chain[ctl[c].w].proof, ctl[c].at)
              /\ ConfirmProof(ctl[c].w)
              /\ Outcome(ctl[c].w, ctl[c].revision, BeforeProof) = "ok"
    BY <1>6, OfferWrites DEF OfferProof
  <2> QED
    BY Zenon, <2>1, <2>2, OkMeans, InPass DEF Writes
<1>7. CASE OfferVerified(c)
  <2>1. ctl[c].pc \in Advancing /\ ctl[c].pc # "idle"
    BY <1>7 DEF OfferVerified, Advancing
  <2>2. /\ UNCHANGED <<chainVars, newest>>
        /\ \/ UNCHANGED row
           \/ /\ VerifiedIn(ctl[c].w, ctl[c].at)
              /\ ConfirmVerified(ctl[c].w, ctl[c].at)
              /\ Outcome(ctl[c].w, ctl[c].revision, BeforeVerified) = "ok"
    BY <1>7, OfferWrites DEF OfferVerified
  <2> QED
    BY <2>1, <2>2, OkMeans, InPass DEF Writes, VerifiedIn
<1>8. CASE ExpireOne(c)
  <2>1. /\ UNCHANGED <<chainVars, newest>> /\ ctl[c].pc = "expire"
        /\ \/ UNCHANGED row
           \/ /\ Outcome(ctl[c].w, ctl[c].revision, States) = "ok"
              /\ Expire(ctl[c].w, ctl[c].at)
    BY <1>8 DEF ExpireOne
  <2> QED
    BY Zenon, <2>1, InPass DEF Writes
<1>9. CASE Decide(c)
  BY <1>9 DEF Decide, Writes
<1> QED
  BY Zenon, <1>1, <1>2, <1>3, <1>4, <1>5, <1>6, <1>7, <1>8, <1>9 DEF ControllerStep

(* A workflow that is due has grown old, measured from both of its starts. *)
LEMMA DueIsOld ==
  ASSUME World, NEW w \in Workflows, NEW at \in Int, Due(row[w], at)
  PROVE  /\ IsUnfinished(row[w].state)
         /\ at >= row[w].from + Guards.workflow_expiry_age
         /\ row[w].known => at >= sent[w] + Guards.workflow_expiry_age
         /\ Guards.workflow_expiry_age \in Nat
<1> DEFINE g == Guards.workflow_expiry_age
<1>1. /\ row[w] \in Rows /\ sent[w] \in Int /\ row[w].known \in BOOLEAN
      /\ row[w].started \in Int /\ row[w].from \in Int
  BY LifecycleAssumption DEF World, TypeOK, Rows, Blocks
<1>2. AgedFrom(row[w]) \in Int
  BY <1>1 DEF AgedFrom
<1>3. /\ g \in Nat /\ 0 < g /\ g <= U32Max
      /\ Age(AgedFrom(row[w]), at) >= g
  BY <1>2, GuardsAssumption, StandingByAge, LoadedIsOrdered DEF Due
<1>4. at >= AgedFrom(row[w]) + g
  BY <1>2, <1>3, WidthAssumption DEF Age
<1>5. /\ ~row[w].known => row[w].started = 0
      /\ row[w].known => row[w].started = sent[w] /\ sent[w] # 0 /\ row[w].from <= sent[w]
  BY Zenon, <1>1 DEF World, Truth, Bound, HasEvidence, Ordered
<1> QED
  BY <1>1, <1>3, <1>4, <1>5 DEF Due, AgedFrom

(* The ranks of the states, as numbers.                                    *)
LEMMA Ranks ==
  /\ Rank["NONE"] = 0 /\ Rank["DECIDED"] = 1 /\ Rank["PRECOMMIT_SUBMITTED"] = 2
  /\ Rank["PRECOMMIT_CONFIRMED"] = 3 /\ Rank["BENCHMARK_SUBMITTED"] = 4
  /\ Rank["BENCHMARK_CONFIRMED"] = 5 /\ Rank["PROOF_SUBMITTED"] = 6
  /\ Rank["PROOF_CONFIRMED"] = 7 /\ Rank["VERIFIED"] = 8
  /\ \A s \in TerminalStates : Rank[s] = 9
  /\ \A s \in States \cup {"NONE"} : Rank[s] \in 0..9
BY DEF Rank, States, TerminalStates

(* A justified move keeps the truth about the row that it writes.          *)
LEMMA MoveKeepsTruth ==
  ASSUME World, NEW w \in Workflows, NEW to, NEW close \in Int, Moves(w, to, close),
         Justified(w, to, close), UNCHANGED <<height, chain, sent, newest>>
  PROVE  Truth(w)' /\ Grew(w)
<1> USE DEF TerminalStates, IsTerminal, Closed
<1>1. TypeOK /\ Ordered(w) /\ Bound(w) /\ HasEvidence(w) /\ IntervalIsTrue(w) /\ Exists(w)
  BY DEF World, Truth, Justified, Exists, States
<1>2. /\ row[w].revision \in Nat /\ row[w].from \in Int /\ row[w].to \in Int
      /\ sent[w] \in Nat /\ chain[w].verified \in Nat
  BY Zenon, <1>1, WorkflowTypes
<1>3. Ordered(w)'
  BY Zenon, <1>1 DEF Moves, Justified, Ordered, Exists
<1>4. Bound(w)'
  BY Zenon, <1>1 DEF Moves, Justified, Bound, Early
<1>5. HasEvidence(w)'
  BY Zenon, <1>1 DEF Moves, Justified, HasEvidence, PastBenchmark
<1>6. IntervalIsTrue(w)'
  BY Zenon, <1>1, <1>2 DEF Moves, Justified, HasEvidence, IntervalIsTrue
<1>7. Grew(w)
  <2>1. /\ row'[w].state # "NONE" /\ ~IsTerminal(row[w].state)
        /\ row[w].state \in Closed => row'[w].state \in Closed
        /\ row[w].state \in Finished => row'[w].state \in Finished
        /\ row[w].state \in PastBenchmark \cup TerminalStates =>
             row'[w].state \in PastBenchmark \cup TerminalStates
    BY Zenon DEF Moves, Justified, Finished, PastBenchmark
  <2>2. row'[w].revision > row[w].revision
    BY <1>2 DEF Moves
  <2>3. Rank[row'[w].state] >= Rank[row[w].state]
    BY Zenon DEF Moves, Justified
  <2> QED
    BY Zenon, <2>1, <2>2, <2>3 DEF Moves, Grew
<1> QED
  BY Zenon, <1>3, <1>4, <1>5, <1>6, <1>7 DEF Truth

(* Each transaction keeps the truth about the row that it writes.          *)
LEMMA WriteKeepsTruth ==
  ASSUME World, NEW w \in Workflows, Writes(w), UNCHANGED <<height, chain, sent, newest>>
  PROVE  /\ row' \in [Workflows -> Rows]
         /\ \A v \in Workflows \ {w} : row'[v] = row[v]
         /\ Truth(w)' /\ Grew(w)
<1> DEFINE e == chain[w]
           s == row[w].state
           goal == /\ row' \in [Workflows -> Rows]
                   /\ \A v \in Workflows \ {w} : row'[v] = row[v]
                   /\ Truth(w)' /\ Grew(w)
<1> USE DEF States, TerminalStates, IsTerminal
<1>1. /\ TypeOK /\ row \in [Workflows -> Rows] /\ Ordered(w) /\ Bound(w)
      /\ HasEvidence(w) /\ 1 <= height /\ newest <= height
  BY Zenon DEF World, Truth, TypeOK
<1>2. /\ s \in States \cup {"NONE"} /\ row[w].revision \in Nat /\ row[w].from \in Int
      /\ e.precommit \in Nat /\ e.benchmark \in Nat /\ e.proof \in Nat
      /\ e.verified \in Nat /\ e.fraud \in Nat /\ sent[w] \in Nat /\ height \in Nat
      /\ newest \in Nat /\ sent[w] \in Int /\ newest \in Int
  BY <1>1, WorkflowTypes
<1>3. ASSUME NEW to \in States, NEW close \in Int, Move(w, to, close), Justified(w, to, close)
      PROVE  goal
  <2>1. Moves(w, to, close)
    BY Zenon, <1>1, <1>3, MoveDoes
  <2> QED
    BY Zenon, <1>3, <2>1, MoveKeepsTruth DEF Moves
<1>4. CASE Create(w, newest)
  <2>1. /\ row' \in [Workflows -> Rows]
        /\ \A v \in Workflows \ {w} : row'[v] = row[v]
        /\ s = "NONE" /\ row'[w].state = "DECIDED" /\ row'[w].revision = 1
        /\ row'[w].known = FALSE /\ row'[w].started = 0
        /\ row'[w].from = newest /\ row'[w].to = 0
    BY <1>1, <1>2, <1>4, CreateDoes, Zenon
  <2>2. sent[w] = 0 /\ ~row[w].known
    BY Zenon, <1>1, <2>1 DEF Ordered, Bound, Exists, Early
  <2>3. Ordered(w)' /\ Bound(w)' /\ HasEvidence(w)' /\ IntervalIsTrue(w)'
    BY <1>1, <1>2, <2>1, <2>2
       DEF Ordered, Bound, HasEvidence, IntervalIsTrue, Exists, Early,
          PastBenchmark, Closed
  <2>4. Grew(w)
    BY <1>1, <1>2, <2>1, <2>2, Ranks DEF Grew, Bound, Exists, Closed, Finished,
       PastBenchmark
  <2> QED
    BY Zenon, <2>1, <2>3, <2>4 DEF Truth
<1>5. ASSUME NEW at \in 1..newest, s \in BeforePrecommit, sent[w] # 0,
             Shown(e.precommit, at), ConfirmPrecommit(w, sent[w])
      PROVE  goal
  <2>1. /\ row' \in [Workflows -> Rows]
        /\ \A v \in Workflows \ {w} : row'[v] = row[v]
        /\ row'[w].state = "PRECOMMIT_CONFIRMED"
        /\ row'[w].revision = row[w].revision + 1
        /\ row'[w].known = TRUE /\ row'[w].started = sent[w]
        /\ row'[w].from = row[w].from /\ row'[w].to = row[w].to
    BY Zenon, <1>1, <1>2, <1>5, ConfirmPrecommitDoes
  <2>2. s \in {"DECIDED", "PRECOMMIT_SUBMITTED"} /\ e.precommit # 0
    BY <1>5 DEF BeforePrecommit, Shown
  <2>3. ~row[w].known /\ IntervalIsTrue(w)
    BY <1>1, <2>2 DEF Bound, Early, World, Truth
  <2>4. Ordered(w)' /\ Bound(w)'
    BY Zenon, <1>1, <1>2, <2>1, <2>2 DEF Ordered, Bound, Exists, Early
  <2>5. HasEvidence(w)' /\ IntervalIsTrue(w)'
    BY Zenon, <2>1, <2>2, <2>3 DEF HasEvidence, IntervalIsTrue, Exists, Closed,
       PastBenchmark
  <2>6. Grew(w)
    BY <1>2, <2>1, <2>2, <2>3, Ranks DEF Grew, Exists, Closed, Finished,
       PastBenchmark
  <2> QED
    BY Zenon, <2>1, <2>4, <2>5, <2>6 DEF Truth
<1>6. ASSUME NEW at \in 1..newest, s \in States \ TerminalStates, Shown(e.fraud, at),
             ConfirmFraud(w, e.fraud)
      PROVE  goal
  <2>1. Justified(w, "FRAUDULENT", e.fraud)
    BY <1>1, <1>2, <1>6, Ranks DEF Justified, Closed, PastBenchmark, Finished,
       Shown, Ordered
  <2> QED
    BY <1>2, <1>3, <1>6, <2>1 DEF ConfirmFraud
<1>7. ASSUME NEW at \in 1..newest, s \in BeforeBenchmark, row[w].known,
             Shown(e.benchmark, at), ConfirmBenchmark(w, e.stopped, e.benchmark)
      PROVE  goal
  <2>1. CASE e.stopped
    <3>1. Justified(w, "STOPPED", e.benchmark)
      BY <1>1, <1>2, <1>7, <2>1, Ranks DEF Justified, Closed, PastBenchmark,
         Finished, BeforeBenchmark, Shown, Ordered
    <3> QED
      BY <1>2, <1>3, <1>7, <2>1, <3>1 DEF ConfirmBenchmark
  <2>2. CASE ~e.stopped
    <3>1. Justified(w, "BENCHMARK_CONFIRMED", 0)
      BY <1>7, <2>2, Ranks DEF Justified, Closed, PastBenchmark, Finished,
         BeforeBenchmark, Shown
    <3> QED
      BY <1>3, <1>7, <2>2, <3>1 DEF ConfirmBenchmark
  <2> QED
    BY Zenon, <2>1, <2>2
<1>8. ASSUME NEW at \in 1..newest, s \in BeforeProof, row[w].known, Shown(e.proof, at),
             ConfirmProof(w)
      PROVE  goal
  <2>1. Justified(w, "PROOF_CONFIRMED", 0)
    BY <1>1, <1>8, Ranks DEF Justified, Closed, PastBenchmark, Finished,
       BeforeProof, Shown, HasEvidence
  <2> QED
    BY <1>3, <1>8, <2>1 DEF ConfirmProof
<1>9. ASSUME NEW at \in 1..newest, s \in BeforeVerified, row[w].known, e.verified = at,
             ConfirmVerified(w, at)
      PROVE  goal
  <2>1. Justified(w, "VERIFIED", at)
    BY <1>1, <1>2, <1>9, Ranks DEF Justified, Closed, PastBenchmark, Finished,
       BeforeVerified, HasEvidence, Ordered
  <2> QED
    BY <1>2, <1>3, <1>9, <2>1 DEF ConfirmVerified
<1>10. ASSUME NEW at \in 1..newest, Due(row[w], at), Expire(w, at)
       PROVE  goal
  <2>1. /\ Guards.workflow_expiry_age \in Nat
        /\ at >= row[w].from + Guards.workflow_expiry_age
        /\ row[w].known => at >= sent[w] + Guards.workflow_expiry_age
        /\ s \in States \ (TerminalStates \cup {"PROOF_CONFIRMED", "VERIFIED"})
    BY <1>1, <1>10, DueIsOld DEF IsUnfinished
  <2>2. Justified(w, "EXPIRED", at)
    BY <1>2, <1>10, <2>1, Ranks DEF Justified, Closed, PastBenchmark, Finished
  <2> QED
    BY <1>2, <1>3, <1>10, <2>2 DEF Expire
<1>11. CASE Fail(w, height)
  <2>1. Justified(w, "FAILED", height)
    BY <1>1, <1>2, <1>11, Ranks DEF Justified, Closed, PastBenchmark, Finished,
       Fail, Exists, Bound
  <2> QED
    BY <1>2, <1>3, <1>11, <2>1 DEF Fail
<1> QED
  BY Zenon, <1>4, <1>5, <1>6, <1>7, <1>8, <1>9, <1>10, <1>11 DEF Writes

(* What is true of a workflow stays true while the chain grows, as long as *)
(* its row, its evidence and its precommit are left alone.                 *)
LEMMA TruthStays ==
  ASSUME TypeOK, NEW v \in Workflows, Truth(v), row'[v] = row[v], chain'[v] = chain[v],
         sent'[v] = sent[v], height' \in Int, height' >= height,
         newest' \in Int, newest' >= newest
  PROVE  Truth(v)'
<1>1. Ordered(v) /\ Bound(v) /\ HasEvidence(v) /\ IntervalIsTrue(v)
  BY DEF Truth
<1>2. /\ row[v].from \in Int /\ newest \in Int /\ height \in Int /\ sent[v] \in Int
      /\ chain[v].precommit \in Int /\ chain[v].benchmark \in Int /\ chain[v].proof \in Int
      /\ chain[v].verified \in Int /\ chain[v].fraud \in Int
  BY WorkflowTypes
<1>3. Ordered(v)'
  BY <1>1, <1>2 DEF Ordered, Exists
<1>4. Bound(v)'
  BY <1>1, <1>2 DEF Bound
<1>5. HasEvidence(v)' /\ IntervalIsTrue(v)'
  BY Zenon, <1>1 DEF HasEvidence, IntervalIsTrue, Exists
<1> QED
  BY <1>3, <1>4, <1>5 DEF Truth

(* A block confirms one thing that was not confirmed, after what it rests  *)
(* on.                                                                     *)
LEMMA ConfirmationsAre ==
  ASSUME TypeOK, NEW w \in Workflows, NEW h \in Blocks, NEW x \in Confirmations(w, h)
  PROVE  /\ x \in EvidenceType
         /\ Confirms(w, h, x)
<1> DEFINE e == chain[w]
<1>1. e \in EvidenceType
  BY DEF TypeOK, EvidenceType
<1>2. \/ x = [e EXCEPT !.precommit = h] /\ sent[w] # 0 /\ e.precommit = 0
      \/ /\ e.precommit # 0 /\ e.benchmark = 0
         /\ \E s \in BOOLEAN : x = [e EXCEPT !.benchmark = h, !.stopped = s]
      \/ x = [e EXCEPT !.proof = h] /\ e.benchmark # 0 /\ e.proof = 0
      \/ x = [e EXCEPT !.verified = h] /\ e.proof # 0 /\ e.verified = 0
      \/ x = [e EXCEPT !.fraud = h] /\ e.benchmark # 0 /\ e.fraud = 0
  BY Zenon DEF Confirmations
<1> HIDE DEF e
<1>3. ASSUME NEW s \in BOOLEAN, x = [e EXCEPT !.benchmark = h, !.stopped = s]
      PROVE  /\ x \in EvidenceType
             /\ x.precommit = e.precommit /\ x.benchmark = h
             /\ x.proof = e.proof /\ x.verified = e.verified /\ x.fraud = e.fraud
  <2>1. x \in EvidenceType
    BY <1>1, <1>3, Zenon DEF EvidenceType
  <2> QED
    BY <1>1, <1>3, <2>1 DEF EvidenceType
<1>4. CASE x = [e EXCEPT !.precommit = h] /\ sent[w] # 0 /\ e.precommit = 0
  BY <1>1, <1>4 DEF EvidenceType, Confirms, e
<1>5. CASE x = [e EXCEPT !.proof = h] /\ e.benchmark # 0 /\ e.proof = 0
  BY <1>1, <1>5 DEF EvidenceType, Confirms, e
<1>6. CASE x = [e EXCEPT !.verified = h] /\ e.proof # 0 /\ e.verified = 0
  BY <1>1, <1>6 DEF EvidenceType, Confirms, e
<1>7. CASE x = [e EXCEPT !.fraud = h] /\ e.benchmark # 0 /\ e.fraud = 0
  BY <1>1, <1>7 DEF EvidenceType, Confirms, e
<1> QED
  BY Zenon, <1>2, <1>3, <1>4, <1>5, <1>6, <1>7 DEF e, Confirms

(* A block leaves what is true of the workflows true.                      *)
LEMMA NewBlockDoes ==
  ASSUME World, NewBlock
  PROVE  /\ height' \in Blocks /\ height' = height + 1
         /\ chain' \in [Workflows -> EvidenceType]
         /\ \A w \in Workflows : Extended(w) /\ Truth(w)'
<1>1. /\ TypeOK /\ chain \in [Workflows -> EvidenceType] /\ height \in Blocks
      /\ \A w \in Workflows : Truth(w)
  BY DEF World, TypeOK, EvidenceType
<1>2. /\ height' = height + 1 /\ height + 1 \in Blocks
      /\ UNCHANGED <<row, sent, newest>>
  BY <1>1, LifecycleAssumption DEF NewBlock, Blocks
<1>3. ASSUME NEW v \in Workflows, chain'[v] = chain[v]
      PROVE  Extended(v) /\ Truth(v)'
  <2>1. Truth(v)
    BY <1>1
  <2>2. Extended(v)
    BY <1>3 DEF Extended
  <2>3. height' \in Int /\ height' >= height /\ newest' \in Int /\ newest' >= newest
    BY <1>1, <1>2, WorkflowTypes
  <2> QED
    BY Zenon, <1>1, <1>2, <1>3, <2>1, <2>2, <2>3, TruthStays
<1>4. CASE UNCHANGED chain
  BY <1>1, <1>2, <1>3, <1>4
<1>5. ASSUME NEW w \in Workflows, NEW x \in Confirmations(w, height + 1),
             chain' = [chain EXCEPT ![w] = x]
      PROVE  /\ chain' \in [Workflows -> EvidenceType]
             /\ \A v \in Workflows : Extended(v) /\ Truth(v)'
  <2> DEFINE e == chain[w]
             h == height + 1
  <2>1. /\ x \in EvidenceType
        /\ Confirms(w, h, x)
    BY <1>1, <1>2, <1>5, ConfirmationsAre
  <2>2. /\ chain' \in [Workflows -> EvidenceType] /\ chain'[w] = x
        /\ \A v \in Workflows \ {w} : chain'[v] = chain[v]
    BY <1>1, <1>5, <2>1
  <2>3. Ordered(w) /\ Bound(w) /\ HasEvidence(w) /\ IntervalIsTrue(w)
    BY <1>1 DEF Truth
  <2>4. /\ e.precommit \in Nat /\ e.benchmark \in Nat /\ e.proof \in Nat
        /\ e.verified \in Nat /\ e.fraud \in Nat /\ height \in Nat
        /\ sent[w] \in Nat /\ row[w].from \in Int /\ row[w].to \in Int
        /\ row[w].state \in States \cup {"NONE"}
    BY Zenon, <1>1, WorkflowTypes
  <2> HIDE DEF e, h
  <2>5. Extended(w)
    BY Zenon, <2>1, <2>2 DEF Confirms, Extended, Kinds, e, h
  <2>6. Ordered(w)'
    <3>1. /\ chain'[w] = x /\ sent'[w] = sent[w] /\ row'[w] = row[w]
          /\ height' = h /\ height < h /\ h \in Nat
      BY <1>2, <2>2, <2>4 DEF h
    <3> QED
      BY <2>1, <2>3, <2>4, <3>1, SMTT(20) DEF Confirms, Ordered, Exists, e
  <2>7. Bound(w)'
    BY Zenon, <1>2, <2>3 DEF Bound
  <2>8. HasEvidence(w)'
    BY Zenon, <1>2, <2>1, <2>2, <2>3, <2>4
    DEF Confirms, HasEvidence, Ordered, e, h, PastBenchmark
  <2>9. IntervalIsTrue(w)'
    BY Zenon, <1>2, <2>1, <2>2, <2>3, <2>4
    DEF Confirms, IntervalIsTrue, HasEvidence, Exists, e, h, Closed, TerminalStates,
        PastBenchmark, Ordered
  <2> QED
    BY <1>3, <2>2, <2>5, <2>6, <2>7, <2>8, <2>9 DEF Truth
<1> QED
  BY <1>2, <1>4, <1>5 DEF NewBlock

(* A precommit that TIG takes in is of an admitted workflow.               *)
LEMMA SendDoes ==
  ASSUME World, NEW w \in Workflows, SendPrecommit(w)
  PROVE  /\ sent' \in [Workflows -> Blocks] /\ inFlight' \subseteq Workflows
         /\ \A v \in Workflows : Truth(v)'
<1>1. /\ TypeOK /\ height \in Blocks /\ 1 <= height /\ newest <= height
      /\ sent \in [Workflows -> Blocks] /\ \A v \in Workflows : Truth(v)
  BY DEF World, TypeOK
<1>2. /\ row[w].state = "DECIDED" /\ sent[w] = 0
      /\ sent' = [sent EXCEPT ![w] = height] /\ inFlight' = inFlight \cup {w}
      /\ UNCHANGED <<row, height, chain, newest>>
  BY DEF SendPrecommit
<1>3. Ordered(w) /\ Bound(w) /\ HasEvidence(w) /\ IntervalIsTrue(w)
  BY <1>1 DEF Truth
<1>4. Ordered(w)' /\ Bound(w)'
  <2>1. /\ row[w].from \in Int /\ newest \in Int /\ height \in Int
        /\ chain[w].precommit \in Int /\ sent'[w] = height
    BY <1>1, <1>2, WorkflowTypes
  <2>2. Ordered(w)'
    BY <1>1, <1>2, <1>3, <2>1 DEF Ordered, Bound, Exists
  <2> QED
    BY Zenon, <1>2, <1>3, <2>2 DEF Bound
<1>5. HasEvidence(w)' /\ IntervalIsTrue(w)'
  <2>1. ~row[w].known
    BY Zenon, <1>2, <1>3 DEF Bound, Early
  <2> QED
    BY Zenon, <1>2, <1>3, <2>1 DEF HasEvidence, IntervalIsTrue, Exists,
       PastBenchmark
<1>6. ASSUME NEW v \in Workflows \ {w} PROVE Truth(v)'
  <2>1. Truth(v) /\ sent'[v] = sent[v]
    BY <1>1, <1>2
  <2>2. height' \in Int /\ height' >= height /\ newest' \in Int /\ newest' >= newest
    BY <1>1, <1>2, WorkflowTypes
  <2> QED
    BY Zenon, <1>1, <1>2, <2>1, <2>2, TruthStays
<1> QED
  BY <1>1, <1>2, <1>4, <1>5, <1>6 DEF Truth, TypeOK

(***************************************************************************)
(* What every step does to the world                                       *)
(***************************************************************************)

(* A step writes one row, or takes in a block, or a precommit, or leaves   *)
(* rows and chain alone.                                                   *)
LEMMA StepKinds ==
  ASSUME IInv, Next
  PROVE  \/ UNCHANGED <<height, chain, sent, row>> /\ newest' \in {newest, height}
         \/ /\ UNCHANGED <<height, chain, sent, newest>>
            /\ \E w \in Workflows : Writes(w)
         \/ NewBlock
         \/ \E w \in Workflows : SendPrecommit(w)
<1>1. ASSUME NEW c \in Controllers, ControllerStep(c)
      PROVE  newest' \in {newest, height}
  <2>1. ASSUME NEW w \in Workflows, BindOne(c, w) \/ AdvanceOne(c, w) \/ JudgeOne(c, w)
        PROVE  newest' = newest
    BY Zenon, <2>1 DEF BindOne, AdvanceOne, JudgeOne
  <2>2. OfferFraud(c) \/ OfferBenchmark(c) \/ OfferProof(c) \/ OfferVerified(c)
          => newest' = newest
    BY Zenon DEF OfferFraud, OfferBenchmark, OfferProof, OfferVerified, Offer
  <2> QED
    BY Zenon, <1>1, <2>1, <2>2
    DEF ControllerStep, TakeBlock, StartRestart, CheckActive, StartSweep,
       ExpireOne, Decide
<1>2. CASE \E c \in Controllers : ControllerStep(c)
  BY <1>1, <1>2, ControllerWrites
<1>3. CASE \E c \in Controllers : CallFails(c) \/ Crash(c)
  BY Zenon, <1>3 DEF CallFails, Crash, chainVars
<1>4. CASE \E w \in Workflows : BeginWrite(w) \/ SettleWrite(w) \/ OperatorFails(w)
  BY Zenon, <1>4 DEF BeginWrite, SettleWrite, OperatorFails, chainVars, Writes
<1> QED
  BY Zenon, <1>2, <1>3, <1>4 DEF Next

(* Every step of the system is one of these: the chain grows, evidence is  *)
(* only added, rows only move on, and what is true of a workflow stays true. *)
LEMMA ProgressStep ==
  ASSUME IInv, [Next]_vars
  PROVE  Progress
<1>1. /\ World /\ TypeOK /\ height \in Int /\ newest \in Int
      /\ newest <= height /\ \A w \in Workflows : Truth(w)
      /\ row \in [Workflows -> Rows] /\ chain \in [Workflows -> EvidenceType]
      /\ sent \in [Workflows -> Blocks] /\ height \in Blocks /\ newest \in Blocks
  BY LifecycleAssumption DEF IInv, World, TypeOK, Blocks, EvidenceType
<1>2. ASSUME UNCHANGED chain, NEW w \in Workflows PROVE Extended(w)
  BY <1>2 DEF Extended
<1>3. CASE UNCHANGED <<height, chain, sent, row>> /\ newest' \in {newest, height}
  <2>1. ASSUME NEW w \in Workflows PROVE Truth(w)'
    <3>1. /\ Truth(w) /\ height' \in Int /\ height' >= height
          /\ newest' \in Int /\ newest' >= newest
      BY <1>1, <1>3
    <3> QED
      BY Zenon, <1>1, <1>3, <3>1, TruthStays
  <2> QED
    BY <1>1, <1>2, <1>3, <2>1 DEF Progress
<1>4. ASSUME NEW w \in Workflows, Writes(w), UNCHANGED <<height, chain, sent, newest>>
      PROVE  Progress
  <2>1. /\ row' \in [Workflows -> Rows]
        /\ \A v \in Workflows \ {w} : row'[v] = row[v]
        /\ Truth(w)' /\ Grew(w)
    BY Zenon, <1>1, <1>4, WriteKeepsTruth
  <2>2. ASSUME NEW v \in Workflows \ {w} PROVE Truth(v)'
    <3>1. Truth(v) /\ row'[v] = row[v]
      BY <1>1, <2>1
    <3>2. height' \in Int /\ height' >= height /\ newest' \in Int /\ newest' >= newest
      BY <1>1, <1>4
    <3> QED
      BY Zenon, <1>1, <1>4, <3>1, <3>2, TruthStays
  <2> QED
    BY <1>1, <1>2, <1>4, <2>1, <2>2 DEF Progress
<1>5. CASE NewBlock
  <2>1. /\ height' \in Blocks /\ height' = height + 1
        /\ chain' \in [Workflows -> EvidenceType]
        /\ \A w \in Workflows : Extended(w) /\ Truth(w)'
    BY <1>1, <1>5, NewBlockDoes
  <2>2. UNCHANGED <<row, sent, newest>>
    BY <1>5 DEF NewBlock
  <2> QED
    BY <1>1, <2>1, <2>2 DEF Progress
<1>6. ASSUME NEW w \in Workflows, SendPrecommit(w) PROVE Progress
  <2>1. sent' \in [Workflows -> Blocks] /\ \A v \in Workflows : Truth(v)'
    BY <1>1, <1>6, SendDoes
  <2>2. UNCHANGED <<row, height, chain, newest>>
    BY <1>6 DEF SendPrecommit
  <2> QED
    BY <1>1, <1>2, <2>1, <2>2 DEF Progress
<1>7. CASE UNCHANGED vars
  BY <1>3, <1>7 DEF vars, chainVars
<1> QED
  BY <1>3, <1>4, <1>5, <1>6, <1>7, StepKinds

=============================================================================
