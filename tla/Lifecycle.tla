----------------------------- MODULE Lifecycle -----------------------------
(***************************************************************************)
(* The life of the pool's workflows between their admission and their end: *)
(* the controller's pass over a block (reconciler.rs) with its three       *)
(* loops, bind (bind.rs), the reconciliation of restart.rs and the expiry  *)
(* sweep, and then the admission of a new workflow; TIG's chain, whose     *)
(* evidence the pass reads through a window of bounded length (window.rs); *)
(* the gateway's writes, as far as expiry asks about them; and an operator.*)
(*                                                                         *)
(* A pass reads the chain at one block, but every transition it makes is a *)
(* transaction of its own, and what the loops list is read before them: an *)
(* operator, or a second controller while one replaces another, can move   *)
(* the rows in between.                                                    *)
(***************************************************************************)
EXTENDS WorkflowRow

CONSTANTS
  Controllers,       \* the controller processes
  WindowLength,      \* how many blocks get-benchmarks looks back
  MaxHeight,         \* bound on the chain's height
  MaxFaults          \* bound on crashes and failed calls

ASSUME LifecycleAssumption ==
  /\ Workflows # {}
  /\ WindowLength \in Nat \ {0} /\ MaxHeight \in Nat \ {0} /\ MaxFaults \in Nat

VARIABLES
  height,     \* TIG's latest block
  chain,      \* chain[w]: the blocks that confirmed w's evidence, 0 for none
  sent,       \* sent[w]: the block at which TIG took w's precommit in
  inFlight,   \* the workflows with an unsettled write
  newest,     \* the newest block any controller has persisted a snapshot of
  ctl,        \* ctl[c]: where controller c is in its pass
  faults

chainVars == <<height, chain, sent, inFlight>>
vars == <<row, chainVars, newest, ctl, faults>>

(***************************************************************************)
(* TIG and the gateway                                                     *)
(***************************************************************************)
NoEvidence == [precommit |-> 0, benchmark |-> 0, stopped |-> FALSE,
               proof |-> 0, verified |-> 0, fraud |-> 0]

(* What block h may confirm of a benchmark next.                           *)
Confirmations(w, h) ==
  LET e == chain[w] IN
  {x \in {[e EXCEPT !.precommit = h]} : sent[w] # 0 /\ e.precommit = 0}
  \cup {x \in {[e EXCEPT !.benchmark = h, !.stopped = s] : s \in BOOLEAN} :
          e.precommit # 0 /\ e.benchmark = 0}
  \cup {x \in {[e EXCEPT !.proof = h]} : e.benchmark # 0 /\ e.proof = 0}
  \cup {x \in {[e EXCEPT !.verified = h]} : e.proof # 0 /\ e.verified = 0}
  \cup {x \in {[e EXCEPT !.fraud = h]} : e.benchmark # 0 /\ e.fraud = 0}

(* TIG makes a block; one workflow's evidence may be confirmed in it.      *)
NewBlock ==
  /\ height < MaxHeight
  /\ height' = height + 1
  /\ \/ UNCHANGED chain
     \/ \E w \in Workflows : \E e \in Confirmations(w, height + 1) :
          chain' = [chain EXCEPT ![w] = e]
  /\ UNCHANGED <<row, sent, inFlight, newest, ctl, faults>>

(* The gateway's precommit reaches TIG, which takes it while the decision  *)
(* block is the latest or the one before.                                  *)
SendPrecommit(w) ==
  /\ row[w].state = "DECIDED" /\ sent[w] = 0 /\ height <= row[w].from + 1
  /\ sent' = [sent EXCEPT ![w] = height]
  /\ inFlight' = inFlight \cup {w}
  /\ UNCHANGED <<row, height, chain, newest, ctl, faults>>

(* A benchmark or proof write begins; any write's outcome is recorded.     *)
BeginWrite(w) ==
  /\ row[w].state \in {"PRECOMMIT_CONFIRMED", "BENCHMARK_CONFIRMED"}
  /\ w \notin inFlight
  /\ inFlight' = inFlight \cup {w}
  /\ UNCHANGED <<row, height, chain, sent, newest, ctl, faults>>

SettleWrite(w) ==
  /\ w \in inFlight
  /\ inFlight' = inFlight \ {w}
  /\ UNCHANGED <<row, height, chain, sent, newest, ctl, faults>>

(***************************************************************************)
(* confirmed_window: what the reads at block h show.                       *)
(***************************************************************************)

Shown(e, h) == e # 0 /\ e <= h /\ h - e < WindowLength

VerifiedIn(w, h) == chain[w].verified = h
ActiveAt(w, h) == chain[w].verified # 0 /\ chain[w].verified < h

KnownToTig(w, h) ==
  \/ \E k \in {"precommit", "benchmark", "proof", "fraud"} : Shown(chain[w][k], h)
  \/ VerifiedIn(w, h) \/ ActiveAt(w, h)

(***************************************************************************)
(* A controller's pass.  pc: the loop, or the step of advance_one; at: the *)
(* block; todo: what the loop has still to visit, as listed in "read"; w,  *)
(* state, revision: the workflow at hand and what the pass last knew of    *)
(* it; report: what BlockReport collects.                                  *)
(***************************************************************************)
Complaints == {"BindFailed", "Failed", "Contradicted", "PrecommitSearchOwed",
               "OutsideWindow", "VerificationMissed", "ExpiryFailed"}

AnyWorkflow == CHOOSE w \in Workflows : TRUE

NoPass(at) ==
  [pc |-> "idle", at |-> at, todo |-> {}, read |-> [w \in Workflows |-> NoRow],
   w |-> AnyWorkflow, state |-> "NONE", revision |-> 0, report |-> {}]

(* The loop goes on without the workflow at hand, with a complaint or not. *)
Leave(c, loop, w, complaints) ==
  ctl' = [ctl EXCEPT
    ![c] = [NoPass(@.at) EXCEPT
              !.pc = loop, !.todo = ctl[c].todo \ {w},
              !.read = [v \in Workflows |-> IF v \in ctl[c].todo \ {w}
                                            THEN ctl[c].read[v] ELSE NoRow],
              !.report = ctl[c].report \cup {<<w, x>> : x \in complaints}]]

(* A loop lists the rows it will visit and keeps what it read of them.     *)
Enter(c, loop, listed) ==
  ctl' = [ctl EXCEPT
    ![c] = [NoPass(@.at) EXCEPT
              !.pc = loop, !.todo = listed,
              !.read = [w \in Workflows |-> IF w \in listed THEN row[w] ELSE NoRow],
              !.report = ctl[c].report]]

Step(c, pc) == ctl' = [ctl EXCEPT ![c].pc = pc]

Reports(c, x) == {w \in Workflows : <<w, x>> \in ctl[c].report}

(* A block the controller has not passed yet is taken in.  The blocks past *)
(* the chain's bound all show what the last one shows.                     *)
TakeBlock(c) ==
  /\ ctl[c].pc = "idle"
  /\ height > ctl[c].at \/ height = MaxHeight
  /\ newest' = IF height > newest THEN height ELSE newest
  /\ ctl' = [ctl EXCEPT ![c] =
       [NoPass(height) EXCEPT
          !.pc = "bind", !.todo = InStates({"DECIDED"}),
          !.read = [w \in Workflows |-> IF w \in InStates({"DECIDED"})
                                        THEN row[w] ELSE NoRow]]]
  /\ UNCHANGED <<row, chainVars, faults>>

(* bind_one *)
BindOne(c, w) ==
  LET confirmed == sent[w] # 0 /\ Shown(chain[w].precommit, ctl[c].at)
      answer == Outcome(w, ctl[c].read[w].revision, BeforePrecommit)
  IN
  /\ ctl[c].pc = "bind" /\ w \in ctl[c].todo
  /\ IF confirmed /\ answer = "ok"
     THEN ConfirmPrecommit(w, sent[w])
     ELSE UNCHANGED row
  /\ Leave(c, "bind", w, {x \in {"BindFailed"} : confirmed /\ answer # "ok"})
  /\ UNCHANGED <<chainVars, newest, faults>>

StartRestart(c) ==
  /\ ctl[c].pc = "bind" /\ ctl[c].todo = {}
  /\ Enter(c, "restart", Nonterminal)
  /\ UNCHANGED <<row, chainVars, newest, faults>>

(***************************************************************************)
(* advance_one                                                             *)
(***************************************************************************)

(* A workflow without a benchmark has nothing to be matched on; one whose  *)
(* benchmark the window does not mention is only reported; the others are  *)
(* offered the evidence, fraud first.                                      *)
AdvanceOne(c, w) ==
  LET r == ctl[c].read[w] IN
  /\ ctl[c].pc = "restart" /\ w \in ctl[c].todo
  /\ \/ /\ ~r.known
        /\ Leave(c, "restart", w, {x \in {"PrecommitSearchOwed"} : sent[w] # 0})
     \/ /\ r.known /\ ~KnownToTig(w, ctl[c].at) /\ r.state # "VERIFIED"
        /\ Leave(c, "restart", w, {"OutsideWindow"})
     \/ /\ r.known /\ (KnownToTig(w, ctl[c].at) \/ r.state = "VERIFIED")
        /\ ctl' = [ctl EXCEPT ![c].pc = "fraud", ![c].w = w,
                              ![c].state = r.state, ![c].revision = r.revision]
  /\ UNCHANGED <<row, chainVars, newest, faults>>

(* One transition is offered its evidence.  What does not apply from here  *)
(* is no error; a terminal row contradicts it; a row that moved fails the  *)
(* workflow for this pass.                                                 *)
Offer(c, shown, from, transition, next) ==
  LET w == ctl[c].w
      answer == Outcome(w, ctl[c].revision, from)
  IN
  /\ \/ ~shown /\ Step(c, next) /\ UNCHANGED row
     \/ /\ shown /\ answer = "ok"
        /\ transition
        /\ ctl' = [ctl EXCEPT ![c].pc = next, ![c].state = row'[w].state,
                              ![c].revision = row'[w].revision]
     \/ shown /\ answer = "not_allowed" /\ Step(c, next) /\ UNCHANGED row
     \/ /\ shown /\ answer = "contradicted"
        /\ Leave(c, "restart", w, {"Contradicted"})
        /\ UNCHANGED row
     \/ /\ shown /\ answer = "stale"
        /\ Leave(c, "restart", w, {"Failed"})
        /\ UNCHANGED row
  /\ UNCHANGED <<chainVars, newest, faults>>

(* confirm_fraud; a workflow TIG has ruled on is offered nothing more.     *)
OfferFraud(c) ==
  /\ ctl[c].pc = "fraud"
  /\ LET w == ctl[c].w IN
       Offer(c, Shown(chain[w].fraud, ctl[c].at), States,
             ConfirmFraud(w, chain[w].fraud),
             IF Shown(chain[w].fraud, ctl[c].at) THEN "active" ELSE "benchmark")

OfferBenchmark(c) ==
  /\ ctl[c].pc = "benchmark"
  /\ LET w == ctl[c].w IN
       Offer(c, Shown(chain[w].benchmark, ctl[c].at), BeforeBenchmark,
             ConfirmBenchmark(w, chain[w].stopped, chain[w].benchmark), "proof")

OfferProof(c) ==
  /\ ctl[c].pc = "proof"
  /\ LET w == ctl[c].w IN
       Offer(c, Shown(chain[w].proof, ctl[c].at), BeforeProof, ConfirmProof(w),
             "verified")

OfferVerified(c) ==
  /\ ctl[c].pc = "verified"
  /\ LET w == ctl[c].w IN
       Offer(c, VerifiedIn(w, ctl[c].at), BeforeVerified,
             ConfirmVerified(w, ctl[c].at), "active")

\* Mutant: the active set is not looked at.
CheckNothing(c) ==
  /\ ctl[c].pc = "active"
  /\ Leave(c, "restart", ctl[c].w, {})
  /\ UNCHANGED <<row, chainVars, newest, faults>>

(* Active at TIG and not verified here: the block that said so was missed. *)
CheckActive(c) ==
  /\ ctl[c].pc = "active"
  /\ Leave(c, "restart", ctl[c].w,
           {x \in {"VerificationMissed"} :
              /\ ctl[c].state # "VERIFIED" /\ ~IsTerminal(ctl[c].state)
              /\ ActiveAt(ctl[c].w, ctl[c].at)})
  /\ UNCHANGED <<row, chainVars, newest, faults>>

(***************************************************************************)
(* The sweep, of the workflows whose state the pass could establish.       *)
(***************************************************************************)

\* Mutant: the sweep also judges what the pass could not resolve.
NothingUnresolved(c) == {}

Unresolved(c) == Reports(c, "BindFailed") \cup Reports(c, "Failed")

StartSweep(c) ==
  /\ ctl[c].pc = "restart" /\ ctl[c].todo = {}
  /\ Enter(c, "sweep", UnfinishedRows \ Unresolved(c))
  /\ UNCHANGED <<row, chainVars, newest, faults>>

(* expire_if_due reads the row and judges it ...                           *)
JudgeOne(c, w) ==
  /\ ctl[c].pc = "sweep" /\ w \in ctl[c].todo
  /\ \/ ~Due(row[w], ctl[c].at) /\ Leave(c, "sweep", w, {})
     \/ /\ Due(row[w], ctl[c].at)
        /\ ctl' = [ctl EXCEPT ![c].pc = "expire", ![c].w = w,
                              ![c].revision = row[w].revision]
  /\ UNCHANGED <<row, chainVars, newest, faults>>

(* ... and expires it in another transaction, unless it moved or a write   *)
(* is in flight.                                                           *)
ExpireOne(c) ==
  LET w == ctl[c].w
      answer == Outcome(w, ctl[c].revision, States)
  IN
  /\ ctl[c].pc = "expire"
  /\ \/ /\ answer = "ok" /\ w \notin inFlight
        /\ Expire(w, ctl[c].at)
        /\ Leave(c, "sweep", w, {})
     \/ /\ answer = "ok" /\ w \in inFlight
        /\ Leave(c, "sweep", w, {})
        /\ UNCHANGED row
     \/ /\ answer # "ok"
        /\ Leave(c, "sweep", w, {"ExpiryFailed"})
        /\ UNCHANGED row
  /\ UNCHANGED <<chainVars, newest, faults>>

(***************************************************************************)
(* The decision                                                            *)
(***************************************************************************)

(* BlockReport::blocks_claiming *)
BlocksClaiming(c) ==
  \E x \in {"BindFailed", "Failed", "Contradicted", "ExpiryFailed"} :
    Reports(c, x) # {}

(* A new workflow, anchored at the pass's block if that is the newest one  *)
(* persisted; or none, for any reason.                                     *)
Decide(c) ==
  /\ ctl[c].pc = "sweep" /\ ctl[c].todo = {}
  /\ ctl' = [ctl EXCEPT ![c] = NoPass(@.at)]
  /\ \/ /\ ~BlocksClaiming(c) /\ ctl[c].at = newest
        /\ \E w \in Workflows : Create(w, ctl[c].at)
     \/ UNCHANGED row
  /\ UNCHANGED <<chainVars, newest, faults>>

ControllerStep(c) ==
  \/ TakeBlock(c) \/ StartRestart(c)
  \/ \E w \in Workflows : BindOne(c, w) \/ AdvanceOne(c, w) \/ JudgeOne(c, w)
  \/ OfferFraud(c) \/ OfferBenchmark(c) \/ OfferProof(c) \/ OfferVerified(c)
  \/ CheckActive(c) \/ StartSweep(c) \/ ExpireOne(c) \/ Decide(c)

(***************************************************************************)
(* Faults and the operator                                                 *)
(***************************************************************************)

(* A database call about one workflow fails: the pass goes on without it.  *)
CallFails(c) ==
  /\ faults < MaxFaults /\ faults' = faults + 1
  /\ \/ \E w \in ctl[c].todo :
          \/ ctl[c].pc = "bind" /\ Leave(c, "bind", w, {"BindFailed"})
          \/ ctl[c].pc = "sweep" /\ Leave(c, "sweep", w, {"ExpiryFailed"})
     \/ /\ ctl[c].pc \in {"fraud", "benchmark", "proof", "verified"}
        /\ Leave(c, "restart", ctl[c].w, {"Failed"})
  /\ UNCHANGED <<row, chainVars, newest>>

(* The controller dies and is restarted; it may pass the same block again  *)
(* if the block's snapshot was not usable for a decision yet.              *)
Crash(c) ==
  /\ faults < MaxFaults /\ faults' = faults + 1
  /\ ctl[c].pc # "idle"
  /\ \E at \in {ctl[c].at, ctl[c].at - 1} : ctl' = [ctl EXCEPT ![c] = NoPass(at)]
  /\ UNCHANGED <<row, chainVars, newest>>

OperatorFails(w) ==
  /\ Fail(w, height)
  /\ UNCHANGED <<chainVars, newest, ctl, faults>>

Init ==
  /\ RowInit
  /\ height = 1
  /\ chain = [w \in Workflows |-> NoEvidence]
  /\ sent = [w \in Workflows |-> 0]
  /\ inFlight = {}
  /\ newest = 0
  /\ ctl = [c \in Controllers |-> NoPass(0)]
  /\ faults = 0

Next ==
  \/ NewBlock
  \/ \E c \in Controllers : ControllerStep(c) \/ CallFails(c) \/ Crash(c)
  \/ \E w \in Workflows :
       \/ SendPrecommit(w) \/ BeginWrite(w) \/ SettleWrite(w)
       \/ OperatorFails(w)

Spec == Init /\ [][Next]_vars

(***************************************************************************)
(* Properties                                                              *)
(***************************************************************************)
Blocks == 0..MaxHeight

PassSteps == {"idle", "bind", "restart", "fraud", "benchmark", "proof", "verified",
              "active", "sweep", "expire"}

TypeOK ==
  /\ row \in [Workflows -> Rows]
  /\ height \in Blocks /\ newest \in Blocks
  /\ chain \in [Workflows -> [precommit : Blocks, benchmark : Blocks,
                              stopped : BOOLEAN, proof : Blocks,
                              verified : Blocks, fraud : Blocks]]
  /\ sent \in [Workflows -> Blocks]
  /\ inFlight \subseteq Workflows
  /\ ctl \in [Controllers ->
       [pc : PassSteps, at : Blocks, todo : SUBSET Workflows,
        read : [Workflows -> Rows], w : Workflows, state : States \cup {"NONE"},
        revision : Nat, report : SUBSET (Workflows \X Complaints)]]
  /\ faults \in 0..MaxFaults

Closed == TerminalStates \cup {"VERIFIED"}

(* The unverified interval of a workflow is open exactly while its slot    *)
(* counts: it is closed by the transition into VERIFIED or a terminal      *)
(* state, no other, at the block that TIG's evidence names, whatever block *)
(* the controller has reached and however often it is restarted; and by    *)
(* the clock no earlier than the expiry age after TIG started the          *)
(* benchmark, and after the anchor, though the sweep's block may lie       *)
(* behind either (workflow.rs expire_if_due, decision.rs                   *)
(* count_unverified).                                                      *)
IntervalsAreTrue ==
  \A w \in Workflows : Exists(w) =>
    LET r == row[w] IN
    /\ r.to # 0 <=> r.state \in Closed
    /\ r.to # 0 => r.to >= r.from
    /\ r.state = "VERIFIED" => r.to = chain[w].verified
    /\ r.state = "STOPPED" => r.to = chain[w].benchmark
    /\ r.state = "FRAUDULENT" => r.to \in {chain[w].fraud, chain[w].verified}
    /\ r.state = "EXPIRED" =>
         /\ r.to >= r.from + Guards.workflow_expiry_age
         /\ r.known => r.to >= sent[w] + Guards.workflow_expiry_age

(* A workflow is where TIG's confirmed evidence puts it and never ahead of *)
(* it: no attempt, answer or local conclusion stands for a confirmation    *)
(* (workflow.rs, restart.rs advance_one, window.rs).                       *)
Evidenced ==
  \A w \in Workflows :
    LET e == chain[w]
        s == row[w].state
    IN
    /\ row[w].known => e.precommit # 0 /\ row[w].started = sent[w]
    /\ s \in {"BENCHMARK_CONFIRMED", "PROOF_CONFIRMED", "VERIFIED"} =>
         e.benchmark # 0 /\ ~e.stopped
    /\ s \in {"PROOF_CONFIRMED", "VERIFIED"} => e.proof # 0
    /\ s = "VERIFIED" => e.verified # 0
    /\ s = "STOPPED" => e.stopped
    /\ s = "FRAUDULENT" => e.fraud # 0

(* No pass lets the pool take on more unverified workflows than the limit, *)
(* also with two controllers deciding at once and slots held open by a     *)
(* proof TIG has yet to verify (decision.rs admit_precommit).              *)
WithinLimit == Cardinality(OpenIntervals) <= UnverifiedLimit

Rank == [s \in States \cup {"NONE"} |->
  CASE s = "NONE" -> 0 [] s = "DECIDED" -> 1 [] s = "PRECOMMIT_SUBMITTED" -> 2
    [] s = "PRECOMMIT_CONFIRMED" -> 3 [] s = "BENCHMARK_SUBMITTED" -> 4
    [] s = "BENCHMARK_CONFIRMED" -> 5 [] s = "PROOF_SUBMITTED" -> 6
    [] s = "PROOF_CONFIRMED" -> 7 [] s = "VERIFIED" -> 8 [] OTHER -> 9]

(* The clock never ends work that reached TIG: only unfinished work is     *)
(* expired, though the row may have been proved, by a second controller,   *)
(* between the sweep's judgement and its write (workflow.rs expire_if_due, *)
(* transition_guarded).                                                    *)
ProvedNeverExpires ==
  [][\A w \in Workflows :
       row'[w].state = "EXPIRED" /\ row[w].state # "EXPIRED" =>
         IsUnfinished(row[w].state)]_vars

(* History is kept: no step of any process takes a workflow back, moves it *)
(* once it is terminal, reopens or moves a closed interval, or changes     *)
(* what benchmark it owns; also where two controllers hold the same row    *)
(* (workflow.rs transition_guarded).                                       *)
HistoryIsKept ==
  [][\A w \in Workflows : row'[w] # row[w] =>
       /\ Rank[row'[w].state] >= Rank[row[w].state]
       /\ ~IsTerminal(row[w].state)
       /\ row[w].to # 0 => row'[w].to = row[w].to
       /\ row[w].known => row'[w].known /\ row'[w].started = row[w].started
       /\ Exists(w) => row'[w].from = row[w].from]_vars

(* The pool's clock never overrules what the swept block shows: a workflow *)
(* is not expired by a pass whose own block shows a confirmed precommit    *)
(* the workflow was not bound to, or the benchmark and proof of the one it *)
(* is bound to (reconciler.rs: the sweep comes last and withholds what the *)
(* pass could not resolve).  This takes one controller at a time: no other *)
(* one has made a pass.                                                    *)
ExpiryHeedsEvidence ==
  [][\A w \in Workflows, c \in Controllers :
       /\ row'[w].state = "EXPIRED" /\ row[w].state # "EXPIRED"
       /\ ctl'[c] # ctl[c] /\ (\A d \in Controllers \ {c} : ctl[d] = NoPass(0))
       => /\ Shown(chain[w].precommit, ctl[c].at) => row[w].known
          /\ ~(/\ row[w].known
               /\ Shown(chain[w].benchmark, ctl[c].at)
               /\ Shown(chain[w].proof, ctl[c].at))]_vars

(* A verification in a block the pool did not pass is not lost silently:   *)
(* once a pass has read the active set, every workflow TIG has active and  *)
(* the pool has not verified is in the report, and stays in every later    *)
(* one (restart.rs VerificationMissed).                                    *)
MissedIsReported ==
  \A c \in Controllers, w \in Workflows :
    /\ ctl[c].pc \in {"sweep", "expire"}
    /\ row[w].state = "PROOF_CONFIRMED" /\ ActiveAt(w, ctl[c].at)
    => \E x \in Complaints : <<w, x>> \in ctl[c].report

(* Unfinished work does not hold its slot for ever: a workflow whose       *)
(* guardrail runs out within the chain's bound ends, is proved, or is      *)
(* waiting for the answer to a write; a precommit that TIG refused or that *)
(* was never sent is freed by expiry alone (claim.rs decide, workflow.rs   *)
(* expire_if_due).                                                         *)
UnfinishedWorkEnds ==
  \A w \in Workflows :
    IsUnfinished(row[w].state)
      /\ AgedFrom(row[w]) + Guards.workflow_expiry_age <= MaxHeight
    ~> \/ ~IsUnfinished(row[w].state) \/ w \in inFlight
       \/ AgedFrom(row[w]) + Guards.workflow_expiry_age > MaxHeight

(* A comment on WorkflowState::Expired calls it "the one state confirmed   *)
(* evidence may still supersede".                                          *)
ExpiredIsSuperseded ==
  \A w \in Workflows :
    row[w].state = "EXPIRED" /\ chain[w].verified # 0 ~> row[w].state # "EXPIRED"

(* The header of reconciler.rs says the sweep "must see any confirmation   *)
(* that block carried before it judges the work unfinished".               *)
SweepSeesConfirmations ==
  [][\A w \in Workflows, c \in Controllers :
       row'[w].state = "EXPIRED" /\ row[w].state # "EXPIRED" /\ ctl'[c] # ctl[c] =>
         ~Shown(chain[w].proof, ctl[c].at)]_vars

=============================================================================
