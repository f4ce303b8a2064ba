------------------------- MODULE LifecycleInvariant -------------------------
(***************************************************************************)
(* The invariant from which the properties of Lifecycle follow, and what a *)
(* step does in its terms.  It has three parts:                            *)
(*   - World: what the rows say is true of TIG (Truth, for one workflow);  *)
(*   - Limit: the limit on unverified workflows, with the finiteness of what *)
(*     it counts;                                                          *)
(*   - Passes: what a controller in the middle of a pass may rely on, though *)
(*     other controllers, the gateway and the chain go on meanwhile.       *)
(***************************************************************************)
EXTENDS Lifecycle

(***************************************************************************)
(* The inductive invariant                                                 *)
(***************************************************************************)

(* TIG's evidence is confirmed in order, each in a block of its own, and   *)
(* only for a workflow whose precommit was sent.                           *)
Ordered(w) ==
  LET e == chain[w] IN
  /\ sent[w] # 0 => Exists(w) /\ row[w].from <= sent[w]
  /\ e.precommit # 0 => sent[w] # 0 /\ sent[w] < e.precommit
  /\ e.benchmark # 0 => e.precommit # 0 /\ e.precommit < e.benchmark
  /\ e.proof # 0 => e.benchmark # 0 /\ e.benchmark < e.proof
  /\ e.verified # 0 => e.proof # 0 /\ e.proof < e.verified
  /\ e.fraud # 0 => e.benchmark # 0 /\ e.benchmark < e.fraud
  /\ e.stopped => e.benchmark # 0
  /\ sent[w] <= height /\ e.precommit <= height /\ e.benchmark <= height
  /\ e.proof <= height /\ e.verified <= height /\ e.fraud <= height

(* A row owns a benchmark exactly from its confirmed precommit on; before  *)
(* that it is DECIDED, or was ended.                                       *)
Early == {"NONE", "DECIDED"}

Bound(w) ==
  /\ row[w].from <= newest
  /\ row[w].state = "NONE" => row[w].revision = 0 /\ row[w].to = 0
  /\ row[w].known => row[w].state \notin Early \cup {"PRECOMMIT_SUBMITTED"}
  /\ ~row[w].known => row[w].started = 0 /\ row[w].state \in Early \cup TerminalStates

(* What Evidenced says of w, with the states that no process enters.       *)
PastBenchmark == {"BENCHMARK_CONFIRMED", "PROOF_SUBMITTED", "PROOF_CONFIRMED", "VERIFIED"}

HasEvidence(w) ==
  LET e == chain[w]
      s == row[w].state
  IN
  /\ row[w].known => e.precommit # 0 /\ row[w].started = sent[w]
  /\ s \in PastBenchmark => e.benchmark # 0 /\ ~e.stopped
  /\ s \in {"PROOF_CONFIRMED", "VERIFIED"} => e.proof # 0
  /\ s = "VERIFIED" => e.verified # 0
  /\ s = "STOPPED" => e.stopped
  /\ s = "FRAUDULENT" => e.fraud # 0

(* What IntervalsAreTrue says of w.                                        *)
IntervalIsTrue(w) ==
  Exists(w) =>
    LET r == row[w] IN
    /\ r.to # 0 <=> r.state \in Closed
    /\ r.to # 0 => r.to >= r.from
    /\ r.state = "VERIFIED" => r.to = chain[w].verified
    /\ r.state = "STOPPED" => r.to = chain[w].benchmark
    /\ r.state = "FRAUDULENT" => r.to \in {chain[w].fraud, chain[w].verified}
    /\ r.state = "EXPIRED" =>
         /\ r.to >= r.from + Guards.workflow_expiry_age
         /\ r.known => r.to >= sent[w] + Guards.workflow_expiry_age

Truth(w) == Ordered(w) /\ Bound(w) /\ HasEvidence(w) /\ IntervalIsTrue(w)

World ==
  /\ TypeOK /\ 1 <= height /\ newest <= height
  /\ \A w \in Workflows : Truth(w)

Limit == IsFiniteSet(OpenIntervals) /\ WithinLimit

Advancing == {"fraud", "benchmark", "proof", "verified", "active"}

RestartSteps == {"restart"} \cup Advancing

SweepSteps == {"sweep", "expire"}

Finished == {"PROOF_CONFIRMED", "VERIFIED"} \cup TerminalStates

(* Where c is in its pass: the block is one that the database has taken    *)
(* in, and the workflow at hand is one of those still to do.               *)
Placed(c) ==
  /\ ctl[c].at <= newest
  /\ ctl[c].pc # "idle" => 1 <= ctl[c].at
  /\ ctl[c].pc \in Advancing \cup {"expire"} => ctl[c].w \in ctl[c].todo

(* What c last knew of a row still holds of it, as far as it is final.     *)
Knows(c) ==
  /\ ctl[c].pc \in RestartSteps =>
       \A w \in ctl[c].todo : /\ ctl[c].read[w].known => row[w].known
                              /\ ctl[c].read[w].state \in Closed => row[w].state \in Closed
  /\ ctl[c].pc \in Advancing =>
       LET w == ctl[c].w IN
       /\ row[w].known
       /\ ctl[c].state \in Closed => row[w].state \in Closed

(* A judgement stands while the row has not moved.                         *)
Judged(c) ==
  ctl[c].pc = "expire" =>
    LET w == ctl[c].w IN
    /\ ctl[c].revision <= row[w].revision
    /\ ctl[c].revision = row[w].revision => Due(row[w], ctl[c].at)

(* A precommit that c's block shows is bound, once c has left the loop.    *)
BindsShown(c) ==
  \A w \in Workflows :
    ctl[c].pc # "idle" /\ Shown(chain[w].precommit, ctl[c].at) =>
      \/ row[w].known \/ IsTerminal(row[w].state)
      \/ <<w, "BindFailed">> \in ctl[c].report
      \/ ctl[c].pc = "bind" /\ w \in ctl[c].todo

(* A workflow that c's block shows active is reported, or closed here, or  *)
(* still to be visited.                                                    *)
MissesNone(c) ==
  \A w \in Workflows :
    ctl[c].pc \in RestartSteps \cup SweepSteps /\ ActiveAt(w, ctl[c].at) =>
      \/ row[w].state \in Closed
      \/ \E x \in Complaints : <<w, x>> \in ctl[c].report
      \/ ctl[c].pc \in RestartSteps /\ w \in ctl[c].todo

(* The sweep visits nothing that the pass could not resolve.               *)
SweepsResolved(c) ==
  ctl[c].pc \in SweepSteps =>
    \A w \in ctl[c].todo : /\ <<w, "BindFailed">> \notin ctl[c].report
                           /\ <<w, "Failed">> \notin ctl[c].report

(* Evidence offered to the row at hand has moved it.                       *)
ShowsWork(w, at) == Shown(chain[w].benchmark, at) /\ Shown(chain[w].proof, at)

Offered(c) ==
  LET w == ctl[c].w IN
  /\ ctl[c].pc = "proof" /\ Shown(chain[w].benchmark, ctl[c].at) =>
       row[w].state \in PastBenchmark \cup TerminalStates
  /\ ctl[c].pc \in {"verified", "active"} /\ ShowsWork(w, ctl[c].at) =>
       row[w].state \in Finished

(* No other controller can have bound a workflow at the blocks c is past.  *)
Alone(c) ==
  \A d \in Controllers \ {c} : ctl[d].at = 0 \/ (ctl[d].at = 1 /\ ctl[d].pc # "idle")

(* While it is alone, c lists what is bound, and leaves no shown proof     *)
(* unfinished unless it could not resolve the row.                         *)
Thorough(c) ==
  Alone(c) /\ ctl[c].at > 1 =>
    /\ ctl[c].pc \in RestartSteps =>
         \A w \in ctl[c].todo : row[w].known => ctl[c].read[w].known
    /\ \A w \in Workflows :
         /\ ctl[c].pc \in RestartSteps \cup SweepSteps
         /\ ShowsWork(w, ctl[c].at) /\ row[w].known
         => \/ row[w].state \in Finished
            \/ <<w, "Failed">> \in ctl[c].report
            \/ ctl[c].pc \in RestartSteps /\ w \in ctl[c].todo

PassOK(c) ==
  /\ Placed(c) /\ Knows(c) /\ Judged(c) /\ BindsShown(c) /\ MissesNone(c)
  /\ SweepsResolved(c) /\ Offered(c) /\ Thorough(c)

Passes == \A c \in Controllers : PassOK(c)

IInv == World /\ Limit /\ Passes

(***************************************************************************)
(* What the steps do to a controller's pass                                *)
(***************************************************************************)
CtlType ==
  [pc : PassSteps, at : Blocks, todo : SUBSET Workflows,
   read : [Workflows -> Rows], w : Workflows, state : States \cup {"NONE"},
   revision : Nat, report : SUBSET (Workflows \X Complaints)]

(* Other controllers are left alone.                                       *)
Only(c) ==
  /\ ctl' \in [Controllers -> CtlType]
  /\ \A d \in Controllers \ {c} : ctl'[d] = ctl[d]

(* The loop goes on without w, and with complaints.                        *)
Left(c, loop, w, complaints) ==
  /\ Only(c)
  /\ ctl'[c].pc = loop /\ ctl'[c].at = ctl[c].at
  /\ ctl'[c].todo = ctl[c].todo \ {w}
  /\ \A v \in ctl'[c].todo : ctl'[c].read[v] = ctl[c].read[v]
  /\ ctl'[c].report = ctl[c].report \cup {<<w, x>> : x \in complaints}

(* A loop begins.                                                          *)
Entered(c, loop, listed) ==
  /\ Only(c)
  /\ ctl'[c].pc = loop /\ ctl'[c].at = ctl[c].at
  /\ ctl'[c].todo = listed
  /\ \A v \in listed : ctl'[c].read[v] = row[v]
  /\ ctl'[c].report = ctl[c].report

(* The pass goes on to another step of the loop.                           *)
Kept(c, pc, w, state, revision) ==
  /\ Only(c)
  /\ ctl'[c].pc = pc /\ ctl'[c].at = ctl[c].at
  /\ ctl'[c].todo = ctl[c].todo /\ ctl'[c].read = ctl[c].read
  /\ ctl'[c].report = ctl[c].report
  /\ ctl'[c].w = w /\ ctl'[c].state = state /\ ctl'[c].revision = revision

(***************************************************************************)
(* What the steps do to the rows and to the chain                          *)
(***************************************************************************)

(* The transactions that write row w, with what the caller knows.          *)
Writes(w) ==
  \/ Create(w, newest)
  \/ \E at \in 1..newest :
       \/ /\ row[w].state \in BeforePrecommit
          /\ sent[w] # 0 /\ Shown(chain[w].precommit, at)
          /\ ConfirmPrecommit(w, sent[w])
       \/ /\ row[w].state \in States \ TerminalStates
          /\ Shown(chain[w].fraud, at)
          /\ ConfirmFraud(w, chain[w].fraud)
       \/ /\ row[w].state \in BeforeBenchmark /\ row[w].known
          /\ Shown(chain[w].benchmark, at)
          /\ ConfirmBenchmark(w, chain[w].stopped, chain[w].benchmark)
       \/ /\ row[w].state \in BeforeProof /\ row[w].known
          /\ Shown(chain[w].proof, at)
          /\ ConfirmProof(w)
       \/ /\ row[w].state \in BeforeVerified /\ row[w].known
          /\ chain[w].verified = at
          /\ ConfirmVerified(w, at)
       \/ Due(row[w], at) /\ Expire(w, at)
  \/ Fail(w, height)

(* A row that a step changed was not terminal, has a newer revision, and   *)
(* keeps what is final.                                                    *)
Grew(w) ==
  /\ row'[w].revision > row[w].revision
  /\ ~IsTerminal(row[w].state) /\ row'[w].state # "NONE"
  /\ row[w].known => row'[w].known /\ row'[w].started = row[w].started
  /\ row[w].to # 0 => row'[w].to = row[w].to
  /\ Exists(w) => row'[w].from = row[w].from
  /\ \A S \in {Closed, Finished, PastBenchmark \cup TerminalStates} :
       row[w].state \in S => row'[w].state \in S
  /\ Rank[row'[w].state] >= Rank[row[w].state]

(* A transaction moves w's row to a state, and closes the interval if it   *)
(* is still open.                                                          *)
Moves(w, to, close) ==
  /\ row' \in [Workflows -> Rows]
  /\ \A v \in Workflows \ {w} : row'[v] = row[v]
  /\ row'[w].state = to /\ row'[w].revision = row[w].revision + 1
  /\ row'[w].known = row[w].known /\ row'[w].started = row[w].started
  /\ row'[w].from = row[w].from
  /\ row'[w].to = IF row[w].to = 0 THEN close ELSE row[w].to

(* What TIG's evidence and the row must be for the move to be true.        *)
Justified(w, to, close) ==
  LET e == chain[w]
      s == row[w].state
  IN
  /\ s \in States \ TerminalStates /\ Rank[s] <= Rank[to]
  /\ to \in {"BENCHMARK_CONFIRMED", "PROOF_CONFIRMED", "VERIFIED"} \cup TerminalStates
  /\ IsTerminal(to) \/ row[w].known
  /\ close # 0 <=> to \in Closed
  /\ close # 0 => close >= row[w].from
  /\ to \in PastBenchmark => e.benchmark # 0 /\ ~e.stopped
  /\ to \in {"PROOF_CONFIRMED", "VERIFIED"} => e.proof # 0
  /\ s = "VERIFIED" => to \in {"FRAUDULENT", "FAILED"}
  /\ s = "PROOF_CONFIRMED" => to \in Finished
  /\ to = "VERIFIED" => close = e.verified
  /\ to = "STOPPED" => e.stopped /\ close = e.benchmark
  /\ to = "FRAUDULENT" => e.fraud # 0 /\ close = e.fraud
  /\ to = "EXPIRED" =>
       /\ close >= row[w].from + Guards.workflow_expiry_age
       /\ row[w].known => close >= sent[w] + Guards.workflow_expiry_age

(* The kinds of evidence that are blocks.                                  *)
Kinds == {"precommit", "benchmark", "proof", "verified", "fraud"}

EvidenceType ==
  [precommit : Blocks, benchmark : Blocks, stopped : BOOLEAN, proof : Blocks,
   verified : Blocks, fraud : Blocks]

(* Evidence is never taken back, and what is new is of the new block.      *)
Extended(w) ==
  \A k \in Kinds : \/ chain'[w][k] = chain[w][k]
                   \/ chain[w][k] = 0 /\ chain'[w][k] = height + 1

(* What is known of a workflow, or shown by a block, stays so.             *)
Progress ==
  /\ row' \in [Workflows -> Rows] /\ chain' \in [Workflows -> EvidenceType]
  /\ sent' \in [Workflows -> Blocks]
  /\ height' \in Blocks /\ newest' \in Blocks
  /\ height' >= height /\ newest' >= newest /\ newest' <= height'
  /\ \A w \in Workflows : (row'[w] = row[w] \/ Grew(w)) /\ Extended(w) /\ Truth(w)'

(* Evidence x is what TIG shows of w with one more thing confirmed, in     *)
(* block h and after what it rests on.                                     *)
Confirms(w, h, x) ==
  LET e == chain[w] IN
  \/ /\ sent[w] # 0 /\ e.precommit = 0
     /\ x.precommit = h /\ x.benchmark = e.benchmark /\ x.stopped = e.stopped
     /\ x.proof = e.proof /\ x.verified = e.verified /\ x.fraud = e.fraud
  \/ /\ e.precommit # 0 /\ e.benchmark = 0
     /\ x.precommit = e.precommit /\ x.benchmark = h
     /\ x.proof = e.proof /\ x.verified = e.verified /\ x.fraud = e.fraud
  \/ /\ e.benchmark # 0 /\ e.proof = 0
     /\ x.precommit = e.precommit /\ x.benchmark = e.benchmark
     /\ x.stopped = e.stopped
     /\ x.proof = h /\ x.verified = e.verified /\ x.fraud = e.fraud
  \/ /\ e.proof # 0 /\ e.verified = 0
     /\ x.precommit = e.precommit /\ x.benchmark = e.benchmark
     /\ x.stopped = e.stopped
     /\ x.proof = e.proof /\ x.verified = h /\ x.fraud = e.fraud
  \/ /\ e.benchmark # 0 /\ e.fraud = 0
     /\ x.precommit = e.precommit /\ x.benchmark = e.benchmark
     /\ x.stopped = e.stopped
     /\ x.proof = e.proof /\ x.verified = e.verified /\ x.fraud = h

(***************************************************************************)
(* The passes                                                              *)
(***************************************************************************)

(* No row is bound in the step.                                            *)
NoneBound == \A w \in Workflows : row'[w].known => row[w].known

=============================================================================
