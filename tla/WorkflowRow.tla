---------------------------- MODULE WorkflowRow ----------------------------
(***************************************************************************)
(* pool.workflow and the transitions of workflow.rs, each of them one      *)
(* transaction that locks the row, compares the revision the caller read,  *)
(* lets the transition decide from the locked row, and writes.             *)
(*                                                                         *)
(* A workflow causes at most one benchmark (module WritePath), so the      *)
(* benchmark of workflow w is named by w, and benchmark_id is known or     *)
(* not.  Heights are positive; 0 stands for NULL.                          *)
(***************************************************************************)
EXTENDS Deadlines, FiniteSets

CONSTANTS
  Workflows,
  UnverifiedLimit,   \* internal_pool_unverified_limit
  Guards             \* the loaded guardrails

ASSUME LimitAssumption == UnverifiedLimit \in Nat \ {0}
ASSUME GuardsAssumption == Guards \in Guardrails /\ Loads(Guards)

TerminalStates == {"STOPPED", "FRAUDULENT", "EXPIRED", "FAILED"}

States ==
  {"DECIDED", "PRECOMMIT_SUBMITTED", "PRECOMMIT_CONFIRMED",
   "BENCHMARK_SUBMITTED", "BENCHMARK_CONFIRMED", "PROOF_SUBMITTED",
   "PROOF_CONFIRMED", "VERIFIED"} \cup TerminalStates

IsTerminal(s) == s \in TerminalStates

(* is_unfinished_local_work: past the confirmed proof the next event is    *)
(* TIG's.                                                                  *)
IsUnfinished(s) ==
  s \in States /\ ~IsTerminal(s) /\ s \notin {"PROOF_CONFIRMED", "VERIFIED"}

VARIABLE row     \* row[w]: the workflow's row, NoRow before its admission

(* known: benchmark_id is set.  from, to: the unverified interval.         *)
(* The interval opens at the anchor of the precommit decision: the         *)
(* controller decides one generation for a workflow.                       *)
Rows ==
  [state : States \cup {"NONE"}, revision : Nat, known : BOOLEAN,
   started : Int, from : Int, to : Int]

NoRow == [state |-> "NONE", revision |-> 0, known |-> FALSE,
          started |-> 0, from |-> 0, to |-> 0]

RowInit == row = [w \in Workflows |-> NoRow]

Exists(w) == row[w].state # "NONE"

(* in_states, and nonterminal of restart.rs                                *)
InStates(S) == {w \in Workflows : row[w].state \in S}
Nonterminal == InStates(States \ TerminalStates)
UnfinishedRows == {w \in Workflows : IsUnfinished(row[w].state)}

(***************************************************************************)
(* Admission.  count_unverified counts the open intervals, in the          *)
(* transaction that admits.                                                *)
(***************************************************************************)

OpenIntervals == {w \in Workflows : Exists(w) /\ row[w].to = 0}

\* Mutant: capacity is counted from the states instead of the intervals.
MayAdmitByState == Cardinality(UnfinishedRows) < UnverifiedLimit

MayAdmit == Cardinality(OpenIntervals) < UnverifiedLimit

(* create, called by admit_precommit: the interval opens at the anchor.    *)
Create(w, anchor) ==
  /\ ~Exists(w)
  /\ MayAdmit
  /\ row' = [row EXCEPT ![w] = [NoRow EXCEPT !.state = "DECIDED", !.revision = 1,
                                             !.from = anchor]]

(***************************************************************************)
(* transition_guarded                                                      *)
(***************************************************************************)

\* Mutant: the compare-and-set is dropped.
OutcomeAtAnyRevision(w, revision, from) ==
  IF IsTerminal(row[w].state) THEN "contradicted"
  ELSE IF row[w].state \notin from THEN "not_allowed"
  ELSE "ok"

(* What a transition that is allowed from the given states answers a       *)
(* caller that read the given revision.                                    *)
Outcome(w, revision, from) ==
  IF row[w].revision # revision THEN "stale"
  ELSE IF IsTerminal(row[w].state) THEN "contradicted"
  ELSE IF row[w].state \notin from THEN "not_allowed"
  ELSE "ok"

(* COALESCE(unverified_to_block, new): the first close stays.              *)
Close(old, new) == IF old = 0 THEN new ELSE old

(* The row after a transition to "to" that closes the interval at "close"  *)
(* (0: leaves it open).                                                    *)
Moved(w, to, close) ==
  [row[w] EXCEPT !.state = to, !.revision = @ + 1, !.to = Close(@, close)]

Move(w, to, close) == row' = [row EXCEPT ![w] = Moved(w, to, close)]

(* The states each transition is allowed from.                             *)
BeforePrecommit == {"DECIDED", "PRECOMMIT_SUBMITTED"}
BeforeBenchmark == {"PRECOMMIT_CONFIRMED", "BENCHMARK_SUBMITTED"}
BeforeProof == {"BENCHMARK_CONFIRMED", "PROOF_SUBMITTED"}
BeforeVerified == {"PROOF_CONFIRMED"}

(* confirm_precommit: the benchmark is learned, and the block it started   *)
(* at is what the guardrails measure from now on.                          *)
ConfirmPrecommit(w, started) ==
  row' = [row EXCEPT ![w] = [Moved(w, "PRECOMMIT_CONFIRMED", 0) EXCEPT
                               !.known = TRUE, !.started = started]]

\* Mutant: a stopped benchmark leaves its interval open.
ConfirmBenchmarkOpen(w, stopped, confirmed) ==
  Move(w, IF stopped THEN "STOPPED" ELSE "BENCHMARK_CONFIRMED", 0)

\* Mutant: a benchmark that TIG stopped goes on like any other.
ConfirmBenchmarkStopped(w, stopped, confirmed) == Move(w, "BENCHMARK_CONFIRMED", 0)

ConfirmBenchmark(w, stopped, confirmed) ==
  IF stopped THEN Move(w, "STOPPED", confirmed)
  ELSE Move(w, "BENCHMARK_CONFIRMED", 0)

ConfirmProof(w) == Move(w, "PROOF_CONFIRMED", 0)

ConfirmVerified(w, atBlock) == Move(w, "VERIFIED", atBlock)

ConfirmFraud(w, confirmed) == Move(w, "FRAUDULENT", confirmed)

(* fail: an operator's; any nonterminal state.                             *)
Fail(w, atBlock) ==
  /\ Exists(w) /\ ~IsTerminal(row[w].state)
  /\ Move(w, "FAILED", atBlock)

Expire(w, atBlock) == Move(w, "EXPIRED", atBlock)

(* expire_if_due measures from TIG's block_started, and before that from   *)
(* the anchor of the decision.                                             *)
AgedFrom(r) == IF r.started # 0 THEN r.started ELSE r.from

\* Mutant: only a workflow with a benchmark grows old.
DueOnceStarted(r, atBlock) ==
  /\ IsUnfinished(r.state) /\ r.started # 0
  /\ Standing(Guards, AgedFrom(r), atBlock) = "Expired"

Due(r, atBlock) ==
  /\ IsUnfinished(r.state)
  /\ Standing(Guards, AgedFrom(r), atBlock) = "Expired"

=============================================================================
