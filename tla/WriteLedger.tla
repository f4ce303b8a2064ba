---------------------------- MODULE WriteLedger ----------------------------
(***************************************************************************)
(* The durable write record the controller and the gateway share: the      *)
(* precommit intents (intent.rs), the attempt ledger (attempt.rs) and as   *)
(* much of a workflow row (workflow.rs, decision.rs) as the precommit      *)
(* write path reads or moves.  Each operator that primes a variable is one *)
(* database transaction.                                                   *)
(*                                                                         *)
(* An attempt is named by its intent and a number, so the ledger is a      *)
(* function from attempt names to outcomes, "NONE" where there is no row.  *)
(* A benchmark TIG creates for a request is named by the request's         *)
(* attempt.                                                                *)
(***************************************************************************)
EXTENDS Naturals, FiniteSets, FencedLease

CONSTANTS
  MaxGeneration,     \* bound on the generations of a workflow's precommit
  MaxSends,          \* bound on the attempts of one intent
  UnverifiedLimit,   \* internal_pool_unverified_limit, 6.1's capacity gate
  Tuple              \* Tuple[i]: the player, decision block, challenge,
                     \* algorithm, compute type and track settings of intent i

Intents == Workflows \X (1..MaxGeneration)
Attempts == Workflows \X (1..MaxGeneration) \X (1..MaxSends)

WorkflowOf(a) == a[1]
IntentOf(a) == <<a[1], a[2]>>

ASSUME WorkflowsAssumption == Workflows # {}
ASSUME BoundsAssumption == /\ MaxGeneration \in Nat \ {0}
                           /\ MaxSends \in Nat \ {0}
                           /\ UnverifiedLimit \in Nat \ {0}

(* Two workflows never submit the same tuple: the decision block is part   *)
(* of it, and the controller decides at most once per block.               *)
ASSUME TupleAssumption ==
  \A i, j \in Intents : Tuple[i] = Tuple[j] => i[1] = j[1]

IntentStates == {"NONE", "PREPARED", "OUTCOME_UNKNOWN", "CONFIRMED"}
Outcomes == {"NONE", "PENDING", "ACCEPTED", "REJECTED", "AMBIGUOUS"}
WorkflowStates ==
  {"NONE", "DECIDED", "PRECOMMIT_CONFIRMED", "EXPIRED", "FAILED"}

VARIABLES
  intent,    \* intent[i]: tig_write_intent.state of i, "NONE" for no row
  outcome,   \* outcome[a]: tig_write_attempt.outcome, "PENDING" for NULL
  aged,      \* the attempts without response older than the call timeout
  state,     \* state[w]: workflow.state, "NONE" for no row
  bound      \* bound[w]: {} or {workflow.benchmark_id}

ledgerVars == <<intent, outcome, aged, state, bound>>

LedgerTypeOK ==
  /\ intent \in [Intents -> IntentStates]
  /\ outcome \in [Attempts -> Outcomes]
  /\ aged \in SUBSET Attempts
  /\ state \in [Workflows -> WorkflowStates]
  /\ bound \in [Workflows -> SUBSET Attempts]

LedgerInit ==
  /\ intent = [i \in Intents |-> "NONE"]
  /\ outcome = [a \in Attempts |-> "NONE"]
  /\ aged = {}
  /\ state = [w \in Workflows |-> "NONE"]
  /\ bound = [w \in Workflows |-> {}]

(***************************************************************************)
(* Reads                                                                   *)
(***************************************************************************)

(* is_unresolved, and the condition of both lane indexes.                  *)
Unresolved(a) == outcome[a] \in {"PENDING", "AMBIGUOUS"}

(* transmitted_precommit_exists: everything but a definite refusal may     *)
(* have reached TIG.                                                       *)
MayHaveReachedTig(a) == outcome[a] \in {"PENDING", "AMBIGUOUS", "ACCEPTED"}

AttemptsFor(i) == {a \in Attempts : IntentOf(a) = i /\ outcome[a] # "NONE"}

\* Mutant: a write that was answered no longer counts as transmitted.
UnansweredPrecommit(w) ==
  \E a \in Attempts : WorkflowOf(a) = w /\ Unresolved(a)

TransmittedPrecommit(w) ==
  \E a \in Attempts : WorkflowOf(a) = w /\ MayHaveReachedTig(a)

UnsettledWrite(w) == \E a \in Attempts : WorkflowOf(a) = w /\ Unresolved(a)

(* claimable: the intents a pass may still have to act on.                 *)
ClaimableIntents ==
  {i \in Intents : intent[i] \in {"PREPARED", "OUTCOME_UNKNOWN"}}

Terminal(s) == s \in {"EXPIRED", "FAILED"}

(* is_unfinished_local_work *)
Unfinished(s) == s \in {"DECIDED", "PRECOMMIT_CONFIRMED"}

(* count_unverified: a workflow's interval is open from its admission      *)
(* until a terminal state (or verification, which lies past this module).  *)
OpenIntervals == {w \in Workflows : state[w] # "NONE" /\ ~Terminal(state[w])}

(***************************************************************************)
(* The tuple search (reconcile.rs): which of the precommits a window shows *)
(* carry the settings of intent i.                                         *)
(***************************************************************************)

\* Mutant: any precommit in the window counts as a candidate.
AnyCandidate(i, window) == window.shown

Candidates(i, window) == {a \in window.shown : Tuple[IntentOf(a)] = Tuple[i]}

(* reconcile_precommit's four answers.  A count of two or more stops for   *)
(* an operator whatever the candidates' confirmation.                      *)
FoundConfirmed(i, window, b) ==
  Candidates(i, window) = {b} /\ b \in window.confirmed

FoundSeveral(i, window) ==
  \E a, b \in Candidates(i, window) : a # b

(***************************************************************************)
(* Transactions                                                            *)
(***************************************************************************)

(* admit_precommit: recount, decision, workflow row and intent in one      *)
(* transaction under the admission lock.                                   *)
AdmitPrecommit(w, n) ==
  /\ intent[<<w, n>>] = "NONE"
  /\ Cardinality(OpenIntervals) < UnverifiedLimit
  /\ state[w] \in {"NONE", "DECIDED"}
  /\ ~TransmittedPrecommit(w)
  /\ state' = [state EXCEPT ![w] = "DECIDED"]
  /\ intent' = [intent EXCEPT ![<<w, n>>] = "PREPARED"]
  /\ UNCHANGED <<outcome, aged, bound>>

\* Mutant: a recorded ambiguity reopens the lane.
LaneFreeOnceAmbiguous == \A a \in Attempts : outcome[a] # "PENDING"

(* The attempts table's unresolved-precommit index: one per network.       *)
LaneFree == \A a \in Attempts : ~Unresolved(a)

(* begin: the attempt row, inserted before the request leaves.             *)
BeginAttempt(a) ==
  /\ outcome[a] = "NONE"
  /\ LaneFree
  /\ outcome' = [outcome EXCEPT ![a] = "PENDING"]
  /\ UNCHANGED <<intent, aged, state, bound>>

(* resolve: only a row with no response takes one; an ambiguous response   *)
(* moves the intent with it.                                               *)
ResolveAttempt(a, answer) ==
  /\ outcome[a] = "PENDING"
  /\ outcome' = [outcome EXCEPT ![a] = answer]
  /\ intent' = IF answer = "AMBIGUOUS" /\ intent[IntentOf(a)] = "PREPARED"
               THEN [intent EXCEPT ![IntentOf(a)] = "OUTCOME_UNKNOWN"]
               ELSE intent
  /\ aged' = aged \ {a}
  /\ UNCHANGED <<state, bound>>

(* reconcile: the only way out of AMBIGUOUS.                               *)
ReconcileAttempt(a) ==
  /\ outcome[a] = "AMBIGUOUS"
  /\ outcome' = [outcome EXCEPT ![a] = "ACCEPTED"]
  /\ UNCHANGED <<intent, aged, state, bound>>

(* settle, with the confirmed outcome: the only one the code records.      *)
SettleIntent(i) ==
  /\ i \in ClaimableIntents
  /\ intent' = [intent EXCEPT ![i] = "CONFIRMED"]
  /\ UNCHANGED <<outcome, aged, state, bound>>

(* confirm_precommit: compare-and-set on the revision read with DECIDED,   *)
(* and one workflow per benchmark.                                         *)
MayConfirm(w, b) ==
  state[w] = "DECIDED" /\ \A v \in Workflows : b \notin bound[v]

ConfirmPrecommit(w, b) ==
  /\ MayConfirm(w, b)
  /\ state' = [state EXCEPT ![w] = "PRECOMMIT_CONFIRMED"]
  /\ bound' = [bound EXCEPT ![w] = {b}]
  /\ UNCHANGED <<intent, outcome, aged>>

(* expire_unless_a_write_is_in_flight: the sweep's expiry.                 *)
ExpireWorkflow(w) ==
  /\ Unfinished(state[w])
  /\ ~UnsettledWrite(w)
  /\ state' = [state EXCEPT ![w] = "EXPIRED"]
  /\ UNCHANGED <<intent, outcome, aged, bound>>

\* Mutant: failing a workflow gives up its benchmark.
FailForgets(w) ==
  /\ state[w] # "NONE" /\ ~Terminal(state[w])
  /\ state' = [state EXCEPT ![w] = "FAILED"]
  /\ bound' = [bound EXCEPT ![w] = {}]
  /\ UNCHANGED <<intent, outcome, aged>>

(* fail: an operator ends a workflow; no guard on writes in flight.        *)
FailWorkflow(w) ==
  /\ state[w] # "NONE" /\ ~Terminal(state[w])
  /\ state' = [state EXCEPT ![w] = "FAILED"]
  /\ UNCHANGED <<intent, outcome, aged, bound>>

(* The database clock: an unanswered attempt outlives the call timeout.    *)
AttemptAges(a) ==
  /\ outcome[a] = "PENDING" /\ a \notin aged
  /\ aged' = aged \cup {a}
  /\ UNCHANGED <<intent, outcome, state, bound>>

=============================================================================
