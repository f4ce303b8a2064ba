----------------------------- MODULE Commitment -----------------------------
(***************************************************************************)
(* The benchmark commitment, the second write of a workflow: the facts it  *)
(* may not exist without (acceptance.rs, stub.rs, migrations 0011 to       *)
(* 0015), the intent (commit.rs, intent.rs), and the gateway's pass over   *)
(* the benchmark intents (claim.rs decide_benchmark, drive.rs              *)
(* run_once_benchmarks, transmit.rs send_benchmark).                       *)
(*                                                                         *)
(* A workflow owns one benchmark (module WritePath), so the benchmark of w *)
(* is w.  A submission is a body that names a benchmark, and a digest is   *)
(* the submission it is of.                                                *)
(***************************************************************************)
EXTENDS FencedLease, Sequences, Naturals

CONSTANTS
  Artifacts,    \* the keys built payloads are published under
  Bodies,       \* payload bodies
  WellFormed,   \* the bodies with the confirmed number of nonces and a root
  MaxAttempts   \* bound on the attempts of an intent

VARIABLES
  state,        \* state[w]: PRECOMMIT_CONFIRMED, or ENDED
  accepted,     \* pool.package_acceptance: none, real or stub
  built,        \* pool.commitment_payload: the payload of an artifact
  intent,       \* the benchmark intent of a workflow
  attempt,      \* attempt[w]: the outcomes of the intent's attempts
  aged,         \* the workflows whose last attempt outlived the call timeout
  live,         \* the processes run against the real TIG
  job,          \* the controller's create_commitment_intent
  gw,           \* gw[g]: gateway process g
  tig,          \* tig[w]: what TIG did with the commitment
  requests      \* requests[w]: the bodies that left for TIG, in order

factVars == <<state, accepted, built>>
ledgerVars == <<intent, attempt, aged>>
vars == <<factVars, ledgerVars, live, job, gw, tig, requests, leaseVars>>

Submissions == [w : Workflows, body : Bodies]
NoSubmission == [w |-> "none", body |-> "none"]
Payloads == [sub : Submissions, stub : BOOLEAN]
NoPayload == [sub |-> NoSubmission, stub |-> FALSE]
NoIntent == [art |-> "none", sub |-> NoSubmission, state |-> "NONE"]
Idle == [pc |-> "idle", art |-> "none", sub |-> NoSubmission]

(***************************************************************************)
(* The facts.  Each is inserted once; a second record of the same row is   *)
(* answered without a change, and a different one is a conflict.           *)
(***************************************************************************)

(* stub.rs guard: a stub is only ever recorded against the local fake.     *)
MayRecord(stub) == stub => ~live

(* record_acceptance, and stub_acceptance *)
RecordAcceptance(w, stub) ==
  /\ accepted[w] = "none" /\ MayRecord(stub)
  /\ accepted' = [accepted EXCEPT ![w] = IF stub THEN "stub" ELSE "real"]
  /\ UNCHANGED <<state, built, ledgerVars, live, job, gw, tig, requests, leaseVars>>

(* record_commitment_payload, and stub_commitment_payload: one artifact    *)
(* per key, and one commitment per benchmark.                              *)
RecordCommitmentPayload(a, s, stub) ==
  /\ built[a] = NoPayload /\ MayRecord(stub)
  /\ \A b \in Artifacts : built[b].sub.w # s.w
  /\ built' = [built EXCEPT ![a] = [sub |-> s, stub |-> stub]]
  /\ UNCHANGED <<state, accepted, ledgerVars, live, job, gw, tig, requests, leaseVars>>

(* benchmark_preconditions_are_stubbed *)
PreconditionsAreStubbed(w) ==
  accepted[w] = "stub" \/ \E a \in Artifacts : built[a].sub.w = w /\ built[a].stub

(***************************************************************************)
(* create_commitment_intent: two reads and an insert, each on its own.     *)
(***************************************************************************)
CheckWorkflow(a, s) ==
  /\ job.pc = "idle"
  /\ state[s.w] = "PRECOMMIT_CONFIRMED" /\ s.body \in WellFormed
  /\ job' = [pc |-> "checked", art |-> a, sub |-> s]
  /\ UNCHANGED <<factVars, ledgerVars, live, gw, tig, requests, leaseVars>>

CheckStub ==
  /\ job.pc = "checked"
  /\ job' = IF PreconditionsAreStubbed(job.sub.w) /\ live THEN Idle
            ELSE [job EXCEPT !.pc = "insert"]
  /\ UNCHANGED <<factVars, ledgerVars, live, gw, tig, requests, leaseVars>>

\* Mutant: any payload built for the benchmark will do.
AnyPayloadHolds(w, a, s) ==
  /\ accepted[w] # "none"
  /\ built[a].sub.w = w

(* tig_write_intent_preconditions_hold *)
PreconditionsHold(w, a, s) ==
  /\ accepted[w] # "none"
  /\ built[a].sub = s

(* The insert; an intent that is already there is returned or a conflict.  *)
InsertIntent ==
  LET w == job.sub.w IN
  /\ job.pc = "insert"
  /\ job' = Idle
  /\ intent' = IF intent[w] = NoIntent /\ PreconditionsHold(w, job.art, job.sub)
               THEN [intent EXCEPT ![w] = [art |-> job.art, sub |-> job.sub,
                                           state |-> "PREPARED"]]
               ELSE intent
  /\ UNCHANGED <<factVars, attempt, aged, live, gw, tig, requests, leaseVars>>

(***************************************************************************)
(* The ledger, for one benchmark                                           *)
(***************************************************************************)
Unresolved(o) == o \in {"PENDING", "AMBIGUOUS"}
HasUnresolved(w) == \E n \in 1..Len(attempt[w]) : Unresolved(attempt[w][n])

(* resolve: the intent follows an ambiguity.                               *)
Resolve(w, n, outcome) ==
  /\ attempt[w][n] = "PENDING"
  /\ attempt' = [attempt EXCEPT ![w][n] = outcome]
  /\ intent' = [intent EXCEPT ![w].state =
       IF outcome = "AMBIGUOUS" /\ @ = "PREPARED" THEN "OUTCOME_UNKNOWN" ELSE @]
  /\ aged' = aged \ {w}

(* The attempt grows older than the call timeout.                          *)
Age(w) ==
  /\ \E n \in 1..Len(attempt[w]) : attempt[w][n] = "PENDING"
  /\ aged' = aged \cup {w}
  /\ UNCHANGED <<factVars, intent, attempt, live, job, gw, tig, requests, leaseVars>>

(***************************************************************************)
(* run_once_benchmarks                                                     *)
(***************************************************************************)
AnyWorkflow == CHOOSE w \in Workflows : TRUE

Resting == [pc |-> "pass", todo |-> {}, win |-> {}, held |-> NoSubmission,
            w |-> AnyWorkflow, n |-> 0]

Confirmed == {w \in Workflows : tig[w] = "confirmed"}
Claimables == {w \in Workflows : intent[w] # NoIntent}

(* A pass has the confirmed benchmarks of one read, and one built body, or *)
(* none.                                                                   *)
StartPass(g) ==
  /\ gw[g].pc = "pass" /\ gw[g].todo = {} /\ Claimables # {}
  /\ \E s \in Submissions \cup {NoSubmission} :
       gw' = [gw EXCEPT ![g] = [Resting EXCEPT !.todo = Claimables,
                                               !.win = Confirmed, !.held = s]]
  /\ UNCHANGED <<factVars, ledgerVars, live, job, tig, requests, leaseVars>>

(* decide_benchmark: Transmit.  Any attempt there is means a refusal or a  *)
(* wait.                                                                   *)
DecidesTransmit(w, win, sub) ==
  /\ w \notin win /\ attempt[w] = <<>>
  /\ intent[w].state = "PREPARED" /\ state[w] # "ENDED"
  /\ sub = intent[w].sub

\* Mutant: an attempt without an answer is left alone for good.
SettlesAnswered(w, win, n) ==
  w \in win /\ n \in 1..Len(attempt[w]) /\ attempt[w][n] = "AMBIGUOUS"

(* AlreadyConfirmed, with an attempt to settle that is not its sender's.   *)
DecidesSettle(w, win, n) ==
  /\ w \in win /\ n \in 1..Len(attempt[w]) /\ Unresolved(attempt[w][n])
  /\ attempt[w][n] = "PENDING" => w \in aged

Goto(g, from, to) == gw[g].pc = from /\ gw' = [gw EXCEPT ![g].pc = to]

(* handle_benchmark: the lease, then the reads and the decision under it.  *)
Handle(g, w) ==
  LET at(pc, n) == gw' = [gw EXCEPT ![g].pc = pc, ![g].w = w, ![g].n = n,
                                    ![g].todo = @ \ {w}]
      settles == {n \in 1..Len(attempt[w]) : DecidesSettle(w, gw[g].win, n)}
  IN
  /\ gw[g].pc = "pass" /\ w \in gw[g].todo
  /\ Claim(g, w)
  /\ \/ DecidesTransmit(w, gw[g].win, gw[g].held) /\ at("transmit", 0)
     \/ \E n \in settles :
          at(IF attempt[w][n] = "PENDING" THEN "settle" ELSE "reconcile", n)
     \/ /\ ~DecidesTransmit(w, gw[g].win, gw[g].held) /\ settles = {}
        /\ at("release", 0)
  /\ UNCHANGED <<factVars, ledgerVars, live, job, tig, requests>>

PassOver(g, w) ==
  /\ gw[g].pc = "pass" /\ w \in gw[g].todo /\ ~Claimable(g, w)
  /\ gw' = [gw EXCEPT ![g].todo = @ \ {w}]
  /\ UNCHANGED <<factVars, ledgerVars, live, job, tig, requests, leaseVars>>

(* begin_fenced; a lost fence, a write in flight for the benchmark, or the *)
(* gate before it, end the handling.                                       *)
Begin(g) ==
  LET w == gw[g].w IN
  /\ gw[g].pc = "transmit"
  /\ \/ /\ HasFence(g, w) /\ ~HasUnresolved(w) /\ Len(attempt[w]) < MaxAttempts
        /\ attempt' = [attempt EXCEPT ![w] = Append(@, "PENDING")]
        /\ gw' = [gw EXCEPT ![g].pc = "begun", ![g].n = Len(attempt'[w])]
     \/ /\ ~HasFence(g, w) \/ HasUnresolved(w)
        /\ gw' = [gw EXCEPT ![g].pc = "release"]
        /\ UNCHANGED attempt
  /\ UNCHANGED <<factVars, intent, aged, live, job, tig, requests, leaseVars>>

(* post: a body that is not the recorded one is refused before it leaves   *)
(* and the attempt closed; otherwise the request is lost, taken or refused.*)
Send(g) ==
  LET w == gw[g].w IN
  /\ gw[g].pc = "begun"
  /\ IF gw[g].held = intent[w].sub
     THEN /\ gw' = [gw EXCEPT ![g].pc = "sent"]
          /\ requests' = [requests EXCEPT ![w] = Append(@, gw[g].held.body)]
          /\ \E answer \in {tig[w]} \cup
                (IF tig[w] = "none" THEN {"taken", "refused"} ELSE {}) :
               tig' = [tig EXCEPT ![w] = answer]
          /\ UNCHANGED ledgerVars
     ELSE /\ gw' = [gw EXCEPT ![g].pc = "release"]
          /\ Resolve(w, gw[g].n, "REJECTED")
          /\ UNCHANGED <<tig, requests>>
  /\ UNCHANGED <<factVars, live, job, leaseVars>>

(* classify: a commitment learns nothing from the response, so any success *)
(* is an acceptance.                                                       *)
Classifications(w) ==
  {"AMBIGUOUS"} \cup {x \in {"ACCEPTED"} : tig[w] \in {"taken", "confirmed"}}
                \cup {x \in {"REJECTED"} : tig[w] = "refused"}

Record(g) ==
  LET w == gw[g].w IN
  /\ Goto(g, "sent", "release")
  /\ \/ \E o \in Classifications(w) : Resolve(w, gw[g].n, o)
     \/ attempt[w][gw[g].n] # "PENDING" /\ UNCHANGED ledgerVars
  /\ UNCHANGED <<factVars, live, job, tig, requests, leaseVars>>

RecordMissing(g) ==
  LET w == gw[g].w IN
  /\ gw[g].pc = "settle"
  /\ \/ /\ Resolve(w, gw[g].n, "AMBIGUOUS")
        /\ gw' = [gw EXCEPT ![g].pc = "reconcile"]
     \/ /\ attempt[w][gw[g].n] # "PENDING"
        /\ gw' = [gw EXCEPT ![g].pc = "release"]
        /\ UNCHANGED ledgerVars
  /\ UNCHANGED <<factVars, live, job, tig, requests, leaseVars>>

Reconcile(g) ==
  LET w == gw[g].w IN
  /\ Goto(g, "reconcile", "release")
  /\ attempt' = IF attempt[w][gw[g].n] = "AMBIGUOUS"
                THEN [attempt EXCEPT ![w][gw[g].n] = "ACCEPTED"] ELSE attempt
  /\ UNCHANGED <<factVars, intent, aged, live, job, tig, requests, leaseVars>>

ReleaseIntent(g) ==
  /\ gw[g].pc = "release"
  /\ Release(g, gw[g].w)
  /\ gw' = [gw EXCEPT ![g].pc = "pass", ![g].w = AnyWorkflow, ![g].n = 0]
  /\ UNCHANGED <<factVars, ledgerVars, live, job, tig, requests>>

(* The gate refuses or a database call fails: handle still releases.       *)
GiveUp(g) ==
  /\ gw[g].pc \in {"transmit", "begun", "sent", "settle", "reconcile"}
  /\ gw' = [gw EXCEPT ![g].pc = "release"]
  /\ UNCHANGED <<factVars, ledgerVars, live, job, tig, requests, leaseVars>>

Dead(g) == [Resting EXCEPT !.pc = "dead"]

Crash(g) ==
  /\ gw[g].pc # "dead"
  /\ gw' = [gw EXCEPT ![g] = Dead(g)]
  /\ UNCHANGED <<factVars, ledgerVars, live, job, tig, requests, leaseVars>>

(***************************************************************************)
(* The rest of the system                                                  *)
(***************************************************************************)
TigConfirms(w) ==
  /\ tig[w] = "taken"
  /\ tig' = [tig EXCEPT ![w] = "confirmed"]
  /\ UNCHANGED <<factVars, ledgerVars, live, job, gw, requests, leaseVars>>

(* The workflow ends, for whatever reason.                                 *)
EndWorkflow(w) ==
  /\ state[w] # "ENDED"
  /\ state' = [state EXCEPT ![w] = "ENDED"]
  /\ UNCHANGED <<accepted, built, ledgerVars, live, job, gw, tig, requests, leaseVars>>

LeaseLapses(w) ==
  /\ held[w] # {} /\ Lapse({w})
  /\ UNCHANGED <<factVars, ledgerVars, live, job, gw, tig, requests>>

(* The database is promoted: everything is restarted against the real TIG. *)
Promote ==
  /\ ~live /\ live' = TRUE
  /\ job' = Idle
  /\ gw' = [g \in Gateways |-> IF gw[g].pc = "dead" THEN gw[g] ELSE Resting]
  /\ UNCHANGED <<factVars, ledgerVars, tig, requests, leaseVars>>

Init ==
  /\ state = [w \in Workflows |-> "PRECOMMIT_CONFIRMED"]
  /\ accepted = [w \in Workflows |-> "none"]
  /\ built = [a \in Artifacts |-> NoPayload]
  /\ intent = [w \in Workflows |-> NoIntent]
  /\ attempt = [w \in Workflows |-> <<>>]
  /\ aged = {}
  /\ live \in BOOLEAN
  /\ job = Idle
  /\ gw = [g \in Gateways |-> Resting]
  /\ tig = [w \in Workflows |-> "none"]
  /\ requests = [w \in Workflows |-> <<>>]
  /\ LeaseInit

GatewayStep(g) ==
  \/ StartPass(g) \/ \E w \in Workflows : Handle(g, w) \/ PassOver(g, w)
  \/ Begin(g) \/ Send(g) \/ Record(g) \/ RecordMissing(g) \/ Reconcile(g)
  \/ ReleaseIntent(g)

Next ==
  \/ \E w \in Workflows :
       \/ \E stub \in BOOLEAN : RecordAcceptance(w, stub)
       \/ Age(w) \/ TigConfirms(w) \/ EndWorkflow(w) \/ LeaseLapses(w)
  \/ \E a \in Artifacts, s \in Submissions :
       \/ \E stub \in BOOLEAN : RecordCommitmentPayload(a, s, stub)
       \/ CheckWorkflow(a, s)
  \/ CheckStub \/ InsertIntent \/ Promote
  \/ \E g \in Gateways : GatewayStep(g) \/ GiveUp(g) \/ Crash(g)

Spec == Init /\ [][Next]_vars

(***************************************************************************)
(* Properties                                                              *)
(***************************************************************************)
Outcomes == {"PENDING", "ACCEPTED", "AMBIGUOUS", "REJECTED"}

TypeOK ==
  /\ state \in [Workflows -> {"PRECOMMIT_CONFIRMED", "ENDED"}]
  /\ accepted \in [Workflows -> {"none", "real", "stub"}]
  /\ built \in [Artifacts -> Payloads \cup {NoPayload}]
  /\ \A w \in Workflows :
       intent[w] = NoIntent \/ (intent[w].sub \in Submissions
                                /\ intent[w].state \in {"PREPARED", "OUTCOME_UNKNOWN"})
  /\ \A w \in Workflows : \A n \in 1..Len(attempt[w]) : attempt[w][n] \in Outcomes
  /\ aged \subseteq Workflows /\ live \in BOOLEAN
  /\ LeaseTypeOK

(* What leaves for TIG is one request per benchmark, and its body is the   *)
(* one that was built and recorded, after a package was durably accepted:  *)
(* with two gateways, stalls, lapsed leases, lost answers and crashes      *)
(* (drive.rs handle_benchmark, migration 0015, architecture.md 7.3).       *)
OneCommitment ==
  \A w \in Workflows :
    /\ Len(requests[w]) <= 1
    /\ \A n \in 1..Len(requests[w]) :
         /\ accepted[w] # "none"
         /\ \E a \in Artifacts :
              built[a].sub = [w |-> w, body |-> requests[w][n]] /\ built[a].sub.body \in WellFormed

(* A refusal in the ledger is TIG's: no fault of the pool's own, such as a *)
(* body that is not the intent's, is ever recorded as one (claim.rs, the   *)
(* digest check before the attempt exists).                                *)
RefusalsAreTigs ==
  \A w \in Workflows : \A n \in 1..Len(attempt[w]) :
    /\ attempt[w][n] = "REJECTED" => tig[w] = "refused"
    /\ attempt[w][n] = "ACCEPTED" => tig[w] \in {"taken", "confirmed"}

(* Against the real TIG no intent is created from a fabricated fact,       *)
(* though the facts, the check and the insert are separate statements and  *)
(* the database may have been promoted in between (commit.rs, stub.rs).    *)
NoStubEnters ==
  \A w \in Workflows : live' /\ intent[w] = NoIntent /\ intent'[w] # NoIntent =>
    /\ accepted[w] = "real"
    /\ \A a \in Artifacts : built[a].sub.w = w => ~built[a].stub

(* A commitment TIG confirmed is settled in the ledger although its answer *)
(* was lost, while a gateway lives (drive.rs, AlreadyConfirmed).           *)
LostAnswerSettled ==
  \A w \in Workflows :
    tig[w] = "confirmed" ~>
      \/ ~HasUnresolved(w)
      \/ \A g \in Gateways : gw[g].pc = "dead"

=============================================================================
