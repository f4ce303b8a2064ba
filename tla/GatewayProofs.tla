--------------------------- MODULE GatewayProofs ---------------------------
(***************************************************************************)
(* Proofs about the parts of MCGateway, for any workflows, gateways,       *)
(* artifacts, bodies, challenges, tasks and bounds.                        *)
(*                                                                         *)
(* The commitment: an attempt is made by the one process whose fence is    *)
(* current, of a benchmark without an attempt, so a benchmark never gets a *)
(* second one (CInv).  A start of the gateway: a check that passes on the  *)
(* evidence was met when the evidence was taken (REvidence).  The gate: a  *)
(* task has a permit exactly while it is not idle (WInv).                  *)
(***************************************************************************)
EXTENDS MCGateway, TLAPS

(***************************************************************************)
(* Commitment                                                              *)
(***************************************************************************)
Intents ==
  [art : Artifacts, sub : C!Submissions, state : {"PREPARED", "OUTCOME_UNKNOWN"}]
Jobs == [pc : {"checked", "insert"}, art : Artifacts, sub : C!Submissions]
Labels == {"pass", "transmit", "begun", "sent", "settle", "reconcile", "release", "dead"}
Processes ==
  [pc : Labels, todo : SUBSET Workflows, win : SUBSET Workflows,
   held : C!Submissions \cup {C!NoSubmission}, w : Workflows \cup {C!AnyWorkflow},
   n : Nat]

CTyped ==
  /\ accepted \in [Workflows -> {"none", "real", "stub"}]
  /\ built \in [Artifacts -> C!Payloads \cup {C!NoPayload}]
  /\ intent \in [Workflows -> Intents \cup {C!NoIntent}]
  /\ attempt \in [Workflows -> Seq(C!Outcomes)]
  /\ requests \in [Workflows -> Seq(Bodies)]
  /\ job \in Jobs \cup {C!Idle}
  /\ tig \in [Workflows -> {"none", "taken", "refused", "confirmed"}]
  /\ gw \in [Gateways -> Processes]
  /\ current \in [Workflows -> SUBSET Gateways]

(* An intent stands on a package that was accepted and on a payload that   *)
(* was built for its benchmark, and so will the one that is being made;    *)
(* against the real TIG neither is a stub.                                 *)
Founded ==
  /\ \A w \in Workflows : intent[w] # C!NoIntent =>
       /\ accepted[w] # "none"
       /\ built[intent[w].art].sub = intent[w].sub
       /\ intent[w].sub.w = w /\ intent[w].sub.body \in WellFormed
  /\ job # C!Idle => job.sub.body \in WellFormed
  /\ job.pc = "insert" /\ live => ~C!PreconditionsAreStubbed(job.sub.w)

(* A benchmark has one attempt, of its intent, one request, of that        *)
(* attempt, and what the ledger has of it is what TIG did.                 *)
Once(w) ==
  /\ Len(attempt[w]) <= 1
  /\ attempt[w] # <<>> => intent[w] # C!NoIntent
  /\ Len(requests[w]) <= Len(attempt[w])
  /\ \A n \in 1..Len(requests[w]) : requests[w][n] = intent[w].sub.body
  /\ \A n \in 1..Len(attempt[w]) :
       /\ attempt[w][n] = "REJECTED" => tig[w] = "refused"
       /\ attempt[w][n] = "ACCEPTED" => tig[w] \in {"taken", "confirmed"}

(* What a gateway process knows: its fence keeps the benchmark without an  *)
(* attempt until it begins one, its request has not left before it sends   *)
(* it, and it settles only what TIG has confirmed.                         *)
Knows(g) ==
  LET w == gw[g].w IN
  /\ \A v \in gw[g].win : tig[v] = "confirmed"
  /\ gw[g].pc \notin {"pass", "dead"} => w \in Workflows
  /\ gw[g].pc \in {"transmit", "begun"} =>
       intent[w] # C!NoIntent /\ gw[g].held = intent[w].sub
  /\ gw[g].pc = "transmit" /\ g \in current[w] => attempt[w] = <<>>
  /\ gw[g].pc \in {"begun", "sent", "settle", "reconcile"} =>
       gw[g].n = 1 /\ Len(attempt[w]) = 1
  /\ gw[g].pc = "begun" => requests[w] = <<>>
  /\ gw[g].pc \in {"settle", "reconcile"} => w \in gw[g].win

(* Two gateways have neither the fence of one benchmark nor its attempt.   *)
Apart ==
  /\ \A w \in Workflows : \A g, h \in current[w] : g = h
  /\ \A g, h \in Gateways :
       gw[g].pc = "begun" /\ gw[h].pc = "begun" /\ gw[g].w = gw[h].w => g = h

CInv ==
  /\ CTyped /\ Founded /\ Apart
  /\ \A w \in Workflows : Once(w)
  /\ \A g \in Gateways : Knows(g)

(* What a process knows stays true while it does not move, the intents     *)
(* stay, confirmations stay, and nobody touches what it is about to send.  *)
LEMMA KnowledgeStays ==
  ASSUME CInv, NEW g \in Gateways, gw'[g] = gw[g],
         \A w \in Workflows : intent[w] # C!NoIntent =>
           intent'[w] # C!NoIntent /\ intent'[w].sub = intent[w].sub,
         \A w \in Workflows : tig[w] = "confirmed" => tig'[w] = "confirmed",
         gw[g].pc = "transmit" /\ g \in current'[gw[g].w] => attempt'[gw[g].w] = <<>>,
         gw[g].pc \in {"begun", "sent", "settle", "reconcile"} =>
           Len(attempt'[gw[g].w]) = 1,
         gw[g].pc = "begun" => requests'[gw[g].w] = <<>>
  PROVE  Knows(g)'
<1>1. gw[g].win \subseteq Workflows
  BY Zenon DEF CInv, CTyped, Processes
<1>2. Knows(g)
  BY Zenon DEF CInv
<1>3. gw[g].pc \in {"transmit", "begun"} => gw[g].pc \notin {"pass", "dead"}
  OBVIOUS
<1> QED
  BY Zenon, <1>1, <1>2, <1>3 DEF Knows

(* A step of anything but the gateways, and of no attempt, request or      *)
(* fence.                                                                  *)
LEMMA GatewaysRest ==
  ASSUME CInv, UNCHANGED <<gw, attempt, requests, current>>, CTyped', Founded',
         \A w \in Workflows : intent[w] # C!NoIntent => intent'[w] = intent[w],
         \A w \in Workflows : tig'[w] # tig[w] => tig[w] = "taken" /\ tig'[w] = "confirmed"
  PROVE  CInv'
<1>1. Apart'
  BY Zenon DEF CInv, Apart
<1>2. ASSUME NEW w \in Workflows PROVE Once(w)'
  <2>1. attempt[w] \in Seq(C!Outcomes) /\ requests[w] \in Seq(Bodies)
    BY Zenon DEF CInv, CTyped
  <2>2. Once(w)
    BY Zenon DEF CInv
  <2>3. CASE attempt[w] # <<>>
    <3>1. intent'[w] = intent[w]
      BY Zenon, <2>2, <2>3 DEF Once
    <3>2. /\ tig[w] = "refused" => tig'[w] = "refused"
          /\ tig[w] \in {"taken", "confirmed"} => tig'[w] \in {"taken", "confirmed"}
      OBVIOUS
    <3> QED
      BY Zenon, <2>2, <3>1, <3>2 DEF Once
  <2>4. CASE attempt[w] = <<>>
    <3>1. 1..Len(attempt[w]) = {} /\ 1..Len(requests[w]) = {}
      BY <2>1, <2>2, <2>4 DEF Once
    <3> QED
      BY Zenon, <2>2, <2>4, <3>1 DEF Once
  <2> QED
    BY <2>3, <2>4
<1>3. ASSUME NEW g \in Gateways PROVE Knows(g)'
  <2>1. Knows(g)
    BY Zenon DEF CInv
  <2>2. \A w \in Workflows : tig[w] = "confirmed" => tig'[w] = "confirmed"
    OBVIOUS
  <2>3. gw[g].pc = "transmit" /\ g \in current'[gw[g].w] => attempt'[gw[g].w] = <<>>
    BY Zenon, <2>1 DEF Knows
  <2>4. gw[g].pc \in {"begun", "sent", "settle", "reconcile"} => Len(attempt'[gw[g].w]) = 1
    BY Zenon, <2>1 DEF Knows
  <2>5. gw[g].pc = "begun" => requests'[gw[g].w] = <<>>
    BY Zenon, <2>1 DEF Knows
  <2> QED
    BY Zenon, <2>2, <2>3, <2>4, <2>5, KnowledgeStays
<1> QED
  BY Zenon, <1>1, <1>2, <1>3 DEF CInv

(* A step of one gateway that leaves the ledger and TIG alone, begins no   *)
(* attempt, and hands no fence to another gateway.                         *)
LEMMA OneMoves ==
  ASSUME CInv, NEW g \in Gateways,
         UNCHANGED <<accepted, built, intent, attempt, live, job, tig, requests>>,
         gw' \in [Gateways -> Processes],
         \A h \in Gateways \ {g} : gw'[h] = gw[h],
         current' \in [Workflows -> SUBSET Gateways],
         \A w \in Workflows : current'[w] \in {current[w], {g}, {}},
         gw'[g].pc # "begun", Knows(g)'
  PROVE  CInv'
<1>1. CTyped' /\ Founded'
  BY Zenon DEF CInv, CTyped, Founded, C!PreconditionsAreStubbed
<1>2. Apart'
  <2>1. \A w \in Workflows : \A a, b \in current'[w] : a = b
    BY Zenon DEF CInv, Apart
  <2>2. \A a, b \in Gateways :
          gw'[a].pc = "begun" /\ gw'[b].pc = "begun" /\ gw'[a].w = gw'[b].w => a = b
    BY Zenon DEF CInv, Apart
  <2> QED
    BY Zenon, <2>1, <2>2 DEF Apart
<1>3. ASSUME NEW w \in Workflows PROVE Once(w)'
  BY Zenon DEF CInv, Once
<1>4. ASSUME NEW h \in Gateways, h # g PROVE Knows(h)'
  <2>1. Knows(h) /\ gw'[h] = gw[h]
    BY Zenon, <1>4 DEF CInv
  <2>2. gw[h].pc = "transmit" => gw[h].w \in Workflows
    BY <2>1 DEF Knows
  <2>3. gw[h].pc = "transmit" /\ h \in current'[gw[h].w] => attempt'[gw[h].w] = <<>>
    <3>1. gw[h].pc = "transmit" /\ h \in current'[gw[h].w] => h \in current[gw[h].w]
      BY <1>4, <2>2
    <3> QED
      BY Zenon, <2>1, <3>1 DEF Knows
  <2>4. gw[h].pc \in {"begun", "sent", "settle", "reconcile"} => Len(attempt'[gw[h].w]) = 1
    BY Zenon, <2>1 DEF Knows
  <2>5. gw[h].pc = "begun" => requests'[gw[h].w] = <<>>
    BY Zenon, <2>1 DEF Knows
  <2> QED
    BY Zenon, <2>1, <2>3, <2>4, <2>5, KnowledgeStays
<1> QED
  BY Zenon, <1>1, <1>2, <1>3, <1>4 DEF CInv

(* No submission is the mark of its absence.                               *)
LEMMA SubmissionsAreReal == C!NoSubmission \notin C!Submissions
BY GatewayAssumption DEF C!NoSubmission, C!Submissions

(* The facts are recorded once, and a stub only against the local fake     *)
(* (acceptance.rs, stub.rs).                                               *)
LEMMA FactsStep ==
  ASSUME CInv, NEW stub \in BOOLEAN,
         \/ \E w \in Workflows : C!RecordAcceptance(w, stub)
         \/ \E a \in Artifacts, s \in C!Submissions : C!RecordCommitmentPayload(a, s, stub)
  PROVE  CInv'
<1> USE DEF C!leaseVars, C!ledgerVars
<1>1. ASSUME NEW w \in Workflows, C!RecordAcceptance(w, stub) PROVE CInv'
  <2> USE <1>1 DEF C!RecordAcceptance
  <2>1. /\ UNCHANGED <<built, intent, attempt, live, job, gw, tig, requests, current>>
        /\ accepted[w] = "none" /\ (stub => ~live)
        /\ accepted' = [accepted EXCEPT ![w] = IF stub THEN "stub" ELSE "real"]
    BY Zenon DEF C!MayRecord
  <2> HIDE <1>1 DEF C!RecordAcceptance
  <2>2. accepted' \in [Workflows -> {"none", "real", "stub"}]
    BY <2>1 DEF CInv, CTyped
  <2>3. CTyped'
    BY Zenon, <2>1, <2>2 DEF CInv, CTyped
  <2>4. \A v \in Workflows : /\ accepted[v] # "none" => accepted'[v] # "none"
                             /\ live /\ accepted'[v] = "stub" => accepted[v] = "stub"
    BY <2>1 DEF CInv, CTyped
  <2>5. job # C!Idle => job.sub.w \in Workflows
    BY Zenon DEF CInv, CTyped, Jobs, C!Submissions
  <2>6. job.pc = "insert" => job # C!Idle
    BY DEF C!Idle
  <2>7. Founded'
    BY Zenon, <2>1, <2>4, <2>5, <2>6 DEF CInv, Founded, C!PreconditionsAreStubbed
  <2> QED
    BY Zenon, <2>1, <2>3, <2>7, GatewaysRest
<1>2. ASSUME NEW a \in Artifacts, NEW s \in C!Submissions,
             C!RecordCommitmentPayload(a, s, stub)
      PROVE  CInv'
  <2> USE <1>2 DEF C!RecordCommitmentPayload
  <2>1. /\ UNCHANGED <<accepted, intent, attempt, live, job, gw, tig, requests, current>>
        /\ built[a] = C!NoPayload /\ (stub => ~live)
        /\ built' = [built EXCEPT ![a] = [sub |-> s, stub |-> stub]]
    BY Zenon DEF C!MayRecord
  <2> HIDE <1>2 DEF C!RecordCommitmentPayload
  <2>2. [sub |-> s, stub |-> stub] \in C!Payloads
    BY Zenon DEF C!Payloads
  <2>3. CTyped'
    BY Zenon, <2>1, <2>2 DEF CInv, CTyped
  <2>4. /\ \A b \in Artifacts \ {a} : built'[b] = built[b]
        /\ built'[a].stub = stub /\ built[a].sub = C!NoSubmission
    BY <2>1 DEF CInv, CTyped, C!NoPayload
  <2>5. \A v \in Workflows : intent[v] # C!NoIntent =>
          intent[v].sub \in C!Submissions /\ intent[v].art \in Artifacts
    BY Zenon DEF CInv, CTyped, Intents
  <2>6. \A v \in Workflows : intent[v] # C!NoIntent =>
          built'[intent[v].art].sub = intent[v].sub
    <3> SUFFICES ASSUME NEW v \in Workflows, intent[v] # C!NoIntent
                 PROVE  built'[intent[v].art].sub = intent[v].sub
      BY Zenon
    <3>1. built[intent[v].art].sub = intent[v].sub
      BY Zenon DEF CInv, Founded
    <3>2. intent[v].art # a
      BY Zenon, <2>4, <2>5, <3>1, SubmissionsAreReal
    <3> QED
      BY Zenon, <2>4, <2>5, <3>1, <3>2
  <2>7. ASSUME NEW v, live, C!PreconditionsAreStubbed(v)' PROVE C!PreconditionsAreStubbed(v)
    BY Zenon, <2>1, <2>4, <2>7 DEF C!PreconditionsAreStubbed
  <2>8. Founded'
    BY Zenon, <2>1, <2>6, <2>7 DEF CInv, Founded
  <2> QED
    BY Zenon, <2>1, <2>3, <2>8, GatewaysRest
<1> QED
  BY Zenon, <1>1, <1>2

(* create_commitment_intent: the intent stands on the facts it was         *)
(* inserted with, and a check for stubs that passed against the real TIG   *)
(* stays true until the insert (commit.rs).                                *)
LEMMA JobStep ==
  ASSUME CInv,
         \/ \E a \in Artifacts, s \in C!Submissions : C!CheckWorkflow(a, s)
         \/ C!CheckStub \/ C!InsertIntent
  PROVE  CInv'
<1> USE DEF C!leaseVars, C!ledgerVars, C!factVars
<1>0. job.pc # "idle" => job \in Jobs
  BY DEF CInv, CTyped, C!Idle
<1>1. ASSUME NEW a \in Artifacts, NEW s \in C!Submissions, C!CheckWorkflow(a, s)
      PROVE  CInv'
  <2> DEFINE new == [pc |-> "checked", art |-> a, sub |-> s]
  <2>1. /\ UNCHANGED <<accepted, built, intent, attempt, live, gw, tig, requests, current>>
        /\ s.body \in WellFormed /\ job' = new
    BY Zenon, <1>1 DEF C!CheckWorkflow
  <2>2. new \in Jobs
    BY Zenon DEF Jobs
  <2>3. CTyped'
    BY Zenon, <2>1, <2>2 DEF CInv, CTyped
  <2>4. job'.sub = s /\ job'.pc # "insert"
    BY <2>1
  <2> HIDE DEF new
  <2>5. Founded'
    BY Zenon, <2>1, <2>4 DEF CInv, Founded, C!PreconditionsAreStubbed
  <2> QED
    BY Zenon, <2>1, <2>3, <2>5, GatewaysRest
<1>2. CASE C!CheckStub
  <2>1. /\ UNCHANGED <<accepted, built, intent, attempt, live, gw, tig, requests, current>>
        /\ job.pc = "checked"
        /\ \/ job' = C!Idle
           \/ /\ job' = [job EXCEPT !.pc = "insert"]
              /\ live => ~C!PreconditionsAreStubbed(job.sub.w)
    BY Zenon, <1>2 DEF C!CheckStub
  <2>2. job \in Jobs /\ job # C!Idle
    BY <1>0, <2>1 DEF C!Idle
  <2>3. \/ job' = C!Idle
        \/ /\ job' \in Jobs /\ job'.sub = job.sub
           /\ live => ~C!PreconditionsAreStubbed(job.sub.w)
    BY <2>1, <2>2 DEF Jobs
  <2>4. CTyped'
    BY Zenon, <2>1, <2>3 DEF CInv, CTyped
  <2>5. C!Idle.pc # "insert"
    BY DEF C!Idle
  <2>6. Founded'
    BY Zenon, <2>1, <2>2, <2>3, <2>5 DEF CInv, Founded, C!PreconditionsAreStubbed
  <2> QED
    BY Zenon, <2>1, <2>4, <2>6, GatewaysRest
<1>3. CASE C!InsertIntent
  <2> DEFINE w == job.sub.w
             new == [art |-> job.art, sub |-> job.sub, state |-> "PREPARED"]
  <2>1. /\ UNCHANGED <<accepted, built, attempt, live, gw, tig, requests, current>>
        /\ job.pc = "insert" /\ job' = C!Idle
        /\ \/ intent' = intent
           \/ /\ intent[w] = C!NoIntent /\ C!PreconditionsHold(w, job.art, job.sub)
              /\ intent' = [intent EXCEPT ![w] = new]
    BY Zenon, <1>3 DEF C!InsertIntent
  <2>2. job \in Jobs /\ job # C!Idle
    BY <1>0, <2>1 DEF C!Idle
  <2>3. w \in Workflows /\ job.art \in Artifacts /\ job.sub \in C!Submissions
    BY Zenon, <2>2 DEF Jobs, C!Submissions
  <2>4. new \in Intents /\ new.art = job.art /\ new.sub = job.sub
    BY <2>3 DEF Intents
  <2>5. C!Idle.pc # "insert"
    BY DEF C!Idle
  <2> HIDE DEF new
  <2>6. CTyped'
    BY Zenon, <2>1, <2>3, <2>4 DEF CInv, CTyped
  <2>7. \A v \in Workflows :
          \/ intent'[v] = intent[v]
          \/ /\ v = w /\ intent[v] = C!NoIntent /\ intent'[v] = new
             /\ accepted[v] # "none" /\ built[job.art].sub = job.sub
    BY Zenon, <2>1, <2>3 DEF CInv, CTyped, C!PreconditionsHold
  <2>8. Founded'
    BY Zenon, <2>1, <2>2, <2>4, <2>5, <2>7 DEF CInv, Founded
  <2>9. \A v \in Workflows : intent[v] # C!NoIntent => intent'[v] = intent[v]
    BY Zenon, <2>7
  <2> QED
    BY Zenon, <2>1, <2>6, <2>8, <2>9, GatewaysRest
<1> QED
  BY Zenon, <1>1, <1>2, <1>3

(* The passing of time, an end of the workflow, a lapse and a confirmation *)
(* change nothing that a gateway relies on.                                *)
LEMMA WorldStep ==
  ASSUME CInv, NEW w \in Workflows,
         C!Age(w) \/ C!TigConfirms(w) \/ C!EndWorkflow(w) \/ C!LeaseLapses(w)
  PROVE  CInv'
<1> USE DEF C!leaseVars, C!ledgerVars, C!factVars
<1>1. /\ UNCHANGED <<accepted, built, intent, attempt, live, job, gw, requests, current>>
      /\ tig' = tig \/ (tig[w] = "taken" /\ tig' = [tig EXCEPT ![w] = "confirmed"])
  BY Zenon DEF C!Age, C!TigConfirms, C!EndWorkflow, C!LeaseLapses, C!Lapse
<1>2. /\ tig' \in [Workflows -> {"none", "taken", "refused", "confirmed"}]
      /\ \A v \in Workflows : tig'[v] # tig[v] => tig[v] = "taken" /\ tig'[v] = "confirmed"
  BY Zenon, <1>1 DEF CInv, CTyped
<1>3. CTyped' /\ Founded'
  BY Zenon, <1>1, <1>2 DEF CInv, CTyped, Founded, C!PreconditionsAreStubbed
<1> QED
  BY Zenon, <1>1, <1>2, <1>3, GatewaysRest

(* A process that goes on to another label keeps the rest of its state.    *)
LEMMA LabelMoves ==
  ASSUME CInv, NEW g \in Gateways, NEW l \in Labels, gw' = [gw EXCEPT ![g].pc = l]
  PROVE  /\ gw' \in [Gateways -> Processes]
         /\ gw'[g].pc = l /\ gw'[g].win = gw[g].win /\ gw'[g].held = gw[g].held
         /\ gw'[g].w = gw[g].w /\ gw'[g].n = gw[g].n
         /\ \A h \in Gateways \ {g} : gw'[h] = gw[h]
<1>1. gw \in [Gateways -> Processes]
  BY Zenon DEF CInv, CTyped
<1> QED
  BY <1>1 DEF Processes

(* A process that leaves its benchmark, without a word to the ledger.      *)
LEMMA HandlingEnds ==
  ASSUME CInv, NEW g \in Gateways, gw[g].pc \notin {"pass", "dead"},
         gw' = [gw EXCEPT ![g].pc = "release"],
         UNCHANGED <<accepted, built, intent, attempt, live, job, tig, requests, current>>
  PROVE  CInv'
<1>1. /\ gw' \in [Gateways -> Processes]
      /\ gw'[g].pc = "release" /\ gw'[g].win = gw[g].win /\ gw'[g].w = gw[g].w
      /\ \A h \in Gateways \ {g} : gw'[h] = gw[h]
  BY Zenon, LabelMoves DEF Labels
<1>2. Knows(g)
  BY Zenon DEF CInv
<1>3. Knows(g)'
  BY <1>1, <1>2 DEF Knows
<1> QED
  BY Zenon, <1>1, <1>3, OneMoves DEF CInv, CTyped

(* The state of a process that starts a pass.                              *)
LEMMA PassBegun ==
  ASSUME NEW t \in SUBSET Workflows, NEW x \in SUBSET Workflows,
         NEW s \in C!Submissions \cup {C!NoSubmission}
  PROVE  LET new == [C!Resting EXCEPT !.todo = t, !.win = x, !.held = s]
         IN  new \in Processes /\ new.pc = "pass" /\ new.win = x
<1> DEFINE r == C!Resting
           r1 == [r EXCEPT !.todo = t]
           r2 == [r1 EXCEPT !.win = x]
           r3 == [r2 EXCEPT !.held = s]
<1>1. r \in Processes /\ r.pc = "pass"
  BY DEF C!Resting, Processes, Labels
<1> HIDE DEF r
<1>2. r1 \in Processes /\ r1.pc = "pass"
  BY <1>1 DEF Processes
<1> HIDE DEF r1
<1>3. r2 \in Processes /\ r2.pc = "pass" /\ r2.win = x
  BY <1>2 DEF Processes
<1> HIDE DEF r2
<1>4. r3 \in Processes /\ r3.pc = "pass" /\ r3.win = x
  BY <1>3 DEF Processes
<1> QED
  BY Zenon, <1>4 DEF r, r1, r2

(* Passes and their ends, failures and crashes (drive.rs                   *)
(* run_once_benchmarks).                                                   *)
LEMMA PassStep ==
  ASSUME CInv, NEW g \in Gateways, NEW w,
         \/ C!StartPass(g) \/ C!PassOver(g, w) \/ C!ReleaseIntent(g) \/ C!GiveUp(g)
         \/ C!Crash(g)
  PROVE  CInv'
<1> USE DEF C!leaseVars, C!ledgerVars, C!factVars
<1>0. /\ gw \in [Gateways -> Processes] /\ gw[g] \in Processes
      /\ current \in [Workflows -> SUBSET Gateways] /\ Knows(g)
  BY Zenon DEF CInv, CTyped
<1>1. CASE C!StartPass(g)
  <2> PICK s \in C!Submissions \cup {C!NoSubmission} :
        gw' = [gw EXCEPT ![g] = [C!Resting EXCEPT !.todo = C!Claimables,
                                                  !.win = C!Confirmed, !.held = s]]
    BY Zenon, <1>1 DEF C!StartPass
  <2> DEFINE new == [C!Resting EXCEPT !.todo = C!Claimables, !.win = C!Confirmed,
                                      !.held = s]
  <2>1. gw' = [gw EXCEPT ![g] = new]
    BY Zenon
  <2>2. C!Claimables \in SUBSET Workflows /\ C!Confirmed \in SUBSET Workflows
    BY DEF C!Claimables, C!Confirmed
  <2>3. new \in Processes /\ new.pc = "pass" /\ new.win = C!Confirmed
    BY Zenon, <2>2, PassBegun
  <2> HIDE DEF new
  <2>4. /\ gw' \in [Gateways -> Processes] /\ gw'[g] = new
        /\ \A h \in Gateways \ {g} : gw'[h] = gw[h]
    BY Zenon, <1>0, <2>1, <2>3
  <2>5. UNCHANGED <<accepted, built, intent, attempt, live, job, tig, requests, current>>
    BY Zenon, <1>1 DEF C!StartPass
  <2>6. Knows(g)'
    BY Zenon, <2>3, <2>4, <2>5 DEF Knows, C!Confirmed
  <2>7. gw'[g].pc # "begun"
    BY <2>3, <2>4
  <2> QED
    BY Zenon, <1>0, <2>4, <2>5, <2>6, <2>7, OneMoves
<1>2. CASE C!PassOver(g, w)
  <2>1. /\ gw[g].pc = "pass" /\ gw' = [gw EXCEPT ![g].todo = @ \ {w}]
        /\ UNCHANGED <<accepted, built, intent, attempt, live, job, tig, requests, current>>
    BY Zenon, <1>2 DEF C!PassOver
  <2>2. /\ gw' \in [Gateways -> Processes] /\ gw'[g].pc = "pass" /\ gw'[g].win = gw[g].win
        /\ \A h \in Gateways \ {g} : gw'[h] = gw[h]
    BY <1>0, <2>1 DEF Processes
  <2>3. Knows(g)'
    BY <1>0, <2>1, <2>2 DEF Knows
  <2>4. gw'[g].pc # "begun"
    BY <2>2
  <2> QED
    BY Zenon, <1>0, <2>1, <2>2, <2>3, <2>4, OneMoves
<1>3. CASE C!ReleaseIntent(g)
  <2>1. /\ gw[g].pc = "release"
        /\ gw' = [gw EXCEPT ![g].pc = "pass", ![g].w = C!AnyWorkflow, ![g].n = 0]
        /\ UNCHANGED <<accepted, built, intent, attempt, live, job, tig, requests>>
        /\ current' \in {current, [current EXCEPT ![gw[g].w] = {}]}
    BY Zenon, <1>3 DEF C!ReleaseIntent, C!Release
  <2>2. /\ gw' \in [Gateways -> Processes] /\ gw'[g].pc = "pass" /\ gw'[g].win = gw[g].win
        /\ \A h \in Gateways \ {g} : gw'[h] = gw[h]
    BY <1>0, <2>1 DEF Processes, Labels
  <2>3. Knows(g)'
    BY <1>0, <2>1, <2>2 DEF Knows
  <2>4. /\ current' \in [Workflows -> SUBSET Gateways]
        /\ \A v \in Workflows : current'[v] \in {current[v], {g}, {}}
    BY <1>0, <2>1
  <2>5. gw'[g].pc # "begun"
    BY <2>2
  <2> QED
    BY Zenon, <2>1, <2>2, <2>3, <2>4, <2>5, OneMoves
<1>4. CASE C!GiveUp(g)
  <2>1. gw[g].pc \notin {"pass", "dead"}
    BY <1>4 DEF C!GiveUp
  <2> QED
    BY Zenon, <1>4, <2>1, HandlingEnds DEF C!GiveUp
<1>5. CASE C!Crash(g)
  <2> DEFINE new == [pc |-> "dead", todo |-> {}, win |-> {}, held |-> C!NoSubmission,
                     w |-> C!AnyWorkflow, n |-> 0]
  <2>0. [C!Resting EXCEPT !.pc = "dead"] = new
    BY DEF C!Resting
  <2>1. gw' = [gw EXCEPT ![g] = new]
    BY Zenon, <1>5, <2>0 DEF C!Crash, C!Dead
  <2>2. new \in Processes
    BY DEF Processes, Labels
  <2>3. new.pc = "dead" /\ new.win = {}
    OBVIOUS
  <2> HIDE DEF new
  <2>4. /\ gw' \in [Gateways -> Processes] /\ gw'[g] = new
        /\ \A h \in Gateways \ {g} : gw'[h] = gw[h]
    BY Zenon, <1>0, <2>1, <2>2
  <2>5. UNCHANGED <<accepted, built, intent, attempt, live, job, tig, requests, current>>
    BY Zenon, <1>5 DEF C!Crash
  <2>6. Knows(g)'
    BY <2>3, <2>4, <2>5 DEF Knows
  <2>7. gw'[g].pc # "begun"
    BY <2>3, <2>4
  <2> QED
    BY Zenon, <1>0, <2>4, <2>5, <2>6, <2>7, OneMoves
<1> QED
  BY Zenon, <1>1, <1>2, <1>3, <1>4, <1>5

(* Of at most one there is only the first.                                 *)
LEMMA OnlyOne == \A m \in Nat : m <= 1 => \A k \in 1..m : k = 1 /\ m = 1
OBVIOUS

(* handle_benchmark decides under the fence it has just taken.             *)
LEMMA HandleStep ==
  ASSUME CInv, NEW g \in Gateways, NEW w \in Workflows, C!Handle(g, w) PROVE CInv'
<1>0. /\ gw \in [Gateways -> Processes] /\ gw[g] \in Processes
      /\ current \in [Workflows -> SUBSET Gateways] /\ Knows(g) /\ Once(w)
      /\ attempt[w] \in Seq(C!Outcomes)
  BY Zenon DEF CInv, CTyped
<1>1. /\ UNCHANGED <<accepted, built, intent, attempt, live, job, tig, requests>>
      /\ current' = [current EXCEPT ![w] = {g}]
  BY Zenon DEF C!Handle, C!Claim, C!factVars, C!ledgerVars
<1> DEFINE at(l, n) == gw' = [gw EXCEPT ![g].pc = l, ![g].w = w, ![g].n = n,
                                        ![g].todo = @ \ {w}]
           Decided(l, n) ==
             /\ at(l, n)
             /\ l = "transmit" => C!DecidesTransmit(w, gw[g].win, gw[g].held)
             /\ l \in {"settle", "reconcile"} =>
                  n \in 1..Len(attempt[w]) /\ C!DecidesSettle(w, gw[g].win, n)
<1>2. \E l \in {"transmit", "settle", "reconcile", "release"}, n \in Nat : Decided(l, n)
  <2>1. \/ C!DecidesTransmit(w, gw[g].win, gw[g].held) /\ at("transmit", 0)
        \/ \E n \in 1..Len(attempt[w]) :
             /\ C!DecidesSettle(w, gw[g].win, n)
             /\ at(IF attempt[w][n] = "PENDING" THEN "settle" ELSE "reconcile", n)
        \/ at("release", 0)
    BY Zenon DEF C!Handle
  <2>2. 0 \in Nat /\ \A n \in 1..Len(attempt[w]) : n \in Nat
    BY <1>0
  <2>3. C!DecidesTransmit(w, gw[g].win, gw[g].held) /\ at("transmit", 0)
          => Decided("transmit", 0)
    <3> HIDE DEF at
    <3> QED
      OBVIOUS
  <2>4. ASSUME NEW n \in 1..Len(attempt[w]), C!DecidesSettle(w, gw[g].win, n),
               at(IF attempt[w][n] = "PENDING" THEN "settle" ELSE "reconcile", n)
        PROVE  Decided("settle", n) \/ Decided("reconcile", n)
    <3> HIDE DEF at
    <3>1. at("settle", n) \/ at("reconcile", n)
      BY Zenon, <2>4
    <3> QED
      BY <2>4, <3>1
  <2>5. at("release", 0) => Decided("release", 0)
    <3> HIDE DEF at
    <3> QED
      OBVIOUS
  <2> HIDE DEF at, Decided
  <2> QED
    BY Zenon, <2>1, <2>2, <2>3, <2>4, <2>5
<1> PICK l \in {"transmit", "settle", "reconcile", "release"}, n \in Nat : Decided(l, n)
  BY Zenon, <1>2
<1>3. l \in Labels
  BY DEF Labels
<1>4. /\ gw' \in [Gateways -> Processes]
      /\ gw'[g].pc = l /\ gw'[g].win = gw[g].win /\ gw'[g].held = gw[g].held
      /\ gw'[g].w = w /\ gw'[g].n = n
      /\ \A h \in Gateways \ {g} : gw'[h] = gw[h]
  BY Zenon, <1>0, <1>3 DEF Processes
<1>5. /\ current' \in [Workflows -> SUBSET Gateways]
      /\ \A v \in Workflows : current'[v] \in {current[v], {g}, {}}
  BY <1>0, <1>1
<1>6. l = "transmit" =>
        intent[w] # C!NoIntent /\ gw[g].held = intent[w].sub /\ attempt[w] = <<>>
  <2>1. C!NoIntent.state # "PREPARED"
    BY DEF C!NoIntent
  <2> QED
    BY Zenon, <2>1 DEF C!DecidesTransmit
<1>7. l \in {"settle", "reconcile"} => n = 1 /\ Len(attempt[w]) = 1 /\ w \in gw[g].win
  <2> SUFFICES ASSUME l \in {"settle", "reconcile"}
               PROVE  n = 1 /\ Len(attempt[w]) = 1 /\ w \in gw[g].win
    OBVIOUS
  <2>1. n \in 1..Len(attempt[w]) /\ w \in gw[g].win
    BY Zenon DEF C!DecidesSettle
  <2>2. Len(attempt[w]) \in Nat /\ Len(attempt[w]) <= 1
    BY <1>0 DEF Once
  <2> QED
    BY Zenon, <2>1, <2>2, OnlyOne
<1>8. Knows(g)'
  BY <1>0, <1>1, <1>4, <1>6, <1>7 DEF Knows
<1>9. gw'[g].pc # "begun"
  BY <1>4
<1> QED
  BY Zenon, <1>1, <1>4, <1>5, <1>8, <1>9, OneMoves

(* begin_fenced: the attempt of the one process whose fence is current is  *)
(* the benchmark's first.                                                  *)
LEMMA BeginStep == ASSUME CInv, NEW g \in Gateways, C!Begin(g) PROVE CInv'
<1> DEFINE w == gw[g].w
<1>0. /\ gw \in [Gateways -> Processes] /\ gw[g] \in Processes /\ Knows(g)
      /\ gw[g].pc = "transmit"
      /\ UNCHANGED <<accepted, built, intent, live, job, tig, requests, current>>
  BY Zenon DEF CInv, CTyped, C!Begin, C!factVars, C!leaseVars
<1>1. CASE UNCHANGED attempt /\ gw' = [gw EXCEPT ![g].pc = "release"]
  <2>1. gw[g].pc \notin {"pass", "dead"}
    BY <1>0
  <2> QED
    BY Zenon, <1>0, <1>1, <2>1, HandlingEnds
<1>2. CASE /\ C!HasFence(g, w)
           /\ attempt' = [attempt EXCEPT ![w] = Append(@, "PENDING")]
           /\ gw' = [gw EXCEPT ![g].pc = "begun", ![g].n = Len(attempt'[w])]
  <2>1. w \in Workflows /\ intent[w] # C!NoIntent /\ gw[g].held = intent[w].sub
    BY <1>0 DEF Knows
  <2>2. attempt[w] = <<>>
    BY Zenon, <1>0, <1>2 DEF Knows, C!HasFence
  <2>3. attempt \in [Workflows -> Seq(C!Outcomes)]
    BY Zenon DEF CInv, CTyped
  <2>4. /\ attempt' \in [Workflows -> Seq(C!Outcomes)]
        /\ Len(attempt'[w]) = 1 /\ attempt'[w][1] = "PENDING"
        /\ \A v \in Workflows \ {w} : attempt'[v] = attempt[v]
    BY <1>2, <2>1, <2>2, <2>3 DEF C!Outcomes
  <2>5. gw' = [gw EXCEPT ![g].pc = "begun", ![g].n = 1]
    BY Zenon, <1>2, <2>4
  <2>6. /\ gw' \in [Gateways -> Processes]
        /\ gw'[g].pc = "begun" /\ gw'[g].win = gw[g].win /\ gw'[g].held = gw[g].held
        /\ gw'[g].w = w /\ gw'[g].n = 1
        /\ \A h \in Gateways \ {g} : gw'[h] = gw[h]
    BY Zenon, <1>0, <2>5 DEF Processes, Labels
  <2>7. CTyped' /\ Founded'
    BY Zenon, <1>0, <2>4, <2>6 DEF CInv, CTyped, Founded, C!PreconditionsAreStubbed
  <2>8. requests[w] = <<>>
    <3>1. requests[w] \in Seq(Bodies) /\ Once(w)
      BY Zenon, <2>1 DEF CInv, CTyped
    <3> QED
      BY <2>2, <3>1 DEF Once
  <2>9. ASSUME NEW h \in Gateways, h # g, gw[h].w = w
        PROVE  /\ gw[h].pc \notin {"begun", "sent", "settle", "reconcile"}
               /\ gw[h].pc = "transmit" => h \notin current[w]
    <3>1. Knows(h)
      BY Zenon DEF CInv
    <3>2. Len(attempt[w]) # 1
      BY <2>2
    <3>3. g \in current[w]
      BY Zenon, <1>2 DEF C!HasFence
    <3>4. h \notin current[w]
      BY Zenon, <2>1, <2>9, <3>3 DEF CInv, Apart
    <3>5. gw[h].pc \notin {"begun", "sent", "settle", "reconcile"}
      BY Zenon, <2>9, <3>1, <3>2 DEF Knows
    <3> QED
      BY Zenon, <3>4, <3>5
  <2>10. Apart'
    <3>1. \A v \in Workflows : \A a, b \in current'[v] : a = b
      BY Zenon, <1>0 DEF CInv, Apart
    <3>2. \A a, b \in Gateways :
            gw'[a].pc = "begun" /\ gw'[b].pc = "begun" /\ gw'[a].w = gw'[b].w => a = b
      BY ZenonT(60), <2>6, <2>9 DEF CInv, Apart
    <3> QED
      BY Zenon, <3>1, <3>2 DEF Apart
  <2>11. ASSUME NEW v \in Workflows PROVE Once(v)'
    <3>1. CASE v # w
      <4>1. Once(v) /\ attempt'[v] = attempt[v]
        BY Zenon, <2>4, <3>1 DEF CInv
      <4> QED
        BY Zenon, <1>0, <4>1 DEF Once
    <3>2. CASE v = w
      <4>1. /\ Len(attempt'[w]) <= 1 /\ Len(requests[w]) <= Len(attempt'[w])
            /\ 1..Len(requests[w]) = {} /\ 1..Len(attempt'[w]) = {1}
        BY <2>4, <2>8
      <4>2. attempt'[w][1] \notin {"REJECTED", "ACCEPTED"}
        BY <2>4
      <4> QED
        BY Zenon, <1>0, <2>1, <3>2, <4>1, <4>2 DEF Once
    <3> QED
      BY <3>1, <3>2
  <2>12. Knows(g)'
    BY <1>0, <2>1, <2>4, <2>6, <2>8 DEF Knows
  <2>13. ASSUME NEW h \in Gateways, h # g PROVE Knows(h)'
    <3>1. Knows(h) /\ gw'[h] = gw[h]
      BY Zenon, <2>6, <2>13 DEF CInv
    <3>2. gw[h].pc \notin {"pass", "dead"} => gw[h].w \in Workflows
      BY Zenon, <3>1 DEF Knows
    <3>3. gw[h].pc \in {"begun", "sent", "settle", "reconcile"} =>
            gw[h].w \in Workflows /\ gw[h].w # w
      BY <2>9, <2>13, <3>2
    <3>4. gw[h].pc = "transmit" /\ h \in current'[gw[h].w] =>
            gw[h].w \in Workflows /\ gw[h].w # w
      BY <1>0, <2>9, <2>13, <3>2
    <3>5. gw[h].pc = "transmit" /\ h \in current'[gw[h].w] => attempt'[gw[h].w] = <<>>
      BY Zenon, <1>0, <2>4, <3>1, <3>4 DEF Knows
    <3>6. gw[h].pc \in {"begun", "sent", "settle", "reconcile"} =>
            Len(attempt'[gw[h].w]) = 1
      BY Zenon, <2>4, <3>1, <3>3 DEF Knows
    <3>7. gw[h].pc = "begun" => requests'[gw[h].w] = <<>>
      BY Zenon, <1>0, <3>1 DEF Knows
    <3> QED
      BY Zenon, <1>0, <3>1, <3>5, <3>6, <3>7, KnowledgeStays
  <2> QED
    BY Zenon, <2>7, <2>10, <2>11, <2>12, <2>13 DEF CInv
<1> QED
  BY Zenon, <1>1, <1>2 DEF C!Begin

(* send_benchmark: the body is the recorded one, and the first to leave.   *)
LEMMA SendStep == ASSUME CInv, NEW g \in Gateways, C!Send(g) PROVE CInv'
<1> DEFINE w == gw[g].w
<1>1. /\ Knows(g) /\ gw[g].pc = "begun"
      /\ UNCHANGED <<accepted, built, live, job, current>>
  BY Zenon DEF CInv, C!Send, C!factVars, C!leaseVars
<1>2. /\ w \in Workflows /\ intent[w] # C!NoIntent /\ gw[g].held = intent[w].sub
      /\ Len(attempt[w]) = 1 /\ requests[w] = <<>>
  BY <1>1 DEF Knows
<1>3. /\ UNCHANGED <<intent, attempt>>
      /\ gw' = [gw EXCEPT ![g].pc = "sent"]
      /\ requests' = [requests EXCEPT ![w] = Append(@, gw[g].held.body)]
  BY Zenon, <1>2 DEF C!Send, C!ledgerVars
<1>4. PICK answer \in {tig[w]} \cup (IF tig[w] = "none" THEN {"taken", "refused"} ELSE {}) :
        tig' = [tig EXCEPT ![w] = answer]
  BY Zenon, <1>2 DEF C!Send
<1>5. /\ tig' \in [Workflows -> {"none", "taken", "refused", "confirmed"}]
      /\ \A v \in Workflows : tig'[v] # tig[v] => tig[v] = "none"
  <2>1. tig \in [Workflows -> {"none", "taken", "refused", "confirmed"}]
    BY Zenon DEF CInv, CTyped
  <2> QED
    BY <1>2, <1>4, <2>1
<1>6. intent[w].sub.body \in Bodies
  <2>1. intent[w] \in Intents
    BY Zenon, <1>2 DEF CInv, CTyped
  <2> QED
    BY Zenon, <2>1 DEF Intents, C!Submissions
<1>7. /\ requests' \in [Workflows -> Seq(Bodies)]
      /\ Len(requests'[w]) = 1 /\ requests'[w][1] = intent[w].sub.body
      /\ \A v \in Workflows \ {w} : requests'[v] = requests[v]
  <2> DEFINE b == intent[w].sub.body
  <2>1. requests \in [Workflows -> Seq(Bodies)]
    BY Zenon DEF CInv, CTyped
  <2>2. requests' = [requests EXCEPT ![w] = Append(<<>>, b)]
    BY Zenon, <1>2, <1>3
  <2>3. b \in Bodies
    BY Zenon, <1>6
  <2> HIDE DEF b
  <2>4. /\ Append(<<>>, b) \in Seq(Bodies)
        /\ Len(Append(<<>>, b)) = 1 /\ Append(<<>>, b)[1] = b
    BY <2>3
  <2>5. requests'[w] = Append(<<>>, b)
    BY Zenon, <1>2, <2>1, <2>2
  <2> QED
    BY Zenon, <1>2, <2>1, <2>2, <2>4, <2>5 DEF b
<1>8. /\ gw' \in [Gateways -> Processes]
      /\ gw'[g].pc = "sent" /\ gw'[g].win = gw[g].win /\ gw'[g].held = gw[g].held
      /\ gw'[g].w = w /\ gw'[g].n = gw[g].n
      /\ \A h \in Gateways \ {g} : gw'[h] = gw[h]
  BY Zenon, <1>3, LabelMoves DEF Labels
<1>9. CTyped' /\ Founded'
  BY Zenon, <1>1, <1>3, <1>5, <1>7, <1>8
     DEF CInv, CTyped, Founded, C!PreconditionsAreStubbed
<1>10. Apart'
  <2>1. gw'[g].pc # "begun"
    BY <1>8
  <2>2. \A v \in Workflows : \A a, b \in current'[v] : a = b
    BY Zenon, <1>1 DEF CInv, Apart
  <2>3. \A a, b \in Gateways :
          gw'[a].pc = "begun" /\ gw'[b].pc = "begun" /\ gw'[a].w = gw'[b].w => a = b
    BY Zenon, <1>8, <2>1 DEF CInv, Apart
  <2> QED
    BY Zenon, <2>2, <2>3 DEF Apart
<1>11. ASSUME NEW v \in Workflows PROVE Once(v)'
  <2>1. Once(v) /\ attempt'[v] = attempt[v] /\ intent'[v] = intent[v]
    BY Zenon, <1>3 DEF CInv
  <2>2. /\ tig[v] = "refused" => tig'[v] = "refused"
        /\ tig[v] \in {"taken", "confirmed"} => tig'[v] \in {"taken", "confirmed"}
    BY <1>5
  <2>3. CASE v # w
    BY Zenon, <1>7, <2>1, <2>2, <2>3 DEF Once
  <2>4. CASE v = w
    <3>1. Len(requests'[w]) <= Len(attempt[w]) /\ 1..Len(requests'[w]) = {1}
      BY <1>2, <1>7
    <3> QED
      BY Zenon, <1>7, <2>1, <2>2, <2>4, <3>1 DEF Once
  <2> QED
    BY <2>3, <2>4
<1>12. Knows(g)'
  <2>1. \A v \in gw[g].win : tig'[v] = "confirmed"
    <3>1. gw[g].win \subseteq Workflows
      BY Zenon DEF CInv, CTyped, Processes
    <3> QED
      BY <1>1, <1>5, <3>1 DEF Knows
  <2>2. gw[g].n = 1 /\ Len(attempt'[w]) = 1
    BY <1>1, <1>3 DEF Knows
  <2> QED
    BY <1>2, <1>8, <2>1, <2>2 DEF Knows
<1>13. ASSUME NEW h \in Gateways, h # g PROVE Knows(h)'
  <2>1. Knows(h) /\ gw'[h] = gw[h]
    BY Zenon, <1>8, <1>13 DEF CInv
  <2>2. gw[h].pc = "begun" => gw[h].w \in Workflows /\ gw[h].w # w
    <3>1. gw[h].pc = "begun" => gw[h].w \in Workflows
      BY <2>1 DEF Knows
    <3> QED
      BY Zenon, <1>1, <1>13, <3>1 DEF CInv, Apart
  <2>3. gw[h].pc = "begun" => requests'[gw[h].w] = <<>>
    BY Zenon, <1>7, <2>1, <2>2 DEF Knows
  <2>4. \A v \in Workflows : tig[v] = "confirmed" => tig'[v] = "confirmed"
    BY <1>5
  <2>5. gw[h].pc = "transmit" /\ h \in current'[gw[h].w] => attempt'[gw[h].w] = <<>>
    BY Zenon, <1>1, <1>3, <2>1 DEF Knows
  <2>6. gw[h].pc \in {"begun", "sent", "settle", "reconcile"} =>
          Len(attempt'[gw[h].w]) = 1
    BY Zenon, <1>3, <2>1 DEF Knows
  <2> QED
    BY Zenon, <1>3, <2>1, <2>3, <2>4, <2>5, <2>6, KnowledgeStays
<1> QED
  BY Zenon, <1>9, <1>10, <1>11, <1>12, <1>13 DEF CInv

(* A sequence of one has one index and is not empty.                       *)
LEMMA OneIsOne == 1..1 = {1} /\ 1 <= 1 /\ Len(<<>>) # 1
OBVIOUS

(* An answer in the ledger that is TIG's, whoever records it.              *)
LEMMA Answered ==
  ASSUME CInv, NEW g \in Gateways,
         NEW l \in {"release", "reconcile"}, NEW o \in C!Outcomes,
         gw[g].pc \in {"sent", "settle", "reconcile"},
         l = "reconcile" => gw[g].pc = "settle",
         gw' = [gw EXCEPT ![g].pc = l],
         o = "REJECTED" => tig[gw[g].w] = "refused",
         o = "ACCEPTED" => tig[gw[g].w] \in {"taken", "confirmed"},
         attempt' = [attempt EXCEPT ![gw[g].w][1] = o],
         intent' \in [Workflows -> Intents \cup {C!NoIntent}],
         \A v \in Workflows :
           \/ intent'[v] = intent[v]
           \/ /\ intent[v] # C!NoIntent /\ intent'[v] # C!NoIntent
              /\ intent'[v].sub = intent[v].sub /\ intent'[v].art = intent[v].art,
         UNCHANGED <<accepted, built, live, job, tig, requests, current>>
  PROVE  CInv'
<1> DEFINE w == gw[g].w
<1>1. /\ Knows(g) /\ w \in Workflows /\ gw[g].n = 1 /\ Len(attempt[w]) = 1
      /\ gw[g].pc = "settle" => w \in gw[g].win
  <2>1. Knows(g)
    BY Zenon DEF CInv
  <2> QED
    BY <2>1 DEF Knows
<1>2. /\ gw' \in [Gateways -> Processes]
      /\ gw'[g].pc = l /\ gw'[g].win = gw[g].win /\ gw'[g].w = w /\ gw'[g].n = 1
      /\ \A h \in Gateways \ {g} : gw'[h] = gw[h]
  BY Zenon, <1>1, LabelMoves DEF Labels
<1>3. /\ attempt' \in [Workflows -> Seq(C!Outcomes)]
      /\ Len(attempt'[w]) = 1 /\ attempt'[w][1] = o
      /\ \A v \in Workflows \ {w} : attempt'[v] = attempt[v]
  <2> DEFINE x == attempt[w]
             y == [x EXCEPT ![1] = o]
  <2>1. attempt \in [Workflows -> Seq(C!Outcomes)] /\ x \in Seq(C!Outcomes) /\ Len(x) = 1
    BY Zenon, <1>1 DEF CInv, CTyped
  <2>2. attempt' = [attempt EXCEPT ![w] = y]
    BY Zenon
  <2> HIDE DEF x
  <2>3. y \in Seq(C!Outcomes) /\ Len(y) = 1 /\ y[1] = o
    BY <2>1
  <2> HIDE DEF y
  <2>4. attempt'[w] = y
    BY Zenon, <1>1, <2>1, <2>2
  <2> QED
    BY Zenon, <1>1, <2>1, <2>2, <2>3, <2>4
<1>4. CTyped'
  BY Zenon, <1>2, <1>3 DEF CInv, CTyped
<1>5. Founded'
  BY Zenon DEF CInv, Founded, C!PreconditionsAreStubbed
<1>6. gw'[g].pc # "begun"
  BY <1>2
<1>7. Apart'
  <2>1. \A v \in Workflows : \A a, b \in current'[v] : a = b
    BY Zenon DEF CInv, Apart
  <2>2. \A a, b \in Gateways :
          gw'[a].pc = "begun" /\ gw'[b].pc = "begun" /\ gw'[a].w = gw'[b].w => a = b
    BY Zenon, <1>2, <1>6 DEF CInv, Apart
  <2> QED
    BY Zenon, <2>1, <2>2 DEF Apart
<1>8. ASSUME NEW v \in Workflows PROVE Once(v)'
  <2>1. Once(v)
    BY Zenon DEF CInv
  <2>2. CASE v # w
    <3>1. attempt'[v] = attempt[v]
      BY Zenon, <1>3, <2>2
    <3>2. \A n \in 1..Len(requests[v]) : requests[v][n] = intent'[v].sub.body
      BY Zenon, <2>1 DEF Once
    <3> QED
      BY Zenon, <2>1, <3>1, <3>2 DEF Once
  <2>3. CASE v = w
    <3>0. Len(attempt'[v]) = Len(attempt[v]) /\ 1..Len(attempt'[v]) = {1}
      BY Zenon, <1>1, <1>3, <2>3, OneIsOne
    <3>1. attempt[v] # <<>> /\ attempt'[v] # <<>>
      BY Zenon, <1>1, <1>3, <2>3, OneIsOne
    <3>2. /\ attempt'[w][1] = "REJECTED" => tig[w] = "refused"
          /\ attempt'[w][1] = "ACCEPTED" => tig[w] \in {"taken", "confirmed"}
      BY Zenon, <1>3
    <3>3. intent'[v] # C!NoIntent /\ intent'[v].sub = intent[v].sub
      BY Zenon, <2>1, <3>1 DEF Once
    <3> QED
      BY Zenon, <2>1, <2>3, <3>0, <3>2, <3>3 DEF Once
  <2> QED
    BY <2>2, <2>3
<1>9. Knows(g)'
  BY <1>1, <1>2, <1>3 DEF Knows
<1>10. ASSUME NEW h \in Gateways, h # g PROVE Knows(h)'
  <2>1. Knows(h) /\ gw'[h] = gw[h]
    BY Zenon, <1>2, <1>10 DEF CInv
  <2>2. gw[h].pc \notin {"pass", "dead"} => gw[h].w \in Workflows
    BY Zenon, <2>1 DEF Knows
  <2>3. gw[h].pc = "transmit" /\ h \in current'[gw[h].w] => attempt'[gw[h].w] = <<>>
    <3> SUFFICES ASSUME gw[h].pc = "transmit", h \in current[gw[h].w]
                 PROVE  attempt'[gw[h].w] = <<>>
      BY Zenon
    <3>1. attempt[gw[h].w] = <<>> /\ gw[h].w \in Workflows
      BY <2>1 DEF Knows
    <3>2. gw[h].w # w
      BY Zenon, <1>1, <3>1, OneIsOne
    <3> QED
      BY Zenon, <1>3, <3>1, <3>2
  <2>4. gw[h].pc \in {"begun", "sent", "settle", "reconcile"} =>
          Len(attempt'[gw[h].w]) = 1
    <3>1. gw[h].pc \in {"begun", "sent", "settle", "reconcile"} => gw[h].w \in Workflows
      BY <2>2
    <3> QED
      BY Zenon, <1>3, <2>1, <3>1 DEF Knows
  <2>5. gw[h].pc = "begun" => requests'[gw[h].w] = <<>>
    BY Zenon, <2>1 DEF Knows
  <2>6. \A v \in Workflows : intent[v] # C!NoIntent =>
          intent'[v] # C!NoIntent /\ intent'[v].sub = intent[v].sub
    BY Zenon
  <2> QED
    BY Zenon, <2>1, <2>3, <2>4, <2>5, <2>6, KnowledgeStays
<1> QED
  BY Zenon, <1>4, <1>5, <1>7, <1>8, <1>9, <1>10 DEF CInv

(* resolve: the intent's state follows an ambiguity, and nothing else of   *)
(* it changes.                                                             *)
LEMMA ResolveKeepsIntents ==
  ASSUME CInv, NEW w \in Workflows, NEW o, C!Resolve(w, 1, o)
  PROVE  /\ attempt' = [attempt EXCEPT ![w][1] = o]
         /\ intent' \in [Workflows -> Intents \cup {C!NoIntent}]
         /\ \A v \in Workflows :
              \/ intent'[v] = intent[v]
              \/ /\ intent[v] # C!NoIntent /\ intent'[v] # C!NoIntent
                 /\ intent'[v].sub = intent[v].sub /\ intent'[v].art = intent[v].art
<1> DEFINE x == IF o = "AMBIGUOUS" /\ intent[w].state = "PREPARED"
                THEN "OUTCOME_UNKNOWN" ELSE intent[w].state
           i == intent[w]
           new == [i EXCEPT !.state = x]
<1>1. intent' = [intent EXCEPT ![w] = new] /\ attempt' = [attempt EXCEPT ![w][1] = o]
  BY Zenon DEF C!Resolve
<1>2. intent \in [Workflows -> Intents \cup {C!NoIntent}] /\ i \in Intents \cup {C!NoIntent}
  BY Zenon DEF CInv, CTyped
<1>3. CASE i \in Intents
  <2>1. x \in {"PREPARED", "OUTCOME_UNKNOWN"}
    BY <1>3 DEF Intents
  <2> HIDE DEF x, i
  <2>2. new \in Intents /\ new.sub = i.sub /\ new.art = i.art
    BY <1>3, <2>1 DEF Intents
  <2>3. C!NoIntent \notin Intents
    BY DEF Intents, C!NoIntent
  <2> HIDE DEF new
  <2>4. \A v \in Workflows : intent'[v] = IF v = w THEN new ELSE intent[v]
    BY Zenon, <1>1, <1>2
  <2> QED
    BY Zenon, <1>1, <1>2, <1>3, <2>2, <2>3, <2>4 DEF i
<1>4. CASE i = C!NoIntent
  <2>1. x = "NONE"
    BY <1>4 DEF C!NoIntent
  <2> HIDE DEF x
  <2>2. new = C!NoIntent
    BY <1>4, <2>1 DEF C!NoIntent
  <2> HIDE DEF new
  <2>3. \A v \in Workflows : intent'[v] = intent[v]
    BY Zenon, <1>1, <1>2, <1>4, <2>2
  <2> QED
    BY Zenon, <1>1, <1>2, <2>2, <2>3
<1> QED
  BY Zenon, <1>2, <1>3, <1>4

(* The answer as classified, the answer that is missing, and the           *)
(* confirmation that stands for it (transmit.rs, drive.rs).                *)
LEMMA AnswerStep ==
  ASSUME CInv, NEW g \in Gateways, C!Record(g) \/ C!RecordMissing(g) \/ C!Reconcile(g)
  PROVE  CInv'
<1> DEFINE w == gw[g].w
<1>0. gw[g].pc \in {"sent", "settle", "reconcile"}
  BY Zenon DEF C!Record, C!RecordMissing, C!Reconcile, C!Goto
<1>1. w \in Workflows /\ gw[g].n = 1 /\ gw[g].pc \notin {"pass", "dead"}
  <2>1. Knows(g)
    BY Zenon DEF CInv
  <2> QED
    BY <1>0, <2>1 DEF Knows
<1>2. UNCHANGED <<accepted, built, live, job, tig, requests, current>>
  BY Zenon DEF C!Record, C!RecordMissing, C!Reconcile, C!factVars, C!leaseVars
<1>3. CASE UNCHANGED <<intent, attempt>> /\ gw' = [gw EXCEPT ![g].pc = "release"]
  BY Zenon, <1>1, <1>2, <1>3, HandlingEnds
<1>4. ASSUME NEW l \in {"release", "reconcile"}, NEW o \in C!Outcomes,
             l = "reconcile" => gw[g].pc = "settle",
             o = "REJECTED" => tig[w] = "refused",
             o = "ACCEPTED" => tig[w] \in {"taken", "confirmed"},
             C!Resolve(w, 1, o), gw' = [gw EXCEPT ![g].pc = l]
      PROVE  CInv'
  BY Zenon, <1>0, <1>1, <1>2, <1>4, ResolveKeepsIntents, Answered
<1>5. CASE C!Record(g)
  <2>1. gw' = [gw EXCEPT ![g].pc = "release"]
    BY Zenon, <1>5 DEF C!Record, C!Goto
  <2>2. CASE UNCHANGED C!ledgerVars
    BY Zenon, <1>3, <2>1, <2>2 DEF C!ledgerVars
  <2>3. ASSUME NEW o \in C!Classifications(w), C!Resolve(w, 1, o) PROVE CInv'
    <3>1. /\ o \in C!Outcomes
          /\ o = "REJECTED" => tig[w] = "refused"
          /\ o = "ACCEPTED" => tig[w] \in {"taken", "confirmed"}
      BY <2>3 DEF C!Classifications, C!Outcomes
    <3> QED
      BY <1>4, <2>1, <2>3, <3>1
  <2> QED
    BY Zenon, <1>1, <1>5, <2>2, <2>3 DEF C!Record
<1>6. CASE C!RecordMissing(g)
  <2>1. CASE UNCHANGED C!ledgerVars /\ gw' = [gw EXCEPT ![g].pc = "release"]
    BY Zenon, <1>3, <2>1 DEF C!ledgerVars
  <2>2. CASE C!Resolve(w, 1, "AMBIGUOUS") /\ gw' = [gw EXCEPT ![g].pc = "reconcile"]
    <3>1. gw[g].pc = "settle" /\ "AMBIGUOUS" \in C!Outcomes
      BY Zenon, <1>6 DEF C!RecordMissing, C!Outcomes
    <3> QED
      BY <1>4, <2>2, <3>1
  <2> QED
    BY Zenon, <1>1, <1>6, <2>1, <2>2 DEF C!RecordMissing
<1>7. CASE C!Reconcile(g)
  <2>1. gw[g].pc = "reconcile" /\ gw' = [gw EXCEPT ![g].pc = "release"] /\ intent' = intent
    BY Zenon, <1>7 DEF C!Reconcile, C!Goto
  <2>2. CASE attempt' = attempt
    BY Zenon, <1>3, <2>1, <2>2
  <2>3. CASE attempt' = [attempt EXCEPT ![w][1] = "ACCEPTED"]
    <3>1. tig[w] = "confirmed"
      <4>1. Knows(g)
        BY Zenon DEF CInv
      <4> QED
        BY <2>1, <4>1 DEF Knows
    <3>2. intent' \in [Workflows -> Intents \cup {C!NoIntent}]
      BY Zenon, <2>1 DEF CInv, CTyped
    <3>3. "ACCEPTED" \in C!Outcomes /\ tig[w] \in {"taken", "confirmed"}
      BY Zenon, <3>1 DEF C!Outcomes
    <3>4. "ACCEPTED" # "REJECTED" /\ "release" # "reconcile"
      OBVIOUS
    <3> QED
      BY Zenon, <1>0, <1>2, <2>1, <2>3, <3>2, <3>3, <3>4, Answered
  <2> QED
    BY Zenon, <1>1, <1>7, <2>2, <2>3 DEF C!Reconcile
<1> QED
  BY Zenon, <1>5, <1>6, <1>7

(* A promotion restarts every process.                                     *)
LEMMA PromoteStep == ASSUME CInv, C!Promote PROVE CInv'
<1>1. /\ UNCHANGED <<accepted, built, intent, attempt, tig, requests, current>>
      /\ job' = C!Idle
      /\ gw' = [g \in Gateways |-> IF gw[g].pc = "dead" THEN gw[g] ELSE C!Resting]
  BY Zenon DEF C!Promote, C!factVars, C!ledgerVars, C!leaseVars
<1>2. C!Resting \in Processes /\ C!Resting.pc = "pass" /\ C!Resting.win = {}
  BY DEF C!Resting, Processes, Labels
<1>3. gw \in [Gateways -> Processes]
  BY Zenon DEF CInv, CTyped
<1>4. gw' \in [Gateways -> Processes]
  BY Zenon, <1>1, <1>2, <1>3
<1>5. \A g \in Gateways :
        \/ gw'[g] = gw[g] /\ gw[g].pc = "dead"
        \/ gw'[g].pc = "pass" /\ gw'[g].win = {}
  BY Zenon, <1>1, <1>2
<1>6. C!Idle.pc # "insert"
  BY DEF C!Idle
<1>7. CTyped' /\ Founded'
  BY Zenon, <1>1, <1>4, <1>6 DEF CInv, CTyped, Founded
<1>8. \A g \in Gateways : gw'[g].pc # "begun"
  BY <1>5
<1>9. Apart'
  BY Zenon, <1>1, <1>8 DEF CInv, Apart
<1>10. ASSUME NEW w \in Workflows PROVE Once(w)'
  BY Zenon, <1>1 DEF CInv, Once
<1>11. ASSUME NEW g \in Gateways PROVE Knows(g)'
  <2>1. Knows(g)
    BY Zenon DEF CInv
  <2> QED
    BY <1>1, <1>5, <2>1 DEF Knows
<1> QED
  BY Zenon, <1>7, <1>9, <1>10, <1>11 DEF CInv

(* Every step of the commitment keeps the invariant.                       *)
LEMMA CommitmentStep == CInv /\ [C!Next]_(C!vars) => CInv'
<1> SUFFICES ASSUME CInv, [C!Next]_(C!vars) PROVE CInv'
  OBVIOUS
<1>1. ASSUME NEW g \in Gateways, C!GatewayStep(g) \/ C!GiveUp(g) \/ C!Crash(g) PROVE CInv'
  BY Zenon, <1>1, PassStep, HandleStep, BeginStep, SendStep, AnswerStep DEF C!GatewayStep
<1>2. CASE UNCHANGED C!vars
  BY Zenon, <1>2, GatewaysRest
     DEF C!vars, C!factVars, C!ledgerVars, C!leaseVars, CInv, CTyped, Founded,
         C!PreconditionsAreStubbed
<1> QED
  BY Zenon, <1>1, <1>2, FactsStep, JobStep, WorldStep, PromoteStep DEF C!Next

(* At the start there are no facts, no intents and nobody at work.         *)
LEMMA CommitmentStarts == C!Init => CInv
<1> SUFFICES ASSUME C!Init PROVE CInv
  OBVIOUS
<1> USE DEF C!Init, C!LeaseInit
<1>1. C!Resting \in Processes /\ C!Resting.pc = "pass" /\ C!Resting.win = {}
  BY DEF C!Resting, Processes, Labels
<1>2. C!Idle.pc # "insert"
  BY DEF C!Idle
<1>3. <<>> \in Seq(C!Outcomes) /\ <<>> \in Seq(Bodies) /\ Len(<<>>) = 0
      /\ 1..0 = {} /\ 0 <= 1 /\ 0 <= 0
  OBVIOUS
<1>4. CTyped
  BY Zenon, <1>1, <1>3 DEF CTyped
<1>5. \A g \in Gateways : gw[g].pc = "pass" /\ gw[g].win = {}
  BY Zenon, <1>1
<1>6. Founded
  BY Zenon, <1>2 DEF Founded
<1>7. Apart
  <2>1. \A g \in Gateways : gw[g].pc # "begun"
    BY <1>5
  <2> QED
    BY Zenon, <2>1 DEF Apart
<1>8. ASSUME NEW w \in Workflows PROVE Once(w)
  BY Zenon, <1>3 DEF Once
<1>9. ASSUME NEW g \in Gateways PROVE Knows(g)
  <2>1. gw[g].pc = "pass" /\ gw[g].win = {}
    BY Zenon, <1>5
  <2> HIDE DEF C!Init
  <2> QED
    BY <2>1 DEF Knows
<1> QED
  BY Zenon, <1>4, <1>6, <1>7, <1>8, <1>9 DEF CInv

(* What the two gateways, the ledger and the fence keep true of the        *)
(* commitment throughout.                                                  *)
THEOREM CommitmentInvariance == Spec => [](part = "commitment" => CInv)
<1>1. Init => (part = "commitment" => CInv)
  BY Zenon, CommitmentStarts DEF Init
<1>2. (part = "commitment" => CInv) /\ [Next]_<<part, cVars, rVars, wVars, pc>>
        => (part = "commitment" => CInv)'
  <2> SUFFICES ASSUME part = "commitment" => CInv,
                      [Next]_<<part, cVars, rVars, wVars, pc>>, part' = "commitment"
               PROVE  CInv'
    OBVIOUS
  <2>1. part = "commitment"
    BY Zenon DEF Next
  <2>2. [C!Next]_(C!vars)
    BY Zenon, <2>1 DEF Next, cVars, C!vars, C!factVars, C!ledgerVars, C!leaseVars
  <2> QED
    BY Zenon, <2>1, <2>2, CommitmentStep
<1> QED
  BY <1>1, <1>2, PTL DEF Spec

(* One request per benchmark leaves for TIG, with the recorded body, and   *)
(* what the ledger says of it is what TIG did: for any number of gateways, *)
(* stalls, lapsed leases, lost answers, crashes and promotions.            *)
THEOREM OneTrueCommitment == Spec => []CommitmentsAreTrue
<1>1. CInv => C!OneCommitment
  <2> SUFFICES ASSUME CInv, NEW w \in Workflows
               PROVE  /\ Len(requests[w]) <= 1
                      /\ \A n \in 1..Len(requests[w]) :
                           /\ accepted[w] # "none"
                           /\ \E a \in Artifacts :
                                /\ built[a].sub = [w |-> w, body |-> requests[w][n]]
                                /\ built[a].sub.body \in WellFormed
    BY Zenon DEF C!OneCommitment
  <2>1. Once(w) /\ requests[w] \in Seq(Bodies) /\ attempt[w] \in Seq(C!Outcomes)
    BY Zenon DEF CInv, CTyped
  <2>2. Len(requests[w]) <= 1
    BY <2>1 DEF Once
  <2>3. ASSUME NEW n \in 1..Len(requests[w])
        PROVE  /\ accepted[w] # "none"
               /\ \E a \in Artifacts :
                    /\ built[a].sub = [w |-> w, body |-> requests[w][n]]
                    /\ built[a].sub.body \in WellFormed
    <3>1. attempt[w] # <<>>
      BY <2>1 DEF Once
    <3>2. intent[w] # C!NoIntent /\ requests[w][n] = intent[w].sub.body
      BY Zenon, <2>1, <3>1 DEF Once
    <3>3. intent[w] \in Intents
      BY Zenon, <3>2 DEF CInv, CTyped
    <3>4. intent[w].art \in Artifacts /\ intent[w].sub \in C!Submissions
      BY Zenon, <3>3 DEF Intents
    <3>5. /\ accepted[w] # "none" /\ built[intent[w].art].sub = intent[w].sub
          /\ intent[w].sub.w = w /\ intent[w].sub.body \in WellFormed
      BY Zenon, <3>2 DEF CInv, Founded
    <3>6. intent[w].sub = [w |-> w, body |-> intent[w].sub.body]
      BY <3>4, <3>5 DEF C!Submissions
    <3> QED
      BY Zenon, <3>2, <3>4, <3>5, <3>6
  <2> QED
    BY Zenon, <2>2, <2>3
<1>2. CInv => C!RefusalsAreTigs
  BY Zenon DEF CInv, Once, C!RefusalsAreTigs
<1>3. (part = "commitment" => CInv) => CommitmentsAreTrue
  BY Zenon, <1>1, <1>2 DEF CommitmentsAreTrue
<1> QED
  BY <1>3, CommitmentInvariance, PTL

(* An intent changes when it is inserted and when its attempt is answered. *)
LEMMA OnlyResolved ==
  ASSUME CInv, C!Next, ~C!InsertIntent
  PROVE  intent' = intent \/ \E v \in Workflows : \E o : C!Resolve(v, 1, o)
<1> USE DEF C!ledgerVars
<1>1. ASSUME NEW g \in Gateways, C!Send(g) \/ C!Record(g) \/ C!RecordMissing(g)
      PROVE  intent' = intent \/ \E v \in Workflows : \E o : C!Resolve(v, 1, o)
  <2>1. gw[g].pc \in {"begun", "sent", "settle"}
    BY Zenon, <1>1 DEF C!Send, C!Record, C!RecordMissing, C!Goto
  <2>2. Knows(g)
    BY Zenon DEF CInv
  <2>3. gw[g].w \in Workflows /\ gw[g].n = 1
    BY <2>1, <2>2 DEF Knows
  <2>4. CASE C!Send(g)
    BY Zenon, <2>3, <2>4 DEF C!Send
  <2>5. CASE C!Record(g)
    BY Zenon, <2>3, <2>5 DEF C!Record
  <2>6. CASE C!RecordMissing(g)
    BY Zenon, <2>3, <2>6 DEF C!RecordMissing
  <2> QED
    BY Zenon, <1>1, <2>4, <2>5, <2>6
<1>2. ASSUME NEW g \in Gateways, C!GatewayStep(g) \/ C!GiveUp(g) \/ C!Crash(g)
      PROVE  \/ intent' = intent
             \/ C!Send(g) \/ C!Record(g) \/ C!RecordMissing(g)
  BY Zenon, <1>2
     DEF C!GatewayStep, C!StartPass, C!Handle, C!PassOver, C!Begin, C!Reconcile,
         C!ReleaseIntent, C!GiveUp, C!Crash
<1>3. ASSUME NEW w \in Workflows, NEW stub \in BOOLEAN,
             \/ C!RecordAcceptance(w, stub) \/ C!Age(w) \/ C!TigConfirms(w)
             \/ C!EndWorkflow(w) \/ C!LeaseLapses(w)
      PROVE  intent' = intent
  BY Zenon, <1>3
     DEF C!RecordAcceptance, C!Age, C!TigConfirms, C!EndWorkflow, C!LeaseLapses
<1>4. ASSUME NEW a \in Artifacts, NEW t \in C!Submissions, NEW stub \in BOOLEAN,
             C!RecordCommitmentPayload(a, t, stub) \/ C!CheckWorkflow(a, t)
      PROVE  intent' = intent
  BY Zenon, <1>4 DEF C!RecordCommitmentPayload, C!CheckWorkflow
<1>5. ASSUME C!CheckStub \/ C!Promote PROVE intent' = intent
  BY Zenon, <1>5 DEF C!CheckStub, C!Promote
<1>6. TRUE \in BOOLEAN
  OBVIOUS
<1> QED
  BY Zenon, <1>1, <1>2, <1>3, <1>4, <1>5, <1>6 DEF C!Next

(* Against the real TIG no intent enters that rests on a stub, though the  *)
(* facts, the check and the insert are separate statements and the         *)
(* database may be promoted in between.                                    *)
THEOREM NoStubIsPromoted == Spec => StubNeverPromoted
<1>1. (part = "commitment" => CInv) /\ [Next]_<<part, cVars, rVars, wVars, pc>>
        => [part = "commitment" => C!NoStubEnters]_cVars
  <2> SUFFICES ASSUME CInv, part = "commitment", Next, NEW w \in Workflows, live',
                      intent[w] = C!NoIntent, intent'[w] # C!NoIntent
               PROVE  /\ accepted[w] = "real"
                      /\ \A a \in Artifacts : built[a].sub.w = w => ~built[a].stub
    BY Zenon DEF C!NoStubEnters, cVars
  <2>1. C!Next
    BY Zenon DEF Next
  <2>2. C!InsertIntent
    <3> SUFFICES ASSUME ~C!InsertIntent PROVE intent'[w] = intent[w]
      BY Zenon
    <3>1. intent' = intent \/ \E v \in Workflows : \E o : C!Resolve(v, 1, o)
      BY Zenon, <2>1, OnlyResolved
    <3> QED
      BY Zenon, <3>1, ResolveKeepsIntents
  <2>3. /\ job.pc = "insert" /\ live /\ w = job.sub.w
        /\ C!PreconditionsHold(w, job.art, job.sub)
    BY Zenon, <2>2 DEF C!InsertIntent, CInv, CTyped
  <2>4. ~C!PreconditionsAreStubbed(w)
    BY Zenon, <2>3 DEF CInv, Founded
  <2>5. accepted[w] \in {"none", "real", "stub"} /\ accepted[w] # "none"
    BY Zenon, <2>3 DEF CInv, CTyped, C!PreconditionsHold
  <2> QED
    BY Zenon, <2>4, <2>5 DEF C!PreconditionsAreStubbed
<1> QED
  BY <1>1, CommitmentInvariance, PTL DEF Spec, StubNeverPromoted

(***************************************************************************)
(* Readiness                                                               *)
(***************************************************************************)
REvidence ==
  /\ DOMAIN evidence = R!Checks
  /\ keyFile \in R!KeyFiles
  /\ met \subseteq R!Checks
  /\ R!Passes(evidence) \subseteq met
  /\ R!OpenIsEarned

(* The start goes from one step to the next; none of them opens the gate   *)
(* but the evaluation.                                                     *)
LEMMA AfterIsNotOpen ==
  ASSUME NEW step \in {R!Steps[n] : n \in 1..12} PROVE R!After(step) # "open"
<1> DEFINE k == CHOOSE n \in 1..12 : R!Steps[n] = step
<1>1. k \in 1..12
  BY Zenon
<1>2. \A n \in 1..12 : R!Steps[n + 1] # "open"
  BY DEF R!Steps
<1> HIDE DEF k
<1>3. R!Steps[k + 1] # "open"
  BY <1>1, <1>2
<1> QED
  BY Zenon, <1>3 DEF R!After, k

(* An observation that passes its check was taken while the check was met. *)
LEMMA ObservationIsMet ==
  ASSUME REvidence, NEW c \in R!Checks, NEW v, NEW step \in {R!Steps[n] : n \in 1..12},
         R!Observe(step, c, v),
         UNCHANGED <<config, keyFile>>,
         c \in R!Passes([evidence EXCEPT ![c] = v]) => R!Asks(c)
  PROVE  REvidence'
<1> USE DEF R!Observe
<1>1. pc' # "open"
  BY Zenon, AfterIsNotOpen
<1>2. met' = met \cup {d \in {c} : R!Asks(d)}
  BY Zenon DEF R!Note
<1>3. \A d \in R!Passes(evidence') : d # c => d \in R!Passes(evidence)
  BY Zenon DEF R!Passes, REvidence
<1>4. R!Passes(evidence') \subseteq met'
  BY Zenon, <1>2, <1>3 DEF REvidence
<1> QED
  BY Zenon, <1>1, <1>2, <1>4 DEF REvidence, R!OpenIsEarned

(* Every step of a start, of TIG and of the host keeps the passing checks  *)
(* among those that were met (credential.rs, evidence.rs, readiness.rs).   *)
LEMMA ReadinessStep == REvidence /\ [R!Next]_(R!vars) => REvidence'
<1> SUFFICES ASSUME REvidence, [R!Next]_(R!vars) PROVE REvidence'
  OBVIOUS
<1>1. CASE R!Load
  BY Zenon, <1>1 DEF REvidence, R!Load, R!Exit, R!OpenIsEarned, R!worldVars
<1>2. CASE R!LeaseOutlastsCall
  <2> USE <1>2 DEF R!LeaseOutlastsCall
  <2>1. CASE ~config.leaseOutlasts
    BY Zenon, <2>1 DEF REvidence, R!Exit, R!OpenIsEarned, R!worldVars
  <2>2. CASE config.leaseOutlasts
    <3>1. met' = met \cup {c \in {1, 2, 3, 7} : R!Asks(c)} /\ pc' = "anchor"
      BY Zenon, <2>2 DEF R!Note
    <3>2. /\ DOMAIN evidence' = R!Checks
          /\ evidence'[1] = {config.network}
          /\ evidence'[2] = IF config.commit = "none" THEN R!Err ELSE {config.commit}
          /\ evidence'[3] = {config.ack}
          /\ \A c \in R!Checks \ {1, 2, 3, 7} : evidence'[c] = evidence[c]
      BY <2>2 DEF REvidence, R!Checks
    <3>3. 1 \in R!Passes(evidence') => R!Asks(1)
      BY <3>2 DEF R!Passes, R!Asks
    <3>4. 2 \in R!Passes(evidence') => R!Asks(2)
      BY <3>2 DEF R!Passes, R!Asks, R!Err
    <3>5. 3 \in R!Passes(evidence') => R!Asks(3)
      BY <3>2 DEF R!Passes, R!Asks
    <3>6. R!Asks(7)
      BY DEF R!Asks
    <3>7. \A c \in R!Passes(evidence') \ {1, 2, 3, 7} : c \in R!Passes(evidence)
      BY Zenon, <3>2 DEF R!Passes
    <3>8. R!Passes(evidence') \subseteq met'
      BY Zenon, <3>1, <3>3, <3>4, <3>5, <3>6, <3>7 DEF REvidence
    <3>9. {1, 2, 3, 7} \subseteq R!Checks
      BY DEF R!Checks
    <3>10. met' \subseteq R!Checks
      BY Zenon, <3>1, <3>9 DEF REvidence
    <3> QED
      BY Zenon, <3>1, <3>2, <3>8, <3>10 DEF REvidence, R!OpenIsEarned, R!worldVars
  <2> QED
    BY <2>1, <2>2
<1>3. CASE R!AnchorBlock
  BY Zenon, <1>3 DEF REvidence, R!AnchorBlock, R!OpenIsEarned, R!worldVars
<1>4. CASE R!OpenApiChecksum
  <2> PICK v \in {{document}, R!Err} : R!Observe("openapi", 4, v)
    BY Zenon, <1>4 DEF R!OpenApiChecksum
  <2>1. 4 \in R!Passes([evidence EXCEPT ![4] = v]) => R!Asks(4)
    BY Zenon DEF R!Passes, R!Asks, R!Err, REvidence
  <2>2. "openapi" \in {R!Steps[n] : n \in 1..12} /\ 4 \in R!Checks
    BY DEF R!Steps, R!Checks
  <2> QED
    BY Zenon, <1>4, <2>1, <2>2, ObservationIsMet DEF R!OpenApiChecksum, R!worldVars
<1>5. ASSUME NEW e \in R!Endpoints, R!ResponseModel(e) PROVE REvidence'
  <2> PICK v : R!Observe(e, 5, v)
    BY Zenon, <1>5 DEF R!ResponseModel
  <2>1. R!Asks(5)
    BY DEF R!Asks
  <2>2. e \in {R!Steps[n] : n \in 1..12} /\ 5 \in R!Checks
    BY DEF R!Steps, R!Checks, R!Endpoints
  <2> QED
    BY Zenon, <1>5, <2>1, <2>2, ObservationIsMet DEF R!ResponseModel, R!worldVars
<1>6. CASE R!Runtimes
  <2> DEFINE v == IF anchor = 0 \/ "get-challenges" \in broken THEN R!Err
                  ELSE R!ActiveChallengeRuntimes(offer[anchor], anchor)
  <2>1. R!Observe("runtimes", 6, v)
    BY Zenon, <1>6 DEF R!Runtimes
  <2>2. 6 \in R!Passes([evidence EXCEPT ![6] = v]) => v # R!Err /\ "unpinned" \notin v
    BY Zenon DEF R!Passes, REvidence
  <2>3. v # R!Err /\ "unpinned" \notin v => R!Asks(6)
    <3> SUFFICES ASSUME v # R!Err, "unpinned" \notin v PROVE R!Asks(6)
      OBVIOUS
    <3>1. anchor # 0 /\ v = R!ActiveChallengeRuntimes(offer[anchor], anchor)
      BY Zenon
    <3>2. /\ Served \subseteq {x.type : x \in offer[anchor]}
          /\ v = {"listed"} \cup
                 {R!Pinning(x) : x \in R!ActiveServed(offer[anchor], anchor)}
      BY Zenon, <3>1 DEF R!ActiveChallengeRuntimes
    <3>3. \A x \in R!ActiveServed(offer[anchor], anchor) : x.pinned
      BY Zenon, <3>2 DEF R!Pinning
    <3> QED
      BY <3>1, <3>2, <3>3 DEF R!Asks
  <2>4. "runtimes" \in {R!Steps[n] : n \in 1..12} /\ 6 \in R!Checks
    BY DEF R!Steps, R!Checks
  <2> HIDE DEF v
  <2> QED
    BY Zenon, <1>6, <2>1, <2>2, <2>3, <2>4, ObservationIsMet DEF R!Runtimes, R!worldVars
<1>7. CASE R!Placement
  <2>1. 8 \in R!Passes([evidence EXCEPT ![8] = R!ApiKeyPlacement(keyFile)])
          => R!ApiKeyPlacement(keyFile) = {"private"}
    BY Zenon DEF R!Passes, REvidence
  <2>2. R!ApiKeyPlacement(keyFile) = {"private"} => R!Asks(8)
    BY DEF R!ApiKeyPlacement, R!Err, R!Asks, REvidence, R!KeyFiles
  <2>3. "placement" \in {R!Steps[n] : n \in 1..12} /\ 8 \in R!Checks
    BY DEF R!Steps, R!Checks
  <2> QED
    BY Zenon, <1>7, <2>1, <2>2, <2>3, ObservationIsMet DEF R!Placement, R!worldVars
<1>8. CASE R!PoolPlayerId
  <2> PICK v \in {{player}, R!Err} :
        R!Observe("player", 9, IF anchor = 0 \/ player = "none" THEN R!Err ELSE v)
    BY Zenon, <1>8 DEF R!PoolPlayerId
  <2> DEFINE u == IF anchor = 0 \/ player = "none" THEN R!Err ELSE v
  <2>1. 9 \in R!Passes([evidence EXCEPT ![9] = u]) => u = {"configured"}
    BY Zenon DEF R!Passes, REvidence
  <2>2. u = {"configured"} => R!Asks(9)
    BY DEF R!Asks, R!Err
  <2>3. "player" \in {R!Steps[n] : n \in 1..12} /\ 9 \in R!Checks
    BY DEF R!Steps, R!Checks
  <2> QED
    BY Zenon, <1>8, <2>1, <2>2, <2>3, ObservationIsMet DEF R!PoolPlayerId, R!worldVars
<1>9. CASE R!Evaluate
  BY Zenon, <1>9 DEF R!Evaluate, REvidence, R!OpenIsEarned, R!worldVars
<1>10. CASE R!Loop
  BY Zenon, <1>10 DEF R!Loop, REvidence, R!OpenIsEarned, R!worldVars
<1>11. CASE R!Restart
  BY Zenon, <1>11 DEF R!Restart, REvidence, R!OpenIsEarned, R!worldVars, R!Passes
<1>12. CASE R!Change
  <2>1. keyFile' \in R!KeyFiles
    BY Zenon, <1>12 DEF R!Change, REvidence
  <2> QED
    BY Zenon, <1>12, <2>1 DEF R!Change, REvidence, R!OpenIsEarned
<1>13. CASE UNCHANGED R!vars
  BY Zenon, <1>13 DEF R!vars, R!worldVars, REvidence, R!OpenIsEarned
<1> QED
  BY Zenon, <1>1, <1>2, <1>3, <1>4, <1>5, <1>6, <1>7, <1>8, <1>9, <1>10, <1>11, <1>12,
     <1>13 DEF R!Next

(* Writes are enabled only when each of the nine checks was met since the  *)
(* start, however TIG and the host change while the evidence is gathered.  *)
THEOREM WritesAreEarned == Spec => []OpenIsEarned
<1> DEFINE Inv == part = "readiness" => REvidence
<1>1. Init => Inv
  <2> SUFFICES ASSUME Init, part = "readiness" PROVE REvidence
    OBVIOUS
  <2>1. R!Init
    BY Zenon DEF Init
  <2> QED
    BY Zenon, <2>1 DEF R!Init, REvidence, R!OpenIsEarned, R!Passes
<1>2. Inv /\ [Next]_<<part, cVars, rVars, wVars, pc>> => Inv'
  <2> SUFFICES ASSUME Inv, [Next]_<<part, cVars, rVars, wVars, pc>>, part' = "readiness"
               PROVE  REvidence'
    OBVIOUS
  <2>1. REvidence
    BY Zenon DEF Next
  <2>2. [R!Next]_(R!vars)
    BY Zenon DEF Next, rVars, R!vars, R!worldVars
  <2> QED
    BY Zenon, <2>1, <2>2, ReadinessStep
<1>3. Inv => OpenIsEarned
  BY Zenon DEF OpenIsEarned, REvidence
<1> QED
  BY <1>1, <1>2, <1>3, PTL DEF Spec

(***************************************************************************)
(* WriteGate                                                               *)
(***************************************************************************)
FS == INSTANCE FiniteSetTheorems

(* Finiteness and cardinality are the ones the library's theorems are      *)
(* about.                                                                  *)
LEMMA SameNotions ==
  ASSUME NEW S
  PROVE  (FS!IsFiniteSet(S) <=> IsFiniteSet(S)) /\ FS!Cardinality(S) = Cardinality(S)
BY Zenon DEF IsFiniteSet, FS!IsFiniteSet, Cardinality, FS!Cardinality

(* The cardinality of a finite set is a natural number, and zero for the   *)
(* empty set alone.                                                        *)
LEMMA Counted ==
  ASSUME NEW S, IsFiniteSet(S)
  PROVE  Cardinality(S) \in Nat /\ (Cardinality(S) = 0 <=> S = {})
BY Zenon, SameNotions, FS!FS_CardinalityType, FS!FS_EmptySet

(* The empty set has no element.                                           *)
LEMMA CountNone == IsFiniteSet({}) /\ Cardinality({}) = 0
BY Zenon, SameNotions, FS!FS_EmptySet

(* An element put into a finite set counts once.                           *)
LEMMA CountIn ==
  ASSUME NEW S, NEW x, IsFiniteSet(S), x \notin S
  PROVE  IsFiniteSet(S \cup {x}) /\ Cardinality(S \cup {x}) = Cardinality(S) + 1
BY Zenon, SameNotions, FS!FS_AddElement

(* An element taken out of a finite set counts once.                       *)
LEMMA CountOut ==
  ASSUME NEW S, NEW x, IsFiniteSet(S), x \in S
  PROVE  Cardinality(S \ {x}) = Cardinality(S) - 1
BY Zenon, SameNotions, FS!FS_RemoveElement

(* A part of a finite set is finite, and no larger.                        *)
LEMMA CountPart ==
  ASSUME NEW S, IsFiniteSet(S), NEW T \in SUBSET S
  PROVE  IsFiniteSet(T) /\ Cardinality(T) <= Cardinality(S)
BY Zenon, SameNotions, FS!FS_Subset

Busy == {t \in Tasks : pc[t] # "idle"}

WInv ==
  /\ pc \in [Tasks -> {"idle", "admitted", "sleeping", "slotted", "done"}]
  /\ permit \in [Tasks -> Nat] /\ grants \in Nat \ {0} /\ inFlight \in Nat
  /\ gate = W!Ready(grants) \/ \E c \in Causes : gate = W!Revoked(c)
  /\ W!Holders = Busy
  /\ inFlight = Cardinality(W!Holders)

(* A step that changes no permit leaves the count as it was.               *)
LEMMA PermitsKept ==
  ASSUME WInv, UNCHANGED <<inFlight, permit>>,
         pc' \in [Tasks -> {"idle", "admitted", "sleeping", "slotted", "done"}],
         Busy' = Busy, grants' \in Nat \ {0},
         gate' = W!Ready(grants') \/ \E c \in Causes : gate' = W!Revoked(c)
  PROVE  WInv'
BY Zenon DEF WInv, W!Holders

(* Every step of a task, and every revocation and restoration, keeps the   *)
(* count of writes in flight that of the permits held (write_gate.rs).     *)
LEMMA GateStep == WInv /\ [W!Next]_(W!vars) => WInv'
<1> SUFFICES ASSUME WInv, [W!Next]_(W!vars) PROVE WInv'
  OBVIOUS
<1> DEFINE Stages == {"idle", "admitted", "sleeping", "slotted", "done"}
<1>0. IsFiniteSet(W!Holders)
  <2>1. W!Holders \in SUBSET Tasks
    BY DEF W!Holders
  <2> QED
    BY Zenon, <2>1, GatewayAssumption, CountPart
<1>1. ASSUME NEW t \in Tasks, W!BeginWrite(t) PROVE WInv'
  <2> USE <1>1 DEF W!BeginWrite
  <2>0. \A c \in Causes : ~W!Revoked(c).open
    BY DEF W!Revoked
  <2>1. gate.open /\ gate = W!Ready(grants)
    BY Zenon, <2>0 DEF WInv
  <2>2. permit' = [permit EXCEPT ![t] = grants]
    BY Zenon, <2>1 DEF W!Ready
  <2>3. t \notin W!Holders
    BY Zenon DEF WInv, Busy
  <2>4. /\ pc' \in [Tasks -> Stages] /\ permit' \in [Tasks -> Nat]
        /\ W!Holders' = W!Holders \cup {t} /\ Busy' = Busy \cup {t}
    BY <2>2 DEF WInv, W!Holders, Busy
  <2>5. Cardinality(W!Holders \cup {t}) = Cardinality(W!Holders) + 1
    BY Zenon, <1>0, <2>3, CountIn
  <2>6. inFlight' = Cardinality(W!Holders') /\ inFlight' \in Nat
    BY <2>4, <2>5 DEF WInv
  <2> QED
    BY Zenon, <2>4, <2>6 DEF WInv
<1>2. ASSUME NEW t \in Tasks, W!DropPermit(t) PROVE WInv'
  <2> USE <1>2 DEF W!DropPermit
  <2>1. t \in W!Holders
    BY Zenon DEF WInv, Busy
  <2>2. /\ pc' \in [Tasks -> Stages] /\ permit' \in [Tasks -> Nat]
        /\ W!Holders' = W!Holders \ {t} /\ Busy' = Busy \ {t}
    BY DEF WInv, W!Holders, Busy
  <2>3. Cardinality(W!Holders \ {t}) = Cardinality(W!Holders) - 1
    BY Zenon, <1>0, <2>1, CountOut
  <2>4. Cardinality(W!Holders) # 0
    BY Zenon, <1>0, <2>1, Counted
  <2>5. inFlight' = Cardinality(W!Holders') /\ inFlight' \in Nat
    BY <2>2, <2>3, <2>4 DEF WInv
  <2> QED
    BY Zenon, <2>2, <2>5 DEF WInv
<1>3. ASSUME NEW t \in Tasks,
             W!ReadLane(t) \/ W!TakeSlot(t) \/ W!Send(t) \/ W!Refused(t)
      PROVE  WInv'
  <2>1. PICK a \in Stages \ {"idle"}, b \in Stages \ {"idle"} :
          pc[t] = a /\ pc' = [pc EXCEPT ![t] = b]
    BY Zenon, <1>3 DEF W!ReadLane, W!TakeSlot, W!Send, W!Refused
  <2>2. pc' \in [Tasks -> Stages] /\ Busy' = Busy
    BY <2>1 DEF WInv, Busy
  <2>3. UNCHANGED <<gate, inFlight, grants, permit>>
    BY Zenon, <1>3 DEF W!ReadLane, W!TakeSlot, W!Send, W!Refused
  <2> QED
    BY Zenon, <2>2, <2>3, PermitsKept DEF WInv
<1>4. ASSUME NEW c \in Causes, W!Revoke(c) PROVE WInv'
  BY Zenon, <1>4, PermitsKept DEF W!Revoke, WInv, Busy
<1>5. CASE W!Restore
  <2>1. grants' \in Nat \ {0} /\ gate' = W!Ready(grants')
    BY <1>5 DEF W!Restore, WInv
  <2> QED
    BY Zenon, <1>5, <2>1, PermitsKept DEF W!Restore, WInv, Busy
<1>6. CASE W!Tick \/ UNCHANGED W!vars
  BY Zenon, <1>6, PermitsKept DEF W!Tick, W!vars, WInv, Busy
<1> QED
  BY Zenon, <1>1, <1>2, <1>3, <1>4, <1>5, <1>6 DEF W!Next, W!TaskStep

(* A step of the instance is one of the gate and lane, when they run.      *)
LEMMA GateRuns ==
  ASSUME [Next]_<<part, cVars, rVars, wVars, pc>>, part' \in {"gate", "lane"}
  PROVE  part \in {"gate", "lane"} /\ part' = part /\ [W!Next /\ Within']_(W!vars)
BY Zenon DEF Next, wVars, W!vars

(* At the start nobody holds a permit.                                     *)
LEMMA InitGate == Init /\ part \in {"gate", "lane"} => WInv
<1> SUFFICES ASSUME Init, part \in {"gate", "lane"} PROVE WInv
  OBVIOUS
<1>1. W!Init
  BY Zenon DEF Init
<1>2. W!Holders = {} /\ Busy = {}
  BY <1>1 DEF W!Init, W!Holders, Busy
<1>3. inFlight = Cardinality(W!Holders)
  BY Zenon, <1>1, <1>2, CountNone DEF W!Init
<1>4. /\ pc \in [Tasks -> {"idle", "admitted", "sleeping", "slotted", "done"}]
      /\ permit \in [Tasks -> Nat] /\ grants \in Nat \ {0} /\ inFlight \in Nat
  BY <1>1 DEF W!Init
<1> QED
  BY Zenon, <1>1, <1>2, <1>3, <1>4 DEF W!Init, WInv

(* The number of writes in flight that a loss of readiness is logged with  *)
(* is the number of permits held.                                          *)
THEOREM PermitsAreCounted == Spec => []InFlightCounts
<1> DEFINE Inv == part \in {"gate", "lane"} => WInv
<1>1. Init => Inv
  BY Zenon, InitGate
<1>2. Inv /\ [Next]_<<part, cVars, rVars, wVars, pc>> => Inv'
  BY Zenon, GateRuns, GateStep
<1>3. Inv => InFlightCounts
  BY Zenon DEF InFlightCounts, WInv, W!InFlightCounts, Cardinality, W!Cardinality
<1> QED
  BY <1>1, <1>2, <1>3, PTL DEF Spec

(* What the lane is like while one task at a time drives it: last is the   *)
(* newest slot, and a task that sleeps wakes no earlier than the gap after *)
(* it.                                                                     *)
WLane ==
  /\ now \in Nat /\ wake \in [Tasks -> Nat] /\ slots \in Seq(Nat)
  /\ Cardinality(Busy) <= 1
  /\ W!SlotsArePaced
  /\ last = IF slots = <<>> THEN {} ELSE {slots[Len(slots)]}
  /\ slots # <<>> => slots[Len(slots)] <= now
  /\ \A t \in Tasks :
       pc[t] = "sleeping" => slots = <<>> \/ wake[t] >= slots[Len(slots)] + Gap

(* Two tasks that are both at work are one.                                *)
LEMMA OneAtWork ==
  ASSUME Cardinality(Busy) <= 1, NEW t \in Busy, NEW u \in Busy PROVE t = u
<1> SUFFICES ASSUME t # u PROVE FALSE
  OBVIOUS
<1>1. Busy \in SUBSET Tasks
  BY DEF Busy
<1>2. IsFiniteSet(Busy)
  BY Zenon, <1>1, GatewayAssumption, CountPart
<1>3. IsFiniteSet({} \cup {t}) /\ Cardinality({} \cup {t}) = 0 + 1
  BY Zenon, CountNone, CountIn
<1>4. Cardinality(({} \cup {t}) \cup {u}) = (0 + 1) + 1
  BY Zenon, <1>3, CountIn
<1>5. ({} \cup {t}) \cup {u} \in SUBSET Busy
  OBVIOUS
<1>6. Cardinality(({} \cup {t}) \cup {u}) <= Cardinality(Busy)
  BY Zenon, <1>2, <1>5, CountPart
<1>7. Cardinality(Busy) \in Nat
  BY Zenon, <1>2, Counted
<1> QED
  BY <1>4, <1>6, <1>7

(* Every step of the gate and of the lane keeps the slots the gap apart,   *)
(* with one task at a time (lane.rs take_slot).                            *)
LEMMA LaneStep ==
  ASSUME WInv, WLane, [W!Next]_(W!vars), Cardinality(Busy') <= 1 PROVE WLane'
<1> USE GatewayAssumption
<1>1. ASSUME NEW t \in Tasks, W!ReadLane(t) PROVE WLane'
  <2> USE <1>1 DEF W!ReadLane
  <2>1. UNCHANGED <<now, slots, last>> /\ pc' = [pc EXCEPT ![t] = "sleeping"]
    BY Zenon
  <2>2. CASE slots = <<>>
    <3>1. wake' = [wake EXCEPT ![t] = now]
      BY Zenon, <2>2 DEF WLane
    <3>2. wake' \in [Tasks -> Nat]
      BY Zenon, <3>1 DEF WLane
    <3> QED
      BY Zenon, <2>1, <2>2, <3>2 DEF WLane, W!SlotsArePaced
  <2>3. CASE slots # <<>>
    <3> DEFINE at == slots[Len(slots)]
    <3>1. at = CHOOSE x \in last : TRUE
      BY Zenon, <2>3 DEF WLane
    <3>2. wake' = [wake EXCEPT ![t] = IF now - at < Gap THEN at + Gap ELSE now]
      BY Zenon, <2>3, <3>1 DEF WLane
    <3>3. at \in Nat /\ now \in Nat
      BY <2>3 DEF WLane
    <3> HIDE DEF at
    <3> DEFINE x == IF now - at < Gap THEN at + Gap ELSE now
    <3>4. x \in Nat /\ x >= at + Gap
      BY <3>3
    <3> HIDE DEF x
    <3>5. wake' = [wake EXCEPT ![t] = x]
      BY Zenon, <3>2 DEF x
    <3>6. \A u \in Tasks : wake'[u] = IF u = t THEN x ELSE wake[u]
      BY Zenon, <3>5 DEF WLane
    <3>7. wake' \in [Tasks -> Nat]
      BY Zenon, <3>4, <3>5 DEF WLane
    <3>8. \A u \in Tasks : pc'[u] = "sleeping" =>
             slots' = <<>> \/ wake'[u] >= slots'[Len(slots')] + Gap
      BY Zenon, <2>1, <3>4, <3>6 DEF WLane, WInv, at
    <3> QED
      BY Zenon, <2>1, <3>7, <3>8 DEF WLane, W!SlotsArePaced
  <2> QED
    BY <2>2, <2>3
<1>2. ASSUME NEW t \in Tasks, W!TakeSlot(t) PROVE WLane'
  <2> USE <1>2 DEF W!TakeSlot
  <2>0. t \in Busy /\ Cardinality(Busy) <= 1
    BY Zenon DEF WLane, Busy
  <2>1. \A u \in Tasks : pc'[u] # "sleeping"
    <3> SUFFICES ASSUME NEW u \in Tasks, pc'[u] = "sleeping" PROVE FALSE
      OBVIOUS
    <3>1. u # t /\ pc[u] = "sleeping"
      BY DEF WInv
    <3>2. u \in Busy
      BY Zenon, <3>1 DEF Busy
    <3> QED
      BY Zenon, <2>0, <3>1, <3>2, OneAtWork
  <2>2. /\ slots' \in Seq(Nat) /\ slots' # <<>> /\ Len(slots') = Len(slots) + 1
        /\ slots'[Len(slots')] = now
        /\ \A n \in 1..Len(slots) : slots'[n] = slots[n]
    <3>1. slots' = Append(slots, now) /\ slots \in Seq(Nat) /\ now \in Nat
      BY Zenon DEF WLane
    <3> HIDE <1>2 DEF W!TakeSlot
    <3>2. slots' \in Seq(Nat) /\ Len(slots') = Len(slots) + 1
      BY <3>1
    <3>3. Len(slots) \in Nat /\ slots'[Len(slots) + 1] = now
      BY <3>1
    <3>4. \A n \in 1..Len(slots) : slots'[n] = slots[n]
      BY <3>1
    <3>5. slots' # <<>>
      BY <3>2, <3>3
    <3> QED
      BY Zenon, <3>2, <3>3, <3>4, <3>5
  <2>3. \A m \in 1..Len(slots) : now - slots[m] >= Gap
    <3> SUFFICES ASSUME NEW m \in 1..Len(slots) PROVE now - slots[m] >= Gap
      OBVIOUS
    <3>1. /\ slots # <<>> /\ Len(slots) \in 1..Len(slots)
          /\ slots[Len(slots)] \in Nat /\ slots[m] \in Nat
      BY DEF WLane
    <3>2. wake[t] \in Nat /\ wake[t] <= now /\ wake[t] >= slots[Len(slots)] + Gap
      BY Zenon, <3>1 DEF WLane
    <3>3. m = Len(slots) \/ slots[Len(slots)] - slots[m] >= Gap
      BY <3>1 DEF WLane, W!SlotsArePaced
    <3>4. now \in Nat
      BY DEF WLane
    <3> QED
      BY <3>1, <3>2, <3>3, <3>4
  <2>4. W!SlotsArePaced'
    <3> SUFFICES ASSUME NEW m \in 1..Len(slots'), NEW n \in 1..Len(slots'), m < n
                 PROVE  slots'[n] - slots'[m] >= Gap
      BY Zenon DEF W!SlotsArePaced
    <3>1. Len(slots) \in Nat
      BY DEF WLane
    <3>2. m \in 1..Len(slots) /\ (n = Len(slots') \/ n \in 1..Len(slots))
      BY <2>2, <3>1
    <3>3. CASE n = Len(slots')
      BY Zenon, <2>2, <2>3, <3>2, <3>3
    <3>4. CASE n \in 1..Len(slots)
      BY Zenon, <2>2, <3>2, <3>4 DEF WLane, W!SlotsArePaced
    <3> QED
      BY <3>2, <3>3, <3>4
  <2>5. now' = now /\ last' = {now} /\ wake' = wake
    BY Zenon
  <2>6. slots'[Len(slots')] <= now'
    BY <2>2, <2>5 DEF WLane
  <2> QED
    BY Zenon, <2>1, <2>2, <2>4, <2>5, <2>6 DEF WLane
<1>3. ASSUME UNCHANGED <<wake, last, slots>>, now' \in Nat, now' >= now,
             \A u \in Tasks : pc'[u] = "sleeping" => pc[u] = "sleeping"
      PROVE  WLane'
  <2>1. slots # <<>> => slots[Len(slots)] <= now'
    BY <1>3 DEF WLane
  <2> QED
    BY Zenon, <1>3, <2>1 DEF WLane, W!SlotsArePaced
<1>4. now \in Nat /\ now >= now
  BY DEF WLane
<1>5. ASSUME NEW t \in Tasks,
             W!BeginWrite(t) \/ W!Send(t) \/ W!Refused(t) \/ W!DropPermit(t)
      PROVE  WLane'
  BY Zenon, <1>3, <1>4, <1>5
     DEF W!BeginWrite, W!Send, W!Refused, W!DropPermit, W!laneVars, WInv
<1>6. ASSUME (\E c \in Causes : W!Revoke(c)) \/ W!Restore \/ UNCHANGED W!vars PROVE WLane'
  BY Zenon, <1>3, <1>4, <1>6 DEF W!Revoke, W!Restore, W!laneVars, W!vars
<1>7. CASE W!Tick
  <2>1. now' \in Nat /\ now' >= now
    BY <1>4, <1>7 DEF W!Tick
  <2> QED
    BY Zenon, <1>3, <1>7, <2>1 DEF W!Tick, W!laneVars
<1> QED
  BY Zenon, <1>1, <1>2, <1>5, <1>6, <1>7 DEF W!Next, W!TaskStep

(* The lane's slots are never less than the gap apart, whatever the gap,   *)
(* as long as one task at a time is between its permit and its answer.     *)
THEOREM LaneIsPaced == Spec => []SlotsArePaced
<1> DEFINE Inv == part = "lane" => WInv /\ WLane
<1>1. Init => Inv
  <2> SUFFICES ASSUME Init, part = "lane" PROVE WLane
    BY Zenon, InitGate
  <2>1. W!Init
    BY Zenon DEF Init
  <2>2. Busy = {} /\ Cardinality({}) = 0
    BY Zenon, <2>1, CountNone DEF W!Init, Busy
  <2>3. W!SlotsArePaced /\ Cardinality(Busy) <= 1
    BY <2>1, <2>2 DEF W!Init, W!SlotsArePaced
  <2>4. now \in Nat /\ wake \in [Tasks -> Nat] /\ slots \in Seq(Nat)
    BY <2>1 DEF W!Init
  <2> QED
    BY Zenon, <2>1, <2>3, <2>4 DEF W!Init, WLane
<1>2. Inv /\ [Next]_<<part, cVars, rVars, wVars, pc>> => Inv'
  <2> SUFFICES ASSUME Inv, [Next]_<<part, cVars, rVars, wVars, pc>>, part' = "lane"
               PROVE  WInv' /\ WLane'
    OBVIOUS
  <2>1. part = "lane" /\ [W!Next /\ Within']_(W!vars)
    BY Zenon, GateRuns
  <2>2. WInv /\ WLane /\ [W!Next]_(W!vars)
    BY Zenon, <2>1
  <2>3. Cardinality(Busy') <= 1
    BY Zenon, <2>1, <2>2 DEF Within, WLane, Busy, W!vars
  <2> QED
    BY Zenon, <2>2, <2>3, GateStep, LaneStep
<1>3. Inv => SlotsArePaced
  BY Zenon DEF SlotsArePaced, WLane
<1> QED
  BY <1>1, <1>2, <1>3, PTL DEF Spec

============================================================================
