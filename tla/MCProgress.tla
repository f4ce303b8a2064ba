----------------------------- MODULE MCProgress -----------------------------
(***************************************************************************)
(* What must eventually happen, for TLC.  A behaviour is one of the        *)
(* component that part names, under that component's fairness; the         *)
(* variables of the others stay as they began.                             *)
(***************************************************************************)
EXTENDS WritePath, TLC

CONSTANTS
  Controllers, WindowLength, MaxHeight, U32Max,
  IngestionHeight, Budget, AssemblyAttempts,
  Artifacts, Bodies, WellFormed, MaxAttempts,
  Handlers, Size, None, Torn, Garbled, u1, p1, x

VARIABLES
  part,
  row, height, chain, sent, inFlight, newest, workflowCtl,
  head, rows, gaps, retained, admitted, ingestCtl, blocked,
  commitState, accepted, built, commitIntent, attempt, commitAged, live, job,
  commitGw, commitTig, requests, commitCurrent, commitHeld,
  now, index, uploadBound, created, objects, ledger, acked, published,
  acceptance, receipts, handler, tears

MCTuple == [i \in Intents |-> i]

L == INSTANCE Lifecycle WITH
  ctl <- workflowCtl, Heights <- 0..MaxHeight,
  Guards <- [max_assignment_age |-> 1, package_due_age |-> 2, workflow_expiry_age |-> 3,
             proof_reserve |-> 1]

I == INSTANCE Ingestion WITH
  ctl <- ingestCtl, MaxHeight <- IngestionHeight, Attempts <- AssemblyAttempts,
  Reads <- {"benchmarks"}, Varying <- {}, ActiveIds <- [h \in 1..IngestionHeight |-> {h, 3}]

TheGateway == {CHOOSE g \in Gateways : TRUE}

C == INSTANCE Commitment WITH
  Gateways <- TheGateway,
  state <- commitState, intent <- commitIntent, aged <- commitAged, gw <- commitGw,
  tig <- commitTig, current <- commitCurrent, held <- commitHeld

U == INSTANCE Upload WITH
  bound <- uploadBound, Uploads <- {u1}, PackageOf <- u1 :> p1, Contents <- {x},
  Declared <- u1 :> x, MaxTime <- 0, MaxTears <- 0

lifecycleVars == <<row, height, chain, sent, inFlight, newest, workflowCtl>>
ingestionVars == <<head, rows, gaps, retained, admitted, ingestCtl, blocked>>
commitmentVars == <<commitState, accepted, built, commitIntent, attempt, commitAged, live,
                    job, commitGw, commitTig, requests, commitCurrent, commitHeld>>
uploadVars == <<now, index, uploadBound, created, objects, ledger, acked, published,
                acceptance, receipts, handler, tears>>
writeVars == <<ledgerVars, leaseVars, tig, gw, ctl>>

ProgressInit ==
  /\ part \in {"write", "lifecycle", "ingestion", "commitment", "upload"}
  /\ Init /\ L!Init /\ I!Init /\ C!Init /\ U!Init
  /\ live

(* The operator does not fail a write's workflow, and TIG's window is long *)
(* enough: the two ways out of which nothing would follow.                 *)
Undisturbed ==
  /\ \A w \in Workflows : state[w] # "FAILED"
  /\ \A a \in Attempts : tig[a] # "past"

ProgressNext ==
  /\ UNCHANGED part
  /\ \/ /\ part = "write" /\ Next /\ Undisturbed'
        /\ UNCHANGED <<lifecycleVars, ingestionVars, commitmentVars, uploadVars>>
     \/ /\ part = "lifecycle" /\ L!Next
        /\ UNCHANGED <<writeVars, ingestionVars, commitmentVars, uploadVars>>
     \/ /\ part = "ingestion" /\ I!Next
        /\ UNCHANGED <<writeVars, lifecycleVars, commitmentVars, uploadVars>>
     \/ /\ part = "commitment" /\ C!Next
        /\ UNCHANGED <<writeVars, lifecycleVars, ingestionVars, uploadVars, faults>>
     \/ /\ part = "upload" /\ U!Next
        /\ UNCHANGED <<writeVars, lifecycleVars, ingestionVars, commitmentVars>>

(* Gateways and the controller poll for ever and the clock runs; nothing   *)
(* is assumed of TIG or of the operator.                                   *)
WriteFairness ==
  /\ \A g \in Gateways :
       WF_vars(part = "write" /\ GatewayStep(g) /\ UNCHANGED <<ctl, faults>>)
  /\ WF_vars(part = "write" /\ BlockStep /\ UNCHANGED <<leaseVars, gw, faults>>)
  /\ \A w \in Workflows : WF_vars(part = "write" /\ LeaseLapses(w))
  /\ \A a \in Attempts : WF_vars(part = "write" /\ AttemptOutlivesCall(a))

(* The chain moves on and the controllers poll; nothing is assumed of the  *)
(* gateway but that it settles its writes, and nothing of the operator.    *)
LifecycleFairness ==
  /\ WF_lifecycleVars(part = "lifecycle" /\ L!NewBlock)
  /\ \A c \in Controllers : WF_lifecycleVars(part = "lifecycle" /\ L!ControllerStep(c))
  /\ \A w \in Workflows : WF_lifecycleVars(part = "lifecycle" /\ L!SettleWrite(w))

(* The loop polls for ever; faults are finitely many.                      *)
IngestionFairness ==
  \A c \in Controllers : WF_ingestionVars(part = "ingestion" /\ I!Tick(c))

(* A gateway process that lives goes on with its pass and does not fail at *)
(* the same update for ever, time goes on, and TIG confirms what it took.  *)
CommitmentFairness ==
  /\ \A g \in TheGateway :
       /\ WF_commitmentVars(part = "commitment" /\ C!GatewayStep(g))
       /\ SF_commitmentVars(part = "commitment" /\ C!RecordMissing(g))
       /\ SF_commitmentVars(part = "commitment" /\ C!Reconcile(g))
  /\ \A w \in Workflows :
       /\ WF_commitmentVars(part = "commitment" /\ C!Age(w))
       /\ WF_commitmentVars(part = "commitment" /\ C!TigConfirms(w))
       /\ WF_commitmentVars(part = "commitment" /\ C!LeaseLapses(w))

(* What a client that keeps its package until it has a receipt asks for.   *)
GoOn(h) ==
  \/ u1 \notin created /\ U!CreateUpload(h, u1)
  \/ u1 \in created /\ \E c \in U!Chunks : U!PutChunk(h, u1, c)
  \/ U!Finalize(h, u1) \/ U!FinalizeAgain(h, u1)

(* A handler goes on with its request, and the client with its upload,     *)
(* between other requests it may send: strong fairness, since a request    *)
(* can only be taken while a handler is idle.                              *)
UploadFairness ==
  /\ \A h \in Handlers : WF_uploadVars(part = "upload" /\ U!Step(h))
  /\ SF_uploadVars(part = "upload" /\ \E h \in Handlers : GoOn(h))

Progress ==
  /\ ProgressInit
  /\ [][ProgressNext]_<<part, vars, lifecycleVars, ingestionVars, commitmentVars, uploadVars>>
  /\ WriteFairness /\ LifecycleFairness /\ IngestionFairness
  /\ CommitmentFairness /\ UploadFairness

(* Unfinished work does not hold its slot for ever (workflow.rs            *)
(* expire_if_due).                                                         *)
UnfinishedWorkEnds == L!UnfinishedWorkEnds

(* The block the chain rests at becomes usable, however small the budget   *)
(* of a pass (active_cache.rs).                                            *)
LatestBecomesUsable == I!LatestBecomesUsable

(* A commitment TIG confirmed is settled although its answer was lost      *)
(* (drive.rs, AlreadyConfirmed).                                           *)
LostCommitmentSettled == C!LostAnswerSettled

(* A client that keeps at its upload gets a receipt, crashes               *)
(* notwithstanding (pool.rs put_chunk, finalize).                          *)
UploadCompletes == part = "upload" => U!UploadCompletes
=============================================================================
