----------------------------- MODULE Readiness ------------------------------
(***************************************************************************)
(* A start of the TIG gateway: the credential, the evidence for the nine   *)
(* checks of tig_integration.md 13, the decision over them, and the write  *)
(* loop that runs for as long as the process does (credential.rs,          *)
(* evidence.rs, readiness.rs, service.rs).  The evidence is gathered by    *)
(* reads made one after the other, of a TIG and a host that may change     *)
(* between any two of them.                                                *)
(***************************************************************************)
EXTENDS Naturals, FiniteSets

CONSTANTS
  Served,       \* the compute types the deployment says it serves
  Types,        \* compute types a challenge may declare
  Offers,       \* the challenge lists TIG may answer with: sets of challenges
  MaxBlock,     \* bound on the chain
  MaxChanges    \* bound on the changes of TIG and of the host

Challenges == [type : Types, round : 0..1, pinned : BOOLEAN]

VARIABLES
  config,       \* network, acquired commit, container acknowledgement, lease
  head,         \* TIG's newest block
  document,     \* the checksum of the hosted OpenAPI document
  broken,       \* the endpoints that fail or answer without a collection
  offer,        \* offer[b]: the challenges TIG lists as of block b
  player,       \* the player TIG holds for the configured identity
  keyFile,      \* the file the credential is read from
  changes,      \* changes so far
  pc,           \* where the starting process is
  anchor,       \* the block the evidence is read at, 0 when it was not read
  evidence,     \* evidence[c]: what the process observed for check c
  met           \* the checks the world met at some moment since the start

worldVars == <<head, document, broken, offer, player, keyFile>>
vars == <<config, worldVars, changes, pc, anchor, evidence, met>>

Endpoints == {"get-block", "get-challenges", "get-algorithms", "get-opow",
              "get-benchmarks"}
Checks == 1..9
KeyFiles == {"absent", "shared", "foreign", "blank", "good"}
Configs == [network : {"testnet", "mainnet"}, commit : {"pinned", "moved", "none"},
            ack : {"none", "blank", "reason"}, leaseOutlasts : BOOLEAN]

(* An observation is the set of what was seen; an error is no observation. *)
Err == {}

(* The steps of run, in order.                                             *)
Steps == <<"key", "lease", "anchor", "openapi", "get-block", "get-challenges",
           "get-algorithms", "get-opow", "get-benchmarks", "runtimes", "placement",
           "player", "evaluate">>
After(step) == Steps[(CHOOSE n \in 1..12 : Steps[n] = step) + 1]

(***************************************************************************)
(* What a check asks of the world (tig_integration.md 13)                  *)
(***************************************************************************)

(* The block's round is the block's height here; a challenge of a later    *)
(* round is not yet active.                                                *)
ActiveServed(list, round) == {c \in list : c.type \in Served /\ c.round <= round}

(* Check 5 is put to five answers, at five moments, and check 7 to the      *)
(* build: neither is a condition of one moment.                            *)
Asks(c) ==
  /\ c = 1 => config.network = "testnet"
  /\ c = 2 => config.commit = "pinned"
  /\ c = 3 => config.ack = "reason"
  /\ c = 4 => document = "pinned"
  /\ c = 6 => /\ anchor # 0
              /\ \A x \in ActiveServed(offer[anchor], anchor) : x.pinned
              /\ Served \subseteq {x.type : x \in offer[anchor]}
  /\ c = 8 => keyFile \in {"good", "blank"}
  /\ c = 9 => player = "configured"

Note(checks) == met' = met \cup {c \in checks : Asks(c)}

(***************************************************************************)
(* The evidence                                                            *)
(***************************************************************************)
Exit == pc' = "exited" /\ UNCHANGED <<anchor, evidence, met>>

Observe(step, c, value) ==
  /\ pc' = After(step)
  /\ evidence' = [evidence EXCEPT ![c] = value]
  /\ Note({c})
  /\ UNCHANGED anchor

(* credential::load: a private, non-empty file, whoever owns it.           *)
Load ==
  /\ pc = "key"
  /\ IF keyFile \in {"foreign", "good"}
     THEN pc' = "lease" /\ UNCHANGED <<anchor, evidence, met>>
     ELSE Exit
  /\ UNCHANGED <<config, worldVars, changes>>

(* lease_outlasts_call, and the evidence that needs no read.               *)
LeaseOutlastsCall ==
  /\ pc = "lease"
  /\ IF config.leaseOutlasts
     THEN /\ pc' = "anchor"
          /\ evidence' = [evidence EXCEPT ![1] = {config.network},
                ![2] = IF config.commit = "none" THEN Err ELSE {config.commit},
                ![3] = {config.ack}, ![7] = {"holds"}]
          /\ Note({1, 2, 3, 7})
          /\ UNCHANGED anchor
     ELSE Exit
  /\ UNCHANGED <<config, worldVars, changes>>

(* anchor_block: one block for checks 5, 6 and 9.                          *)
AnchorBlock ==
  /\ pc = "anchor"
  /\ pc' = "openapi"
  /\ anchor' = IF "get-block" \in broken THEN 0 ELSE head
  /\ UNCHANGED <<config, worldVars, changes, evidence, met>>

(* openapi_checksum, from its own host: the read may fail.                 *)
OpenApiChecksum ==
  /\ pc = "openapi"
  /\ \E value \in {{document}, Err} : Observe("openapi", 4, value)
  /\ UNCHANGED <<config, worldVars, changes>>

(* response_models: the endpoints one by one; the evidence is the set of   *)
(* those that validated.                                                   *)
ResponseModel(e) ==
  /\ pc = e
  /\ Observe(e, 5, IF anchor = 0 THEN Err ELSE evidence[5] \cup ({e} \ broken))
  /\ UNCHANGED <<config, worldVars, changes>>

Pinning(c) == IF c.pinned THEN "pinned" ELSE "unpinned"

\* Mutant: a served type no challenge declares is not looked for.
RuntimesOf(list, round) ==
  IF list = {} THEN Err
  ELSE {"listed"} \cup {Pinning(c) : c \in ActiveServed(list, round)}

(* active_challenge_runtimes: whether the runtime of each active, served   *)
(* challenge is pinned.  An empty list, or a served type that no challenge *)
(* of the list declares, is an error.                                      *)
ActiveChallengeRuntimes(list, round) ==
  IF list = {} \/ ~(Served \subseteq {c.type : c \in list}) THEN Err
  ELSE {"listed"} \cup {Pinning(c) : c \in ActiveServed(list, round)}

Runtimes ==
  /\ pc = "runtimes"
  /\ Observe("runtimes", 6,
       IF anchor = 0 \/ "get-challenges" \in broken THEN Err
       ELSE ActiveChallengeRuntimes(offer[anchor], anchor))
  /\ UNCHANGED <<config, worldVars, changes>>

(* api_key_placement: the file is looked at again; a mode open to others,  *)
(* or another owner, is within reach of the member services.               *)
ApiKeyPlacement(file) ==
  CASE file = "absent" -> Err
    [] file \in {"shared", "foreign"} -> {"shared"}
    [] OTHER -> {"private"}

Placement ==
  /\ pc = "placement"
  /\ Observe("placement", 8, ApiKeyPlacement(keyFile))
  /\ UNCHANGED <<config, worldVars, changes>>

(* confirmed_pool_player_id *)
PoolPlayerId ==
  /\ pc = "player"
  /\ \E value \in {{player}, Err} :
       Observe("player", 9, IF anchor = 0 \/ player = "none" THEN Err ELSE value)
  /\ UNCHANGED <<config, worldVars, changes>>

(***************************************************************************)
(* evaluate: the checks that fail.  One is enough, and all are reported.   *)
(***************************************************************************)
Passes(e) ==
  {c \in Checks :
     /\ e[c] # Err
     /\ c = 1 => e[c] = {"testnet"}
     /\ c \in {2, 4} => e[c] = {"pinned"}
     /\ c = 3 => e[c] = {"reason"}
     /\ c = 5 => e[c] = Endpoints
     /\ c = 6 => "unpinned" \notin e[c]
     /\ c = 8 => e[c] = {"private"}
     /\ c = 9 => e[c] = {"configured"}}

Evaluate ==
  /\ pc = "evaluate"
  /\ pc' = IF Checks \subseteq Passes(evidence) THEN "open" ELSE "exited"
  /\ UNCHANGED <<config, worldVars, changes, anchor, evidence, met>>

(* The loop: a window of confirmed precommits at the newest block, and a   *)
(* pass.  A window that cannot be read costs the pass; nothing closes the  *)
(* gate.                                                                   *)
Loop ==
  /\ pc = "open"
  /\ anchor' = IF {"get-block", "get-benchmarks"} \cap broken = {} THEN head ELSE anchor
  /\ UNCHANGED <<config, worldVars, changes, pc, evidence, met>>

(* The operator starts the process again. *)
Restart ==
  /\ pc \in {"exited", "open"}
  /\ pc' = "key" /\ anchor' = 0 /\ met' = {}
  /\ evidence' = [c \in Checks |-> Err]
  /\ UNCHANGED <<config, worldVars, changes>>

(***************************************************************************)
(* TIG, and the host                                                       *)
(***************************************************************************)
Change ==
  /\ changes < MaxChanges /\ changes' = changes + 1
  /\ \/ head < MaxBlock /\ head' = head + 1
        /\ UNCHANGED <<document, broken, player, keyFile>>
     \/ document' \in {"pinned", "moved"}
        /\ UNCHANGED <<head, broken, player, keyFile>>
     \/ (\E e \in Endpoints : broken' \in {{}, {e}})
        /\ UNCHANGED <<head, document, player, keyFile>>
     \/ player' \in {"configured", "other", "none"}
        /\ UNCHANGED <<head, document, broken, keyFile>>
     \/ keyFile' \in KeyFiles /\ UNCHANGED <<head, document, broken, player>>
  /\ UNCHANGED <<config, offer, pc, anchor, evidence, met>>

Init ==
  /\ config \in Configs
  /\ head = 1 /\ document = "pinned" /\ broken = {} /\ player = "configured"
  /\ offer \in [1..MaxBlock -> Offers] /\ keyFile \in KeyFiles
  /\ changes = 0
  /\ pc = "key" /\ anchor = 0 /\ met = {}
  /\ evidence = [c \in Checks |-> Err]

Next ==
  \/ Load \/ LeaseOutlastsCall \/ AnchorBlock \/ OpenApiChecksum
  \/ \E e \in Endpoints : ResponseModel(e)
  \/ Runtimes \/ Placement \/ PoolPlayerId \/ Evaluate \/ Loop \/ Restart
  \/ Change

Spec == Init /\ [][Next]_vars

(***************************************************************************)
(* Properties                                                              *)
(***************************************************************************)
TypeOK ==
  /\ config \in Configs /\ head \in 1..MaxBlock /\ anchor \in 0..MaxBlock
  /\ broken \subseteq Endpoints /\ offer \in [1..MaxBlock -> Offers] /\ keyFile \in KeyFiles
  /\ pc \in {Steps[n] : n \in DOMAIN Steps} \cup {"open", "exited"}
  /\ DOMAIN evidence = Checks /\ met \subseteq Checks

(* Writes are enabled only when each of the nine conditions was true of    *)
(* TIG and of the host at some moment since this start, in whatever order  *)
(* they changed while the evidence was gathered (readiness.rs: "every      *)
(* check must hold").                                                      *)
OpenIsEarned == pc = "open" => met = Checks

(* While the gate is open the credential is accepted and the schema is the *)
(* one that was checked (write_gate.rs:4: "takes it away when TIG stops    *)
(* accepting the credential or the schema stops matching").                *)
TakenAway == [][pc = "open" /\ pc' = "open" /\ anchor' # anchor =>
                  document = "pinned" /\ player = "configured"]_vars

=============================================================================
