----------------------------- MODULE MCGateway ------------------------------
(***************************************************************************)
(* What the TIG gateway does besides the precommit loop, for TLC: its      *)
(* start (Readiness), the gate and the lane within the process (WriteGate),*)
(* and the benchmark commitment (Commitment).  The three share no state in *)
(* the code.  A behaviour is one of one of them, named by part; variables  *)
(* of one name serve whichever module is running.                          *)
(***************************************************************************)
EXTENDS Naturals, FiniteSets, Sequences, TLC

CONSTANTS
  Workflows, Gateways, Artifacts, Bodies, WellFormed, MaxAttempts,
  Served, Types, MaxBlock, MaxChanges,
  Tasks, Causes, Gap, MaxTime, MaxGrants,
  None           \* the value of a variable that is not in use

VARIABLES
  part,
  state, accepted, built, intent, attempt, aged, live, job, gw, tig, requests,
  current, held,
  config, head, document, broken, offer, player, keyFile, changes, anchor,
  evidence, met,
  gate, inFlight, grants, permit, wake, last, slots, departures, lost, now,
  pc             \* of a starting process, or of the tasks

Challenge(t, r, p) == [type |-> t, round |-> r, pinned |-> p]

(* A pinned cpu challenge; an unpinned one beside a pinned one; gpu        *)
(* challenges only.                                                        *)
Offers ==
  {{Challenge("cpu", 1, TRUE), Challenge("gpu", 1, FALSE)},
   {Challenge("cpu", 1, FALSE), Challenge("cpu", 0, TRUE)},
   {Challenge("gpu", 1, TRUE)}}

(* "none" marks what is absent and names no workflow; a process has        *)
(* finitely many tasks.                                                    *)
ASSUME GatewayAssumption ==
  /\ "none" \notin Workflows
  /\ IsFiniteSet(Tasks)
  /\ Gap \in Nat

C == INSTANCE Commitment
R == INSTANCE Readiness
W == INSTANCE WriteGate

cVars == <<state, accepted, built, intent, attempt, aged, live, job, gw, tig,
           requests, current, held>>
rVars == <<config, head, document, broken, offer, player, keyFile, changes, anchor,
           evidence, met>>
wVars == <<gate, inFlight, grants, permit, wake, last, slots, departures, lost, now>>

OffC == /\ state = None /\ accepted = None /\ built = None /\ intent = None
        /\ attempt = None /\ aged = None /\ live = None /\ job = None /\ gw = None
        /\ tig = None /\ requests = None /\ current = None /\ held = None
OffR == /\ config = None /\ head = None /\ document = None /\ broken = None
        /\ offer = None /\ player = None /\ keyFile = None /\ changes = None
        /\ anchor = None /\ evidence = None /\ met = None
OffW == /\ gate = None /\ inFlight = None /\ grants = None /\ permit = None
        /\ wake = None /\ last = None /\ slots = None /\ departures = None
        /\ lost = None /\ now = None

(* The gate: tasks side by side and several grants, in a short time.  The  *)
(* lane: one task at a time, for longer.                                   *)
Within ==
  /\ part = "gate" => now <= 2
  /\ part = "lane" => grants = 1 /\ Cardinality({t \in Tasks : pc[t] # "idle"}) <= 1

Init ==
  \/ part = "commitment" /\ C!Init /\ OffR /\ OffW /\ pc = None
  \/ part = "readiness" /\ R!Init /\ OffC /\ OffW
  \/ part \in {"gate", "lane"} /\ W!Init /\ OffC /\ OffR

Next ==
  /\ UNCHANGED part
  /\ \/ /\ part = "commitment" /\ C!Next
        /\ UNCHANGED <<rVars, wVars, pc>>
     \/ /\ part = "readiness" /\ R!Next
        /\ UNCHANGED <<cVars, wVars>>
     \/ /\ part \in {"gate", "lane"} /\ W!Next /\ Within'
        /\ UNCHANGED <<cVars, rVars>>

Spec == Init /\ [][Next]_<<part, cVars, rVars, wVars, pc>>

Symmetry == Permutations(Gateways)

(***************************************************************************)
(* The properties of the parts                                             *)
(***************************************************************************)
TypeOK == /\ part = "commitment" => C!TypeOK
          /\ part = "readiness" => R!TypeOK

(* One request per benchmark leaves for TIG, with the recorded body        *)
(* (drive.rs handle_benchmark, migration 0015), and the refusal or         *)
(* acceptance recorded for it is TIG's own (claim.rs decide_benchmark,     *)
(* transmit.rs).                                                           *)
CommitmentsAreTrue == part = "commitment" => C!OneCommitment /\ C!RefusalsAreTigs

(* No intent against the real TIG rests on a stub (commit.rs, stub.rs).    *)
StubNeverPromoted == [][part = "commitment" => C!NoStubEnters]_cVars

(* Writes are enabled only when each of the nine checks was met since the  *)
(* start (readiness.rs evaluate).                                          *)
OpenIsEarned == part = "readiness" => R!OpenIsEarned

(* The gate counts the permits that are held (write_gate.rs).              *)
InFlightCounts == part \in {"gate", "lane"} => W!InFlightCounts

(* The gate blocks with the cause that was reported (write_gate.rs revoke).*)
FirstCauseStays == part \in {"gate", "lane"} => W!FirstCauseStays

(* One task at a time takes slots the gap apart (lane.rs take_slot).       *)
SlotsArePaced == part = "lane" => W!SlotsArePaced

=============================================================================
