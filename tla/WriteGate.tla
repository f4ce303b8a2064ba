----------------------------- MODULE WriteGate ------------------------------
(***************************************************************************)
(* The gate a write is admitted through and the lane it leaves by, within  *)
(* one gateway process (write_gate.rs, lane.rs, write_policy.rs): tasks    *)
(* that take a permit, wait for the lane's gap, and send, while another    *)
(* task may revoke WRITE_READY and restore it.                             *)
(***************************************************************************)
EXTENDS Naturals, FiniteSets, Sequences

CONSTANTS
  Tasks,         \* callers of the driver; one in the service of today
  Causes,        \* reasons to revoke
  Gap,           \* min_between_initial_writes
  MaxTime,       \* bound on the clock
  MaxGrants      \* bound on the restorations

VARIABLES
  gate,          \* Ready with the grant it was opened with, or Revoked
  inFlight,      \* in_flight
  grants,        \* how many times readiness was established
  pc,            \* pc[t]: where task t is
  permit,        \* permit[t]: the grant t was admitted under, 0 without one
  wake,          \* wake[t]: when t's sleep in take_slot ends
  last,          \* last_initial_write, none before the first
  slots,         \* when the lane's slots were taken
  departures,    \* when requests left
  lost,          \* the cause readiness was lost for, as the log has it
  now

vars == <<gate, inFlight, grants, pc, permit, wake, last, slots, departures, lost, now>>
laneVars == <<wake, last, slots, departures>>

Ready(n) == [open |-> TRUE, grant |-> n, cause |-> "none"]
Revoked(c) == [open |-> FALSE, grant |-> 0, cause |-> c]
Holders == {t \in Tasks : permit[t] # 0}

(* begin_write: Blocked, or a permit that keeps what it was admitted under.*)
BeginWrite(t) ==
  /\ pc[t] = "idle"
  /\ gate.open
  /\ inFlight' = inFlight + 1
  /\ permit' = [permit EXCEPT ![t] = gate.grant]
  /\ pc' = [pc EXCEPT ![t] = "admitted"]
  /\ UNCHANGED <<gate, grants, laneVars, lost, now>>

(* take_slot, under the lock: what is left of the gap.                     *)
ReadLane(t) ==
  /\ pc[t] = "admitted"
  /\ wake' = [wake EXCEPT ![t] = IF last = {} THEN now
       ELSE LET at == CHOOSE x \in last : TRUE
            IN  IF now - at < Gap THEN at + Gap ELSE now]
  /\ pc' = [pc EXCEPT ![t] = "sleeping"]
  /\ UNCHANGED <<gate, inFlight, grants, permit, last, slots, departures, lost, now>>

(* take_slot, after the sleep and under the lock again.                    *)
TakeSlot(t) ==
  /\ pc[t] = "sleeping" /\ wake[t] <= now
  /\ last' = {now}
  /\ slots' = Append(slots, now)
  /\ pc' = [pc EXCEPT ![t] = "slotted"]
  /\ UNCHANGED <<gate, inFlight, grants, permit, wake, departures, lost, now>>

(* The attempt is recorded and the request leaves, or the ledger refuses   *)
(* the attempt.                                                            *)
Send(t) ==
  /\ pc[t] = "slotted"
  /\ pc' = [pc EXCEPT ![t] = "done"]
  /\ departures' = Append(departures, now)
  /\ UNCHANGED <<gate, inFlight, grants, permit, wake, last, slots, lost, now>>

Refused(t) ==
  /\ pc[t] = "slotted"
  /\ pc' = [pc EXCEPT ![t] = "done"]
  /\ UNCHANGED <<gate, inFlight, grants, permit, laneVars, lost, now>>

(* The permit is dropped.                                                  *)
DropPermit(t) ==
  /\ pc[t] = "done"
  /\ inFlight' = IF inFlight = 0 THEN 0 ELSE inFlight - 1
  /\ permit' = [permit EXCEPT ![t] = 0]
  /\ pc' = [pc EXCEPT ![t] = "idle"]
  /\ UNCHANGED <<gate, grants, laneVars, lost, now>>

(* revoke: the first cause stays, and is the one that is reported.         *)
Revoke(c) ==
  /\ gate.open
  /\ gate' = Revoked(c)
  /\ lost' = {c}
  /\ UNCHANGED <<inFlight, grants, pc, permit, laneVars, now>>

\* Mutant: the gate is opened anew.
RestoreAfresh ==
  /\ ~gate.open /\ grants < MaxGrants
  /\ grants' = grants + 1
  /\ gate' = Ready(grants + 1)
  /\ inFlight' = 0
  /\ lost' = {}
  /\ UNCHANGED <<pc, permit, laneVars, now>>

(* restore: new readiness; the writes in flight stay in flight.            *)
Restore ==
  /\ ~gate.open /\ grants < MaxGrants
  /\ grants' = grants + 1
  /\ gate' = Ready(grants + 1)
  /\ lost' = {}
  /\ UNCHANGED <<inFlight, pc, permit, laneVars, now>>

Tick ==
  /\ now < MaxTime
  /\ now' = now + 1
  /\ UNCHANGED <<gate, inFlight, grants, pc, permit, laneVars, lost>>

Init ==
  /\ gate = Ready(1) /\ inFlight = 0 /\ grants = 1
  /\ pc = [t \in Tasks |-> "idle"]
  /\ permit = [t \in Tasks |-> 0]
  /\ wake = [t \in Tasks |-> 0]
  /\ last = {} /\ slots = <<>> /\ departures = <<>>
  /\ lost = {} /\ now = 0

TaskStep(t) ==
  \/ BeginWrite(t) \/ ReadLane(t) \/ TakeSlot(t) \/ Send(t) \/ Refused(t) \/ DropPermit(t)

Next ==
  \/ \E t \in Tasks : TaskStep(t)
  \/ \E c \in Causes : Revoke(c)
  \/ Restore \/ Tick

Spec == Init /\ [][Next]_vars

(***************************************************************************)
(* Properties                                                              *)
(***************************************************************************)

(* The count of writes in flight is the number of permits held, across any *)
(* revocation and restoration, so the number the loss is logged with is    *)
(* the number of requests still to be accounted for (write_gate.rs,        *)
(* Drop: the saturation never saturates).                                  *)
InFlightCounts == inFlight = Cardinality(Holders)

(* The cause the gate blocks with is the one the loss was reported with.   *)
FirstCauseStays == ~gate.open => lost = {gate.cause}

(* Two slots of the lane are never less than the gap apart, when one task  *)
(* drives it (lane.rs take_slot).                                          *)
SlotsArePaced ==
  \A m, n \in 1..Len(slots) : m < n => slots[n] - slots[m] >= Gap

(* "pacing bounds when requests leave" (lane.rs:45): no two requests leave *)
(* less than the gap apart.                                                *)
DeparturesArePaced ==
  \A m, n \in 1..Len(departures) : m < n => departures[n] - departures[m] >= Gap

=============================================================================
