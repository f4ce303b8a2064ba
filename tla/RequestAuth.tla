---------------------------- MODULE RequestAuth -----------------------------
(***************************************************************************)
(* The Pool API's verification of a signed request (pool-api auth.rs,      *)
(* migrations 0023 to 0025): each statement is its own transaction, and    *)
(* requests interleave with each other, with revocations and with the      *)
(* deletion of records that are due.                                       *)
(*                                                                         *)
(* The requests are those of one worker's credential with the right        *)
(* version and signature; two with the same id differ by what they sign,   *)
(* which includes the timestamp.  The API and the database read one clock. *)
(***************************************************************************)
EXTENDS Naturals, FiniteSets

CONSTANTS
  Handlers, RequestIds, Bodies,
  Skew,               \* REQUEST_CLOCK_SKEW_SECONDS
  Memory,             \* REPLAY_MEMORY
  MaxTime,            \* bound on the clock
  MaxFaults,          \* bound on statements that fail
  None

ASSUME RequestAuthAssumption ==
  Skew \in Nat /\ Memory \in Nat /\ None \notin Nat

VARIABLES
  now,
  credential,   \* worker_credential and worker: "ACTIVE" or "REVOKED"
  notAfter,     \* the end of the credential's grace, or None
  replay,       \* request_replay: the rows
  audit,        \* audit_event: the reuses recorded, by id and what was signed
  handler,      \* the request a handler verifies, or None
  taken,        \* history: the requests that were inserted, and when
  faults

vars == <<now, credential, notAfter, replay, audit, handler, taken, faults>>

Requests == [id : RequestIds, timestamp : 0 .. MaxTime, body : Bodies]

At(h, step) == handler[h] # None /\ handler[h].at = step
Goto(h, step) == handler' = [handler EXCEPT ![h].at = step]
Finish(h) == handler' = [handler EXCEPT ![h] = None]

(* May the credential be used at this moment?                              *)
Usable == credential = "ACTIVE" /\ (notAfter # None => now < notAfter)

\* Mutant: a request that is known already is accepted at once.
VerifyKnownFirst(h, r) ==
  /\ handler[h] = None
  /\ handler' = [handler EXCEPT ![h] =
       [at |-> IF \E row \in replay : row.request = r THEN "accepted" ELSE "binding",
        request |-> r, started |-> now, usable |-> Usable]]
  /\ UNCHANGED <<now, credential, notAfter, replay, audit, taken, faults>>

(* verify: the clock is read, then the key is looked up and the signature  *)
(* checked.  "usable" remembers what was true when the request came in.    *)
Verify(h, r) ==
  /\ handler[h] = None
  /\ handler' = [handler EXCEPT ![h] =
       [at |-> "binding", request |-> r, started |-> now, usable |-> Usable]]
  /\ UNCHANGED <<now, credential, notAfter, replay, audit, taken, faults>>

StateAllows == Usable

Fresh(r, at) == r.timestamp <= at + Skew /\ at <= r.timestamp + Skew

ReadBinding(h) ==
  /\ At(h, "binding") /\ StateAllows
  /\ Fresh(handler[h].request, handler[h].started)
  /\ Goto(h, "record")
  /\ UNCHANGED <<now, credential, notAfter, replay, audit, taken, faults>>

(* Not active, past its grace, or stale.                                   *)
Refuse(h) ==
  /\ At(h, "binding")
  /\ ~StateAllows \/ ~Fresh(handler[h].request, handler[h].started)
  /\ Finish(h)
  /\ UNCHANGED <<now, credential, notAfter, replay, audit, taken, faults>>

RowsOf(r) == {row \in replay : row.request.id = r.id}

\* Mutant: a row is inserted beside the one that is there.
NeverConflicts(r) == TRUE

Inserts(r) == RowsOf(r) = {}

MemoryWritten == Memory

Insert(r) ==
  /\ replay' = replay \union {[request |-> r, forgetAfter |-> now + MemoryWritten]}
  /\ taken' = taken \union {[request |-> r, at |-> now]}

(* record_attempt: the insertion does nothing on a conflict.               *)
RecordAttempt(h) ==
  LET r == handler[h].request
  IN /\ At(h, "record")
     /\ IF Inserts(r)
        THEN Insert(r) /\ Goto(h, "accepted")
        ELSE UNCHANGED <<replay, taken>> /\ Goto(h, "compare")
     /\ UNCHANGED <<now, credential, notAfter, audit, faults>>

(* The row that was in the way: the same bytes are a retry, other bytes    *)
(* are a reuse.  A row deleted in the meantime makes the read fail.        *)
Compare(h) ==
  LET r == handler[h].request
  IN /\ At(h, "compare")
     /\ \/ \E row \in RowsOf(r) : row.request = r /\ Goto(h, "accepted")
        \/ \E row \in RowsOf(r) : row.request # r /\ Goto(h, "audit")
        \/ RowsOf(r) = {} /\ Finish(h)
     /\ UNCHANGED <<now, credential, notAfter, replay, audit, taken, faults>>

(* audit_reuse, and the refusal that depends on it                         *)
AuditReuse(h) ==
  /\ At(h, "audit")
  /\ audit' = audit \union {handler[h].request}
  /\ Goto(h, "reused")
  /\ UNCHANGED <<now, credential, notAfter, replay, taken, faults>>

(* The request is accepted, or refused as a reuse.                         *)
Answer(h) ==
  /\ At(h, "accepted") \/ At(h, "reused")
  /\ Finish(h)
  /\ UNCHANGED <<now, credential, notAfter, replay, audit, taken, faults>>

(* The caller is asked to try again.                                       *)
Unavailable(h) == Finish(h)

(* A statement fails.                                                      *)
Fail(h) ==
  /\ handler[h] # None /\ ~At(h, "accepted") /\ ~At(h, "reused") /\ faults < MaxFaults
  /\ Unavailable(h)
  /\ faults' = faults + 1
  /\ UNCHANGED <<now, credential, notAfter, replay, audit, taken>>

(* A statement takes effect and its answer is lost.                        *)
LoseAnswer(h) ==
  LET r == handler[h].request
  IN /\ faults < MaxFaults
     /\ \/ At(h, "record") /\ Inserts(r) /\ Insert(r) /\ UNCHANGED audit
        \/ At(h, "audit") /\ audit' = audit \union {r} /\ UNCHANGED <<replay, taken>>
     /\ Unavailable(h)
     /\ faults' = faults + 1
     /\ UNCHANGED <<now, credential, notAfter>>

Due(row) == now >= row.forgetAfter

(* A row may be deleted once it is due.                                    *)
Forget(row) ==
  /\ row \in replay /\ Due(row)
  /\ replay' = replay \ {row}
  /\ UNCHANGED <<now, credential, notAfter, audit, handler, taken, faults>>

(* The credential or its worker is revoked; the credential is rotated and  *)
(* enters its grace.                                                       *)
Revoke ==
  /\ credential = "ACTIVE" /\ credential' = "REVOKED"
  /\ UNCHANGED <<now, notAfter, replay, audit, handler, taken, faults>>

BeginGrace ==
  /\ notAfter = None /\ notAfter' = now + 1
  /\ UNCHANGED <<now, credential, replay, audit, handler, taken, faults>>

Tick ==
  /\ now < MaxTime /\ now' = now + 1
  /\ UNCHANGED <<credential, notAfter, replay, audit, handler, taken, faults>>

Init ==
  /\ now = 0 /\ credential = "ACTIVE" /\ notAfter = None
  /\ replay = {} /\ audit = {} /\ handler = [h \in Handlers |-> None]
  /\ taken = {} /\ faults = 0

Next ==
  \/ \E h \in Handlers :
       \/ \E r \in Requests : Verify(h, r)
       \/ ReadBinding(h) \/ Refuse(h) \/ RecordAttempt(h)
       \/ Compare(h) \/ AuditReuse(h) \/ Answer(h)
       \/ Fail(h) \/ LoseAnswer(h)
  \/ \E row \in replay : Forget(row)
  \/ Revoke \/ BeginGrace \/ Tick

Spec == Init /\ [][Next]_vars

(***************************************************************************)
(* Properties                                                              *)
(***************************************************************************)
Flight == [at : {"binding", "record", "accepted", "compare", "audit", "reused"},
           request : Requests, started : Nat, usable : BOOLEAN]

(* Every variable has its type, and an id has one row.                     *)
TypeOK ==
  /\ now \in Nat /\ notAfter \in Nat \union {None}
  /\ handler \in [Handlers -> Flight \union {None}]
  /\ taken \subseteq [request : Requests, at : Nat]
  /\ replay \subseteq [request : Requests, forgetAfter : Nat]
  /\ \A row, other \in replay : row.request.id = other.request.id => row = other

AcceptedIsTaken ==
  \A h \in Handlers : At(h, "accepted") => \E t \in taken : t.request = handler[h].request

ApartInTime ==
  \A a, b \in taken :
    a.request.id = b.request.id /\ a # b => a.at + Memory <= b.at \/ b.at + Memory <= a.at

(* What is accepted was recorded, then or by an earlier attempt, and two   *)
(* requests under one id that sign different bytes are never both recorded *)
(* within the memory of the first, however their statements interleave,    *)
(* fail or lose their answers, and whatever is deleted in between.         *)
OneRequestPerId == AcceptedIsTaken /\ ApartInTime

(* A revocation, or the end of the grace, takes effect on the next         *)
(* request: what comes in after it is not accepted.                        *)
RevocationIsImmediate == \A h \in Handlers : At(h, "accepted") => handler[h].usable

(* A reuse is rejected and audited: no refusal without its row.            *)
ReuseIsAudited == \A h \in Handlers : At(h, "reused") => handler[h].request \in audit

(***************************************************************************)
(* The inductive invariant: a request that was taken is either still       *)
(* remembered or past its memory, and a credential that could not be used  *)
(* when a request came in can never be used again.                         *)
(***************************************************************************)
Remembered ==
  \A t \in taken :
    /\ t.at <= now
    /\ now < t.at + Memory =>
         \E row \in replay : /\ row.request.id = t.request.id
                             /\ row.forgetAfter >= t.at + Memory

RowsAreTaken == \A row \in replay : \E t \in taken : t.request = row.request

UnusableStays ==
  \A h \in Handlers : handler[h] # None /\ ~handler[h].usable => ~Usable

PastBinding == {"record", "compare", "audit", "accepted", "reused"}

OnlyUsablePass ==
  \A h \in Handlers : handler[h] # None /\ handler[h].at \in PastBinding => handler[h].usable

IInv ==
  /\ TypeOK
  /\ Remembered /\ RowsAreTaken /\ OneRequestPerId
  /\ UnusableStays /\ OnlyUsablePass /\ ReuseIsAudited

=============================================================================
