---------------------------- MODULE MCDocuments -----------------------------
(***************************************************************************)
(* The services that keep their state in documents on disk, for TLC: the   *)
(* workers' credentials, the slots and assignments, and the uploads.  A    *)
(* behaviour is one of one of them, named by shape.name, within the bounds *)
(* of its shape; variables of one name serve whichever module is running.  *)
(***************************************************************************)
EXTENDS Naturals, FiniteSets, Sequences, TLC

CONSTANTS
  Enrollments, Rotations, Recoveries, Commands, Tickets, Keys, Requests, Ttl, Grace,
  Freshness,
  Workers, SlotKeys, Benchmarks, Digests, Registrations, Qualifications, Offers,
  Issuances,
  Handlers, u1, u2, u3, p1, p2, x, y, Size, Torn, Garbled,
  None, MaxTime, MaxFaults, MaxTears

VARIABLES
  shape,
  now, store, op, callers, acks, faults, offering,
  index, bound, created, objects, ledger, acked, published, acceptance, receipts,
  handler, tears

(* Two declarations of one package, and another package.                   *)
Uploads == {u1, u2, u3}
PackageOf == u1 :> p1 @@ u2 :> p1 @@ u3 :> p2
Contents == {x, y}
Declared == u1 :> x @@ u2 :> y @@ u3 :> x

C == INSTANCE Credentials
A == INSTANCE Assignments
U == INSTANCE Upload

uVars == <<index, bound, created, objects, ledger, acked, published, acceptance,
           receipts, handler, tears>>

OffU == /\ index = None /\ bound = None /\ created = None /\ objects = None
        /\ ledger = None /\ acked = None /\ published = None /\ acceptance = None
        /\ receipts = None /\ handler = None /\ tears = None

One(S) == {CHOOSE e \in S : TRUE}

(* Two enrolments contend for tickets; one worker with every operation;    *)
(* one worker, two commands and two recoveries; issuances and retries;     *)
(* slots, qualifications and offers; one handler with two declarations;    *)
(* two handlers with two packages, each sent whole.                        *)
Shapes ==
  {[name |-> "credentials", kinds |-> {"enrollment"}, ids |-> Enrollments,
    keys |-> Keys, time |-> MaxTime, faults |-> MaxFaults],
   [name |-> "credentials",
    kinds |-> {"enrollment", "rotation", "recovery", "command"},
    ids |-> One(Enrollments) \cup One(Rotations) \cup One(Recoveries) \cup One(Commands),
    keys |-> One(Keys), time |-> 1, faults |-> 0],
   [name |-> "credentials", kinds |-> {"enrollment", "recovery", "command"},
    ids |-> One(Enrollments) \cup Recoveries \cup Commands,
    keys |-> One(Keys), time |-> 0, faults |-> 1],
   [name |-> "assignments", kinds |-> {"registration", "command", "issuance"},
    ids |-> One(Registrations) \cup One(Qualifications) \cup Issuances,
    keys |-> One(SlotKeys), time |-> 0, faults |-> MaxFaults],
   [name |-> "assignments", kinds |-> {"registration", "command", "offer"},
    ids |-> Registrations \cup Qualifications, keys |-> SlotKeys, time |-> 0, faults |-> 1],
   [name |-> "upload", kinds |-> {"one"}, ids |-> {u1, u2}, keys |-> {}, time |-> 0,
    faults |-> MaxFaults],
   [name |-> "upload", kinds |-> {"one", "two"}, ids |-> {u1, u3}, keys |-> {}, time |-> 1,
    faults |-> 1]}

(* The key an operation on credentials or slots is about.                  *)
KeysOf(o) ==
  CASE o.key[1] = "enrollment" -> {o.content[2]}
    [] o.key[1] = "recovery" -> {o.content[3]}
    [] o.key[1] = "rotation" -> {o.content}
    [] o.key[1] = "registration" -> {o.answer[2]}
    [] OTHER -> {}

OpWithin(s) ==
  op # None => /\ op.key[1] \in s.kinds /\ op.key[Len(op.key)] \in s.ids
               /\ KeysOf(op) \subseteq s.keys

Within(s) ==
  /\ faults <= s.faults
  /\ s.name = "credentials" =>
       /\ OpWithin(s) /\ now <= s.time
       /\ callers = {} \/ "rotation" \in s.kinds
       /\ \A p \in DOMAIN store : p[1] = "ticket" => store[p].purpose \in s.kinds
  /\ s.name = "assignments" => OpWithin(s) /\ (offering = {} \/ "offer" \in s.kinds)
  /\ s.name = "upload" =>
       LET busy == {h \in Handlers : handler[h] # None} IN
       /\ now <= s.time /\ Cardinality(busy) <= Cardinality(s.kinds)
       /\ \A h \in busy : handler[h].upload \in s.ids
       /\ IF "two" \in s.kinds
          THEN \A o \in objects : o[2].length = Size /\ o[2].content = Declared[o[1]]
          ELSE tears = 0

Init ==
  /\ shape \in Shapes
  /\ \/ shape.name = "credentials" /\ C!Init /\ offering = None /\ OffU
     \/ shape.name = "assignments" /\ A!Init /\ now = None /\ callers = None /\ OffU
     \/ /\ shape.name = "upload" /\ U!Init
        /\ store = None /\ op = None /\ callers = None /\ acks = None /\ offering = None

Next ==
  /\ UNCHANGED shape
  /\ \/ shape.name = "credentials" /\ C!Next /\ UNCHANGED <<offering, uVars>>
     \/ shape.name = "assignments" /\ A!Next /\ UNCHANGED <<now, callers, uVars>>
     \/ shape.name = "upload" /\ U!Next /\ UNCHANGED <<store, op, callers, acks, offering>>
  /\ Within(shape)'

vars == <<shape, now, store, op, callers, acks, faults, offering, uVars>>

Spec == Init /\ [][Next]_vars

(***************************************************************************)
(* The properties of the parts                                             *)
(***************************************************************************)
In(name) == shape.name = name

TypeOK == /\ In("credentials") => C!TypeOK
          /\ In("assignments") => A!TypeOK
          /\ In("upload") => U!TypeOK

(* A ticket buys one enrolment or recovery (claim_ticket).                 *)
TicketUsedOnce == In("credentials") => C!TicketUsedOnce

(* An idempotency id has one answer (enroll, rotate, recover_worker).      *)
SameAnswer == In("credentials") => C!SameAnswer

(* An answered client has a durable credential (RecordLast's order).       *)
AnsweredIsDurable == In("credentials") => C!AnsweredIsDurable

(* A revoked credential stays revoked (rotate, revoke_credential).         *)
RevocationSticks == [][In("credentials") => C!RevokedStays]_vars

(* A recovery revokes what came before it (recover_worker).                *)
RecoveryRevokesAll == [][In("credentials") => C!RecoverySweeps]_vars

(* Only reinstate_worker ends a SECURITY revocation (revoke_worker).       *)
SecurityIsKept == [][In("credentials") => C!SecurityStays]_vars

(* One slot per key of a worker (register_slot).                           *)
OneSlotPerKey == In("assignments") => A!OneSlotPerKey

(* Mappings and records are never replaced (issue_assignment,              *)
(* record_capacity_offer).                                                 *)
MappingsAreForEver == [][In("assignments") => A!MappingsStay]_vars

(* Retries make no extra generation (issue_and_register_assignment).       *)
NoExtraGeneration == In("assignments") => A!NoExtraGeneration

(* While nothing fails, a slot has one open assignment (register_assignment*)
(* and acceptances).                                                       *)
OneOpenAssignment == In("assignments") => A!OneOpenAssignment

(* With one handler, what is acknowledged is durable (put_chunk).          *)
AckedIsDurable == In("upload") /\ "two" \notin shape.kinds => U!AckedIsDurable

(* With one handler, a package has one declaration (create_upload).        *)
OneDeclaration == In("upload") /\ "two" \notin shape.kinds => U!OneDeclaration

(* An accepted package is published, the only one of its assignment, and   *)
(* answered with one receipt (finalize and its lock).                      *)
AcceptanceIsFinal == In("upload") => U!AcceptanceIsFinal

=============================================================================
