---------------------------- MODULE Assignments -----------------------------
(***************************************************************************)
(* Slots, offers and assignments: the identity service's documents         *)
(* (pool-identity service.rs) and the spike pool's (spike pool.rs), with   *)
(* the issuance that spans both (spike authed.rs).                         *)
(*                                                                         *)
(* An operation decides from what it reads and then writes its documents   *)
(* one by one.  Registrations, qualifications and issuances run one at a   *)
(* time: those of one kind share a lock, and those of two kinds touch      *)
(* different documents.  Offers and acceptances interleave with them.  A   *)
(* slot released under a running issuance stays released, so what the      *)
(* issuance decided on remains true while it writes.                       *)
(*                                                                         *)
(* A slot is named by its worker and registration and an assignment by its *)
(* issuance, from which their ids are derived.  Workers are active.        *)
(***************************************************************************)
EXTENDS DocStore, FiniteSets

CONSTANTS
  Workers, SlotKeys, Benchmarks, Digests,
  Registrations, Qualifications, Offers, Issuances,   \* the callers' idempotency ids
  MaxFaults                                           \* bound on crashes and failed writes

VARIABLES
  op,        \* the registration, qualification or issuance under way, or None
  offering,  \* offers that saw their slot free and are not yet recorded
  acks,      \* the answers that were given: kind, idempotency id, answer
  faults

vars == <<store, op, offering, acks, faults>>

Slots == Workers \X Registrations

(* slot_grant and SlotGrant::is_qualified                                  *)
SlotGrant(s) == ReadDoc(<<"slot", s>>)
IsQualified(grant) == grant.qualifiedGeneration = grant.generation

Begin(key, answer, todo, ok) ==
  /\ op = None
  /\ op' = [key |-> key, answer |-> answer, todo |-> todo, ok |-> ok]
  /\ UNCHANGED <<store, offering, acks, faults>>

Record(key, content, answer) ==
  Doc(<<"record", key>>, [content |-> content, answer |-> answer])
Recorded(key) == ReadDoc(<<"record", key>>)

(* A recorded request again: the same content gets the recorded answer, a  *)
(* different one is a conflict.                                            *)
Replay(key, content) ==
  /\ op = None
  /\ Recorded(key) # None /\ Recorded(key).content = content
  /\ acks' = acks \union {<<key, Recorded(key).answer>>}
  /\ UNCHANGED <<store, op, offering, faults>>

(***************************************************************************)
(* Slots                                                                   *)
(***************************************************************************)

(* The slot of a worker's key, or a new one.                               *)
SlotFor(w, g, k) ==
  LET known == ReadDoc(<<"slot-index", w, k>>)
  IN IF known = None THEN <<w, g>> ELSE known

RegisterSlot(w, g, k) ==
  LET key == <<"registration", w, g>>
      slot == SlotFor(w, g, k)
      grant == [worker |-> w, key |-> k, generation |-> 1, qualifiedGeneration |-> 0]
      answer == <<w, k, slot>>
      new == IF slot = <<w, g>> /\ ReadDoc(<<"slot-index", w, k>>) # slot
             THEN <<Doc(<<"slot", slot>>, grant), Doc(<<"slot-index", w, k>>, slot)>>
             ELSE <<>>
  IN \/ Replay(key, k)
     \/ /\ Recorded(key) = None
        /\ Begin(key, answer, Append(new, Record(key, k, answer)), TRUE)

MarkSlotQualified(s, q) ==
  LET key == <<"command", q>>
  IN \/ Replay(key, s)
     \/ /\ Recorded(key) = None /\ SlotGrant(s) # None
        /\ Begin(key, s,
             << Doc(<<"slot", s>>,
                    [SlotGrant(s) EXCEPT !.qualifiedGeneration = SlotGrant(s).generation]),
                Record(key, s, s) >>, TRUE)

(***************************************************************************)
(* The pool's slots: slot_view and release_count                           *)
(***************************************************************************)
View(s) == ReadDoc(<<"pool-slot", s>>)

Acceptances == {store[p] : p \in List("acceptance")}

Releases(s, generation) ==
  {p \in List("acceptance") : store[p].slot = s /\ store[p].generation = generation}

Occupied(s) == View(s) # None /\ Releases(s, View(s).generation) = {}

(***************************************************************************)
(* Offers: offer_capacity looks at the slot, and record_capacity_offer     *)
(* records the offer under the identity service's lock later.              *)
(***************************************************************************)
OfferCapacity(w, o, s) ==
  /\ SlotGrant(s) # None /\ SlotGrant(s).worker = w
  /\ ~Occupied(s)
  /\ offering' = offering \union {<<w, o, s>>}
  /\ UNCHANGED <<store, op, acks, faults>>

OfferIsNew(w, o, s) == ReadDoc(<<"offer", w, o>>) \in {None, s}

RecordCapacityOffer(w, o, s) ==
  /\ <<w, o, s>> \in offering
  /\ IsQualified(SlotGrant(s))
  /\ OfferIsNew(w, o, s)
  /\ store' = Written(Doc(<<"offer", w, o>>, s))
  /\ acks' = acks \union {<<<<"offer", w, o>>, s>>}
  /\ offering' = offering \ {<<w, o, s>>}
  /\ UNCHANGED <<op, faults>>

(***************************************************************************)
(* Issuance                                                                *)
(***************************************************************************)

(* One TIG benchmark has one assignment.                                   *)
BenchmarkIsFree(i, b) == ReadDoc(<<"benchmark", b>>) \in {None, i}

(* issue_assignment, for an issuance that is not recorded yet              *)
MayIssue(i, w, s, b) ==
  /\ SlotGrant(s) # None /\ SlotGrant(s).worker = w
  /\ IsQualified(SlotGrant(s))
  /\ BenchmarkIsFree(i, b)

IssueAssignment(i, w, s, b, d) ==
  << Doc(<<"assignment", i>>, <<w, s, b>>),
     Doc(<<"benchmark", b>>, i),
     Record(<<"issuance", i>>, <<w, s, b, d>>, <<b, i>>) >>

\* Mutant: a replay reserves the slot like a fresh issuance.
GenerationAnew(view, i, replay) ==
  IF view = None THEN 1
  ELSE IF view.assignment = i THEN view.generation
  ELSE view.generation + 1

(* The generation at which the slot is registered; none (0) for a replay   *)
(* whose slot has gone to other work or was never occupied.                *)
Generation(view, i, replay) ==
  IF view # None /\ view.assignment = i THEN view.generation
  ELSE IF replay THEN 0
  ELSE IF view = None THEN 1
  ELSE view.generation + 1

(* offer_slot                                                              *)
Reserved(i, generation) ==
  [generation |-> generation, state |-> "RESERVED", assignment |-> i]

(* register_assignment: its writes up to the first conflict, and whether   *)
(* it gets through.                                                        *)
RegisterAssignment(i, s, d, generation, slotDoc) ==
  LET doc == [assignment |-> i, slot |-> s, generation |-> generation]
      index == ReadDoc(<<"pool-index", i>>)
      known == ReadDoc(<<"pool-assignment", d>>)
      uploading == [generation |-> generation, state |-> "UPLOADING", assignment |-> i]
      indexOk == index \in {None, d}
      digestOk == indexOk /\ known \in {None, doc}
      slotOk == digestOk /\ \/ slotDoc \in {None, uploading, Reserved(i, generation)}
                            \/ slotDoc.generation < generation
      Writes(ok, path, old, new) == IF ok /\ old # new THEN <<Doc(path, new)>> ELSE <<>>
  IN [ok |-> slotOk,
      todo |-> Writes(indexOk, <<"pool-index", i>>, index, d)
               \o Writes(digestOk, <<"pool-assignment", d>>, known, doc)
               \o Writes(slotOk, <<"pool-slot", s>>, slotDoc, uploading)]

(* issue_and_register_assignment: a fresh issuance needs a slot without    *)
(* open work; a recorded one needs the facts it was recorded with.         *)
IssueAndRegister(i, w, s, b, d) ==
  LET record == Recorded(<<"issuance", i>>)
      replay == record # None
      generation == Generation(View(s), i, replay)
      reserve == View(s) # None /\ generation > View(s).generation
      identity == IF replay THEN <<>> ELSE IssueAssignment(i, w, s, b, d)
      offer == IF reserve THEN <<Doc(<<"pool-slot", s>>, Reserved(i, generation))>> ELSE <<>>
      slotDoc == IF reserve THEN Reserved(i, generation) ELSE View(s)
      register == IF generation = 0 THEN [ok |-> TRUE, todo |-> <<>>]
                  ELSE RegisterAssignment(i, s, d, generation, slotDoc)
  IN /\ IF replay THEN record.content = <<w, s, b, d>>
                  ELSE ~Occupied(s) /\ MayIssue(i, w, s, b)
     /\ Begin(<<"issuance", i>>, <<b, i>>, identity \o offer \o register.todo, register.ok)

(***************************************************************************)
(* Running an operation                                                    *)
(***************************************************************************)
WriteDoc ==
  /\ op # None /\ op.todo # <<>>
  /\ store' = Written(Head(op.todo))
  /\ op' = [op EXCEPT !.todo = Tail(@)]
  /\ UNCHANGED <<offering, acks, faults>>

Respond ==
  /\ op # None /\ op.todo = <<>>
  /\ op' = None
  /\ acks' = IF op.ok THEN acks \union {<<op.key, op.answer>>} ELSE acks
  /\ UNCHANGED <<store, offering, faults>>

(* The process dies, or a write fails and the operation returns an error.  *)
Interrupted ==
  /\ op # None /\ faults < MaxFaults
  /\ op' = None /\ faults' = faults + 1
  /\ UNCHANGED <<store, offering, acks>>

(* finalize commits the acceptance of an assignment's package, which       *)
(* releases the slot at the assignment's generation (see Upload).          *)
Accept(d) ==
  LET a == ReadDoc(<<"pool-assignment", d>>)
  IN /\ a # None
     /\ \A r \in Acceptances : r.assignment # a.assignment
     /\ store' = Written(Doc(<<"acceptance", d>>, a))
     /\ UNCHANGED <<op, offering, acks, faults>>

Init == StoreInit /\ op = None /\ offering = {} /\ acks = {} /\ faults = 0

Next ==
  \/ \E w \in Workers, g \in Registrations, k \in SlotKeys : RegisterSlot(w, g, k)
  \/ \E s \in Slots, q \in Qualifications : MarkSlotQualified(s, q)
  \/ \E w \in Workers, o \in Offers, s \in Slots :
       OfferCapacity(w, o, s) \/ RecordCapacityOffer(w, o, s)
  \/ \E i \in Issuances, w \in Workers, s \in Slots, b \in Benchmarks, d \in Digests :
       IssueAndRegister(i, w, s, b, d)
  \/ WriteDoc \/ Respond \/ Interrupted
  \/ \E d \in Digests : Accept(d)

Spec == Init /\ [][Next]_vars

(***************************************************************************)
(* Properties                                                              *)
(***************************************************************************)
(* The pool's documents of a slot and of its assignments are well formed:  *)
(* a generation is at most the number of issuances.                        *)
TypeOK ==
  /\ \A p \in List("pool-slot") : store[p] \in
       [generation : 1 .. Cardinality(Issuances), state : {"RESERVED", "UPLOADING"},
        assignment : Issuances]
  /\ \A p \in List("pool-assignment") : store[p] \in
       [assignment : Issuances, slot : Slots, generation : 1 .. Cardinality(Issuances)]
  /\ \A p \in List("slot-index") : SlotGrant(store[p]) # None

(* Whatever documents a crash leaves, and whichever registration id the    *)
(* worker tries again with, one key of a worker is answered with one slot. *)
OneSlotPerKey ==
  \A x, y \in {a \in acks : a[1][1] = "registration"} :
    x[2][1] = y[2][1] /\ x[2][2] = y[2][2] => x[2][3] = y[2][3]

(* The mapping of a benchmark to its assignment, the record of a request   *)
(* and the slot of an offer are never replaced, by retries, by requests    *)
(* under other ids, or after a crash that left only some of the documents. *)
MappingsStay ==
  \A p \in DOMAIN store :
    p[1] \in {"benchmark", "offer", "record"} => store'[p] = store[p]

(* A slot's generation goes up only for an issuance of its own: a retry    *)
(* makes no extra generation or reservation, also after a crash.           *)
NoExtraGeneration ==
  \A s \in Slots : View(s) # None =>
    View(s).generation <=
      Cardinality({i \in Issuances : /\ Recorded(<<"issuance", i>>) # None
                                     /\ Recorded(<<"issuance", i>>).content[2] = s})

(* At most one registered assignment of a slot awaits its package, while   *)
(* acceptances interleave with issuances and their retries, and nothing    *)
(* has failed.                                                             *)
OneOpenAssignment == faults = 0 =>
  \A x, y \in {p \in List("pool-assignment") :
                 \A r \in Acceptances : r.assignment # store[p].assignment} :
    store[x].slot = store[y].slot => x = y

(* No generation of a slot is released by two acceptances (release_count). *)
ReleasedOnce ==
  \A s \in Slots, g \in 1 .. Cardinality(Issuances) : Cardinality(Releases(s, g)) <= 1

=============================================================================
