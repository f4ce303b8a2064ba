---------------------------- MODULE Credentials -----------------------------
(***************************************************************************)
(* The identity service (pool-identity service.rs, store.rs): tickets,     *)
(* enrolment, signed requests, rotation, revocation and recovery over a    *)
(* store of documents.  An operation holds the writer lock, decides from   *)
(* what it reads, and writes its documents one by one, each atomically; a  *)
(* crash or a failed write leaves the ones already written.                *)
(*                                                                         *)
(* A worker is named by its enrolment, since its id is derived from it;    *)
(* signatures and proofs of possession are taken as valid.                 *)
(***************************************************************************)
EXTENDS DocStore, SequencesExt

CONSTANTS
  Enrollments, Rotations, Recoveries, Commands,  \* the callers' idempotency ids
  Tickets, Keys, Requests,
  Ttl, Grace, Freshness,   \* TICKET_TTL_SECS, ROTATION_GRACE_SECS, REQUEST_FRESHNESS_SECS
  MaxTime,                 \* bound on the clock
  MaxFaults                \* bound on crashes and failed writes

VARIABLES
  now,
  op,           \* the operation that holds the lock, or None
  callers,      \* verified requests to rotate that have not been served
  acks,         \* the answers that were given
  faults

vars == <<now, store, op, callers, acks, faults>>

Credential(c) == ReadDoc(<<"credential", c>>)
Worker(w) == ReadDoc(<<"worker", w>>)
Ticket(t) == ReadDoc(<<"ticket", t>>)
Marked(w) == {a[3] : a \in {x \in List("marker") : x[2] = w}}

(* The result recorded under an idempotency id: check_command, and the     *)
(* records of enrolments, rotations and recoveries.                        *)
Recorded(key) == ReadDoc(<<"record", key>>)

Active == [status |-> "ACTIVE", reason |-> None]

\* Mutant: the worker is told of its result before it is written.
RecordFirst(key, content, answer, writes) ==
  <<Doc(<<"record", key>>, [content |-> content, answer |-> answer])>> \o writes

(* The writes of an operation, its record last.                            *)
RecordLast(key, content, answer, writes) ==
  Append(writes, Doc(<<"record", key>>, [content |-> content, answer |-> answer]))

Answer(c, old) == [credential |-> c, old |-> old, at |-> now]

Begin(key, content, answer, writes) ==
  /\ op = None /\ Recorded(key) = None
  /\ op' = [key |-> key, content |-> content, answer |-> answer,
            todo |-> RecordLast(key, content, answer, writes)]

(***************************************************************************)
(* Tickets                                                                 *)
(***************************************************************************)
CreateTicket(t, doc) ==
  /\ op = None /\ Ticket(t) = None
  /\ store' = Written(Doc(<<"ticket", t>>, doc))
  /\ UNCHANGED <<now, op, callers, acks, faults>>

CreateEnrollmentTicket(t) ==
  CreateTicket(t, [purpose |-> "enrollment", worker |-> None, expires |-> now + Ttl])

(* Refused for a worker that was revoked for security.                     *)
CreateRecoveryTicket(t, w) ==
  /\ Worker(w) # None /\ Worker(w).reason # "SECURITY"
  /\ CreateTicket(t, [purpose |-> "recovery", worker |-> w, expires |-> now + Ttl])

(* claim_ticket *)
Claimable(t, purpose, w, id) ==
  /\ Ticket(t) # None /\ Ticket(t).purpose = purpose
  /\ now < Ticket(t).expires
  /\ w # None => Ticket(t).worker = w
  /\ ReadDoc(<<"claim", t>>) \in {None, id}

ClaimTicket(t, id) ==
  IF ReadDoc(<<"claim", t>>) = None THEN <<Doc(<<"claim", t>>, id)>> ELSE <<>>

(* write_credential: the document and its enumeration marker.              *)
WriteCredential(c, w, k) ==
  <<Doc(<<"credential", c>>, [worker |-> w, key |-> k, revoked |-> FALSE, revokesAt |-> None]),
    Doc(<<"marker", w, c>>, TRUE)>>

(***************************************************************************)
(* enroll                                                                  *)
(***************************************************************************)
Enroll(e, t, k) ==
  LET c == <<"enroll", e>> IN
  /\ Claimable(t, "enrollment", None, e)
  /\ Begin(<<"enrollment", e>>, <<t, k>>, Answer(c, None),
           ClaimTicket(t, e) \o WriteCredential(c, e, k) \o <<Doc(<<"worker", e>>, Active)>>)
  /\ UNCHANGED <<now, store, callers, acks, faults>>

(***************************************************************************)
(* verify_request.  A client signs with a credential it was told of, and a *)
(* request to rotate goes on to rotate when the lock is free again.        *)
(***************************************************************************)
Told == {a.answer.credential : a \in acks} \ {None}

Expired(c) == Credential(c).revokesAt # None /\ now >= Credential(c).revokesAt
Live(c) == Credential(c) # None /\ ~Credential(c).revoked /\ ~Expired(c)

NotReplayed(c, q, content) == ReadDoc(<<"replay", c, q>>) \in {None, content}

VerifyRequest(c, q, signedAt) ==
  LET w == Credential(c).worker IN
  /\ op = None /\ c \in Told
  /\ Worker(w) # None /\ Live(c) /\ Worker(w).status = "ACTIVE"
  /\ now <= signedAt + Freshness /\ signedAt <= now + Freshness
  /\ NotReplayed(c, q, signedAt)
  /\ store' = Written(Doc(<<"replay", c, q>>, signedAt))
  /\ callers' = callers \cup {[worker |-> w, credential |-> c]}
  /\ acks' = acks \cup {[key |-> <<"request", c, q>>, content |-> signedAt,
                         answer |-> [credential |-> None, old |-> None, at |-> 0]]}
  /\ UNCHANGED <<now, op, faults>>

(***************************************************************************)
(* rotate, for a caller that was verified earlier                          *)
(***************************************************************************)

\* Mutant: the old credential's document is made anew.
ExpiringAnew(c) == [worker |-> Credential(c).worker, key |-> Credential(c).key,
                    revoked |-> FALSE, revokesAt |-> now + Grace]

Expiring(c) == [Credential(c) EXCEPT !.revokesAt = now + Grace]

Rotate(caller, r, k) ==
  LET w == caller.worker
      c == <<"rotation", w, r>>
      old == caller.credential
  IN
  /\ caller \in callers
  /\ Begin(<<"rotation", w, r>>, k, Answer(c, old),
           WriteCredential(c, w, k) \o <<Doc(<<"credential", old>>, Expiring(old))>>)
  /\ callers' = callers \ {caller}
  /\ UNCHANGED <<now, store, acks, faults>>

(***************************************************************************)
(* Commands of a member or an operator                                     *)
(***************************************************************************)
Command(m, content, writes) ==
  /\ Begin(<<"command", m>>, content, Answer(None, None), writes)
  /\ UNCHANGED <<now, store, callers, acks, faults>>

RevokeCredential(m, c) ==
  /\ Credential(c) # None
  /\ Command(m, <<"revoke_credential", c>>,
             <<Doc(<<"credential", c>>, [Credential(c) EXCEPT !.revoked = TRUE])>>)

(* A SECURITY revocation is not downgraded.                                *)
MayRevoke(w, reason) ==
  Worker(w) # None /\ ~(Worker(w).reason = "SECURITY" /\ reason = "ACCIDENTAL")

RevokeWorker(m, w, reason) ==
  /\ MayRevoke(w, reason)
  /\ Command(m, <<"revoke_worker", w, reason>>,
             <<Doc(<<"worker", w>>, [status |-> "REVOKED", reason |-> reason])>>)

ReinstateWorker(m, w) ==
  /\ Worker(w) # None
  /\ Command(m, <<"reinstate_worker", w>>, <<Doc(<<"worker", w>>, Active)>>)

(***************************************************************************)
(* recover_worker                                                          *)
(***************************************************************************)

OldCredentials(w, c) == {o \in Marked(w) \ {c} : ~Credential(o).revoked}

RecoverWorker(x, w, t, k) ==
  LET c == <<"recovery", w, x>>
      revoke(o) == Doc(<<"credential", o>>, [Credential(o) EXCEPT !.revoked = TRUE])
      olds == SetToSeq(OldCredentials(w, c))
  IN
  /\ Worker(w) # None /\ Worker(w).reason # "SECURITY"
  /\ Claimable(t, "recovery", w, x)
  /\ Begin(<<"recovery", x>>, <<w, t, k>>, Answer(c, None),
           ClaimTicket(t, x) \o WriteCredential(c, w, k)
             \o [i \in 1..Len(olds) |-> revoke(olds[i])]
             \o (IF Worker(w).status = "ACTIVE" THEN <<>> ELSE <<Doc(<<"worker", w>>, Active)>>))
  /\ UNCHANGED <<now, store, callers, acks, faults>>

(***************************************************************************)
(* The steps of an operation                                               *)
(***************************************************************************)

\* Mutant: the answer is made again.
RetryAnew(key) ==
  /\ op = None /\ Recorded(key) # None
  /\ op' = [key |-> key, content |-> Recorded(key).content, todo |-> <<>>,
            answer |-> [Recorded(key).answer EXCEPT !.at = now]]
  /\ UNCHANGED <<now, store, callers, acks, faults>>

(* The same request again, after its result was recorded.                  *)
Retry(key) ==
  /\ op = None /\ Recorded(key) # None
  /\ op' = [key |-> key, content |-> Recorded(key).content,
            answer |-> Recorded(key).answer, todo |-> <<>>]
  /\ UNCHANGED <<now, store, callers, acks, faults>>

WriteDoc ==
  /\ op # None /\ op.todo # <<>>
  /\ store' = Written(Head(op.todo))
  /\ op' = [op EXCEPT !.todo = Tail(@)]
  /\ UNCHANGED <<now, callers, acks, faults>>

Respond ==
  /\ op # None /\ op.todo = <<>>
  /\ acks' = acks \cup {[key |-> op.key, content |-> op.content, answer |-> op.answer]}
  /\ op' = None
  /\ UNCHANGED <<now, store, callers, faults>>

(* A crash, a failed write, or a failed audit record.                      *)
Interrupted ==
  /\ op # None /\ faults < MaxFaults
  /\ op' = None
  /\ faults' = faults + 1
  /\ UNCHANGED <<now, store, callers, acks>>

Tick ==
  /\ now < MaxTime
  /\ now' = now + 1
  /\ UNCHANGED <<store, op, callers, acks, faults>>

Init ==
  /\ now = 0 /\ StoreInit /\ op = None
  /\ callers = {} /\ acks = {} /\ faults = 0

CredentialIds == {a[2] : a \in List("credential")}

Next ==
  \/ \E t \in Tickets :
       \/ CreateEnrollmentTicket(t)
       \/ \E w \in Enrollments : CreateRecoveryTicket(t, w)
       \/ \E k \in Keys : \/ \E e \in Enrollments : Enroll(e, t, k)
                          \/ \E x \in Recoveries, w \in Enrollments : RecoverWorker(x, w, t, k)
  \/ \E c \in CredentialIds, q \in Requests, s \in 0..MaxTime : VerifyRequest(c, q, s)
  \/ \E caller \in callers, r \in Rotations, k \in Keys : Rotate(caller, r, k)
  \/ \E m \in Commands :
       \/ \E c \in CredentialIds : RevokeCredential(m, c)
       \/ \E w \in Enrollments :
            ReinstateWorker(m, w) \/ \E why \in {"ACCIDENTAL", "SECURITY"} : RevokeWorker(m, w, why)
  \/ \E a \in List("record") : Retry(a[2])
  \/ WriteDoc \/ Respond \/ Interrupted \/ Tick

Spec == Init /\ [][Next]_vars

(***************************************************************************)
(* Properties                                                              *)
(***************************************************************************)
Issued == {a \in acks : a.key[1] \in {"enrollment", "rotation", "recovery"}}

(* The path of a document says what it is.                                 *)
TypeOK ==
  /\ now \in 0..MaxTime /\ faults \in 0..MaxFaults
  /\ \A c \in CredentialIds :
       /\ Credential(c).worker \in Enrollments /\ Credential(c).key \in Keys
       /\ Credential(c).revoked \in BOOLEAN
  /\ \A w \in Enrollments : Worker(w) # None => Worker(w).status \in {"ACTIVE", "REVOKED"}
  /\ \A x \in callers : x.worker \in Enrollments /\ x.credential \in CredentialIds

(* A ticket yields one enrolment or recovery, over crashes, retries and    *)
(* other requests that hold the same ticket (service.rs:455 claim_ticket). *)
TicketUsedOnce ==
  LET spent(a) == a.content[Len(a.content) - 1] IN
  \A a, b \in {x \in acks : x.key[1] \in {"enrollment", "recovery"}} :
    spent(a) = spent(b) => a.key = b.key

(* An idempotency id has one content and one answer for ever, byte for     *)
(* byte (service.rs:520, :821, :1093).                                     *)
SameAnswer == \A a, b \in acks : a.key = b.key => a = b

(* A client that has its answer has a durable credential with its key, an  *)
(* enumeration marker for recovery, a worker and a record, wherever the    *)
(* operation was cut before (service.rs:617: the record is the "commit     *)
(* point").                                                                *)
AnsweredIsDurable ==
  \A a \in Issued :
    LET c == a.answer.credential
        w == Credential(c).worker
    IN /\ Credential(c) # None /\ c \in Marked(w) /\ Worker(w) # None
       /\ <<"record", a.key>> \in DOMAIN store
       /\ Credential(c).key \in (IF a.key[1] = "rotation" THEN {a.content}
                                 ELSE {a.content[Len(a.content)]})

(* A credential that a client was told of and that is revoked is never     *)
(* usable again, not even when a rotation verified before the revocation   *)
(* is served after it (service.rs:861: only revokes_at is written).        *)
RevokedStays == \A c \in Told : Credential(c).revoked => Credential(c)'.revoked

(* When a recovery is on record, every credential a client was told of     *)
(* before is revoked, whether or not it was expiring (service.rs:1158).    *)
RecoverySweeps ==
  \A x \in Recoveries, w \in Enrollments :
    (Recorded(<<"recovery", x>>) = None /\ Recorded(<<"recovery", x>>)' # None
       /\ op.content[1] = w)
    => \A c \in Told : Credential(c).worker = w => Credential(c)'.revoked

(* A SECURITY revocation of a worker whose client has its answer ends only *)
(* by reinstate_worker (service.rs:999).                                   *)
SecurityStays ==
  \A w \in {a.key[2] : a \in {x \in acks : x.key[1] = "enrollment"}} :
    Worker(w).reason = "SECURITY" =>
      Worker(w)'.reason = "SECURITY" \/ op.content = <<"reinstate_worker", w>>

(* "a stored SECURITY reason can never be laundered [...] only the         *)
(* explicit, audited `reinstate_worker` decision clears it" (service.rs:   *)
(* 999-1003), for every worker on record.                                  *)
SecurityIsMonotonic ==
  [][\A w \in Enrollments :
       Worker(w) # None /\ Worker(w).reason = "SECURITY" =>
         Worker(w)'.reason = "SECURITY" \/ op.content = <<"reinstate_worker", w>>]_vars

(* "The old credential stays valid for the declared grace period, then     *)
(* becomes REVOKED" (service.rs:859).                                      *)
GraceEnds ==
  \A a \in acks :
    a.key[1] = "rotation" /\ now >= a.answer.at + Grace => ~Live(a.answer.old)

=============================================================================
