------------------------------- MODULE Upload -------------------------------
(***************************************************************************)
(* The upload of a proof package (spike pool.rs, behind the signed routes  *)
(* of authed.rs): declaration, chunks appended to a ledger of ranges, and  *)
(* the saga that verifies, publishes and accepts the package.  Requests    *)
(* run in handlers, which take no lock except for finalizing; a crash      *)
(* stops all of them, and may tear the line being appended.                *)
(*                                                                         *)
(* An upload is named by its declaration, from which its id is derived.    *)
(* A package is Size units of one content; all packages belong to one      *)
(* assignment.  Refusals that change nothing are left out.                 *)
(***************************************************************************)
EXTENDS Naturals, Sequences, FiniteSets, SequencesExt

CONSTANTS
  Handlers, Uploads,
  PackageOf,         \* the package an upload declares
  Contents,
  Declared,          \* the content an upload declares
  Size,              \* the declared size, in units
  None, Torn, Garbled,
  MaxTime, MaxFaults, MaxTears   \* bounds on the clock, on crashes and on torn lines

VARIABLES
  now,
  index,       \* uploads-by-package: the upload of a package, or None
  bound,       \* the uploads bound to their worker
  created,     \* the uploads whose creation was answered
  objects,     \* quarantined chunks
  ledger,      \* the lines of an upload's ranges.jsonl
  acked,       \* the highest offset acknowledged
  published,   \* accepted objects: package and content
  acceptance,  \* the acceptance document of a package, or None
  receipts,    \* the receipts handed out
  handler,     \* the request a handler runs, or None
  faults, tears

vars == <<now, index, bound, created, objects, ledger, acked, published,
          acceptance, receipts, handler, faults, tears>>

Packages == {PackageOf[u] : u \in Uploads}
Chunks == [offset : 0 .. Size - 1, length : 1 .. Size, content : Contents]

Idle(h) == handler[h] = None
At(h, step) == ~Idle(h) /\ handler[h].at = step
Run(h, step, u, arg) == handler' = [handler EXCEPT ![h] = [at |-> step, upload |-> u, arg |-> arg]]
Done(h) == handler' = [handler EXCEPT ![h] = None]

(***************************************************************************)
(* The ledger: read_ranges, append_range, committed_offset                 *)
(***************************************************************************)
(* The lines that end in a newline.                                        *)
Complete(u) ==
  IF ledger[u] # <<>> /\ Last(ledger[u]) = Torn THEN Front(ledger[u]) ELSE ledger[u]

EndOf(ranges) == IF ranges = <<>> THEN 0 ELSE Last(ranges).offset + Last(ranges).length

Readable(u) ==
  LET ranges == Complete(u)
  IN /\ Garbled \notin ToSet(ranges)
     /\ \A n \in 1 .. Len(ranges) :
          ranges[n].offset = EndOf(SubSeq(ranges, 1, n - 1))

Committed(u) == EndOf(Complete(u))

(* An append goes to the end of the file, so it continues a torn line.     *)
Appended(u, line) ==
  IF Complete(u) = ledger[u] THEN Append(ledger[u], line) ELSE Append(Complete(u), Garbled)

(***************************************************************************)
(* create_upload                                                           *)
(***************************************************************************)

DeclaredAlike(u) == index[PackageOf[u]] \in {None, u}

(* Another package of the assignment has been accepted.                    *)
AcceptedOther(p) == \E q \in Packages \ {p} : acceptance[q] # None

CreateUpload(h, u) ==
  /\ Idle(h) /\ ~AcceptedOther(PackageOf[u])
  /\ DeclaredAlike(u)
  /\ index[PackageOf[u]] = u => Readable(u)
  /\ Run(h, IF index[PackageOf[u]] = u THEN "bind" ELSE "index", u, None)
  /\ UNCHANGED <<now, index, bound, created, objects, ledger, acked, published,
                 acceptance, receipts, faults, tears>>

WriteIndex(h) ==
  LET u == handler[h].upload
  IN /\ At(h, "index")
     /\ index' = [index EXCEPT ![PackageOf[u]] = u]
     /\ Run(h, "bind", u, None)
     /\ UNCHANGED <<now, bound, created, objects, ledger, acked, published,
                    acceptance, receipts, faults, tears>>

BindUpload(h) ==
  /\ At(h, "bind")
  /\ bound' = bound \union {handler[h].upload}
  /\ created' = created \union {handler[h].upload}
  /\ Done(h)
  /\ UNCHANGED <<now, index, objects, ledger, acked, published, acceptance,
                 receipts, faults, tears>>

(***************************************************************************)
(* put_chunk                                                               *)
(***************************************************************************)
Max2(a, b) == IF a < b THEN b ELSE a

(* A range that is in the ledger is acknowledged again.                    *)
RetryChunk(h, u, c) ==
  /\ Idle(h) /\ u \in bound /\ Readable(u)
  /\ c.offset < Committed(u) /\ Contains(Complete(u), c)
  /\ acked' = [acked EXCEPT ![u] = Max2(@, Committed(u))]
  /\ UNCHANGED <<now, index, bound, created, objects, ledger, published,
                 acceptance, receipts, handler, faults, tears>>

WithinDeclared(c) == c.offset + c.length <= Size

(* chunk_path                                                              *)
ChunkKey(o) == <<o[1], o[2].offset, o[2].length, o[2].content>>

\* Mutant: a chunk left by a crash is not adopted.
OrphanRefused(u, c) == <<u, c>> \notin objects

(* An object that a crash left under the chunk's key is adopted when its   *)
(* content is the chunk's, and conflicts otherwise.                        *)
Adoptable(u, c) ==
  \A o \in objects : ChunkKey(o) = ChunkKey(<<u, c>>) => o[2].content = c.content

PutChunk(h, u, c) ==
  /\ Idle(h) /\ u \in bound /\ Readable(u)
  /\ c.offset = Committed(u) /\ WithinDeclared(c) /\ Adoptable(u, c)
  /\ Run(h, "object", u, c)
  /\ UNCHANGED <<now, index, bound, created, objects, ledger, acked, published,
                 acceptance, receipts, faults, tears>>

WriteObject(h) ==
  LET u == handler[h].upload  c == handler[h].arg
  IN /\ At(h, "object")
     /\ objects' = objects \union {<<u, c>>}
     /\ Run(h, "append", u, c)
     /\ UNCHANGED <<now, index, bound, created, ledger, acked, published,
                    acceptance, receipts, faults, tears>>

AppendRange(h) ==
  LET u == handler[h].upload  c == handler[h].arg
  IN /\ At(h, "append")
     /\ ledger' = [ledger EXCEPT ![u] = Appended(u, c)]
     /\ Run(h, "chunk-answer", u, c)
     /\ UNCHANGED <<now, index, bound, created, objects, acked, published,
                    acceptance, receipts, faults, tears>>

\* Mutant: the offset is acknowledged once the object is written.
AnswerEarly(h) == At(h, "append") \/ At(h, "chunk-answer")

MayAnswer(h) == At(h, "chunk-answer")

AnswerChunk(h) ==
  LET u == handler[h].upload  c == handler[h].arg
  IN /\ MayAnswer(h)
     /\ acked' = [acked EXCEPT ![u] = Max2(@, c.offset + c.length)]
     /\ Done(h)
     /\ UNCHANGED <<now, index, bound, created, objects, ledger, published,
                    acceptance, receipts, faults, tears>>

(***************************************************************************)
(* finalize: the accept lock is held from the first check to the answer    *)
(***************************************************************************)
Finalizing(h) == At(h, "publish") \/ At(h, "commit") \/ At(h, "receipt")

AcceptLockFree == \A h \in Handlers : ~Finalizing(h)

(* The stored receipt, or one with the current time.                       *)
FinalizeAgain(h, u) ==
  /\ Idle(h) /\ u \in bound /\ AcceptLockFree
  /\ acceptance[PackageOf[u]] # None
  /\ Run(h, "receipt", acceptance[PackageOf[u]].upload, acceptance[PackageOf[u]])
  /\ UNCHANGED <<now, index, bound, created, objects, ledger, acked, published,
                 acceptance, receipts, faults, tears>>

(* ChunkStream and stream_sha256: the ranges' objects hold the content     *)
(* declared.                                                               *)
StreamMatches(u) ==
  \A n \in 1 .. Len(Complete(u)) :
    /\ <<u, Complete(u)[n]>> \in objects
    /\ Complete(u)[n].content = Declared[u]

\* Mutant: the other packages of the assignment are not looked at.
NotAcceptedItself(p) == acceptance[p] = None

NotAccepted(p) == acceptance[p] = None /\ ~AcceptedOther(p)

Finalize(h, u) ==
  LET p == PackageOf[u]
  IN /\ Idle(h) /\ u \in bound /\ AcceptLockFree
     /\ index[p] # None /\ NotAccepted(p)
     /\ Readable(index[p]) /\ Committed(index[p]) = Size /\ StreamMatches(index[p])
     /\ Run(h, "publish", index[p], None)
     /\ UNCHANGED <<now, index, bound, created, objects, ledger, acked, published,
                    acceptance, receipts, faults, tears>>

(* The object at the deterministic key, written or verified.               *)
PublishedWith(u) == published \union {<<PackageOf[u], Declared[u]>>}

Publish(h) ==
  LET u == handler[h].upload
  IN /\ At(h, "publish")
     /\ published' = PublishedWith(u)
     /\ Run(h, "commit", u, None)
     /\ UNCHANGED <<now, index, bound, created, objects, ledger, acked,
                    acceptance, receipts, faults, tears>>

Commit(h) ==
  LET u == handler[h].upload
      doc == [upload |-> u, at |-> now]
  IN /\ At(h, "commit")
     /\ acceptance' = [acceptance EXCEPT ![PackageOf[u]] = doc]
     /\ Run(h, "receipt", u, doc)
     /\ UNCHANGED <<now, index, bound, created, objects, ledger, acked, published,
                    receipts, faults, tears>>

AnswerReceipt(h) ==
  /\ At(h, "receipt")
  /\ receipts' = receipts \union {<<PackageOf[handler[h].upload], handler[h].arg>>}
  /\ Done(h)
  /\ UNCHANGED <<now, index, bound, created, objects, ledger, acked, published,
                 acceptance, faults, tears>>

(* upload_status: the offset in the ledger, and the receipt if accepted    *)
UploadStatus(h, u) ==
  LET p == PackageOf[u]
  IN /\ Idle(h) /\ u \in bound /\ Readable(u)
     /\ acked' = [acked EXCEPT ![u] = Max2(@, Committed(u))]
     /\ receipts' = IF acceptance[p] = None THEN receipts
                    ELSE receipts \union {<<p, acceptance[p]>>}
     /\ UNCHANGED <<now, index, bound, created, objects, ledger, published,
                    acceptance, handler, faults, tears>>

(***************************************************************************)
(* Faults and time                                                         *)
(***************************************************************************)
Crash ==
  /\ faults < MaxFaults
  /\ faults' = faults + 1
  /\ handler' = [h \in Handlers |-> None]
  /\ UNCHANGED <<now, index, bound, created, objects, ledger, acked, published,
                 acceptance, receipts, tears>>

(* The process dies with a line half written.                              *)
TornAppend(h) ==
  LET u == handler[h].upload
  IN /\ At(h, "append") /\ tears < MaxTears
     /\ ledger[u] = Complete(u)
     /\ ledger' = [ledger EXCEPT ![u] = Append(@, Torn)]
     /\ tears' = tears + 1
     /\ handler' = [g \in Handlers |-> None]
     /\ UNCHANGED <<now, index, bound, created, objects, acked, published,
                    acceptance, receipts, faults>>

Tick ==
  /\ now < MaxTime /\ now' = now + 1
  /\ UNCHANGED <<index, bound, created, objects, ledger, acked, published,
                 acceptance, receipts, handler, faults, tears>>

Init ==
  /\ now = 0
  /\ index = [p \in Packages |-> None] /\ bound = {} /\ created = {}
  /\ objects = {} /\ ledger = [u \in Uploads |-> <<>>] /\ acked = [u \in Uploads |-> 0]
  /\ published = {} /\ acceptance = [p \in Packages |-> None] /\ receipts = {}
  /\ handler = [h \in Handlers |-> None]
  /\ faults = 0 /\ tears = 0

(* What a handler does with the request it has taken.                      *)
Step(h) ==
  \/ WriteIndex(h) \/ BindUpload(h)
  \/ WriteObject(h) \/ AppendRange(h) \/ AnswerChunk(h)
  \/ Publish(h) \/ Commit(h) \/ AnswerReceipt(h)

Request(h, u) ==
  \/ CreateUpload(h, u)
  \/ \E c \in Chunks : PutChunk(h, u, c) \/ RetryChunk(h, u, c)
  \/ Finalize(h, u) \/ FinalizeAgain(h, u) \/ UploadStatus(h, u)

Next ==
  \/ \E h \in Handlers : Step(h) \/ TornAppend(h) \/ \E u \in Uploads : Request(h, u)
  \/ Crash \/ Tick

Spec == Init /\ [][Next]_vars

(***************************************************************************)
(* Properties                                                              *)
(***************************************************************************)
(* Lines are ranges within the declared size or the traces of a torn       *)
(* append, and what is accepted names an upload of its package.            *)
TypeOK ==
  /\ \A u \in Uploads : /\ ToSet(ledger[u]) \subseteq Chunks \union {Torn, Garbled}
                        /\ acked[u] \in 0 .. Size
                        /\ \A c \in ToSet(ledger[u]) \ {Torn, Garbled} : c.offset + c.length <= Size
  /\ \A p \in Packages : acceptance[p] # None =>
       acceptance[p].upload \in {u \in bound : PackageOf[u] = p} /\ acceptance[p].at \in 0 .. now

(* put_chunk: the acknowledged offset never runs ahead of durable state,   *)
(* which is a ledger that can be read back.                                *)
AckedIsDurable ==
  \A u \in Uploads : acked[u] > 0 => Readable(u) /\ acked[u] <= Committed(u)

(* read_ranges: a torn line is not committed and is ignored; the ledger    *)
(* stays readable.                                                         *)
LedgerStaysReadable == \A u \in Uploads : Readable(u)

(* create_upload: a changed declaration of a package conflicts, so of the  *)
(* declarations of a package one is ever answered.                         *)
OneDeclaration ==
  \A u, v \in created : PackageOf[u] = PackageOf[v] => u = v

(* finalize accepts one package of an assignment, once and for all: the    *)
(* accepted store holds the content declared for it, no other package is   *)
(* accepted beside it, and every answer, first or repeated, carries the    *)
(* same receipt; with several finalizations under way and a crash between  *)
(* publication and commit.                                                 *)
AcceptanceIsFinal ==
  /\ \A p \in Packages : acceptance[p] # None =>
       <<p, Declared[acceptance[p].upload]>> \in published
  /\ Cardinality({p \in Packages : acceptance[p] # None}) <= 1
  /\ \A x, y \in receipts : x[1] = y[1] => x = y

(* A member who keeps trying gets a receipt, crashes notwithstanding.      *)
UploadCompletes == <>(receipts # {})

=============================================================================
