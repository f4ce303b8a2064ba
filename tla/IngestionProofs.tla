-------------------------- MODULE IngestionProofs ---------------------------
(***************************************************************************)
(* Proofs about Ingestion, for any controllers, reads, active sets,        *)
(* budget, attempts and length of the chain.                               *)
(*                                                                         *)
(* Neither SnapshotsAreWhole nor AnchorsAscend is inductive.  The first    *)
(* needs what a controller holds before it persists: which reads of its    *)
(* snapshot have been answered, and that the ids it has yet to read or     *)
(* could not read are all that the cache lacks (Sound).  The second needs  *)
(* that every anchor is a usable row still: rows only grow, so the newest  *)
(* usable row is no older than any of them (AdmittedWereUsable).           *)
(*                                                                         *)
(* What holds of a lone controller only, one decision per block and an     *)
(* exact record of the heights it missed, needs what it may rely on from   *)
(* its poll to its decision because nobody else writes (LoneInv).          *)
(***************************************************************************)
EXTENDS MCIngestion, NaturalsInduction, WellFoundedInduction, TLAPS

(***************************************************************************)
(* The types.  Block 0 stands for none.                                    *)
(***************************************************************************)
Blocks == 0..MaxHeight
AnyIds == UNION {ActiveIds[h] : h \in Blocks}
Responses == [block : Blocks, content : 0..2]
Assemblies ==
  [block : Blocks, reads : [Reads -> Responses], complete : BOOLEAN, ready : BOOLEAN]
Sights == [snap : Assemblies, usable : BOOLEAN, blocks : BOOLEAN]
Places ==
  {"poll", "known", "open", "read", "wanted", "fetch", "gap", "persist", "reconcile", "decide"}
Processes ==
  [pc : Places, mine : SUBSET Blocks,
   seen : Sights, cache : [Reads -> Responses], last : Blocks, snap : Assemblies,
   left : SUBSET Reads,
   attempt : Nat, ids : SUBSET AnyIds, spent : Nat, missing : SUBSET AnyIds,
   warmUp : BOOLEAN, blocks : BOOLEAN]

Typed ==
  /\ head \in Heights /\ rows \subseteq Assemblies
  /\ ctl \in [Controllers -> Processes] /\ admitted \in Seq(Blocks)

(***************************************************************************)
(* The inductive invariant                                                 *)
(***************************************************************************)

(* A snapshot under assembly: the reads in left are not there yet.         *)
Assembled(s, left) ==
  \A r \in Reads :
    s.reads[r].block \in IF s.complete /\ r \notin left THEN {s.block} ELSE {0, s.block}

Covered(s) == s.ready => ActiveIds[s.block] \subseteq retained

(* What a controller holds may become a row at its next step.              *)
Sound(me) ==
  /\ me.pc # "read" => me.left = {}
  /\ Assembled(me.snap, me.left) /\ Covered(me.snap)
  /\ Assembled(me.seen.snap, {}) /\ Covered(me.seen.snap)
  /\ me.pc = "fetch" => ActiveIds[me.snap.block] \subseteq retained \union me.ids \union me.missing

AdmittedWereUsable ==
  \A n \in 1..Len(admitted) : \E s \in rows : Usable(s) /\ s.block = admitted[n]

IInv ==
  /\ Typed
  /\ \A c \in Controllers : Sound(ctl[c])
  /\ SnapshotsAreWhole /\ AdmittedWereUsable /\ AnchorsAscend

(***************************************************************************)
(* Steps of one controller                                                 *)
(***************************************************************************)

(* A step that changes one controller, and no snapshot, id or admission.   *)
LEMMA ControllerStep ==
  ASSUME IInv, NEW c \in Controllers, NEW new \in Processes, Sound(new),
         Now(c, new), UNCHANGED <<head, rows, retained, admitted>>
  PROVE  IInv'
<1> USE DEF IInv, Now
<1>1. Typed'
  BY DEF Typed
<1>2. \A d \in Controllers : Sound(ctl[d])'
  <2> TAKE d \in Controllers
  <2>1. CASE d = c
    BY Zenon, <2>1 DEF Typed, Sound, Covered, Assembled
  <2>2. CASE d # c
    BY Zenon, <2>2 DEF Typed, Sound, Covered, Assembled
  <2> QED
    BY <2>1, <2>2
<1>3. SnapshotsAreWhole' /\ AdmittedWereUsable' /\ AnchorsAscend'
  BY DEF SnapshotsAreWhole, AdmittedWereUsable, AnchorsAscend, Usable
<1> QED
  BY <1>1, <1>2, <1>3

(* A process starts with nothing.                                          *)
LEMMA FreshIsTyped ==
  /\ NoSnapshot \in Assemblies
  /\ Fresh \in Processes /\ Fresh.pc = "poll" /\ Fresh.left = {} /\ Fresh.snap = NoSnapshot
  /\ Fresh.seen.snap = NoSnapshot
<1>1. 0 \in Blocks
  BY IngestionAssumption DEF Blocks
<1>2. NoReads \in [Reads -> Responses]
  BY <1>1 DEF NoReads, NoAnswer, Responses
<1>3. NoSnapshot \in Assemblies
  BY <1>1, <1>2 DEF NoSnapshot, Assemblies
<1>4. NoSeen \in Sights
  BY <1>3 DEF NoSeen, Sights
<1>5. Fresh \in Processes
  <2>1. /\ "poll" \in Places /\ {} \in SUBSET Blocks /\ {} \in SUBSET Reads
        /\ {} \in SUBSET AnyIds /\ FALSE \in BOOLEAN
    BY DEF Places
  <2>2. 0 \in Nat /\ 1 \in Nat
    OBVIOUS
  <2> QED
    BY <1>1, <1>2, <1>3, <1>4, <2>1, <2>2, Zenon DEF Fresh, Processes
<1>6. /\ Fresh.pc = "poll" /\ Fresh.left = {} /\ Fresh.snap = NoSnapshot
      /\ Fresh.seen = NoSeen
  BY DEF Fresh
<1>7. NoSeen.snap = NoSnapshot
  BY DEF NoSeen
<1> QED
  BY <1>3, <1>5, <1>6, <1>7

(* The empty snapshot has no read, and is not ready.                       *)
LEMMA NothingIsAssembled ==
  \A left : Assembled(NoSnapshot, left) /\ Covered(NoSnapshot)
BY DEF NoSnapshot, NoReads, NoAnswer, Assembled, Covered

(* A restart (lib.rs run) holds nothing that could be wrong.               *)
LEMMA FreshIsSound == Fresh \in Processes /\ Sound(Fresh)
BY FreshIsTyped, NothingIsAssembled DEF Sound

(* The loop keeps only what was seen, cached and persisted.                *)
LEMMA DoneIsSound ==
  ASSUME NEW me \in Processes, Sound(me)
  PROVE  Done(me) \in Processes /\ Sound(Done(me))
<1>1. /\ Done(me) \in Processes
      /\ Done(me).pc = "poll" /\ Done(me).left = {} /\ Done(me).snap = NoSnapshot
      /\ Done(me).seen = me.seen
  BY Zenon, FreshIsTyped DEF Done, Processes
<1> QED
  BY <1>1, NothingIsAssembled DEF Sound

(* tick: the latest block is noted.                                        *)
LEMMA PollKeeps == ASSUME IInv, NEW c \in Controllers, Poll(c) PROVE IInv'
<1> DEFINE me == ctl[c]
           new == [me EXCEPT !.pc = "known", !.last = head]
<1>1. me \in Processes /\ Sound(me) /\ At(c, "poll")
  BY DEF IInv, Typed, Poll
<1>2. head \in Blocks
  BY IngestionAssumption DEF IInv, Typed, Heights, Blocks
<1>3. new \in Processes /\ Sound(new)
  BY Zenon, <1>1, <1>2 DEF Processes, Places, Sound, At
<1> QED
  BY <1>3, ControllerStep DEF Poll, dbVars

(* continue_warm_up: the seen snapshot is taken up again.                  *)
LEMMA ContinueWarmUpKeeps ==
  ASSUME IInv, NEW c \in Controllers, ContinueWarmUp(c) PROVE IInv'
<1> DEFINE me == ctl[c]
           new == [me EXCEPT !.pc = "wanted", !.warmUp = TRUE, !.snap = me.seen.snap]
<1>1. me \in Processes /\ Sound(me) /\ At(c, "poll")
  BY DEF IInv, Typed, ContinueWarmUp
<1>2. me.seen.snap \in Assemblies
  BY <1>1 DEF Processes, Sights
<1>3. new \in Processes /\ Sound(new)
  BY Zenon, <1>1, <1>2 DEF Processes, Places, Sound, At
<1> QED
  BY <1>3, ControllerStep DEF ContinueWarmUp, dbVars

(* A set of naturals with a bound has a greatest element, and Max is it.   *)
LEMMA MaxOf ==
  ASSUME NEW N \in Nat, NEW S \in SUBSET (0..N), S # {}
  PROVE  Max(S) \in S /\ \A y \in S : y <= Max(S)
<1> DEFINE T == {n \in Nat : \E x \in S : n = N - x}
<1>1. T \subseteq Nat /\ T # {}
  <2>1. PICK x \in S : TRUE
    BY Zenon
  <2>2. N - x \in Nat
    OBVIOUS
  <2> QED
    BY Zenon, <2>2
<1>2. PICK m \in T : \A n \in T : <<n, m>> \notin OpToRel(<, Nat)
  <2>1. IsWellFoundedOn(OpToRel(<, Nat), Nat)
    BY NatLessThanWellFounded
  <2> QED
    BY <1>1, <2>1, WFMin
<1>3. PICK x \in S : m = N - x
  OBVIOUS
<1>4. \A y \in S : x >= y
  <2> TAKE y \in S
  <2>1. N - y \in T
    OBVIOUS
  <2>2. <<N - y, m>> \notin OpToRel(<, Nat)
    BY <1>2, <2>1
  <2>3. ~(N - y < m)
    BY <1>1, <2>1, <2>2 DEF OpToRel
  <2> QED
    BY <1>3, <2>3
<1>5. \E z \in S : \A y \in S : z >= y
  BY <1>4
<1>6. Max(S) \in S /\ \A y \in S : Max(S) >= y
  BY Zenon, <1>5 DEF Max
<1> QED
  BY <1>6

(* The last local height is the newest complete block, or 0 for none.      *)
IsLast(h) == h \in {0} \union Observed /\ \A o \in Observed : o <= h

(* last_local_height returns it.                                           *)
LEMMA LastIsLast ==
  ASSUME Typed
  PROVE  LastLocalHeight \in Blocks /\ IsLast(LastLocalHeight)
<1>1. {0} \union Observed \in SUBSET (0..MaxHeight) /\ MaxHeight \in Nat
  BY IngestionAssumption DEF Typed, Assemblies, Blocks, Observed
<1>2. LastLocalHeight = Max({0} \union Observed)
  BY DEF LastLocalHeight, Observed
<1>3. /\ LastLocalHeight \in {0} \union Observed
      /\ \A y \in {0} \union Observed : y <= LastLocalHeight
  BY Zenon, <1>1, <1>2, MaxOf
<1> QED
  BY <1>1, <1>3 DEF IsLast, Blocks

(* ingest: the last local height is read.                                  *)
LEMMA StartIngestKeeps == ASSUME IInv, NEW c \in Controllers, StartIngest(c) PROVE IInv'
<1> DEFINE me == ctl[c]
           new == [me EXCEPT !.pc = "open", !.last = LastLocalHeight]
<1>1. me \in Processes /\ Sound(me) /\ At(c, "known")
  BY DEF IInv, Typed, StartIngest
<1>3. LastLocalHeight \in Blocks
  BY LastIsLast DEF IInv
<1>4. new \in Processes /\ Sound(new)
  BY Zenon, <1>1, <1>3 DEF Processes, Places, Sound, At
<1> QED
  BY <1>4, ControllerStep DEF StartIngest, dbVars

(* The block is pinned and every read is to be made.                       *)
LEMMA OpenBlockKeeps == ASSUME IInv, NEW c \in Controllers, OpenBlock(c) PROVE IInv'
<1> DEFINE me == ctl[c]
           snap == [NoSnapshot EXCEPT !.block = head, !.complete = TRUE]
           new == [me EXCEPT !.pc = "read", !.left = Reads, !.snap = snap]
<1>1. me \in Processes /\ Sound(me)
  BY DEF IInv, Typed
<1>2. snap \in Assemblies /\ ~snap.ready /\ \A r \in Reads : snap.reads[r].block = 0
  <2>1. head \in Blocks
    BY IngestionAssumption DEF IInv, Typed, Heights, Blocks
  <2>2. ~NoSnapshot.ready /\ \A r \in Reads : NoSnapshot.reads[r].block = 0
    BY DEF NoSnapshot, NoReads, NoAnswer
  <2> QED
    BY Zenon, <2>1, <2>2, FreshIsTyped DEF Assemblies
<1>3. new \in Processes /\ Sound(new)
  <2>1. /\ new \in Processes /\ new.pc = "read" /\ new.left = Reads
        /\ new.snap = snap /\ new.seen = me.seen
    BY Zenon, <1>1, <1>2 DEF Processes, Places
  <2> HIDE DEF snap, new
  <2> QED
    BY <1>1, <1>2, <2>1 DEF Sound, Assembled, Covered
<1> QED
  BY <1>3, ControllerStep DEF OpenBlock, dbVars

(* A snapshot is discarded whole.                                          *)
LEMMA DiscardKeeps ==
  ASSUME IInv, NEW c \in Controllers, Discard(c, ctl[c]),
         UNCHANGED <<head, rows, retained, admitted>>
  PROVE  IInv'
<1> DEFINE me == ctl[c]
           new == [me EXCEPT !.pc = "open", !.attempt = @ + 1, !.left = {}, !.snap = NoSnapshot]
<1>1. me \in Processes /\ Sound(me)
  BY Zenon DEF IInv, Typed
<1>2. new \in Processes /\ Sound(new)
  <2>1. NoSnapshot \in Assemblies /\ me.attempt + 1 \in Nat
    BY <1>1, FreshIsTyped DEF Processes
  <2>2. /\ new \in Processes /\ new.pc = "open" /\ new.left = {}
        /\ new.snap = NoSnapshot /\ new.seen = me.seen
    BY Zenon, <1>1, <2>1 DEF Processes, Places
  <2> HIDE DEF new
  <2> QED
    BY <1>1, <2>2, NothingIsAssembled DEF Sound
<1>3. Done(me) \in Processes /\ Sound(Done(me))
  BY <1>1, DoneIsSound
<1>4. Now(c, new) \/ Now(c, Done(me))
  BY DEF Discard
<1> QED
  BY <1>2, <1>3, <1>4, ControllerStep

(* An answer, cached or TIG's, is of the pinned block.                     *)
LEMMA ReadAnchoredKeeps ==
  ASSUME IInv, NEW c \in Controllers, NEW r \in Reads, ReadAnchored(c, r)
  PROVE  IInv'
<1> DEFINE me == ctl[c]
<1>1. /\ me \in Processes /\ Sound(me) /\ me.pc = "read"
  BY Zenon DEF IInv, Typed, ReadAnchored, At
<1>2. PICK a \in Responses : /\ a.block = me.snap.block
                             /\ Now(c, [me EXCEPT !.left = @ \ {r}, !.snap.reads[r] = a,
                                                  !.cache = Put(me, r, a)])
  <2>1. \A a \in Cached(me, r) : a \in Responses /\ a.block = me.snap.block
    BY <1>1 DEF Cached, Processes
  <2>2. \A a \in Answers(r, me.snap.block) : a \in Responses /\ a.block = me.snap.block
    BY <1>1 DEF Answers, Processes, Assemblies, Responses
  <2> QED
    BY Zenon, <2>1, <2>2 DEF ReadAnchored
<1> DEFINE new == [me EXCEPT !.left = @ \ {r}, !.snap.reads[r] = a, !.cache = Put(me, r, a)]
<1>3. Put(me, r, a) \in [Reads -> Responses]
  <2>1. NoAnswer \in Responses
    BY IngestionAssumption DEF NoAnswer, Responses, Blocks
  <2> QED
    BY <1>1, <2>1 DEF Put, Processes
<1>4. /\ new \in Processes /\ new.pc = me.pc /\ new.left = me.left \ {r} /\ new.seen = me.seen
      /\ new.snap = [me.snap EXCEPT !.reads[r] = a]
  <2>1. [me.snap EXCEPT !.reads[r] = a] \in Assemblies
    BY <1>1 DEF Processes, Assemblies
  <2> QED
    BY Zenon, <1>1, <1>3, <2>1 DEF Processes
<1>5. /\ new.snap.block = me.snap.block /\ new.snap.complete = me.snap.complete
      /\ new.snap.ready = me.snap.ready
      /\ \A x \in Reads : new.snap.reads[x] = IF x = r THEN a ELSE me.snap.reads[x]
  <2>1. me.snap \in Assemblies
    BY Zenon, <1>1 DEF Processes
  <2> HIDE DEF new
  <2> QED
    BY Zenon, <1>4, <2>1 DEF Assemblies
<1>6. Sound(new)
  <2> HIDE DEF new
  <2> QED
    BY <1>1, <1>2, <1>4, <1>5 DEF Sound, Assembled, Covered
<1> QED
  BY Zenon, <1>2, <1>4, <1>6, ControllerStep DEF ReadAnchored, dbVars

(* A read that failed marks the snapshot incomplete.                       *)
LEMMA ReadUnavailableKeeps ==
  ASSUME IInv, NEW c \in Controllers, NEW r \in Reads, ReadUnavailable(c, r)
  PROVE  IInv'
<1> DEFINE me == ctl[c]
           new == [me EXCEPT !.left = @ \ {r}, !.snap.complete = FALSE]
<1>1. /\ me \in Processes /\ Sound(me) /\ me.pc = "read"
  BY DEF IInv, Typed, ReadUnavailable, At
<1>2. /\ new \in Processes /\ new.pc = me.pc /\ new.left = me.left \ {r} /\ new.seen = me.seen
      /\ new.snap = [me.snap EXCEPT !.complete = FALSE]
  <2>1. [me.snap EXCEPT !.complete = FALSE] \in Assemblies
    BY Zenon, <1>1 DEF Processes, Assemblies
  <2> QED
    BY Zenon, <1>1, <2>1 DEF Processes
<1>3. /\ new.snap.block = me.snap.block /\ ~new.snap.complete
      /\ new.snap.ready = me.snap.ready /\ new.snap.reads = me.snap.reads
  BY <1>1, <1>2 DEF Processes, Assemblies
<1>4. Sound(new)
  <2> HIDE DEF new
  <2> QED
    BY <1>1, <1>2, <1>3 DEF Sound, Assembled, Covered
<1> QED
  BY <1>2, <1>4, ControllerStep DEF ReadUnavailable, dbVars

(* The assembly is closed when no read is left.                            *)
LEMMA CloseBlockKeeps == ASSUME IInv, NEW c \in Controllers, CloseBlock(c) PROVE IInv'
<1> DEFINE me == ctl[c]
           new == [me EXCEPT !.pc = "wanted"]
<1>1. /\ me \in Processes /\ Sound(me) /\ me.left = {}
  BY DEF IInv, Typed, CloseBlock
<1>2. new \in Processes /\ Sound(new)
  BY Zenon, <1>1 DEF Processes, Places, Sound
<1>3. Now(c, new) \/ Discard(c, me)
  BY DEF CloseBlock
<1> QED
  BY <1>2, <1>3, ControllerStep, DiscardKeeps DEF CloseBlock, dbVars

(***************************************************************************)
(* The cache of active benchmarks                                          *)
(***************************************************************************)
(* advance: what the cache lacks is what is to be read.                    *)
LEMMA WantedKeeps == ASSUME IInv, NEW c \in Controllers, Wanted(c) PROVE IInv'
<1> DEFINE me == ctl[c]
           new == [me EXCEPT !.pc = "fetch", !.ids = Unretained(me.snap.block),
                             !.spent = 0, !.missing = {}]
<1>1. /\ me \in Processes /\ Sound(me) /\ me.pc = "wanted"
  BY DEF IInv, Typed, Wanted, At
<1>2. Unretained(me.snap.block) \in SUBSET AnyIds
  BY <1>1 DEF Unretained, AnyIds, Processes, Assemblies
<1>3. /\ new \in Processes /\ new.pc = "fetch" /\ new.left = me.left
      /\ new.snap = me.snap /\ new.seen = me.seen /\ new.ids = Unretained(me.snap.block)
  BY <1>1, <1>2 DEF Processes, Places
<1>4. Sound(new)
  <2> HIDE DEF new
  <2> QED
    BY Zenon, <1>1, <1>3 DEF Sound, Unretained
<1> QED
  BY <1>3, <1>4, ControllerStep DEF Wanted, dbVars

(* An id that could not be read is missing.                                *)
LEMMA FetchFailsKeeps ==
  ASSUME IInv, NEW c \in Controllers, NEW id \in Ids, FetchFails(c, id)
  PROVE  IInv'
<1> DEFINE me == ctl[c]
           new == [me EXCEPT !.ids = @ \ {id}, !.spent = @ + 1, !.missing = @ \cup {id}]
<1>1. /\ me \in Processes /\ Sound(me) /\ me.pc = "fetch" /\ id \in me.ids
  BY DEF IInv, Typed, FetchFails, NextId, At
<1>2. /\ me.ids \ {id} \in SUBSET AnyIds /\ me.missing \cup {id} \in SUBSET AnyIds
      /\ me.spent + 1 \in Nat
  BY <1>1 DEF Processes
<1>3. /\ new \in Processes /\ new.pc = me.pc /\ new.left = me.left /\ new.snap = me.snap
      /\ new.seen = me.seen /\ new.ids = me.ids \ {id} /\ new.missing = me.missing \cup {id}
  BY Zenon, <1>1, <1>2 DEF Processes
<1>4. Sound(new)
  <2> HIDE DEF new
  <2> QED
    BY Zenon, <1>1, <1>3 DEF Sound
<1> QED
  BY <1>3, <1>4, ControllerStep DEF FetchFails, dbVars

(* covers_active_set: ready means that nothing is missing and nothing was  *)
(* left unread by the budget.                                              *)
LEMMA FetchesDoneKeeps == ASSUME IInv, NEW c \in Controllers, FetchesDone(c) PROVE IInv'
<1> DEFINE me == ctl[c]
           missing == me.missing \cup me.ids
           to == IF me.warmUp THEN "persist" ELSE "gap"
           new == [me EXCEPT !.pc = to, !.ids = {}, !.missing = {}, !.spent = 0,
                             !.snap.ready = (missing = {})]
<1>1. /\ me \in Processes /\ Sound(me) /\ me.pc = "fetch"
  BY DEF IInv, Typed, FetchesDone, At
<1>2. /\ [me.snap EXCEPT !.ready = (missing = {})] \in Assemblies /\ to \in Places
      /\ {} \in SUBSET AnyIds /\ to \notin {"read", "fetch"}
  BY Zenon, <1>1 DEF Processes, Assemblies, Places
<1>3. /\ new \in Processes /\ new.pc = to /\ new.left = me.left /\ new.seen = me.seen
      /\ new.snap = [me.snap EXCEPT !.ready = (missing = {})]
  <2> HIDE DEF to, missing
  <2> QED
    BY Zenon, <1>1, <1>2 DEF Processes
<1>4. /\ new.snap.block = me.snap.block /\ new.snap.complete = me.snap.complete
      /\ new.snap.reads = me.snap.reads /\ (new.snap.ready <=> missing = {})
  <2>1. me.snap \in Assemblies
    BY Zenon, <1>1 DEF Processes
  <2> HIDE DEF new, missing
  <2> QED
    BY Zenon, <1>3, <2>1 DEF Assemblies
<1>5. Sound(new)
  <2> HIDE DEF new, to
  <2> QED
    BY Zenon, <1>1, <1>2, <1>3, <1>4 DEF Sound, Assembled, Covered
<1>6. Done(me) \in Processes /\ Sound(Done(me))
  BY <1>1, DoneIsSound
<1>7. Now(c, new) \/ Now(c, Done(me))
  BY DEF FetchesDone
<1> QED
  BY <1>3, <1>5, <1>6, <1>7, ControllerStep DEF FetchesDone, dbVars

(* The cache grows: what was covered stays covered.                        *)
LEMMA FetchOneKeeps ==
  ASSUME IInv, NEW c \in Controllers, NEW id \in Ids, FetchOne(c, id)
  PROVE  IInv'
<1> DEFINE me == ctl[c]
           new == [me EXCEPT !.ids = @ \ {id}, !.spent = @ + 1]
<1>1. /\ me \in Processes /\ Sound(me) /\ me.pc = "fetch"
      /\ retained' = retained \union {id} /\ UNCHANGED <<head, rows, admitted>>
      /\ ctl' = [ctl EXCEPT ![c] = new] /\ Typed
  BY DEF IInv, Typed, FetchOne, NextId, At, Now
<1>2. me.ids \ {id} \in SUBSET AnyIds /\ me.spent + 1 \in Nat
  BY <1>1 DEF Processes
<1>3. /\ new \in Processes /\ new.pc = me.pc /\ new.left = me.left /\ new.snap = me.snap
      /\ new.seen = me.seen /\ new.ids = me.ids \ {id} /\ new.missing = me.missing
  BY Zenon, <1>1, <1>2 DEF Processes
<1> HIDE DEF new
<1>4. Typed'
  BY <1>1, <1>3 DEF Typed
<1>5. \A d \in Controllers : Sound(ctl[d])'
  <2> TAKE d \in Controllers
  <2>1. CASE d = c
    <3>1. ctl'[d] = new
      BY <1>1, <2>1 DEF Typed
    <3> QED
      BY <1>1, <1>3, <3>1 DEF Sound, Covered, Assembled
  <2>2. CASE d # c
    <3>1. ctl'[d] = ctl[d] /\ Sound(ctl[d])
      BY <1>1, <2>2 DEF Typed, IInv
    <3> QED
      BY Zenon, <1>1, <3>1 DEF Sound, Covered, Assembled
  <2> QED
    BY Zenon, <2>1, <2>2
<1>6. SnapshotsAreWhole' /\ AdmittedWereUsable' /\ AnchorsAscend'
  BY <1>1 DEF IInv, SnapshotsAreWhole, AdmittedWereUsable, AnchorsAscend, Usable
<1> QED
  BY <1>4, <1>5, <1>6 DEF IInv

(* record_block_gap: the snapshot is as it was.                            *)
LEMMA RecordGapKeeps == ASSUME IInv, NEW c \in Controllers, RecordGap(c) PROVE IInv'
<1> DEFINE me == ctl[c]
           new == [me EXCEPT !.pc = "persist"]
<1>1. /\ me \in Processes /\ Sound(me) /\ me.pc = "gap"
  BY DEF IInv, Typed, RecordGap, At
<1>2. new \in Processes /\ Sound(new)
  BY Zenon, <1>1 DEF Processes, Places, Sound
<1> QED
  BY <1>2, ControllerStep DEF RecordGap

(***************************************************************************)
(* The store                                                               *)
(***************************************************************************)

(* What is persisted is whole, and rows only grow.                         *)
LEMMA PersistKeeps == ASSUME IInv, NEW c \in Controllers, Persist(c) PROVE IInv'
<1> DEFINE me == ctl[c]
           seen == [me.seen EXCEPT !.snap = me.snap, !.usable = Usable(me.snap)]
           it == [me EXCEPT !.mine = @ \cup {me.snap.block}]
           new == IF me.warmUp
                  THEN [it EXCEPT !.pc = "decide", !.seen = seen, !.blocks = me.seen.blocks]
                  ELSE [it EXCEPT !.pc = "reconcile"]
<1>1. /\ me \in Processes /\ Sound(me) /\ me.pc = "persist" /\ Typed
      /\ UNCHANGED <<head, retained, admitted>>
  BY DEF IInv, Typed, Persist, At
<1>2. CASE Now(c, Done(me)) /\ UNCHANGED rows
  BY <1>1, <1>2, DoneIsSound, ControllerStep
<1>3. CASE rows' = rows \union {me.snap} /\ Now(c, new)
  <2>1. /\ seen \in Sights /\ seen.snap = me.snap
        /\ me.mine \cup {me.snap.block} \in SUBSET Blocks /\ me.seen.blocks \in BOOLEAN
    BY Zenon, <1>1 DEF Processes, Sights, Assemblies, Usable
  <2>2. /\ it \in Processes /\ it.left = me.left /\ it.snap = me.snap /\ it.seen = me.seen
    BY Zenon, <1>1, <2>1 DEF Processes
  <2>3. /\ new \in Processes /\ new.pc \in {"decide", "reconcile"} /\ new.left = me.left
        /\ new.snap = me.snap /\ new.seen \in {me.seen, seen}
    <3> HIDE DEF it, seen
    <3> QED
      BY Zenon, <2>1, <2>2 DEF Processes, Places
  <2> HIDE DEF new, it, seen
  <2>4. me.snap \in Assemblies /\ Assembled(me.snap, {}) /\ Covered(me.snap)
    BY Zenon, <1>1 DEF Sound, Processes
  <2>5. Typed'
    BY <1>1, <1>3, <2>3, <2>4 DEF Typed, Now
  <2>6. \A d \in Controllers : Sound(ctl[d])'
    <3> TAKE d \in Controllers
    <3>1. Sound(ctl[d]) /\ ctl'[d] \in {ctl[d], new} /\ (d = c => ctl'[d] = new)
          /\ (d # c => ctl'[d] = ctl[d])
      BY <1>1, <1>3 DEF Typed, IInv, Now
    <3>2. Sound(new)
      BY Zenon, <1>1, <2>1, <2>3, <2>4 DEF Sound
    <3> QED
      BY Zenon, <1>1, <3>1, <3>2 DEF Sound, Covered, Assembled
  <2>7. SnapshotsAreWhole'
    BY <1>1, <1>3, <2>4 DEF IInv, SnapshotsAreWhole, Assembled, Covered
  <2>8. AdmittedWereUsable' /\ AnchorsAscend'
    BY <1>1, <1>3 DEF IInv, AdmittedWereUsable, AnchorsAscend, Usable
  <2> QED
    BY <2>5, <2>6, <2>7, <2>8 DEF IInv
<1> QED
  BY <1>2, <1>3 DEF Persist

(* reconcile_block: the snapshot becomes the one seen.                     *)
LEMMA ReconcileKeeps == ASSUME IInv, NEW c \in Controllers, Reconcile(c) PROVE IInv'
<1> DEFINE me == ctl[c]
<1>1. /\ me \in Processes /\ Sound(me) /\ me.pc = "reconcile"
      /\ UNCHANGED <<head, rows, retained, admitted>>
  BY DEF IInv, Typed, Reconcile, At, dbVars
<1>2. PICK b \in BOOLEAN :
        Now(c, [me EXCEPT !.pc = "decide", !.blocks = b,
                  !.seen = [snap |-> me.snap, usable |-> Usable(me.snap), blocks |-> b]])
  BY Zenon DEF Reconcile
<1> DEFINE seen == [snap |-> me.snap, usable |-> Usable(me.snap), blocks |-> b]
           new == [me EXCEPT !.pc = "decide", !.blocks = b, !.seen = seen]
<1>3. seen \in Sights /\ seen.snap = me.snap
  BY Zenon, <1>1 DEF Processes, Assemblies, Sights, Usable
<1>4. /\ new \in Processes /\ new.pc = "decide" /\ new.left = me.left /\ new.snap = me.snap
      /\ new.seen = seen
  <2> HIDE DEF seen
  <2> QED
    BY Zenon, <1>1, <1>3 DEF Processes, Places
<1>5. Sound(new)
  <2> HIDE DEF seen, new
  <2> QED
    BY <1>1, <1>3, <1>4 DEF Sound
<1> QED
  BY <1>1, <1>2, <1>4, <1>5, ControllerStep

(* require_newest_anchor: the anchor is a usable row, and no usable row,   *)
(* so no earlier anchor, is of a later block.                              *)
LEMMA DecideKeeps == ASSUME IInv, NEW c \in Controllers, Decide(c) PROVE IInv'
<1> DEFINE me == ctl[c]
<1>1. /\ me \in Processes /\ Sound(me) /\ Typed
      /\ Done(me) \in Processes /\ Sound(Done(me)) /\ Now(c, Done(me))
      /\ UNCHANGED <<head, rows, retained>>
  BY DoneIsSound DEF IInv, Typed, Decide
<1>2. CASE UNCHANGED admitted
  BY <1>1, <1>2, ControllerStep
<1>3. CASE MayDecide(me) /\ NewestAnchor(me.snap) /\ admitted' = Append(admitted, me.snap.block)
  <2>1. /\ me.snap.block \in Blocks /\ admitted \in Seq(Blocks)
        /\ \A n \in 1..Len(admitted) : admitted[n] \in Blocks
    BY <1>1 DEF Processes, Assemblies, Typed
  <2>2. /\ admitted' \in Seq(Blocks) /\ Len(admitted') = Len(admitted) + 1
        /\ \A n \in 1..Len(admitted') :
             admitted'[n] = IF n = Len(admitted) + 1 THEN me.snap.block ELSE admitted[n]
    BY <1>3, <2>1
  <2>3. Typed'
    BY <1>1, <2>2 DEF Typed, Now
  <2>4. \A d \in Controllers : Sound(ctl[d])'
    <3> TAKE d \in Controllers
    <3>1. Sound(ctl[d]) /\ (d = c => ctl'[d] = Done(me)) /\ (d # c => ctl'[d] = ctl[d])
      BY Zenon, <1>1 DEF Typed, IInv, Now
    <3> QED
      BY Zenon, <1>1, <3>1 DEF Sound, Covered, Assembled
  <2>5. SnapshotsAreWhole'
    BY <1>1 DEF IInv, SnapshotsAreWhole
  <2>6. me.snap \in rows /\ Usable(me.snap) /\ \A s \in rows : Usable(s) => s.block <= me.snap.block
    BY <1>3 DEF MayDecide, NewestAnchor
  <2>7. \A n \in 1..Len(admitted) : admitted[n] <= me.snap.block
    BY <2>6 DEF IInv, AdmittedWereUsable
  <2>8. AdmittedWereUsable'
    <3> SUFFICES ASSUME NEW n \in 1..Len(admitted')
                 PROVE  \E s \in rows : Usable(s) /\ s.block = admitted'[n]
      BY Zenon, <1>1 DEF AdmittedWereUsable, Usable
    <3>1. CASE n = Len(admitted) + 1
      BY Zenon, <2>2, <2>6, <3>1
    <3>2. CASE n # Len(admitted) + 1
      BY <2>1, <2>2, <3>2 DEF IInv, AdmittedWereUsable
    <3> QED
      BY <3>1, <3>2
  <2>9. AnchorsAscend'
    <3> SUFFICES ASSUME NEW m \in 1..Len(admitted'), NEW n \in 1..Len(admitted'), m < n
                 PROVE  admitted'[m] <= admitted'[n]
      BY DEF AnchorsAscend
    <3>1. m \in 1..Len(admitted) /\ admitted'[m] = admitted[m]
      BY <2>1, <2>2
    <3>2. CASE n = Len(admitted) + 1
      BY Zenon, <2>2, <2>7, <3>1, <3>2
    <3>3. CASE n # Len(admitted) + 1
      BY <2>1, <2>2, <3>1, <3>3 DEF IInv, AnchorsAscend
    <3> QED
      BY <3>2, <3>3
  <2> QED
    BY Zenon, <2>3, <2>4, <2>5, <2>8, <2>9 DEF IInv
<1> QED
  BY <1>2, <1>3 DEF Decide

(* TIG's chain goes on; nothing of the pool changes.                       *)
LEMMA NewBlockKeeps == ASSUME IInv, NewBlock PROVE IInv'
<1>1. UNCHANGED <<rows, retained, admitted, ctl>> /\ head' \in Heights /\ Typed
  BY IngestionAssumption DEF IInv, Typed, NewBlock, dbVars, Heights
<1>2. Typed'
  BY <1>1 DEF Typed
<1> QED
  BY Zenon, <1>1, <1>2
     DEF IInv, Sound, Covered, Assembled, SnapshotsAreWhole, AdmittedWereUsable, AnchorsAscend,
         Usable

(* The tick ends, or the process does.                                     *)
LEMMA BackToTheLoop ==
  ASSUME IInv, NEW c \in Controllers, Now(c, Done(ctl[c])) \/ Now(c, Fresh),
         UNCHANGED <<head, rows, retained, admitted>>
  PROVE  IInv'
<1>1. ctl[c] \in Processes /\ Sound(ctl[c])
  BY DEF IInv, Typed
<1>2. Done(ctl[c]) \in Processes /\ Sound(Done(ctl[c]))
  BY <1>1, DoneIsSound
<1> QED
  BY <1>2, FreshIsSound, ControllerStep

(* tick: every step of a poll.                                             *)
LEMMA TickKeeps == ASSUME IInv, NEW c \in Controllers, Tick(c) PROVE IInv'
<1>1. CASE Poll(c) \/ ContinueWarmUp(c) \/ StartIngest(c) \/ OpenBlock(c) \/ CloseBlock(c)
  BY <1>1, PollKeeps, ContinueWarmUpKeeps, StartIngestKeeps, OpenBlockKeeps, CloseBlockKeeps
<1>2. CASE AlreadyIngested(c) \/ Blind(c)
  BY Zenon, <1>2, BackToTheLoop DEF AlreadyIngested, Blind, dbVars
<1>3. ASSUME NEW r \in Reads, ReadAnchored(c, r) \/ ReadUnavailable(c, r) \/ ReadConflicts(c, r)
      PROVE  IInv'
  BY <1>3, ReadAnchoredKeeps, ReadUnavailableKeeps, DiscardKeeps DEF ReadConflicts, dbVars
<1>4. ASSUME NEW id \in Ids, FetchOne(c, id) \/ FetchFails(c, id)
      PROVE  IInv'
  BY <1>4, FetchOneKeeps, FetchFailsKeeps
<1>5. CASE Wanted(c) \/ FetchesDone(c) \/ RecordGap(c)
  BY <1>5, WantedKeeps, FetchesDoneKeeps, RecordGapKeeps
<1>6. CASE Persist(c) \/ Reconcile(c) \/ Decide(c)
  BY Zenon, <1>6, PersistKeeps, ReconcileKeeps, DecideKeeps
<1> QED
  BY <1>1, <1>2, <1>3, <1>4, <1>5, <1>6 DEF Tick

(***************************************************************************)
(* A controller that runs alone                                            *)
(*                                                                         *)
(* Nobody else adds rows, so what it found at its poll is still so when it *)
(* persists: no usable row is as new as its block, and the last height it  *)
(* read is the last one.  An unusable seen block is left to the warm-up,   *)
(* whose snapshot is of a block on record.                                 *)
(***************************************************************************)
Older(h) == \A s \in rows : Usable(s) => s.block < h
NoneUsable(h) == \A s \in rows : Usable(s) => s.block # h
NotAdmitted(h) == \A n \in 1..Len(admitted) : admitted[n] # h

Store ==
  /\ gaps \subseteq Heights
  /\ \A s \in rows : 1 <= s.block /\ s.block <= head
  /\ \A g \in gaps : g < head
  /\ MissedAreRecorded /\ GapsAreTrue /\ OncePerBlock

SeenIsKnown(me) ==
  LET b == me.seen.snap.block IN
  /\ b <= head
  /\ b # 0 => b \in Observed /\ me.seen.snap.complete
  /\ ~me.seen.usable => NoneUsable(b)

(* The places of a pass over a new block, before anything of it is stored. *)
Ingesting == {"read", "wanted", "fetch", "gap", "persist"}

Unrivalled(me) ==
  LET b == me.snap.block
      seen == me.seen.snap.block
  IN
  /\ me.pc \in {"poll", "known", "open", "read", "gap", "reconcile"} => ~me.warmUp
  /\ me.pc = "known" =>
       /\ seen < me.last /\ me.last <= head
       /\ \A s \in rows : s.block <= me.last
  /\ me.pc = "open" => seen < head /\ Older(head) /\ IsLast(me.last)
  /\ me.pc \in Ingesting /\ ~me.warmUp =>
       /\ b <= head /\ seen < b /\ Older(b) /\ IsLast(me.last)
       /\ \A s \in rows : s.block <= b
       /\ \A g \in gaps : g < b
  /\ me.pc = "persist" /\ ~me.warmUp /\ me.last # 0 => Missed(me.last, b) \subseteq gaps
  /\ me.pc \in {"wanted", "fetch", "persist"} /\ me.warmUp =>
       b = seen /\ b # 0 /\ me.snap.complete /\ ~me.seen.usable
  /\ me.pc = "reconcile" =>
       /\ seen < b /\ b <= head /\ me.snap \in rows
       /\ ~Usable(me.snap) => NoneUsable(b)
  /\ me.pc \in {"reconcile", "decide"} => NotAdmitted(b)

LoneInv(c) == Store /\ SeenIsKnown(ctl[c]) /\ Unrivalled(ctl[c])

(* The types of what those definitions compare.                            *)
LEMMA LoneTypes ==
  ASSUME IInv, NEW c \in Controllers
  PROVE  /\ ctl[c] \in Processes /\ head \in Nat /\ head >= 1 /\ head <= MaxHeight
         /\ MaxHeight \in Nat
         /\ ctl[c].snap.block \in Nat /\ ctl[c].seen.snap.block \in Nat
         /\ ctl[c].last \in Nat /\ ctl[c].seen \in Sights
         /\ ctl[c].snap \in Assemblies /\ ctl[c].warmUp \in BOOLEAN
         /\ \A s \in rows : s.block \in Nat /\ s \in Assemblies
         /\ Observed \subseteq Nat
<1>1. ctl[c] \in Processes /\ head \in Heights /\ rows \subseteq Assemblies
  BY DEF IInv, Typed
<1>2. /\ ctl[c].snap \in Assemblies /\ ctl[c].seen \in Sights /\ ctl[c].last \in Blocks
      /\ ctl[c].warmUp \in BOOLEAN
  BY <1>1, Zenon DEF Processes
<1>3. ctl[c].seen.snap \in Assemblies
  BY <1>2, Zenon DEF Sights
<1>4. \A s \in Assemblies : s.block \in Blocks
  BY Zenon DEF Assemblies
<1>5. Blocks \subseteq Nat /\ MaxHeight \in Nat
  BY IngestionAssumption DEF Blocks
<1>6. Observed \subseteq Nat
  BY Zenon, <1>1, <1>4, <1>5 DEF Observed
<1>7. head \in Nat /\ head >= 1 /\ head <= MaxHeight
  BY <1>1, <1>5 DEF Heights
<1> QED
  BY Zenon, <1>1, <1>2, <1>3, <1>4, <1>5, <1>6, <1>7

(* A step of the controller that stores nothing.                           *)
LEMMA LoneStep ==
  ASSUME IInv, NEW c \in Controllers, LoneInv(c), NEW new, Now(c, new),
         SeenIsKnown(new), Unrivalled(new), UNCHANGED <<head, rows, gaps, admitted>>
  PROVE  LoneInv(c)'
<1>1. ctl'[c] = new
  BY DEF IInv, Typed, Now
<1>2. UNCHANGED Observed
  BY DEF Observed
<1>3. Store'
  BY Zenon, <1>2 DEF LoneInv, Store, MissedAreRecorded, GapsAreTrue, OncePerBlock
<1>4. SeenIsKnown(ctl[c])'
  BY Zenon, <1>1, <1>2 DEF SeenIsKnown, NoneUsable, Usable
<1>5. Unrivalled(ctl[c])'
  BY Zenon, <1>1, <1>2
     DEF Unrivalled, Older, NoneUsable, NotAdmitted, IsLast, Usable, Missed
<1> QED
  BY <1>3, <1>4, <1>5 DEF LoneInv

(* Back at the loop the controller has only what it saw.                   *)
LEMMA LoneDone ==
  ASSUME NEW me \in Processes, SeenIsKnown(me)
  PROVE  SeenIsKnown(Done(me)) /\ Unrivalled(Done(me))
<1>1. Done(me).pc = "poll" /\ Done(me).seen = me.seen /\ Done(me).warmUp = FALSE
  BY Zenon, FreshIsTyped DEF Done, Fresh
<1> QED
  BY <1>1 DEF SeenIsKnown, Unrivalled, Ingesting

(* A process that starts is at its loop and has seen no block.             *)
LEMMA FreshIsAtRest ==
  Fresh.pc = "poll" /\ Fresh.warmUp = FALSE /\ Fresh.seen.snap.block = 0
<1>1. Fresh.warmUp = FALSE
  BY Zenon DEF Fresh
<1>2. NoSnapshot.block = 0
  BY Zenon DEF NoSnapshot
<1> QED
  BY Zenon, <1>1, <1>2, FreshIsTyped

(* A restarted controller has seen nothing.                                *)
LEMMA LoneFresh ==
  ASSUME IInv, NEW c \in Controllers, Store
  PROVE  SeenIsKnown(Fresh) /\ Unrivalled(Fresh)
<1>1. Fresh.pc = "poll" /\ Fresh.warmUp = FALSE /\ Fresh.seen.snap.block = 0
  BY FreshIsAtRest
<1>2. 0 <= head /\ NoneUsable(0)
  BY LoneTypes DEF Store, NoneUsable
<1> QED
  BY Zenon, <1>1, <1>2 DEF SeenIsKnown, Unrivalled, Ingesting

(* The steps of a pass that read and fetch keep what it stands on.         *)
LEMMA LoneGoesOn ==
  ASSUME NEW me, NEW new, SeenIsKnown(me), Unrivalled(me),
         me.pc \in {"read", "wanted", "fetch"}, me.warmUp \in BOOLEAN,
         new.pc \in Ingesting, new.pc = "read" => me.pc = "read",
         new.pc = "gap" => ~me.warmUp, new.pc = "persist" => me.warmUp,
         new.seen = me.seen, new.last = me.last, new.warmUp = me.warmUp,
         new.snap.block = me.snap.block, me.warmUp => new.snap.complete = me.snap.complete
  PROVE  SeenIsKnown(new) /\ Unrivalled(new)
<1>1. SeenIsKnown(new)
  BY DEF SeenIsKnown
<1>2. CASE me.warmUp
  <2>1. /\ me.snap.block = me.seen.snap.block /\ me.snap.block # 0 /\ me.snap.complete
        /\ ~me.seen.usable /\ me.pc # "read"
    BY Zenon, <1>2 DEF Unrivalled
  <2>2. new.pc \in {"wanted", "fetch", "persist"}
    BY Zenon, <1>2, <2>1 DEF Ingesting
  <2> QED
    BY Zenon, <1>1, <1>2, <2>1, <2>2 DEF Unrivalled
<1>3. CASE ~me.warmUp
  <2>1. /\ me.snap.block <= head /\ me.seen.snap.block < me.snap.block
        /\ Older(me.snap.block) /\ IsLast(me.last)
        /\ (\A s \in rows : s.block <= me.snap.block) /\ (\A g \in gaps : g < me.snap.block)
    BY <1>3 DEF Unrivalled, Ingesting
  <2>2. new.pc \in {"read", "wanted", "fetch", "gap"}
    BY Zenon, <1>3 DEF Ingesting
  <2> QED
    BY Zenon, <1>1, <1>3, <2>1, <2>2 DEF Unrivalled
<1> QED
  BY Zenon, <1>2, <1>3

(* tick: the latest block is newer than the seen one, and no row is newer. *)
LEMMA LonePoll ==
  ASSUME IInv, NEW c \in Controllers, LoneInv(c), Poll(c) PROVE LoneInv(c)'
<1> DEFINE me == ctl[c]
           new == [me EXCEPT !.pc = "known", !.last = head]
<1>1. /\ me \in Processes /\ me.pc = "poll" /\ me.seen.snap.block # head
      /\ Now(c, new) /\ UNCHANGED <<head, rows, gaps, admitted>>
  BY DEF IInv, Typed, Poll, At, dbVars
<1>2. /\ new.pc = "known" /\ new.last = head /\ new.seen = me.seen
      /\ new.warmUp = me.warmUp
  BY Zenon, <1>1 DEF Processes
<1> HIDE DEF new
<1>3. SeenIsKnown(new)
  BY <1>2 DEF LoneInv, SeenIsKnown
<1>4. Unrivalled(new)
  <2>1. me.seen.snap.block < head /\ head <= head /\ \A s \in rows : s.block <= head
    BY <1>1, LoneTypes DEF LoneInv, Store, SeenIsKnown
  <2>2. ~me.warmUp
    BY Zenon, <1>1 DEF LoneInv, Unrivalled
  <2> QED
    BY Zenon, <1>2, <2>1, <2>2 DEF Unrivalled, Ingesting
<1> QED
  BY <1>1, <1>3, <1>4, LoneStep

(* continue_warm_up: the seen block is complete and on record.             *)
LEMMA LoneWarmUp ==
  ASSUME IInv, NEW c \in Controllers, LoneInv(c), ContinueWarmUp(c) PROVE LoneInv(c)'
<1> DEFINE me == ctl[c]
           new == [me EXCEPT !.pc = "wanted", !.warmUp = TRUE, !.snap = me.seen.snap]
<1>1. /\ me \in Processes /\ me.pc = "poll" /\ me.seen.snap.block = head
      /\ ~me.seen.usable /\ Now(c, new) /\ UNCHANGED <<head, rows, gaps, admitted>>
  BY DEF IInv, Typed, ContinueWarmUp, At, dbVars
<1>2. /\ new.pc = "wanted" /\ new.warmUp /\ new.snap = me.seen.snap /\ new.seen = me.seen
  BY Zenon, <1>1 DEF Processes
<1> HIDE DEF new
<1>3. SeenIsKnown(new)
  BY <1>2 DEF LoneInv, SeenIsKnown
<1>4. Unrivalled(new)
  <2>1. head # 0
    BY LoneTypes
  <2>2. me.seen.snap.complete
    BY Zenon, <1>1, <2>1 DEF LoneInv, SeenIsKnown
  <2> QED
    BY Zenon, <1>1, <1>2, <2>1, <2>2 DEF Unrivalled, Ingesting
<1> QED
  BY <1>1, <1>3, <1>4, LoneStep

(* ingest: no usable row is of the noted block or a later one.             *)
LEMMA LoneStartIngest ==
  ASSUME IInv, NEW c \in Controllers, LoneInv(c), StartIngest(c) PROVE LoneInv(c)'
<1> DEFINE me == ctl[c]
           new == [me EXCEPT !.pc = "open", !.last = LastLocalHeight]
<1>1. /\ me \in Processes /\ me.pc = "known" /\ ~KnownUsable(me.last)
      /\ Now(c, new) /\ UNCHANGED <<head, rows, gaps, admitted>>
  BY DEF IInv, Typed, StartIngest, At, dbVars
<1>2. /\ new.pc = "open" /\ new.last = LastLocalHeight /\ new.seen = me.seen
      /\ new.warmUp = me.warmUp
  BY Zenon, <1>1 DEF Processes
<1> HIDE DEF new
<1>3. SeenIsKnown(new)
  BY Zenon, <1>2 DEF LoneInv, SeenIsKnown
<1>4. /\ me.seen.snap.block < me.last /\ me.last <= head /\ ~me.warmUp
      /\ \A s \in rows : s.block <= me.last
  BY Zenon, <1>1 DEF LoneInv, Unrivalled
<1>5. Older(head)
  BY <1>1, <1>4, LoneTypes DEF Older, KnownUsable
<1>6. me.seen.snap.block < head
  BY <1>4, LoneTypes
<1>7. Unrivalled(new)
  BY Zenon, <1>2, <1>4, <1>5, <1>6, LastIsLast DEF IInv, Unrivalled, Ingesting
<1> QED
  BY <1>1, <1>3, <1>7, LoneStep

(* The chain may have gone on since; the pinned block is newer still.      *)
LEMMA LoneOpenBlock ==
  ASSUME IInv, NEW c \in Controllers, LoneInv(c), OpenBlock(c) PROVE LoneInv(c)'
<1> DEFINE me == ctl[c]
           snap == [NoSnapshot EXCEPT !.block = head, !.complete = TRUE]
           new == [me EXCEPT !.pc = "read", !.left = Reads, !.snap = snap]
<1>1. /\ me \in Processes /\ me.pc = "open"
      /\ Now(c, new) /\ UNCHANGED <<head, rows, gaps, admitted>>
  BY DEF IInv, Typed, OpenBlock, At, dbVars
<1>2. /\ new.pc = "read" /\ new.last = me.last /\ new.seen = me.seen
      /\ new.warmUp = me.warmUp /\ new.snap.block = head
  BY Zenon, <1>1 DEF Processes, NoSnapshot
<1> HIDE DEF new
<1>3. SeenIsKnown(new)
  BY <1>2 DEF LoneInv, SeenIsKnown
<1>4. Unrivalled(new)
  <2>1. me.seen.snap.block < head /\ Older(head) /\ IsLast(me.last) /\ ~me.warmUp
    BY Zenon, <1>1 DEF LoneInv, Unrivalled
  <2>2. head <= head /\ (\A s \in rows : s.block <= head) /\ (\A g \in gaps : g < head)
    BY LoneTypes DEF LoneInv, Store
  <2> QED
    BY Zenon, <1>2, <2>1, <2>2 DEF Unrivalled, Ingesting
<1> QED
  BY <1>1, <1>3, <1>4, LoneStep

(* A discarded assembly leaves the pass where it was opened.               *)
LEMMA LoneDiscard ==
  ASSUME IInv, NEW c \in Controllers, LoneInv(c), ctl[c].pc = "read",
         Discard(c, ctl[c]), UNCHANGED <<head, rows, gaps, admitted>>
  PROVE  LoneInv(c)'
<1> DEFINE me == ctl[c]
           new == [me EXCEPT !.pc = "open", !.attempt = @ + 1, !.left = {}, !.snap = NoSnapshot]
<1>1. me \in Processes /\ (Now(c, new) \/ Now(c, Done(me)))
  BY DEF IInv, Typed, Discard
<1>2. /\ new.pc = "open" /\ new.last = me.last /\ new.seen = me.seen
      /\ new.warmUp = me.warmUp
  BY Zenon, <1>1 DEF Processes
<1> HIDE DEF new
<1>3. SeenIsKnown(new)
  BY Zenon, <1>2 DEF LoneInv, SeenIsKnown
<1>4. /\ me.snap.block <= head /\ me.seen.snap.block < me.snap.block
      /\ Older(me.snap.block) /\ IsLast(me.last) /\ ~me.warmUp
  BY Zenon DEF LoneInv, Unrivalled, Ingesting
<1>5. Older(head) /\ me.seen.snap.block < head
  BY <1>4, LoneTypes DEF Older
<1>6. Unrivalled(new)
  BY Zenon, <1>2, <1>4, <1>5 DEF Unrivalled, Ingesting
<1>7. SeenIsKnown(Done(me)) /\ Unrivalled(Done(me))
  BY <1>1, LoneDone DEF LoneInv
<1> QED
  BY Zenon, <1>1, <1>3, <1>6, <1>7, LoneStep

(* The reads.                                                              *)
LEMMA LoneRead ==
  ASSUME IInv, NEW c \in Controllers, LoneInv(c), NEW r \in Reads,
         ReadAnchored(c, r) \/ ReadUnavailable(c, r) \/ ReadConflicts(c, r)
  PROVE  LoneInv(c)'
<1> DEFINE me == ctl[c]
<1>1. /\ me \in Processes /\ me.pc = "read" /\ me.warmUp \in BOOLEAN
      /\ SeenIsKnown(me) /\ Unrivalled(me) /\ ~me.warmUp
      /\ UNCHANGED <<head, rows, gaps, admitted>>
  BY Zenon, LoneTypes
     DEF IInv, Typed, ReadAnchored, ReadUnavailable, ReadConflicts, At, dbVars, LoneInv,
         Unrivalled
<1>2. ASSUME NEW a, NEW cache,
             Now(c, [me EXCEPT !.left = @ \ {r}, !.snap.reads[r] = a, !.cache = cache])
      PROVE  LoneInv(c)'
  <2> DEFINE new == [me EXCEPT !.left = @ \ {r}, !.snap.reads[r] = a, !.cache = cache]
  <2>1. /\ new.pc = me.pc /\ new.seen = me.seen /\ new.last = me.last
        /\ new.warmUp = me.warmUp /\ new.snap.block = me.snap.block
    BY Zenon, <1>1, LoneTypes DEF Processes, Assemblies
  <2> HIDE DEF new
  <2>2. SeenIsKnown(new) /\ Unrivalled(new)
    BY <1>1, <2>1, LoneGoesOn DEF Ingesting
  <2> QED
    BY Zenon, <1>1, <1>2, <2>2, LoneStep DEF new
<1>3. CASE ReadAnchored(c, r)
  BY <1>2, <1>3, Zenon DEF ReadAnchored
<1>4. CASE ReadUnavailable(c, r)
  <2> DEFINE new == [me EXCEPT !.left = @ \ {r}, !.snap.complete = FALSE]
  <2>1. /\ new.pc = me.pc /\ new.seen = me.seen /\ new.last = me.last
        /\ new.warmUp = me.warmUp /\ new.snap.block = me.snap.block /\ Now(c, new)
    BY Zenon, <1>1, <1>4, LoneTypes DEF Processes, Assemblies, ReadUnavailable
  <2> HIDE DEF new
  <2>2. SeenIsKnown(new) /\ Unrivalled(new)
    BY Zenon, <1>1, <2>1, LoneGoesOn DEF Ingesting
  <2> QED
    BY Zenon, <1>1, <2>1, <2>2, LoneStep
<1>5. CASE ReadConflicts(c, r)
  BY <1>1, <1>5, LoneDiscard DEF ReadConflicts
<1> QED
  BY <1>3, <1>4, <1>5

(* The closing read, and the ids that are to be fetched.                   *)
LEMMA LoneCloseBlock ==
  ASSUME IInv, NEW c \in Controllers, LoneInv(c), CloseBlock(c) \/ Wanted(c)
  PROVE  LoneInv(c)'
<1> DEFINE me == ctl[c]
<1>1. /\ me \in Processes /\ me.pc \in {"read", "wanted"} /\ me.warmUp \in BOOLEAN
      /\ SeenIsKnown(me) /\ Unrivalled(me) /\ UNCHANGED <<head, rows, gaps, admitted>>
  BY LoneTypes DEF IInv, Typed, CloseBlock, Wanted, At, dbVars, LoneInv
<1>2. CASE Now(c, [me EXCEPT !.pc = "wanted"])
  <2> DEFINE new == [me EXCEPT !.pc = "wanted"]
  <2>1. /\ new.pc = "wanted" /\ new.seen = me.seen /\ new.last = me.last
        /\ new.warmUp = me.warmUp /\ new.snap = me.snap
    BY Zenon, <1>1 DEF Processes
  <2> HIDE DEF new
  <2>2. SeenIsKnown(new) /\ Unrivalled(new)
    BY Zenon, <1>1, <2>1, LoneGoesOn DEF Ingesting
  <2> QED
    BY <1>1, <1>2, <2>2, LoneStep DEF new
<1>3. CASE Wanted(c)
  <2> DEFINE new == [me EXCEPT !.pc = "fetch", !.ids = Unretained(me.snap.block),
                               !.spent = 0, !.missing = {}]
  <2>1. /\ new.pc = "fetch" /\ new.seen = me.seen /\ new.last = me.last
        /\ new.warmUp = me.warmUp /\ new.snap = me.snap /\ Now(c, new)
    BY Zenon, <1>1, <1>3 DEF Processes, Wanted
  <2> HIDE DEF new
  <2>2. SeenIsKnown(new) /\ Unrivalled(new)
    BY Zenon, <1>1, <2>1, LoneGoesOn DEF Ingesting
  <2> QED
    BY <1>1, <2>1, <2>2, LoneStep
<1>4. CASE Discard(c, me) /\ me.pc = "read"
  BY <1>1, <1>4, LoneDiscard
<1> QED
  BY <1>2, <1>3, <1>4 DEF CloseBlock, At

(* The fetches.                                                            *)
LEMMA LoneFetch ==
  ASSUME IInv, NEW c \in Controllers, LoneInv(c), NEW id, FetchOne(c, id) \/ FetchFails(c, id)
  PROVE  LoneInv(c)'
<1> DEFINE me == ctl[c]
<1>1. /\ me \in Processes /\ me.pc = "fetch" /\ me.warmUp \in BOOLEAN
      /\ SeenIsKnown(me) /\ Unrivalled(me) /\ UNCHANGED <<head, rows, gaps, admitted>>
  BY LoneTypes DEF IInv, Typed, FetchOne, FetchFails, At, dbVars, LoneInv
<1>2. ASSUME NEW missing,
             Now(c, [me EXCEPT !.ids = @ \ {id}, !.spent = @ + 1, !.missing = missing])
      PROVE  LoneInv(c)'
  <2> DEFINE new == [me EXCEPT !.ids = @ \ {id}, !.spent = @ + 1, !.missing = missing]
  <2>1. /\ new.pc = "fetch" /\ new.seen = me.seen /\ new.last = me.last
        /\ new.warmUp = me.warmUp /\ new.snap = me.snap
    BY Zenon, <1>1 DEF Processes
  <2> HIDE DEF new
  <2>2. SeenIsKnown(new) /\ Unrivalled(new)
    BY <1>1, <2>1, LoneGoesOn DEF Ingesting
  <2> QED
    BY <1>1, <1>2, <2>2, LoneStep DEF new
<1>3. CASE FetchFails(c, id)
  BY Zenon, <1>2, <1>3 DEF FetchFails
<1>4. CASE FetchOne(c, id)
  <2> DEFINE new == [me EXCEPT !.ids = @ \ {id}, !.spent = @ + 1]
  <2>1. /\ new.pc = "fetch" /\ new.seen = me.seen /\ new.last = me.last
        /\ new.warmUp = me.warmUp /\ new.snap = me.snap /\ Now(c, new)
    BY Zenon, <1>1, <1>4 DEF Processes, FetchOne
  <2> HIDE DEF new
  <2>2. SeenIsKnown(new) /\ Unrivalled(new)
    BY Zenon, <1>1, <2>1, LoneGoesOn DEF Ingesting
  <2> QED
    BY <1>1, <2>1, <2>2, LoneStep
<1> QED
  BY <1>3, <1>4

(* A warm-up goes on to persist, a new block to the gap record.            *)
LEMMA LoneFetchesDone ==
  ASSUME IInv, NEW c \in Controllers, LoneInv(c), FetchesDone(c) PROVE LoneInv(c)'
<1> DEFINE me == ctl[c]
           ready == (me.missing \union me.ids = {})
           to == IF me.warmUp THEN "persist" ELSE "gap"
           new == [me EXCEPT !.pc = to, !.ids = {}, !.missing = {}, !.spent = 0,
                             !.snap.ready = ready]
<1>1. /\ me \in Processes /\ me.pc = "fetch" /\ me.warmUp \in BOOLEAN
      /\ SeenIsKnown(me) /\ Unrivalled(me) /\ UNCHANGED <<head, rows, gaps, admitted>>
      /\ Now(c, Done(me)) \/ Now(c, new)
  BY Zenon, LoneTypes DEF IInv, Typed, FetchesDone, At, dbVars, LoneInv
<1>2. /\ new.pc = to /\ new.seen = me.seen /\ new.last = me.last
      /\ new.warmUp = me.warmUp /\ new.snap.block = me.snap.block
      /\ new.snap.complete = me.snap.complete
  <2> HIDE DEF to, ready
  <2> QED
    BY Zenon, <1>1, LoneTypes DEF Processes, Assemblies
<1> HIDE DEF new
<1>3. SeenIsKnown(new) /\ Unrivalled(new)
  BY Zenon, <1>1, <1>2, LoneGoesOn DEF Ingesting
<1>4. SeenIsKnown(Done(me)) /\ Unrivalled(Done(me))
  BY <1>1, LoneDone
<1> QED
  BY <1>1, <1>3, <1>4, LoneStep

(* record_block_gap: what lies between the last height and the block was   *)
(* not observed, and is on record when the block is.                       *)
LEMMA LoneRecordGap ==
  ASSUME IInv, NEW c \in Controllers, LoneInv(c), RecordGap(c) PROVE LoneInv(c)'
<1> DEFINE me == ctl[c]
           b == me.snap.block
           new == [me EXCEPT !.pc = "persist"]
<1>1. /\ me \in Processes /\ me.pc = "gap" /\ Now(c, new) /\ UNCHANGED <<head, rows, admitted>>
      /\ gaps' = IF me.last = 0 THEN gaps ELSE gaps \union Missed(me.last, b)
  BY DEF IInv, Typed, RecordGap, At
<1>2. /\ new.pc = "persist" /\ new.seen = me.seen /\ new.last = me.last
      /\ new.warmUp = me.warmUp /\ new.snap = me.snap
  BY <1>1 DEF Processes
<1>3. ctl'[c] = new
  BY <1>1 DEF IInv, Typed, Now
<1> HIDE DEF new
<1>4. /\ ~me.warmUp /\ b <= head /\ me.seen.snap.block < b /\ Older(b) /\ IsLast(me.last)
      /\ (\A s \in rows : s.block <= b) /\ (\A g \in gaps : g < b)
  BY Zenon, <1>1 DEF LoneInv, Unrivalled, Ingesting
<1>5. /\ Missed(me.last, b) \subseteq Heights
      /\ \A h \in Missed(me.last, b) : me.last < h /\ h < b /\ h \in Nat
  BY DEF Missed, Heights
<1>6. UNCHANGED Observed
  BY Zenon, <1>1 DEF Observed
<1>7. Store'
  <2>1. gaps' \subseteq Heights /\ \A g \in gaps' : g < head
    BY <1>1, <1>4, <1>5, LoneTypes DEF LoneInv, Store
  <2>2. MissedAreRecorded'
    BY Zenon, <1>1, <1>6 DEF LoneInv, Store, MissedAreRecorded
  <2>3. GapsAreTrue'
    BY <1>1, <1>4, <1>5, <1>6, LoneTypes DEF LoneInv, Store, GapsAreTrue, IsLast
  <2> QED
    BY Zenon, <1>1, <2>1, <2>2, <2>3 DEF LoneInv, Store, OncePerBlock
<1>8. SeenIsKnown(ctl[c])'
  BY <1>1, <1>2, <1>3, <1>6 DEF LoneInv, SeenIsKnown, NoneUsable, Usable
<1>9. Unrivalled(ctl[c])'
  <2>1. \A g \in gaps' : g < b
    BY Zenon, <1>1, <1>4, <1>5
  <2>2. me.last # 0 => Missed(me.last, b) \subseteq gaps'
    BY Zenon, <1>1
  <2>3. Older(b)' /\ IsLast(me.last)'
    BY <1>1, <1>3, <1>2, <1>4, <1>6 DEF Older, IsLast, Usable
  <2> QED
    BY Zenon, <1>1, <1>2, <1>3, <1>4, <2>1, <2>2, <2>3
       DEF Unrivalled, Ingesting, Missed, Older, IsLast, Usable, Observed
<1> QED
  BY <1>7, <1>8, <1>9 DEF LoneInv

(* An admission's block has a usable row.                                  *)
LEMMA UnusableIsNotAdmitted ==
  ASSUME AdmittedWereUsable, NEW h, NoneUsable(h)
  PROVE  NotAdmitted(h)
BY DEF AdmittedWereUsable, NoneUsable, NotAdmitted

(* store.rs persist of a new block: it is newer than every usable row, and *)
(* what was passed over since the last complete one is on record.          *)
LEMMA LonePersistNew ==
  ASSUME IInv, NEW c \in Controllers, LoneInv(c), ctl[c].pc = "persist", ~ctl[c].warmUp,
         rows' = rows \union {ctl[c].snap}, UNCHANGED <<head, gaps, admitted>>,
         Now(c, [ctl[c] EXCEPT !.mine = @ \cup {ctl[c].snap.block}, !.pc = "reconcile"])
  PROVE  LoneInv(c)'
<1> DEFINE me == ctl[c]
           b == me.snap.block
           new == [me EXCEPT !.mine = @ \cup {me.snap.block}, !.pc = "reconcile"]
           seen == me.seen.snap.block
<1>1. /\ me \in Processes /\ b \in Nat /\ head \in Nat /\ seen \in Nat /\ me.last \in Nat
      /\ Observed \subseteq Nat /\ \A s \in rows : s.block \in Nat
  BY LoneTypes
<1>2. /\ new.pc = "reconcile" /\ new.seen = me.seen /\ new.warmUp = me.warmUp
      /\ new.snap = me.snap
  BY <1>1 DEF Processes
<1>3. ctl'[c] = new
  BY Zenon DEF IInv, Typed, Now
<1> HIDE DEF new
<1>4. /\ b <= head /\ seen < b /\ Older(b) /\ IsLast(me.last)
      /\ (\A s \in rows : s.block <= b) /\ (\A g \in gaps : g < b)
      /\ (me.last # 0 => Missed(me.last, b) \subseteq gaps)
  BY DEF LoneInv, Unrivalled, Ingesting
<1>5. /\ Observed' = IF me.snap.complete THEN Observed \union {b} ELSE Observed
      /\ Observed \subseteq Observed'
  BY DEF Observed
<1>6. \A o \in Observed : o <= b
  BY Zenon, <1>4 DEF Observed
<1>7. NoneUsable(b)
  BY <1>1, <1>4 DEF Older, NoneUsable
<1>8. Store'
  <2>1. \A s \in rows' : 1 <= s.block /\ s.block <= head
    BY <1>1, <1>4 DEF LoneInv, Store
  <2>2. GapsAreTrue'
    BY <1>1, <1>4, <1>5 DEF LoneInv, Store, GapsAreTrue, Heights
  <2>3. ASSUME NEW o \in Observed', NEW p \in Observed', NEW h \in Heights, o < h, h < p
        PROVE  h \in Observed' \union gaps'
    <3>1. h \in Nat /\ o \in Nat /\ p \in Nat
      BY <1>1, <1>5 DEF Heights
    <3>2. o # b
      BY <1>1, <1>5, <1>6, <2>3, <3>1
    <3>3. o \in Observed
      BY Zenon, <1>5, <3>2
    <3>4. CASE p \in Observed
      BY <1>5, <2>3, <3>3, <3>4 DEF LoneInv, Store, MissedAreRecorded
    <3>5. CASE p = b
      <4>1. o <= me.last /\ me.last \in {0} \union Observed
        BY <1>4, <3>3 DEF IsLast
      <4>2. o >= 1
        BY <3>3 DEF LoneInv, Store, Observed
      <4>3. me.last \in Observed /\ me.last # 0
        BY <1>1, <3>1, <4>1, <4>2
      <4>4. CASE h < me.last
        BY Zenon, <1>5, <2>3, <3>3, <4>3, <4>4 DEF LoneInv, Store, MissedAreRecorded
      <4>5. CASE h = me.last
        BY Zenon, <1>5, <4>3, <4>5
      <4>6. CASE h > me.last
        BY <1>4, <2>3, <3>5, <4>3, <4>6 DEF Missed
      <4> QED
        BY <1>1, <3>1, <4>4, <4>5, <4>6
    <3> QED
      BY Zenon, <1>5, <3>4, <3>5
  <2>4. MissedAreRecorded'
    BY Zenon, <2>3 DEF MissedAreRecorded, Heights
  <2> QED
    BY Zenon, <2>1, <2>2, <2>4 DEF LoneInv, Store, OncePerBlock, Heights
<1>9. SeenIsKnown(ctl[c])'
  <2>1. ~me.seen.usable => NoneUsable(seen)'
    BY <1>1, <1>2, <1>3, <1>4 DEF LoneInv, SeenIsKnown, NoneUsable, Usable
  <2> QED
    BY Zenon, <1>2, <1>3, <1>5, <2>1 DEF LoneInv, SeenIsKnown, NoneUsable
<1>10. Unrivalled(ctl[c])'
  <2>1. NotAdmitted(b)
    BY <1>7, UnusableIsNotAdmitted DEF IInv
  <2>2. ~Usable(me.snap) => \A s \in rows' : Usable(s) => s.block # b
    BY Zenon, <1>7 DEF NoneUsable
  <2> QED
    BY <1>2, <1>3, <1>4, <2>1, <2>2 DEF Unrivalled, Ingesting, NotAdmitted, NoneUsable, Usable
<1> QED
  BY Zenon, <1>8, <1>9, <1>10 DEF LoneInv

(* persist of a warmed-up block: it was on record, only not usable.        *)
LEMMA LonePersistWarm ==
  ASSUME IInv, NEW c \in Controllers, LoneInv(c), ctl[c].pc = "persist", ctl[c].warmUp,
         rows' = rows \union {ctl[c].snap}, UNCHANGED <<head, gaps, admitted>>,
         NEW new, Now(c, new), new.pc = "decide", new.snap = ctl[c].snap,
         new.seen.snap = ctl[c].snap, new.seen.usable = Usable(ctl[c].snap)
  PROVE  LoneInv(c)'
<1> DEFINE me == ctl[c]
           b == me.snap.block
<1>1. ctl'[c] = new
  BY DEF IInv, Typed, Now
<1>2. b = me.seen.snap.block /\ b # 0 /\ me.snap.complete /\ ~me.seen.usable
  BY Zenon DEF LoneInv, Unrivalled
<1>3. b <= head /\ b \in Observed /\ NoneUsable(b)
  BY Zenon, <1>2 DEF LoneInv, SeenIsKnown
<1>4. Observed' = Observed
  BY Zenon, <1>3 DEF Observed
<1>5. Store'
  <2>1. \A s \in rows' : 1 <= s.block /\ s.block <= head
    BY Zenon, <1>3 DEF LoneInv, Store, Observed
  <2> QED
    BY Zenon, <1>4, <2>1 DEF LoneInv, Store, MissedAreRecorded, GapsAreTrue, OncePerBlock, Heights
<1>6. ~Usable(me.snap) => \A s \in rows' : Usable(s) => s.block # b
  BY <1>3 DEF NoneUsable
<1>7. SeenIsKnown(ctl[c])'
  BY Zenon, <1>1, <1>2, <1>3, <1>4, <1>6 DEF SeenIsKnown, NoneUsable, Usable
<1>8. NotAdmitted(b)
  BY <1>3, UnusableIsNotAdmitted DEF IInv
<1>9. Unrivalled(ctl[c])'
  BY Zenon, <1>1, <1>8 DEF Unrivalled, Ingesting, NotAdmitted
<1> QED
  BY Zenon, <1>5, <1>7, <1>9 DEF LoneInv

(* persist: a content that diverges from the stored one is not stored.     *)
LEMMA LonePersist ==
  ASSUME IInv, NEW c \in Controllers, LoneInv(c), Persist(c) PROVE LoneInv(c)'
<1> DEFINE me == ctl[c]
           seen == [me.seen EXCEPT !.snap = me.snap, !.usable = Usable(me.snap)]
           it == [me EXCEPT !.mine = @ \cup {me.snap.block}]
           warm == [it EXCEPT !.pc = "decide", !.seen = seen, !.blocks = me.seen.blocks]
           cold == [it EXCEPT !.pc = "reconcile"]
<1>1. /\ me \in Processes /\ me.seen \in Sights /\ me.pc = "persist"
      /\ me.warmUp \in BOOLEAN /\ UNCHANGED <<head, gaps, admitted>>
  BY Zenon, LoneTypes DEF Persist, At
<1>2. CASE Now(c, Done(me)) /\ UNCHANGED rows
  <2>1. SeenIsKnown(Done(me)) /\ Unrivalled(Done(me))
    BY Zenon, <1>1, LoneDone DEF LoneInv
  <2> QED
    BY Zenon, <1>1, <1>2, <2>1, LoneStep
<1>3. CASE rows' = rows \union {me.snap} /\ me.warmUp /\ Now(c, warm)
  <2>1. seen.snap = me.snap /\ seen.usable = Usable(me.snap)
    BY <1>1 DEF Sights
  <2>2. it \in [DOMAIN me -> {it[f] : f \in DOMAIN me}] /\ it.snap = me.snap
    BY <1>1 DEF Processes
  <2>3. warm.pc = "decide" /\ warm.snap = me.snap /\ warm.seen = seen
    <3> HIDE DEF seen
    <3> QED
      BY <1>1 DEF Processes
  <2> HIDE DEF warm, seen
  <2> QED
    BY <1>1, <1>3, <2>1, <2>3, LonePersistWarm
<1>4. CASE rows' = rows \union {me.snap} /\ ~me.warmUp /\ Now(c, cold)
  <2>1. cold = [me EXCEPT !.mine = @ \cup {me.snap.block}, !.pc = "reconcile"]
    OBVIOUS
  <2> QED
    BY Zenon, <1>1, <1>4, <2>1, LonePersistNew
<1> QED
  BY <1>1, <1>2, <1>3, <1>4 DEF Persist

(* reconcile_block: the block becomes the seen one.                        *)
LEMMA LoneReconcile ==
  ASSUME IInv, NEW c \in Controllers, LoneInv(c), Reconcile(c) PROVE LoneInv(c)'
<1> DEFINE me == ctl[c]
<1>1. /\ me \in Processes /\ me.pc = "reconcile" /\ me.snap.complete
      /\ UNCHANGED <<head, rows, gaps, admitted>>
  BY DEF IInv, Typed, Reconcile, At, dbVars
<1>2. PICK b \in BOOLEAN :
        Now(c, [me EXCEPT !.pc = "decide", !.blocks = b,
                  !.seen = [snap |-> me.snap, usable |-> Usable(me.snap), blocks |-> b]])
  BY Zenon DEF Reconcile
<1> DEFINE seen == [snap |-> me.snap, usable |-> Usable(me.snap), blocks |-> b]
           new == [me EXCEPT !.pc = "decide", !.blocks = b, !.seen = seen]
<1>3. seen.snap = me.snap /\ seen.usable = Usable(me.snap)
  OBVIOUS
<1>4. new.pc = "decide" /\ new.snap = me.snap /\ new.seen = seen
  <2> HIDE DEF seen
  <2> QED
    BY <1>1 DEF Processes
<1> HIDE DEF new, seen
<1>5. /\ me.snap.block <= head /\ me.snap \in rows /\ NotAdmitted(me.snap.block)
      /\ ~Usable(me.snap) => NoneUsable(me.snap.block)
  BY Zenon, <1>1 DEF LoneInv, Unrivalled
<1>6. SeenIsKnown(new)
  BY Zenon, <1>1, <1>3, <1>4, <1>5 DEF SeenIsKnown, Observed
<1>7. Unrivalled(new)
  BY Zenon, <1>4, <1>5 DEF Unrivalled, Ingesting
<1> QED
  BY <1>1, <1>2, <1>6, <1>7, LoneStep DEF new, seen

(* decide: nothing was admitted at the block before.                       *)
LEMMA LoneDecide ==
  ASSUME IInv, NEW c \in Controllers, LoneInv(c), Decide(c) PROVE LoneInv(c)'
<1> DEFINE me == ctl[c]
           b == me.snap.block
<1>1. /\ me \in Processes /\ me.pc = "decide" /\ Now(c, Done(me))
      /\ UNCHANGED <<head, rows, gaps>> /\ admitted \in Seq(Blocks) /\ b \in Blocks
  BY Zenon, LoneTypes DEF IInv, Typed, Decide, At, Assemblies
<1>2. SeenIsKnown(Done(me)) /\ Unrivalled(Done(me))
  BY Zenon, <1>1, LoneDone DEF LoneInv
<1>3. CASE UNCHANGED admitted
  BY Zenon, <1>1, <1>2, <1>3, LoneStep
<1>4. CASE admitted' = Append(admitted, b)
  <2>1. /\ Len(admitted') = Len(admitted) + 1 /\ Len(admitted) \in Nat
        /\ \A n \in 1..Len(admitted') :
             admitted'[n] = IF n = Len(admitted) + 1 THEN b ELSE admitted[n]
    BY <1>1, <1>4
  <2>2. NotAdmitted(b)
    BY Zenon, <1>1 DEF LoneInv, Unrivalled
  <2>3. OncePerBlock'
    <3> SUFFICES ASSUME NEW m \in 1..Len(admitted'), NEW n \in 1..Len(admitted'),
                        admitted'[m] = admitted'[n]
                 PROVE  m = n
      BY Zenon DEF OncePerBlock
    <3>1. CASE m = Len(admitted) + 1 /\ n # Len(admitted) + 1
      BY <2>1, <2>2, <3>1 DEF NotAdmitted
    <3>2. CASE n = Len(admitted) + 1 /\ m # Len(admitted) + 1
      BY <2>1, <2>2, <3>2 DEF NotAdmitted
    <3>3. CASE m # Len(admitted) + 1 /\ n # Len(admitted) + 1
      BY <2>1, <3>3 DEF LoneInv, Store, OncePerBlock
    <3> QED
      BY <3>1, <3>2, <3>3
  <2>4. Observed' = Observed
    BY Zenon, <1>1 DEF Observed
  <2>5. Store'
    BY <1>1, <2>3, <2>4 DEF LoneInv, Store, MissedAreRecorded, GapsAreTrue
  <2>6. ctl'[c] = Done(me)
    BY Zenon, <1>1 DEF IInv, Typed, Now
  <2>7. SeenIsKnown(ctl[c])'
    BY <1>1, <1>2, <2>4, <2>6 DEF SeenIsKnown, NoneUsable, Usable
  <2>8. Unrivalled(ctl[c])'
    <3>1. Done(me).pc = "poll" /\ Done(me).warmUp = FALSE
      BY Zenon DEF Done, Fresh
    <3> QED
      BY Zenon, <2>6, <3>1 DEF Unrivalled, Ingesting
  <2> QED
    BY <2>5, <2>7, <2>8 DEF LoneInv
<1> QED
  BY Zenon, <1>3, <1>4 DEF Decide

(* A new block: what was not newer than the chain's head still is not.     *)
LEMMA LoneNewBlock ==
  ASSUME IInv, NEW c \in Controllers, LoneInv(c), NewBlock PROVE LoneInv(c)'
<1>1. head' = head + 1 /\ UNCHANGED <<rows, gaps, admitted, ctl>>
  BY DEF NewBlock, dbVars
<1>2. Observed' = Observed
  BY Zenon, <1>1 DEF Observed
<1>3. Store'
  BY <1>1, <1>2, LoneTypes
     DEF LoneInv, Store, MissedAreRecorded, GapsAreTrue, OncePerBlock, Heights
<1>4. SeenIsKnown(ctl[c])'
  BY <1>1, <1>2, LoneTypes DEF LoneInv, SeenIsKnown, NoneUsable, Usable
<1>5. Unrivalled(ctl[c])'
  <2> DEFINE me == ctl[c]
             seen == me.seen.snap.block
  <2>1. /\ seen < head => seen < head'
        /\ me.last <= head => me.last <= head'
        /\ me.snap.block <= head => me.snap.block <= head'
        /\ Older(head) => Older(head)'
    BY <1>1, LoneTypes DEF Older, Usable
  <2>2. /\ me' = me /\ (Older(me.snap.block) => Older(me.snap.block)')
        /\ (NoneUsable(me.snap.block) => NoneUsable(me.snap.block)')
        /\ (NotAdmitted(me.snap.block) => NotAdmitted(me.snap.block)')
        /\ (IsLast(me.last) => IsLast(me.last)')
        /\ UNCHANGED Missed(me.last, me.snap.block)
    BY <1>1, <1>2 DEF Older, NoneUsable, NotAdmitted, IsLast, Usable, Missed
  <2>3. Unrivalled(me)
    BY Zenon DEF LoneInv
  <2> QED
    BY Zenon, <1>1, <2>1, <2>2, <2>3 DEF Unrivalled, Usable
<1> QED
  BY <1>3, <1>4, <1>5 DEF LoneInv

(* The tick ends, or the process does.                                     *)
LEMMA LoneBack ==
  ASSUME IInv, NEW c \in Controllers, LoneInv(c), Now(c, Done(ctl[c])) \/ Now(c, Fresh),
         UNCHANGED <<head, rows, gaps, admitted>>
  PROVE  LoneInv(c)'
<1>1. ctl[c] \in Processes
  BY Zenon DEF IInv, Typed
<1>2. SeenIsKnown(Done(ctl[c])) /\ Unrivalled(Done(ctl[c]))
  BY <1>1, LoneDone DEF LoneInv
<1>3. SeenIsKnown(Fresh) /\ Unrivalled(Fresh)
  BY Zenon, LoneFresh DEF LoneInv
<1> QED
  BY <1>2, <1>3, LoneStep

(* Every step of the controller.                                           *)
LEMMA LoneTick ==
  ASSUME IInv, NEW c \in Controllers, LoneInv(c), Tick(c) PROVE LoneInv(c)'
<1>1. CASE Poll(c) \/ ContinueWarmUp(c) \/ StartIngest(c) \/ OpenBlock(c)
  BY Zenon, <1>1, LonePoll, LoneWarmUp, LoneStartIngest, LoneOpenBlock
<1>2. CASE AlreadyIngested(c) \/ Blind(c)
  BY <1>2, LoneBack DEF AlreadyIngested, Blind, dbVars
<1>3. CASE \E r \in Reads : ReadAnchored(c, r) \/ ReadUnavailable(c, r) \/ ReadConflicts(c, r)
  BY <1>3, LoneRead
<1>4. CASE \E id \in Ids : FetchOne(c, id) \/ FetchFails(c, id)
  BY <1>4, LoneFetch
<1>5. CASE CloseBlock(c) \/ Wanted(c) \/ FetchesDone(c) \/ RecordGap(c)
  BY <1>5, LoneCloseBlock, LoneFetchesDone, LoneRecordGap
<1>6. CASE Persist(c) \/ Reconcile(c) \/ Decide(c)
  BY Zenon, <1>6, LonePersist, LoneReconcile, LoneDecide
<1> QED
  BY <1>1, <1>2, <1>3, <1>4, <1>5, <1>6 DEF Tick

(* A controller that never leaves its first state does nothing to others.  *)
LEMMA LoneOthers ==
  ASSUME IInv, NEW c \in Controllers, LoneInv(c), NEW d \in Controllers, d # c,
         ctl[d] = Fresh, ctl'[d] = Fresh, Tick(d) \/ TickFails(d) \/ Restart(d)
  PROVE  LoneInv(c)'
<1>1. Fresh.pc = "poll"
  BY Zenon, FreshIsTyped
<1>2. ~Tick(d) /\ ~TickFails(d)
  <2>1. ASSUME NEW new, Now(d, new), new.pc # "poll" PROVE FALSE
    BY <1>1, <2>1 DEF Now, IInv, Typed
  <2>2. ~Poll(d)
    BY Zenon, <2>1, FreshIsTyped DEF Poll, Processes
  <2>3. ~ContinueWarmUp(d)
    BY Zenon, <2>1, FreshIsTyped DEF ContinueWarmUp, Processes
  <2> QED
    BY Zenon, <1>1, <2>2, <2>3
       DEF Tick, TickFails, At, AlreadyIngested, StartIngest, OpenBlock, ReadAnchored,
           ReadUnavailable, ReadConflicts, CloseBlock, Wanted, FetchOne, FetchFails,
           FetchesDone, RecordGap, Persist, Blind, Reconcile, Decide
<1>3. Restart(d)
  BY <1>2
<1>4. Now(c, ctl[c]) /\ UNCHANGED <<head, rows, gaps, admitted>>
  BY Zenon, <1>3 DEF Restart, Now, dbVars, IInv, Typed
<1> QED
  BY Zenon, <1>4, LoneStep DEF LoneInv

(***************************************************************************)
(* The theorems                                                            *)
(***************************************************************************)

(* IInv is an inductive invariant of the poll loop of any number of        *)
(* controllers (service.rs tick, ingest.rs, store.rs persist).             *)
THEOREM IngestionInvariance == Spec => []IInv
<1>1. Init => IInv
  <2> SUFFICES ASSUME Init PROVE IInv
    OBVIOUS
  <2>1. Typed
    BY IngestionAssumption, FreshIsSound DEF Init, Typed, Heights
  <2>2. \A c \in Controllers : Sound(ctl[c])
    BY Zenon, FreshIsSound DEF Init
  <2>3. SnapshotsAreWhole /\ AdmittedWereUsable /\ AnchorsAscend
    BY DEF Init, SnapshotsAreWhole, AdmittedWereUsable, AnchorsAscend
  <2> QED
    BY <2>1, <2>2, <2>3 DEF IInv
<1>2. IInv /\ [Next]_vars => IInv'
  <2> SUFFICES ASSUME IInv, [Next]_vars PROVE IInv'
    OBVIOUS
  <2>1. CASE NewBlock
    BY <2>1, NewBlockKeeps
  <2>2. ASSUME NEW c \in Controllers, Tick(c)
        PROVE  IInv'
    BY Zenon, <2>2, TickKeeps
  <2>3. ASSUME NEW c \in Controllers, TickFails(c) \/ Restart(c)
        PROVE  IInv'
    BY <2>3, BackToTheLoop DEF TickFails, Restart, dbVars
  <2>4. CASE UNCHANGED vars
    BY Zenon, <2>4
       DEF vars, dbVars, IInv, Typed, Sound, Covered, Assembled, SnapshotsAreWhole,
           AdmittedWereUsable, AnchorsAscend, Usable
  <2> QED
    BY <2>1, <2>2, <2>3, <2>4 DEF Next
<1> QED
  BY <1>1, <1>2, PTL DEF Spec

(* Every persisted snapshot is of one block, has every read when it is     *)
(* complete, and has its active benchmarks cached when it is ready         *)
(* (pool-snapshot lib.rs, active_cache.rs).                                *)
THEOREM PersistedIsWhole == Spec => []SnapshotsAreWhole
<1>1. IInv => SnapshotsAreWhole
  BY DEF IInv
<1> QED
  BY <1>1, IngestionInvariance, PTL

(* The anchors of the admissions ascend, whatever controllers race to      *)
(* decide (decision.rs require_newest_anchor).                             *)
THEOREM DecisionsMoveForward == Spec => []AnchorsAscend
<1>1. IInv => AnchorsAscend
  BY DEF IInv
<1> QED
  BY <1>1, IngestionInvariance, PTL

(* The instance with its shapes: the invariant of every behaviour in which *)
(* one controller runs.                                                    *)
Unaccompanied ==
  \A c \in Controllers : shape.controllers = {c} =>
    LoneInv(c) /\ \A d \in Controllers \ {c} : ctl[d] = Fresh

(* A bounded behaviour is a behaviour.                                     *)
LEMMA ShapesImplement == MCSpec => Spec
<1>1. MCInit => Init
  BY DEF MCInit
<1>2. [MCNext]_<<vars, shape>> => [Next]_vars
  BY DEF MCNext
<1> QED
  BY <1>1, <1>2, PTL DEF MCSpec, Spec

(* A controller that runs alone, however often it fails and is restarted   *)
(* and wherever the chain goes meanwhile, keeps LoneInv (service.rs tick). *)
THEOREM LoneInvariance == MCSpec => []Unaccompanied
<1>1. Init => Unaccompanied
  <2> SUFFICES ASSUME Init, NEW c \in Controllers
               PROVE  LoneInv(c) /\ \A d \in Controllers \ {c} : ctl[d] = Fresh
    BY Zenon DEF Unaccompanied
  <2>1. ctl[c] = Fresh /\ (\A d \in Controllers \ {c} : ctl[d] = Fresh) /\ head = 1
    BY Zenon DEF Init
  <2>2. Store
    <3>1. rows = {} /\ gaps = {} /\ admitted = <<>>
      BY Zenon DEF Init
    <3>2. Observed = {}
      BY Zenon, <3>1 DEF Observed
    <3>3. MissedAreRecorded /\ GapsAreTrue
      BY Zenon, <3>1, <3>2 DEF MissedAreRecorded, GapsAreTrue
    <3>4. OncePerBlock
      BY <3>1 DEF OncePerBlock
    <3> QED
      BY Zenon, <3>1, <3>3, <3>4 DEF Store
  <2>3. /\ Fresh.pc = "poll" /\ Fresh.warmUp = FALSE /\ Fresh.seen.snap.block = 0
    BY FreshIsAtRest
  <2>4. NoneUsable(0)
    BY Zenon DEF Init, NoneUsable
  <2> QED
    BY <2>1, <2>2, <2>3, <2>4 DEF LoneInv, SeenIsKnown, Unrivalled, Ingesting
<1>2. IInv /\ Unaccompanied /\ [MCNext]_<<vars, shape>> => Unaccompanied'
  <2> SUFFICES ASSUME IInv, Unaccompanied, [MCNext]_<<vars, shape>>,
                      NEW c \in Controllers, shape'.controllers = {c}
               PROVE  (LoneInv(c) /\ \A d \in Controllers \ {c} : ctl[d] = Fresh)'
    BY Zenon DEF Unaccompanied
  <2>1. CASE UNCHANGED <<vars, shape>>
    <3>1. LoneInv(c) /\ \A d \in Controllers \ {c} : ctl[d] = Fresh
      BY Zenon, <2>1 DEF Unaccompanied
    <3>2. Now(c, ctl[c]) /\ UNCHANGED <<head, rows, gaps, admitted, ctl>>
      BY Zenon, <2>1 DEF Now, vars, dbVars, IInv, Typed
    <3>3. LoneInv(c)'
      BY Zenon, <3>1, <3>2, LoneStep DEF LoneInv
    <3> QED
      BY Zenon, <3>1, <3>2, <3>3
  <2>2. CASE MCNext
    <3>1. /\ Next /\ LoneInv(c)
          /\ \A d \in Controllers \ {c} : ctl[d] = Fresh /\ ctl'[d] = Fresh
      BY Zenon, <2>2 DEF MCNext, Within, Unaccompanied
    <3>2. CASE NewBlock
      BY Zenon, <3>1, <3>2, LoneNewBlock
    <3>3. ASSUME NEW d \in Controllers, Tick(d) \/ TickFails(d) \/ Restart(d)
          PROVE  LoneInv(c)'
      <4>1. CASE d # c
        BY Zenon, <3>1, <3>3, <4>1, LoneOthers
      <4>2. CASE Tick(c)
        BY Zenon, <3>1, <4>2, LoneTick
      <4>3. CASE TickFails(c) \/ Restart(c)
        BY <3>1, <4>3, LoneBack DEF TickFails, Restart, dbVars
      <4> QED
        BY Zenon, <3>3, <4>1, <4>2, <4>3
    <3> QED
      BY Zenon, <3>1, <3>2, <3>3 DEF Next
  <2> QED
    BY Zenon, <2>1, <2>2
<1>3. MCSpec => []IInv
  BY ShapesImplement, IngestionInvariance, PTL
<1>4. MCInit => Init
  BY DEF MCInit
<1> QED
  BY <1>1, <1>2, <1>3, <1>4, PTL DEF MCSpec

(* A lone controller admits at most one decision per block: what it polls  *)
(* again has no usable row, so no admission, and what it has seen is only  *)
(* warmed up until it is usable (service.rs tick, decide.rs).              *)
THEOREM OneDecisionPerBlock == MCSpec => []DecidesOncePerBlock
<1>1. Unaccompanied => DecidesOncePerBlock
  BY Zenon DEF Unaccompanied, DecidesOncePerBlock, Alone, LoneInv, Store
<1> QED
  BY <1>1, LoneInvariance, PTL

(* A lone controller's record of missed heights has every height passed    *)
(* over between two observed blocks and no observed one, for any budget,   *)
(* faults and restarts (store.rs last_local_height, restart.rs             *)
(* record_block_gap).                                                      *)
THEOREM MissedHeightsAreRecorded == MCSpec => []GapRecordIsExact
<1>1. Unaccompanied => GapRecordIsExact
  BY DEF Unaccompanied, GapRecordIsExact, Alone, LoneInv, Store
<1> QED
  BY <1>1, LoneInvariance, PTL

=============================================================================
