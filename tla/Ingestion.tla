----------------------------- MODULE Ingestion ------------------------------
(***************************************************************************)
(* The controller's poll (pool-controller service.rs, ingest.rs): notice a *)
(* block, assemble a snapshot of it from several reads while the chain     *)
(* goes on (pool-snapshot lib.rs, tig_source.rs, cache.rs), warm the cache *)
(* of active benchmarks (active_cache.rs), record the heights that were    *)
(* missed (restart.rs record_block_gap), persist, reconcile and decide.    *)
(*                                                                         *)
(* A block's id is its height.  What reconcile_block does is in module     *)
(* Lifecycle; here it is whether it ran, failed, or forbids claiming.      *)
(***************************************************************************)
EXTENDS Naturals, FiniteSets, Sequences, FiniteSetsExt

CONSTANTS
  Controllers,
  Reads,          \* the anchored reads
  Varying,        \* the reads that answer with the latest state
  ActiveIds,      \* ActiveIds[h]: block.data.active_ids.benchmark
  Budget,         \* cache_budget
  Attempts,       \* ASSEMBLY_ATTEMPTS
  MaxHeight,      \* bound on the chain
  MaxFaults       \* bound on failed calls and restarts

Heights == 1..MaxHeight
Ids == UNION {ActiveIds[h] : h \in Heights}

ASSUME IngestionAssumption ==
  /\ Varying \subseteq Reads /\ Budget \in Nat \ {0} /\ Attempts \in Nat \ {0}
  /\ MaxHeight \in Nat \ {0} /\ DOMAIN ActiveIds = Heights

VARIABLES
  head,           \* TIG's latest block
  rows,           \* pool.block_snapshot
  gaps,           \* pool.block_data_gap: the heights
  retained,       \* pool.active_benchmark_meta: the ids
  admitted,       \* anchors of the admissions, in order
  ctl,            \* ctl[c]: a controller process
  blocked,        \* blocks whose reconciliation forbids claiming
  faults          \* failed calls and restarts so far

dbVars == <<rows, gaps, retained, admitted>>
vars == <<head, dbVars, ctl, blocked, faults>>

(* An answer names the block it is of, and for a latest-state read one of  *)
(* two contents.                                                           *)
Answers(r, h) == [block : {h}, content : IF r \in Varying THEN {1, 2} ELSE {1}]
NoAnswer == [block |-> 0, content |-> 0]
NoReads == [r \in Reads |-> NoAnswer]

(* A snapshot.                                                             *)
NoSnapshot == [block |-> 0, reads |-> NoReads, complete |-> FALSE, ready |-> FALSE]
Usable(s) == s.complete /\ s.ready

(* Seen: the last block taken in and reconciled from.                      *)
NoSeen == [snap |-> NoSnapshot, usable |-> FALSE, blocks |-> FALSE]

Fresh == [pc |-> "poll", mine |-> {}, seen |-> NoSeen, cache |-> NoReads, last |-> 0,
          snap |-> NoSnapshot, left |-> {}, attempt |-> 1, ids |-> {}, spent |-> 0,
          missing |-> {}, warmUp |-> FALSE, blocks |-> FALSE]

(* Back to the loop; what a tick worked on is forgotten.                   *)
Done(me) == [Fresh EXCEPT !.seen = me.seen, !.cache = me.cache, !.mine = me.mine]

Fault == faults < MaxFaults /\ faults' = faults + 1

At(c, pc) == ctl[c].pc = pc
Now(c, new) == ctl' = [ctl EXCEPT ![c] = new]

(***************************************************************************)
(* tick                                                                    *)
(***************************************************************************)

(* A block that was not seen is looked up; one that is seen and usable is  *)
(* Unchanged.                                                              *)
Poll(c) ==
  /\ At(c, "poll") /\ ctl[c].seen.snap.block # head
  /\ Now(c, [ctl[c] EXCEPT !.pc = "known", !.last = head])
  /\ UNCHANGED <<head, dbVars, blocked, faults>>

\* Mutant: a block that was seen is done with.
NoWarmUp(c) == FALSE /\ UNCHANGED vars

(* continue_warm_up: another budget on a seen block that is not usable.    *)
ContinueWarmUp(c) ==
  LET me == ctl[c] IN
  /\ At(c, "poll") /\ me.seen.snap.block = head /\ ~me.seen.usable
  /\ Now(c, [me EXCEPT !.pc = "wanted", !.warmUp = TRUE, !.snap = me.seen.snap])
  /\ UNCHANGED <<head, dbVars, blocked, faults>>

\* Mutant: nothing is asked of the store before assembling.
NeverKnown(h) == FALSE

(* load_usable_record *)
KnownUsable(h) == \E s \in rows : s.block = h /\ Usable(s)

AlreadyIngested(c) ==
  /\ At(c, "known") /\ KnownUsable(ctl[c].last)
  /\ Now(c, Done(ctl[c]))
  /\ UNCHANGED <<head, dbVars, blocked, faults>>

\* Mutant: every assembly counts, whole or not.
LastAssembledHeight == Max({0} \cup {s.block : s \in rows})

(* last_local_height: the highest complete assembly, 0 for none.           *)
LastLocalHeight == Max({0} \cup {s.block : s \in {x \in rows : x.complete}})

StartIngest(c) ==
  /\ At(c, "known") /\ ~KnownUsable(ctl[c].last)
  /\ Now(c, [ctl[c] EXCEPT !.pc = "open", !.last = LastLocalHeight])
  /\ UNCHANGED <<head, dbVars, blocked, faults>>

(***************************************************************************)
(* assemble_once                                                           *)
(***************************************************************************)
OpenBlock(c) ==
  /\ At(c, "open")
  /\ Now(c, [ctl[c] EXCEPT !.pc = "read", !.left = Reads,
               !.snap = [NoSnapshot EXCEPT !.block = head, !.complete = TRUE]])
  /\ UNCHANGED <<head, dbVars, blocked, faults>>

\* Mutant: the response cache is asked for the request and not the block.
CachedOfAnyBlock(me, r) == {a \in {me.cache[r]} : a # NoAnswer}

(* BlockCache::get: responses are kept for one block only.                 *)
Cached(me, r) == {a \in {me.cache[r]} : a.block = me.snap.block}

(* BlockCache::put: another block's responses are dropped.                 *)
Put(me, r, a) ==
  [x \in Reads |-> CASE x = r -> a
                     [] x # r /\ me.cache[x].block = a.block -> me.cache[x]
                     [] OTHER -> NoAnswer]

(* get_anchored and get_tracks: a cached answer, or one of TIG's.          *)
ReadAnchored(c, r) ==
  LET me == ctl[c]
      take(a) == Now(c, [me EXCEPT !.left = @ \ {r}, !.snap.reads[r] = a,
                                   !.cache = Put(me, r, a)])
  IN
  /\ At(c, "read") /\ r \in me.left
  /\ IF Cached(me, r) # {} THEN \E a \in Cached(me, r) : take(a)
     ELSE \E a \in Answers(r, me.snap.block) : take(a)
  /\ UNCHANGED <<head, dbVars, blocked, faults>>

(* A transient failure leaves the snapshot incomplete.                     *)
ReadUnavailable(c, r) ==
  LET me == ctl[c] IN
  /\ At(c, "read") /\ r \in me.left /\ Cached(me, r) = {} /\ Fault
  /\ Now(c, [me EXCEPT !.left = @ \ {r}, !.snap.complete = FALSE])
  /\ UNCHANGED <<head, dbVars, blocked>>

(* RefreshConflict or BlockAdvanced: the assembly is discarded.            *)
Discard(c, me) ==
  Now(c, IF me.attempt < Attempts
         THEN [me EXCEPT !.pc = "open", !.attempt = @ + 1, !.left = {}, !.snap = NoSnapshot]
         ELSE Done(me))

ReadConflicts(c, r) ==
  /\ At(c, "read") /\ r \in ctl[c].left /\ Cached(ctl[c], r) = {}
  /\ head # ctl[c].snap.block
  /\ Discard(c, ctl[c])
  /\ UNCHANGED <<head, dbVars, blocked, faults>>

(* The closing get-block.                                                  *)
CloseBlock(c) ==
  LET me == ctl[c] IN
  /\ At(c, "read") /\ me.left = {}
  /\ IF head = me.snap.block THEN Now(c, [me EXCEPT !.pc = "wanted"])
     ELSE Discard(c, me)
  /\ UNCHANGED <<head, dbVars, blocked, faults>>

(***************************************************************************)
(* advance: the ids of the block that are not retained yet, within budget  *)
(***************************************************************************)
Unretained(h) == ActiveIds[h] \ retained

Wanted(c) ==
  LET me == ctl[c] IN
  /\ At(c, "wanted")
  /\ Now(c, [me EXCEPT !.pc = "fetch", !.ids = Unretained(me.snap.block),
                       !.spent = 0, !.missing = {}])
  /\ UNCHANGED <<head, dbVars, blocked, faults>>

(* The ids in order, while the budget lasts.                               *)
NextId(me, id) == id \in me.ids /\ me.spent < Budget /\ \A x \in me.ids : id <= x

FetchOne(c, id) ==
  LET me == ctl[c] IN
  /\ At(c, "fetch") /\ NextId(me, id)
  /\ retained' = retained \cup {id}
  /\ Now(c, [me EXCEPT !.ids = @ \ {id}, !.spent = @ + 1])
  /\ UNCHANGED <<head, rows, gaps, admitted, blocked, faults>>

(* No answer, or one of another shape than retain expects.                 *)
FetchFails(c, id) ==
  LET me == ctl[c] IN
  /\ At(c, "fetch") /\ NextId(me, id) /\ Fault
  /\ Now(c, [me EXCEPT !.ids = @ \ {id}, !.spent = @ + 1, !.missing = @ \cup {id}])
  /\ UNCHANGED <<head, dbVars, blocked>>

(* covers_active_set.  The warm-up of a seen block persists only once the  *)
(* set is covered; the first pass persists what it has.                    *)
FetchesDone(c) ==
  LET me == ctl[c]
      missing == me.missing \cup me.ids
  IN
  /\ At(c, "fetch") /\ (me.ids = {} \/ me.spent >= Budget)
  /\ Now(c, IF me.warmUp /\ missing # {} THEN Done(me)
            ELSE [me EXCEPT !.pc = IF me.warmUp THEN "persist" ELSE "gap", !.ids = {},
                            !.missing = {}, !.spent = 0, !.snap.ready = (missing = {})])
  /\ UNCHANGED <<head, dbVars, blocked, faults>>

(* record_block_gap *)
Missed(after, observed) == {h \in Heights : after < h /\ h < observed}

RecordGap(c) ==
  LET me == ctl[c] IN
  /\ At(c, "gap")
  /\ gaps' = IF me.last = 0 THEN gaps ELSE gaps \cup Missed(me.last, me.snap.block)
  /\ Now(c, [me EXCEPT !.pc = "persist"])
  /\ UNCHANGED <<head, rows, retained, admitted, blocked, faults>>

(* content_digest binds every field of a snapshot.                         *)
Digest(s) == <<s.block, s.reads, s.complete, s.ready>>

(* At most one usable row per block: another content is Divergent.         *)
Divergent(snap) ==
  Usable(snap) /\ \E s \in rows :
    s.block = snap.block /\ Usable(s) /\ Digest(s) # Digest(snap)

Persist(c) ==
  LET me == ctl[c]
      seen == [me.seen EXCEPT !.snap = me.snap, !.usable = Usable(me.snap)]
  IN
  /\ At(c, "persist")
  /\ IF Divergent(me.snap) THEN Now(c, Done(me)) /\ UNCHANGED rows
     ELSE /\ rows' = rows \cup {me.snap}
          /\ Now(c, LET it == [me EXCEPT !.mine = @ \cup {me.snap.block}] IN
               IF me.warmUp
               THEN [it EXCEPT !.pc = "decide", !.seen = seen, !.blocks = me.seen.blocks]
               ELSE [it EXCEPT !.pc = "reconcile"])
  /\ UNCHANGED <<head, gaps, retained, admitted, blocked, faults>>

(***************************************************************************)
(* reconcile_block, and decide                                             *)
(***************************************************************************)

(* Blind over an incomplete snapshot: nothing is seen and nothing decided. *)
Blind(c) ==
  /\ At(c, "reconcile") /\ ~ctl[c].snap.complete
  /\ Now(c, Done(ctl[c]))
  /\ UNCHANGED <<head, dbVars, blocked, faults>>

Reconcile(c) ==
  LET me == ctl[c] IN
  /\ At(c, "reconcile") /\ me.snap.complete
  /\ \E b \in BOOLEAN :
       /\ blocked' = IF b THEN blocked \cup {me.snap.block} ELSE blocked \ {me.snap.block}
       /\ Now(c, [me EXCEPT !.pc = "decide", !.blocks = b,
            !.seen = [snap |-> me.snap, usable |-> Usable(me.snap), blocks |-> b]])
  /\ UNCHANGED <<head, dbVars, faults>>

(* claiming_refused, for_decision *)
MayDecide(me) == Usable(me.snap) /\ ~me.blocks

\* Mutant: the anchor is not compared with the newest.
AnyAnchor(snap) == TRUE

(* require_newest_anchor *)
NewestAnchor(snap) ==
  /\ snap \in rows
  /\ \A s \in rows : Usable(s) => s.block <= snap.block

(* decide_once may also find nothing to admit; its error ends the tick.    *)
Decide(c) ==
  LET me == ctl[c] IN
  /\ At(c, "decide")
  /\ \/ MayDecide(me) /\ NewestAnchor(me.snap)
        /\ admitted' = Append(admitted, me.snap.block)
     \/ UNCHANGED admitted
  /\ Now(c, Done(me))
  /\ UNCHANGED <<head, rows, gaps, retained, blocked, faults>>

(***************************************************************************)
(* The chain, and failures                                                 *)
(***************************************************************************)
NewBlock ==
  /\ head < MaxHeight
  /\ head' = head + 1
  /\ UNCHANGED <<dbVars, ctl, blocked, faults>>

(* A call returns an error, which ends the tick.                           *)
TickFails(c) ==
  /\ ctl[c].pc \notin {"poll", "decide"} /\ Fault
  /\ Now(c, Done(ctl[c]))
  /\ UNCHANGED <<head, dbVars, blocked>>

Restart(c) ==
  /\ Fault
  /\ Now(c, Fresh)
  /\ UNCHANGED <<head, dbVars, blocked>>

Init ==
  /\ head = 1 /\ rows = {} /\ gaps = {} /\ retained = {} /\ admitted = <<>>
  /\ ctl = [c \in Controllers |-> Fresh]
  /\ blocked = {} /\ faults = 0

Tick(c) ==
  \/ Poll(c) \/ ContinueWarmUp(c) \/ AlreadyIngested(c) \/ StartIngest(c) \/ OpenBlock(c)
  \/ \E r \in Reads : ReadAnchored(c, r) \/ ReadUnavailable(c, r) \/ ReadConflicts(c, r)
  \/ CloseBlock(c) \/ Wanted(c) \/ \E id \in Ids : FetchOne(c, id) \/ FetchFails(c, id)
  \/ FetchesDone(c) \/ RecordGap(c) \/ Persist(c) \/ Blind(c) \/ Reconcile(c)
  \/ Decide(c)

Next ==
  \/ NewBlock
  \/ \E c \in Controllers : Tick(c) \/ TickFails(c) \/ Restart(c)

Spec == Init /\ [][Next]_vars

(***************************************************************************)
(* Properties                                                              *)
(***************************************************************************)
Snapshots ==
  [block : Heights, reads : [Reads -> [block : 0..MaxHeight, content : 0..2]],
   complete : BOOLEAN, ready : BOOLEAN]

TypeOK ==
  /\ head \in Heights /\ rows \subseteq Snapshots
  /\ gaps \subseteq Heights /\ retained \subseteq Ids
  /\ \A c \in Controllers :
       /\ ctl[c].left \subseteq Reads /\ ctl[c].ids \subseteq Ids
       /\ ctl[c].attempt \in 1..Attempts /\ ctl[c].spent \in 0..Budget

(* Every read of a persisted snapshot is of the block it is named after,   *)
(* and a complete one has every read, whatever was cached from earlier     *)
(* attempts and blocks (lib.rs: "every read in one snapshot is anchored to *)
(* the same block"); and a snapshot marked ready has all its active        *)
(* benchmarks in the cache (active_cache.rs).                              *)
SnapshotsAreWhole ==
  \A s \in rows :
    /\ \A r \in Reads :
         s.reads[r].block \in IF s.complete THEN {s.block} ELSE {0, s.block}
    /\ s.ready => ActiveIds[s.block] \subseteq retained

(* Of a controller that runs alone: a height between two complete          *)
(* snapshots that has none itself is on record as missed, with failed      *)
(* ticks and restarts at any point (store.rs last_local_height, restart.rs *)
(* record_block_gap).  Two controllers that start on an empty store can    *)
(* each find no last height, and then neither records what lies between.   *)
Observed == {s.block : s \in {x \in rows : x.complete}}

MissedAreRecorded ==
  \A a, b \in Observed : \A h \in Heights : a < h /\ h < b => h \in Observed \cup gaps

(* Of a controller that runs alone: a height on record as missed was never *)
(* observed.                                                               *)
GapsAreTrue == gaps \cap Observed = {}

(* Of a controller that runs alone: at most one decision is admitted per   *)
(* block, across restarts, failed ticks and warm-ups that end several      *)
(* polls later.  decide.rs names a workflow by its block, and the tuple    *)
(* search relies on it.                                                    *)
OncePerBlock == \A m, n \in 1..Len(admitted) : admitted[m] = admitted[n] => m = n

(* Of a controller that runs alone: nothing is admitted at a block whose   *)
(* reconciliation forbids claiming, even when its warm-up ends polls later *)
(* (service.rs Seen.blocks_claiming).                                      *)
AdmitsUnblocked ==
  \A n \in 1..Len(admitted') : n > Len(admitted) => admitted'[n] \notin blocked

(* No decision is anchored to an older block than one before it, with      *)
(* several controllers (decision.rs require_newest_anchor).                *)
AnchorsAscend == \A m, n \in 1..Len(admitted) : m < n => admitted[m] <= admitted[n]

(* While polls go on, the block the chain rests at becomes usable, however *)
(* small the budget of a pass is (active_cache.rs: "the next pass          *)
(* continues").                                                            *)
LatestBecomesUsable ==
  (head = MaxHeight) ~> (\E s \in rows : s.block = MaxHeight /\ Usable(s))

(* A block answered AlreadyIngested is one "a *previous run* finished"     *)
(* (service.rs:330).  The blocks a run persisted are in its field mine.    *)
KnownFromEarlierRun ==
  \A c \in Controllers :
    At(c, "known") /\ KnownUsable(ctl[c].last) => ctl[c].last \notin ctl[c].mine

=============================================================================
