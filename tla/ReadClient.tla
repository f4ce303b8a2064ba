----------------------------- MODULE ReadClient -----------------------------
(***************************************************************************)
(* The read client of one process (tig-client lib.rs, cache.rs): calls     *)
(* that share one token bucket, one ceiling on requests under way, one     *)
(* host-wide pause and one response cache, against a server that answers,  *)
(* throttles, rejects, stalls or breaks off.                               *)
(*                                                                         *)
(* Time is counted in units of one token.  A timer that is due fires       *)
(* before time goes on.                                                    *)
(***************************************************************************)
EXTENDS Integers, FiniteSets, FiniteSetsExt, Functions

CONSTANTS
  Calls,
  Latest, Pinned,     \* URLs: latest-state reads, block-pinned ones
  Rate, Burst, MaxConcurrent, Deadline, AttemptTimeout, MaxBackoff, MaxAttempts,  \* ReadLimits
  BackoffBase,        \* the 250 milliseconds
  Capacity,           \* CACHE_CAPACITY
  Ages,               \* the lifetimes a server allows
  Delays,             \* the Retry-After a server sends
  MaxTime,            \* bound on the clock
  None

VARIABLES
  now,
  tokens, lastRefill, pausedUntil,   \* Bucket
  call,                              \* get_json's state, or None
  cache,                             \* ResponseCache: URL to entry
  takes, sends,                      \* history: tokens taken and requests sent, per time
  pauses                             \* history: what the server asked for, capped

bucket == <<tokens, lastRefill, pausedUntil>>
vars == <<now, bucket, call, cache, takes, sends, pauses>>

Urls == Latest \union Pinned

RequestIsCacheable(url) == url \in Pinned

At(c, step) == call[c] # None /\ call[c].at = step
Goto(c, step) == call' = [call EXCEPT ![c].at = step]

Return(c, answer) ==
  call' = [call EXCEPT ![c] =
             [at |-> "done", url |-> call[c].url, began |-> call[c].began, answer |-> answer]]

Expired(c) == now >= call[c].began + Deadline

Live(e) == e.expires > now

Cached(url) ==
  RequestIsCacheable(url) /\ url \in DOMAIN cache /\ Live(cache[url])

(* get_json: answered from the cache, without a token or a request.        *)
Hit(c, url) ==
  /\ call[c] = None /\ Cached(url)
  /\ call' = [call EXCEPT ![c] =
       [at |-> "done", url |-> url, began |-> now,
        answer |-> IF cache[url].json THEN cache[url].asOf ELSE None]]
  /\ UNCHANGED <<now, bucket, cache, takes, sends, pauses>>

(* An expired entry is dropped on the way past.                            *)
GetJson(c, url) ==
  /\ call[c] = None /\ ~Cached(url)
  /\ call' = [call EXCEPT ![c] =
       [at |-> "token", url |-> url, began |-> now, attempt |-> 1, sent |-> 0,
        status |-> None, age |-> 0, told |-> None, wake |-> 0]]
  /\ cache' = [u \in DOMAIN cache \ (IF RequestIsCacheable(url) THEN {url} ELSE {}) |-> cache[u]]
  /\ UNCHANGED <<now, bucket, takes, sends, pauses>>

Paused == pausedUntil # None /\ (pausedUntil # None => pausedUntil > now)

Refilled == Min({tokens + (now - lastRefill) * Rate, Burst})

\* Mutant: the refill is not dated, so it is given to the next caller too.
TakeTokenUndated(c) ==
  /\ At(c, "token") /\ ~Paused /\ Refilled >= 1
  /\ tokens' = Refilled - 1 /\ UNCHANGED lastRefill /\ pausedUntil' = None
  /\ takes' = [takes EXCEPT ![now] = @ + 1]
  /\ Goto(c, "permit")
  /\ UNCHANGED <<now, cache, sends, pauses>>

(* take_token: first the pause, then the bucket.                           *)
TakeToken(c) ==
  /\ At(c, "token") /\ ~Paused /\ Refilled >= 1
  /\ tokens' = Refilled - 1 /\ lastRefill' = now /\ pausedUntil' = None
  /\ takes' = [takes EXCEPT ![now] = @ + 1]
  /\ Goto(c, "permit")
  /\ UNCHANGED <<now, cache, sends, pauses>>

Permits == {c \in Calls : At(c, "sent") \/ At(c, "body")}

(* The in-flight permit, and the request unless the budget is spent.       *)
Send(c) ==
  /\ At(c, "permit") /\ Cardinality(Permits) < MaxConcurrent
  /\ IF Expired(c)
     THEN Return(c, None) /\ UNCHANGED sends
     ELSE /\ call' = [call EXCEPT ![c].at = "sent", ![c].sent = now]
          /\ sends' = [sends EXCEPT ![now] = @ + 1]
  /\ UNCHANGED <<now, bucket, cache, takes, pauses>>

(* The head of an answer: success, a status to retry, or a rejection.      *)
Succeed(c, age) ==
  /\ At(c, "sent")
  /\ call' = [call EXCEPT ![c].at = "body", ![c].status = "ok", ![c].age = age]
  /\ UNCHANGED <<now, bucket, cache, takes, sends, pauses>>

Reject(c) ==
  /\ At(c, "sent")
  /\ call' = [call EXCEPT ![c].at = "body", ![c].status = "rejected"]
  /\ UNCHANGED <<now, bucket, cache, takes, sends, pauses>>

(* pause_for never shortens a pause in force.                              *)
PauseFor(until) == IF pausedUntil # None THEN Max({pausedUntil, until}) ELSE until

Throttle(c, delay) ==
  /\ At(c, "sent")
  /\ call' = [call EXCEPT ![c].at = "body", ![c].status = "retry", ![c].told = delay]
  /\ IF delay = None
     THEN UNCHANGED <<bucket, pauses>>
     ELSE LET until == now + Min({delay, MaxBackoff})
          IN /\ pausedUntil' = PauseFor(until)
             /\ pauses' = pauses \union {[from |-> now, until |-> until]}
             /\ UNCHANGED <<tokens, lastRefill>>
  /\ UNCHANGED <<now, cache, takes, sends>>

(* The backoff: what the server said in full, or a jitter below the cap.   *)
Cap(attempt) == Min({BackoffBase * 2 ^ (attempt - 1), MaxBackoff})

Backoffs(c) ==
  IF call[c].told # None THEN {call[c].told} ELSE 0 .. Max({Cap(call[c].attempt) - 1, 0})

\* Mutant: the sleep may be longer than what is left.
AnyBackoffFits(c, backoff) == TRUE

BackoffFits(c, backoff) == now + backoff < call[c].began + Deadline

(* After a failed attempt, without the permit.                             *)
Retry(c) ==
  \E backoff \in Backoffs(c) :
    IF call[c].attempt < MaxAttempts /\ BackoffFits(c, backoff)
    THEN call' = [call EXCEPT ![c] = [@ EXCEPT !.at = "backoff", !.wake = now + backoff,
                                               !.sent = 0, !.status = None, !.told = None]]
    ELSE Return(c, None)

Room(url, entries) == url \in entries \/ Cardinality(entries) < Capacity

(* ResponseCache::put: expired entries go only when the cache is full, and *)
(* a live one never does.                                                  *)
Put(url, age, json) ==
  LET kept == IF Cardinality(DOMAIN cache) < Capacity
              THEN DOMAIN cache ELSE {u \in DOMAIN cache : Live(cache[u])}
  IN cache' = IF ~RequestIsCacheable(url) \/ age = 0 THEN cache
              ELSE IF Room(url, kept)
              THEN [u \in kept \union {url} |->
                      IF u = url THEN [asOf |-> now, expires |-> now + age, json |-> json] ELSE cache[u]]
              ELSE [u \in kept |-> cache[u]]

(* The whole body arrived; it is stored before it is parsed.               *)
ReadBody(c, json) ==
  /\ At(c, "body")
  /\ CASE call[c].status = "ok" -> /\ Put(call[c].url, call[c].age, json)
                                   /\ Return(c, IF json THEN now ELSE None)
       [] call[c].status = "retry"    -> Retry(c) /\ UNCHANGED cache
       [] call[c].status = "rejected" -> Return(c, None) /\ UNCHANGED cache
  /\ UNCHANGED <<now, bucket, takes, sends, pauses>>

(* The connection breaks, or the attempt takes too long.                   *)
BreakOff(c) ==
  /\ At(c, "sent") \/ At(c, "body")
  /\ IF call[c].status = "rejected" THEN Return(c, None) ELSE Retry(c)
  /\ UNCHANGED <<now, bucket, cache, takes, sends, pauses>>

Wake(c) ==
  /\ At(c, "backoff") /\ now >= call[c].wake
  /\ call' = [call EXCEPT ![c].at = "token", ![c].attempt = @ + 1, ![c].wake = 0]
  /\ UNCHANGED <<now, bucket, cache, takes, sends, pauses>>

(* The waits that the rest of the call's budget bounds.                    *)
Bounded == {"token", "permit", "sent", "body"}

CallEnds(c) ==
  /\ call[c] # None /\ call[c].at \in Bounded /\ Expired(c)
  /\ Return(c, None)
  /\ UNCHANGED <<now, bucket, cache, takes, sends, pauses>>

Deliver(c) ==
  /\ At(c, "done") /\ call' = [call EXCEPT ![c] = None]
  /\ UNCHANGED <<now, bucket, cache, takes, sends, pauses>>

(* Is a timer of the call due?                                             *)
Due(c) ==
  CASE call[c] = None -> FALSE
    [] At(c, "done") -> TRUE
    [] At(c, "backoff") -> now >= call[c].wake
    [] At(c, "sent") \/ At(c, "body") -> Expired(c) \/ now >= call[c].sent + AttemptTimeout
    [] OTHER -> call[c].at \in Bounded /\ Expired(c)

Tick ==
  /\ now < MaxTime /\ \A c \in Calls : ~Due(c)
  /\ now' = now + 1
  /\ UNCHANGED <<bucket, call, cache, takes, sends, pauses>>

Init ==
  /\ now = 0
  /\ tokens = Burst /\ lastRefill = 0 /\ pausedUntil = None
  /\ call = [c \in Calls |-> None]
  /\ cache = [u \in {} |-> None]
  /\ takes = [t \in 0 .. MaxTime |-> 0] /\ sends = [t \in 0 .. MaxTime |-> 0]
  /\ pauses = {}

Next ==
  \/ \E c \in Calls :
       \/ \E url \in Urls : Hit(c, url) \/ GetJson(c, url)
       \/ TakeToken(c) \/ Send(c) \/ BreakOff(c) \/ Wake(c)
       \/ CallEnds(c) \/ Deliver(c)
       \/ \E age \in Ages \union {0} : Succeed(c, age)
       \/ \E json \in BOOLEAN : ReadBody(c, json)
       \/ Reject(c)
       \/ \E delay \in Delays \union {None} : Throttle(c, delay)
  \/ Tick

Spec == Init /\ [][Next]_vars

(***************************************************************************)
(* Properties                                                              *)
(***************************************************************************)
(* The bucket holds between nothing and a burst, and the cache is bounded. *)
TypeOK ==
  /\ tokens \in 0 .. Burst /\ lastRefill \in 0 .. now
  /\ pausedUntil # None => pausedUntil \in Nat
  /\ DOMAIN cache \subseteq Urls /\ Cardinality(DOMAIN cache) <= Capacity

Paced(counts) ==
  \A s, t \in 0 .. now :
    s <= t => SumFunctionOnSet(counts, s .. t) <= Burst + Rate * (t - s)

(* However calls, retries and pauses interleave, the tokens taken in any   *)
(* stretch of time are at most a burst and the rate.                       *)
TokensArePaced == Paced(takes)

(* The requests that leave are paced as the tokens are.                    *)
GetsArePaced == Paced(sends)

Outside(counts) ==
  \A p \in pauses : \A t \in 0 .. now : p.from < t /\ t < p.until => counts[t] = 0

(* No reader takes a token before every pause the server asked for, up to  *)
(* the cap, is over.                                                       *)
PausesAreKept == Outside(takes)

(* A throttle signal pauses every reader on the host: nothing is sent      *)
(* before it is over.                                                      *)
PauseStopsGets == Outside(sends)

(* No call outlives its deadline, whatever it waits for.                   *)
CallsMeetTheirDeadline ==
  \A c \in Calls : call[c] # None => now <= call[c].began + Deadline

(* The ceiling counts requests until their bodies are read, and a call     *)
(* that waits takes no place: what is under way stays below it.            *)
TransfersAreBounded ==
  Cardinality({c \in Calls : call[c] # None /\ call[c].at \in {"sent", "body"}}) <= MaxConcurrent

(* Errors are never cached as successful data: what the cache holds can be *)
(* given to a caller.                                                      *)
ErrorsAreNotCached == \A url \in DOMAIN cache : cache[url].json

(* An answer was read during its call; a block-pinned one may instead be   *)
(* as old as the server allowed.                                           *)
AnswersAreFresh ==
  \A c \in Calls : At(c, "done") =>
    (call[c].answer # None =>
       IF call[c].url \in Pinned
       THEN call[c].answer + Max(Ages) > call[c].began
       ELSE call[c].answer >= call[c].began)

=============================================================================
