------------------------------ MODULE MCReads -------------------------------
(* TIG reads, for TLC: the calls of one process (ReadClient), and the      *)
(* division of the read budget (ReadShares).  Each shape runs one of them. *)
EXTENDS ReadClient, TLC

CONSTANTS Processes, Clients, Fields, Values, Bits, Wraps

VARIABLES config, policy, client, registry, shape

Spelled ==
  {[scheme |-> "https", host |-> "tig", port |-> None],
   [scheme |-> "https", host |-> "tig", port |-> 443],
   [scheme |-> "https", host |-> "tig", port |-> 8443]}

S == INSTANCE ReadShares WITH Urls <- Spelled

(* Latest-state reads with retries and pauses; every URL, without retries; *)
(* and the shares.                                                         *)
Shapes ==
  { [name |-> "pacing", urls |-> Latest, attempts |-> MaxAttempts, time |-> MaxTime],
    [name |-> "cache", urls |-> Urls, attempts |-> 1, time |-> 2],
    [name |-> "shares", urls |-> {}, attempts |-> 0, time |-> 0] }

Within(s) ==
  /\ now <= s.time
  /\ \A c \in Calls : call[c] # None =>
       /\ call[c].url \in s.urls
       /\ s.name = "pacing" /\ call[c].at # "done" => call[c].age = 0
       /\ s.name = "cache" /\ call[c].at # "done" => call[c].at # "backoff" /\ call[c].status # "retry"

sharesVars == <<config, policy, client, registry>>

MCInit ==
  /\ Init /\ shape \in Shapes
  /\ \/ shape.name = "shares" /\ S!Init
     \/ shape.name # "shares" /\ config = None /\ policy = None /\ client = None /\ registry = None

MCNext ==
  /\ UNCHANGED shape
  /\ IF shape.name = "shares" THEN S!Next /\ UNCHANGED vars ELSE Next /\ UNCHANGED sharesVars
  /\ Within(shape)'

MCSpec == MCInit /\ [][MCNext]_<<vars, sharesVars, shape>>

(* Whatever clients the processes build, drop and build again, what their  *)
(* limiters allow an endpoint is within the ceiling (limits.rs, lib.rs     *)
(* shared_limiter).                                                        *)
PoolStaysWithinCeiling == shape.name = "shares" => S!PoolStaysWithinCeiling

Symmetry == Permutations(Calls)
=============================================================================
