----------------------------- MODULE ReadShares -----------------------------
(***************************************************************************)
(* How the read budget, which TIG applies per address, is divided          *)
(* (tig-client limits.rs, lib.rs): each reading process loads the ceiling  *)
(* and the shares from the same configuration, and the clients a process   *)
(* builds for a host share the limiter a registry holds weakly.            *)
(***************************************************************************)
EXTENDS Integers, FiniteSets, FiniteSetsExt

CONSTANTS
  Processes,    \* TigReader: each reading process is one reader
  Clients,
  Urls,         \* base URLs: records of scheme, host and port (or None)
  Fields,       \* of requests_per_second, burst, max_concurrent
  Values,       \* what the configuration gives a field: below 2 ^ Bits
  Bits,         \* the width of the integers the shares are summed in
  Wraps,        \* does the build wrap on overflow (else it panics)?
  None

VARIABLES
  config,      \* the file both processes were built with
  policy,      \* per process: ReadPolicy, or None
  client,      \* the live clients
  registry     \* per process: limiter_key to limiter, which may be dead

vars == <<config, policy, client, registry>>

Limits == [Fields -> Values]
Limiters == Clients

Live(p) == {c \in Clients : client[c] # None /\ (client[c] # None => client[c].process = p)}
Held(p) == {client[c].limiter : c \in Live(p)}

(* A sum of the shares, as the build computes it.                          *)
Overflows(f) == MapThenSumSet(LAMBDA p : config.share[p][f], Processes) >= 2 ^ Bits
SumOf(f) == MapThenSumSet(LAMBDA p : config.share[p][f], Processes) % 2 ^ Bits

SharesWithinCeiling == \A f \in Fields : SumOf(f) <= config.ceiling[f]

(* from_config_json: a policy, or the process does not start.              *)
Load(p) ==
  /\ policy[p] = None
  /\ ~Wraps => \A f \in Fields : ~Overflows(f)
  /\ SharesWithinCeiling
  /\ policy' = [policy EXCEPT ![p] = config]
  /\ UNCHANGED <<config, client, registry>>

IsEntitledShare(p, limits) == \E r \in Processes : policy[p].share[r] = limits

DefaultPort(scheme) == IF scheme = "https" THEN 443 ELSE 80

\* Mutant: the limiter is found by the URL as it is written.
AsWritten(url) == <<url.host, url.port>>

LimiterKey(url) ==
  <<url.host, IF url.port = DefaultPort(url.scheme) THEN None ELSE url.port>>

(* Entries whose clients have all gone are dropped.                        *)
Retained(p) == {k \in DOMAIN registry[p] : registry[p][k] \in Held(p)}

Holding(p, limiter) == CHOOSE c \in Live(p) : client[c].limiter = limiter

(* shared_limiter: the host's limiter, when the clients agree, or a new    *)
(* one.                                                                    *)
SharedLimiter(p, c, url, limits) ==
  LET key == LimiterKey(url)
      kept == [k \in Retained(p) |-> registry[p][k]]
      build(limiter) ==
        client' = [client EXCEPT ![c] =
                     [process |-> p, url |-> url, limits |-> limits, limiter |-> limiter]]
      fresh == CHOOSE l \in Limiters : l \notin Held(p)
  IN IF key \in Retained(p)
     THEN /\ registry' = [registry EXCEPT ![p] = kept]
          /\ IF client[Holding(p, kept[key])].limits = limits
             THEN build(kept[key]) ELSE UNCHANGED client
     ELSE /\ registry' = [registry EXCEPT ![p] =
                            [k \in Retained(p) \union {key} |->
                               IF k = key THEN fresh ELSE kept[k]]]
          /\ build(fresh)

(* What a caller may pass: its own share, as main.rs and service.rs do, or *)
(* the ceiling spelled out.                                                *)
Offers(p) == {policy[p].share[p], policy[p].ceiling}

(* TigReadClient::new.                                                     *)
New(p, c, url) ==
  /\ policy[p] # None /\ client[c] = None
  /\ \E limits \in Offers(p) :
       /\ IsEntitledShare(p, limits)
       /\ SharedLimiter(p, c, url, limits)
  /\ UNCHANGED <<config, policy>>

Drop(c) ==
  /\ client[c] # None /\ client' = [client EXCEPT ![c] = None]
  /\ UNCHANGED <<config, policy, registry>>

Init ==
  /\ config \in [ceiling : Limits, share : [Processes -> Limits]]
  /\ policy = [p \in Processes |-> None]
  /\ client = [c \in Clients |-> None]
  /\ registry = [p \in Processes |-> [k \in {} |-> None]]

Next ==
  \/ \E p \in Processes : Load(p) \/ \E c \in Clients, url \in Urls : New(p, c, url)
  \/ \E c \in Clients : Drop(c)

Spec == Init /\ [][Next]_vars

(***************************************************************************)
(* Properties                                                              *)
(***************************************************************************)
(* The host and the port a URL is served at.                               *)
Endpoint(url) == <<url.host, IF url.port = None THEN DefaultPort(url.scheme) ELSE url.port>>

(* The limiters through which the pool reads an endpoint.                  *)
LimitersOf(e) ==
  {[process |-> client[c].process, limiter |-> client[c].limiter, limits |-> client[c].limits] :
     c \in {d \in Clients : client[d] # None /\ (client[d] # None => Endpoint(client[d].url) = e)}}

(* Whatever clients the processes build, drop and build again, and however *)
(* they spell the host, what the pool's limiters allow an endpoint is      *)
(* within the ceiling in every field.                                      *)
PoolStaysWithinCeiling ==
  \A url \in Urls, f \in Fields :
    MapThenSumSet(LAMBDA l : l.limits[f], LimitersOf(Endpoint(url))) <= config.ceiling[f]

(* A configuration that over-allocates the budget does not produce a       *)
(* usable policy.                                                          *)
OverAllocatedIsRefused ==
  \A p \in Processes : policy[p] # None =>
    \A f \in Fields : MapThenSumSet(LAMBDA r : config.share[r][f], Processes) <= config.ceiling[f]
=============================================================================
