----------------------------- MODULE MCDecision -----------------------------
(* Inputs of Decision for TLC.                                             *)
EXTENDS Decision

Both == {"t", "u"}
OnBoth(n) == [track \in Both |-> n]

Challenge(class, tracks, network, min, nonces) ==
  [live |-> TRUE, class |-> class, tracks |-> tracks, network |-> OnBoth(network),
   min |-> min, nonces |-> OnBoth(nonces), base |-> 1, perNonce |-> 1]

Algorithm(c, adoption, qualifiers) ==
  [challenge |-> c, live |-> TRUE, banned |-> FALSE, binary |-> TRUE,
   adoption |-> adoption, qualifiers |-> OnBoth(qualifiers)]

Meta(a, track, bundles, confirmed, qualities) ==
  [algorithm |-> a, track |-> track, bundles |-> bundles, confirmed |-> confirmed,
   qualities |-> qualities, fuel |-> 1]

InFlightOn(c, track, bundles, state) ==
  [challenge |-> c, algorithm |-> c, track |-> track, bundles |-> bundles, state |-> state,
   ours |-> TRUE]

Cpu(cores) == [class |-> "cpu", cores |-> cores]
Gpu == [class |-> "gpu", cores |-> 0]

All(challenge, algorithm, meta, precommit, pool, rank, offers) ==
  [challenge : challenge, algorithm : algorithm, meta : meta, precommit : precommit,
   pool : [Challenges -> {OnBoth(n) : n \in pool}], rank : rank, offer : offers]

NoPrecommit == [Precommits -> {None}]
SameRank == {[c \in Challenges |-> 1]}
AnyRank == {r \in [Challenges -> {1, 2}] : r[1] = 1 \/ r[2] = 1}

(* Which challenges are eligible, and from which sources.                  *)
EligibleInputs ==
  LET cpu(tracks) == Challenge("cpu", tracks, 1, 1, 1)
      challenges == {cpu({"t"}), cpu(Both), cpu({}), [cpu({"t"}) EXCEPT !.live = FALSE],
                     Challenge("gpu", {"t"}, 1, 1, 1), Challenge("other", {"t"}, 1, 1, 1)}
      top == Algorithm(1, 2, 1)
      algorithms == {Algorithm(c, adoption, 1) : c \in Challenges, adoption \in {0, 1, 2}}
                    \union {[top EXCEPT !.live = FALSE], [top EXCEPT !.banned = TRUE],
                            [top EXCEPT !.binary = FALSE]}
      metas == {None, Meta(1, "u", 1, 1, {1}), Meta(2, "t", 1, 1, {1}), Meta(2, "u", 1, 1, {1}),
                Meta(1, "t", 1, 1, {2}), Meta(1, "t", 1, 2, {1}), Meta(1, "t", 1, 2, {1, 2}),
                Meta(1, "t", 1, 2, {}), [Meta(1, "t", 1, 2, {2}) EXCEPT !.fuel = None]}
  IN All([Challenges -> challenges], [Algorithms -> algorithms], [Metas -> metas],
         NoPrecommit, {1}, SameRank, {Cpu(2)})

(* Counts that are zero, that tie and that overflow.                       *)
CountedInputs ==
  LET challenges == {Challenge("cpu", {"t"}, network, 1, 1) : network \in {0, 2, 3}}
      algorithms == {[a \in Algorithms |-> Algorithm(a, 1, q[a])] : q \in {<<1, 1>>, <<2, 1>>}}
      metas == {[m \in Metas |-> Meta(m, "t", b[m], 1, {1})] : b \in [Metas -> {None, 3}]}
      common == {None, InFlightOn(1, "t", 1, "computing"), InFlightOn(1, "t", 2, "computing"),
                 InFlightOn(2, "t", 1, "computing")}
      odd == {InFlightOn(1, "t", 2, "stopped"), InFlightOn(1, None, 2, "computing"),
              InFlightOn(1, "t", None, "computing"),
              [InFlightOn(2, "t", 2, "computing") EXCEPT !.ours = FALSE]}
      precommits == {p \in [Precommits -> common \union odd] : p[1] \in common}
  IN All([Challenges -> challenges], algorithms, metas, precommits,
         {0, 1}, AnyRank, {Cpu(2)})

(* Bundle counts against cores, nonces and rates.                          *)
SizedInputs ==
  LET challenges == {Challenge("cpu", {"t"}, 1, min, nonces) : min \in 0 .. 5, nonces \in 0 .. 4}
                    \union {Challenge("gpu", {"t"}, 1, min, 3) : min \in 0 .. 3}
      algorithms == [Algorithms -> {Algorithm(1, adoption, q) : adoption \in {1, 2}, q \in 0 .. 2}]
      metas == {[m \in Metas |-> Meta(m, "t", b[m], 1, {1})] : b \in [Metas -> {None, 1, 2}]}
      offers == {Cpu(cores) : cores \in {0, 1, 2, 3, 4, 6}} \union {Gpu}
      first == {[c \in Challenges |-> IF c = 1 THEN e ELSE [e EXCEPT !.live = FALSE]] :
                  e \in challenges}
  IN All(first, algorithms, metas, NoPrecommit, {1}, SameRank, offers)

MCInputs == EligibleInputs \union CountedInputs \union SizedInputs
=============================================================================
