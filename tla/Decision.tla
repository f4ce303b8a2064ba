------------------------------ MODULE Decision ------------------------------
(***************************************************************************)
(* What the pool would precommit, from one snapshot (pool-controller       *)
(* propose.rs and pool-decision): the algorithm and the sources of every   *)
(* candidate challenge, the challenge with the lowest projected factor,    *)
(* the draw that resolves a tie, the bundle counts and the fees.           *)
(*                                                                         *)
(* Identifiers are numbers, ordered as the code orders ids.                *)
(***************************************************************************)
EXTENDS Ratios, FiniteSets, FiniteSetsExt, Folds

CONSTANTS
  Challenges, Algorithms,
  Metas,          \* ids of active benchmarks
  Precommits,     \* ids of confirmed precommits in the window
  Inputs,         \* what the snapshot, the cache, the window and the draw may say
  CountBits,      \* the width of a bundle count: 64
  None

VARIABLES input, outcome

vars == <<input, outcome>>

(* The fold of a loop over ids in their order.                             *)
InOrder(Op(_, _), base, f(_), ids) == MapThenFoldSet(LAMBDA x, acc : Op(acc, x), base, f, Max, ids)

(* candidate_challenges: live, of a class the build knows, with a track.   *)
Candidates ==
  {c \in Challenges :
     /\ input.challenge[c].live /\ input.challenge[c].class \in {"cpu", "gpu"}
     /\ input.challenge[c].tracks # {}}

(* algorithm_evidence: the live algorithms of a challenge.                 *)
AlgorithmsOf(c) ==
  {a \in Algorithms : input.algorithm[a].challenge = c /\ input.algorithm[a].live}

MetasOf(a, t) ==
  {m \in Metas : input.meta[m] # None
         /\ (input.meta[m] # None => input.meta[m].algorithm = a /\ input.meta[m].track = t)}

(* active_bundles_by_algorithm_by_track: a count TIG did not publish is    *)
(* left out.                                                               *)
ActiveBundles(a, t) ==
  MapThenSumSet(LAMBDA m : input.meta[m].bundles,
                {m \in MetasOf(a, t) : input.meta[m].bundles # None})

Qualifiers(a, t) == IF input.algorithm[a].live THEN input.algorithm[a].qualifiers[t] ELSE 0

(* TrackStats::rate, or None when it is unavailable.                       *)
RateOf(qualifiers, bundles) == IF bundles = 0 THEN None ELSE Ratio(qualifiers, bundles)

Rate(a, t) == RateOf(Qualifiers(a, t), ActiveBundles(a, t))

(* select_algorithm.                                                       *)
Survivors(c) ==
  {a \in AlgorithmsOf(c) : ~input.algorithm[a].banned /\ input.algorithm[a].binary}

Adopted(c) == {a \in Survivors(c) : input.algorithm[a].adoption > 0}

SelectAlgorithm(c) ==
  LET highest == Max({input.algorithm[a].adoption : a \in Adopted(c)})
  IN IF Adopted(c) = {} THEN None
     ELSE Min({a \in Adopted(c) : input.algorithm[a].adoption = highest})

(* track_rates: the first of the greatest usable rates.                    *)
Better(best, a, t) ==
  IF best = None THEN a
  ELSE IF best = Err THEN Err
  ELSE Then(CheckedCmp(Rate(a, t), Rate(best, t)), LAMBDA o : IF o = "Greater" THEN a ELSE best)

Rated(c, t) == {a \in Survivors(c) : Rate(a, t) # None}

BestOnTrack(c, t) ==
  InOrder(LAMBDA best, a : Better(best, a, t), None, LAMBDA a : a, Rated(c, t))

(* source_candidates and select_source: the benchmark with the best single *)
(* bundle, then the latest, then the lowest id.                            *)
SourceCandidates(a, t) ==
  {m \in MetasOf(a, t) : input.meta[m].fuel # None /\ input.meta[m].qualities # {}}

SelectSource(a, t) ==
  LET S == SourceCandidates(a, t)
      quality(m) == Max(input.meta[m].qualities)
      tied == {m \in S : \A n \in S : quality(n) <= quality(m)}
      newest == {m \in tied : \A n \in tied : input.meta[n].confirmed <= input.meta[m].confirmed}
  IN IF S = {} THEN None ELSE Min(newest)

(* per_challenge.                                                          *)
TracksWithSource(c) ==
  LET a == SelectAlgorithm(c)
  IN {t \in input.challenge[c].tracks : a # None /\ (a # None => SelectSource(a, t) # None)}

MatchesChallenge(c) == input.offer.class = input.challenge[c].class

(* The set the draw ranks are derived for.                                 *)
Eligible ==
  {c \in Candidates :
     MatchesChallenge(c) /\ input.challenge[c].tracks \subseteq TracksWithSource(c)}

(* select_challenge: the set it chooses among.                             *)
Considered ==
  {c \in Candidates :
     /\ MatchesChallenge(c)
     /\ ~\E t \in input.challenge[c].tracks : t \notin TracksWithSource(c)}

(* in_flight: the pool's own, neither active nor stopped nor fraudulent.   *)
InFlight(p) == p.state \notin {"active", "stopped", "fraud"} /\ p.ours /\ p.bundles # None

(* project: what the benchmarks in flight are expected to add.             *)
ExpectedQOf(rate, bundles) == IF rate = None THEN Zero ELSE CheckedMulInt(rate, bundles)

ExpectedQ(p) == ExpectedQOf(Rate(p.algorithm, p.track), p.bundles)

Projected(c) ==
  {i \in Precommits :
     LET p == input.precommit[i]
     IN p # None /\ (p # None => InFlight(p) /\ p.challenge = c /\ p.track # None)}

ExpectedAddition(c) ==
  InOrder(LAMBDA sum, q : IF Err \in {sum, q} THEN Err ELSE CheckedAdd(sum, q), Zero,
          LAMBDA i : ExpectedQ(input.precommit[i]), Projected(c))

(* projected_raw_factor_of.                                                *)
SumOverTracks(F(_), c) == Checked(MapThenSumSet(F, input.challenge[c].tracks))
NetworkQ(c) == SumOverTracks(LAMBDA t : input.challenge[c].network[t], c)
PoolQ(c) == SumOverTracks(LAMBDA t : input.pool[c][t], c)

Quotient(numerator, denominator) ==
  LET n == Checked(numerator.n * denominator.d)
      d == Checked(denominator.n * numerator.d)
  IN IF Err \in {n, d} THEN Err ELSE Ratio(n, d)

RawFactorOf(network, pool, added) ==
  IF Err \in {network, pool, added} THEN Err
  ELSE Then(CheckedAdd(Whole(network), added), LAMBDA denominator :
         IF denominator.n = 0 THEN Zero
         ELSE Then(CheckedAdd(Whole(pool), added),
                   LAMBDA numerator : Quotient(numerator, denominator)))

ProjectedRawFactor(c) == RawFactorOf(NetworkQ(c), PoolQ(c), ExpectedAddition(c))

(* lowest_factor: the challenges with the lowest, or the error.            *)
Lowest(factor, tied, c) ==
  IF tied = Err THEN Err
  ELSE IF tied = {} THEN {c}
  ELSE Then(CheckedCmp(factor[c], factor[Min(tied)]), LAMBDA o :
         CASE o = "Less" -> {c} [] o = "Equal" -> tied \union {c} [] o = "Greater" -> tied)

LowestOf(factor) ==
  IF \E c \in DOMAIN factor : factor[c] = Err THEN Err
  ELSE InOrder(LAMBDA tied, c : Lowest(factor, tied, c), {}, LAMBDA c : c, DOMAIN factor)

LowestFactor ==
  IF \E c \in Challenges : ExpectedAddition(c) = Err THEN Err
  ELSE LowestOf([c \in Considered |-> ProjectedRawFactor(c)])

(* resolve_tie, over the ranks that were derived.                          *)
ResolveTie(tied) ==
  IF ~(tied \subseteq Eligible) THEN Err
  ELSE Min({c \in tied : \A d \in tied : input.rank[c] <= input.rank[d]})

SelectChallenge(lowest) ==
  IF lowest = Err THEN Err
  ELSE IF lowest = {} THEN None
  ELSE IF Cardinality(lowest) = 1 THEN Min(lowest)
  ELSE ResolveTie(lowest)

\* Mutant: the remainder is dropped.
RoundedDown(min, multiple) == (min \div multiple) * multiple

RoundedUp(min, multiple) == ((min + multiple - 1) \div multiple) * multiple

(* size_bundles, for one track.                                            *)
SizeBundles(c, t) ==
  LET min == input.challenge[c].min
      multiple == input.offer.cores \div Gcd[input.offer.cores, input.challenge[c].nonces[t]]
      sized == RoundedUp(min, multiple)
  IN IF input.offer.class = "gpu" \/ BestOnTrack(c, t) # SelectAlgorithm(c) THEN min
     ELSE IF input.offer.cores = 0 THEN Err
     ELSE IF sized < 2 ^ CountBits THEN sized ELSE Err

Fee(c, bundles) ==
  Then(Checked(input.challenge[c].perNonce * bundles),
       LAMBDA scaled : Checked(scaled + input.challenge[c].base))

(* The algorithm stage of a candidate fails when a comparison overflows,   *)
(* that of a rate with the best one included.                              *)
ComparisonFails(c, t, best) ==
  \/ best = Err
  \/ best \in Algorithms /\ \E a \in Rated(c, t) : CheckedCmp(Rate(a, t), Rate(best, t)) = Err

StageFails(c) ==
  \E t \in input.challenge[c].tracks : ComparisonFails(c, t, BestOnTrack(c, t))

(* propose.                                                                *)
Fails == [is |-> "error"]

Precommit(c, algorithm, bundles, lowest) ==
  IF \E t \in DOMAIN bundles : bundles[t] = Err \/ (bundles[t] # Err => Fee(c, bundles[t]) = Err)
  THEN Fails
  ELSE [is |-> "precommit", challenge |-> c, algorithm |-> algorithm, bundles |-> bundles,
        source |-> [t \in DOMAIN bundles |-> SelectSource(algorithm, t)],
        ranked |-> Eligible, considered |-> Considered,
        tied |-> IF Cardinality(lowest) = 1 THEN {} ELSE lowest]

ProposeFor(selected, lowest) ==
  IF selected = Err THEN Fails
  ELSE IF selected = None THEN [is |-> "no action"]
  ELSE Precommit(selected, SelectAlgorithm(selected),
                 [t \in input.challenge[selected].tracks |-> SizeBundles(selected, t)], lowest)

ProposeFrom(lowest) == ProposeFor(SelectChallenge(lowest), lowest)

Proposed ==
  IF \E c \in Candidates : StageFails(c) THEN Fails ELSE ProposeFrom(LowestFactor)

Init == input \in Inputs /\ outcome = [is |-> "undecided"]

Propose == outcome.is = "undecided" /\ outcome' = Proposed /\ UNCHANGED input

Next == Propose

Spec == Init /\ [][Next]_vars

(***************************************************************************)
(* Reference definitions, over integers of any size                        *)
(***************************************************************************)
Chosen == outcome.challenge

IsUsable(a, c) ==
  LET x == input.algorithm[a]
  IN x.challenge = c /\ x.live /\ ~x.banned /\ x.binary

(* The algorithm the pool would run on a challenge.                        *)
RunsOn(a, c) ==
  /\ IsUsable(a, c) /\ input.algorithm[a].adoption > 0
  /\ \A b \in Algorithms : IsUsable(b, c) =>
       \/ input.algorithm[b].adoption < input.algorithm[a].adoption
       \/ input.algorithm[b].adoption = input.algorithm[a].adoption /\ a <= b

Sources(m, a, t) ==
  LET x == input.meta[m]
  IN x # None /\ (x # None => x.algorithm = a /\ x.track = t /\ x.fuel # None /\ x.qualities # {})

(* The challenges the pool can construct settings for.                     *)
Constructible ==
  {c \in Challenges :
     LET x == input.challenge[c]
     IN /\ x.live /\ x.class = input.offer.class /\ x.tracks # {}
        /\ \E a \in Algorithms :
             RunsOn(a, c) /\ \A t \in x.tracks : \E m \in Metas : Sources(m, a, t)}

(* The projected factor as an unreduced fraction.                          *)
Product(F(_), S) == MapThenFoldSet(LAMBDA x, y : x * y, 1, F, Min, S)

IsComputing(i, c) ==
  LET p == input.precommit[i]
  IN p # None /\ (p # None => /\ p.state = "computing" /\ p.ours /\ p.challenge = c
                              /\ p.track # None /\ p.bundles # None)

Factor(c) ==
  LET tracks == input.challenge[c].tracks
      counted == {i \in Precommits : IsComputing(i, c)
                    /\ ActiveBundles(input.precommit[i].algorithm, input.precommit[i].track) > 0}
      bundles(i) == ActiveBundles(input.precommit[i].algorithm, input.precommit[i].track)
      whole == Product(bundles, counted)
      added == MapThenSumSet(LAMBDA i : input.precommit[i].bundles
                 * Qualifiers(input.precommit[i].algorithm, input.precommit[i].track)
                 * (whole \div bundles(i)), counted)
      network == MapThenSumSet(LAMBDA t : input.challenge[c].network[t], tracks)
      pool == MapThenSumSet(LAMBDA t : input.pool[c][t], tracks)
  IN IF network * whole + added = 0 THEN [n |-> 0, d |-> 1]
     ELSE [n |-> pool * whole + added, d |-> network * whole + added]

(***************************************************************************)
(* Properties                                                              *)
(***************************************************************************)
(* The challenge has the lowest projected factor of those the pool can     *)
(* construct settings for, and the smallest rank, then the smallest id, of *)
(* those that tie; an overflow gives an error and never another choice.    *)
ChosenIsLowest ==
  outcome.is = "precommit" =>
    /\ Chosen \in Constructible
    /\ \A c \in Constructible :
         LET f == Factor(Chosen)
             g == Factor(c)
             mine == f.n * g.d
             its == g.n * f.d
         IN \/ mine < its
            \/ /\ mine = its
               /\ \/ input.rank[Chosen] < input.rank[c]
                  \/ input.rank[Chosen] = input.rank[c] /\ Chosen <= c

(* A pass proposes nothing only when no settings can be constructed; when  *)
(* it proposes, the recorded ranks are those of exactly the challenges     *)
(* chosen among, and a recorded tie is a tie of the lowest.                *)
DrawCoversCandidates ==
  /\ outcome.is = "no action" => Constructible = {}
  /\ outcome.is = "precommit" =>
       /\ outcome.ranked = Constructible /\ outcome.considered = Constructible
       /\ \A c \in Constructible :
            c \in outcome.tied <=>
              /\ Cardinality(outcome.tied) > 1
              /\ Factor(Chosen).n * Factor(c).d = Factor(c).n * Factor(Chosen).d

(* Every track's settings are copied from the active benchmark of the      *)
(* chosen algorithm on that track with the best bundle, the latest of      *)
(* equals.                                                                 *)
SettingsAreSourced ==
  outcome.is = "precommit" =>
    /\ RunsOn(outcome.algorithm, Chosen)
    /\ DOMAIN outcome.source = input.challenge[Chosen].tracks
    /\ \A t \in DOMAIN outcome.source :
         LET s == outcome.source[t]
         IN /\ s \in Metas /\ Sources(s, outcome.algorithm, t)
            /\ \A m \in Metas : Sources(m, outcome.algorithm, t) =>
                 LET best == Max(input.meta[s].qualities)
                     its == Max(input.meta[m].qualities)
                 IN \/ its < best
                    \/ its = best /\ input.meta[m].confirmed <= input.meta[s].confirmed

(* Has the chosen algorithm the best rate on the track, and the smallest   *)
(* id of those that have?                                                  *)
LeadsOn(a, c, t) ==
  /\ ActiveBundles(a, t) > 0
  /\ \A b \in Algorithms : IsUsable(b, c) /\ ActiveBundles(b, t) > 0 =>
       LET mine == Qualifiers(a, t) * ActiveBundles(b, t)
           its == Qualifiers(b, t) * ActiveBundles(a, t)
       IN its < mine \/ (its = mine /\ a <= b)

(* A CPU member whose algorithm is best on the track gets the smallest     *)
(* count, at or above the minimum, whose nonces the cores divide; any      *)
(* other member gets the minimum.                                          *)
BundlesAreAligned ==
  outcome.is = "precommit" =>
    \A t \in DOMAIN outcome.bundles :
      LET min == input.challenge[Chosen].min
          fits(n) == (n * input.challenge[Chosen].nonces[t]) % input.offer.cores = 0
          n == outcome.bundles[t]
      IN IF input.offer.class = "cpu" /\ LeadsOn(outcome.algorithm, Chosen, t)
         THEN n >= min /\ fits(n) /\ \A k \in min .. n - 1 : ~fits(k)
         ELSE n = min
=============================================================================
