------------------------------- MODULE Routing -------------------------------
(***************************************************************************)
(* The smart order router (gateway/internal/router): the registry of       *)
(* strategies, the three strategies, the price comparator and the order    *)
(* splitter, each as a function of what it is given.  The state is the     *)
(* registry and the last question with its answer.                         *)
(*                                                                         *)
(* Quantities, depths and prices are small integers.  Decimal division is  *)
(* what it is in the code, rounded: to 1/Scale here, to 10^-16 there.      *)
(***************************************************************************)
EXTENDS Decimals, Sequences, SequencesExt, FiniteSets

CONSTANTS
  Venues,
  Quotes,      \* what a venue may offer: bid, ask, depth, latency, fillRate
  OrderSizes,  \* of orders
  LotSizes,
  Depths,      \* that the splitter may be told
  Scale        \* 1 / the precision of decimal division

ASSUME RoutingAssumption ==
  /\ IsFiniteSet(Venues)
  /\ Quotes \subseteq [bid : Nat, ask : Nat, depth : Nat, latency : Nat, fillRate : Nat]
  /\ OrderSizes \cup LotSizes \subseteq Nat \ {0} /\ Depths \subseteq Nat
  /\ Scale \in Nat \ {0}

Strategies == {"best-price", "venue-preference", "ml-scored"}
None  == "none"
Error == <<>>        \* instead of allocations, scores or a ranking

VARIABLES
  strategies,  \* the names that are registered
  default,     \* the strategy under the name "default", or None
  asked        \* the last call: what was asked and what was answered

routerVars == <<strategies, default, asked>>

RouterInit == strategies = {} /\ default = None /\ asked = [call |-> None]

\* Sequences of different venues.
Lists == {l \in UNION {[1 .. n -> Venues] : n \in 0 .. Cardinality(Venues)} :
            \A i, j \in DOMAIN l : l[i] = l[j] => i = j}

\* The elements of s at the positions P, in the order of their ranks.
Arranged(s, P, rank) == [k \in 1 .. Cardinality(P) |-> s[CHOOSE i \in P : rank[i] = k]]

\* Those elements in the order they have.
Kept(s, P) == Arranged(s, P, [i \in P |-> Cardinality({j \in P : j <= i})])

\* Of a sequence, the stable sort for a strict weak order, a set of pairs.
Before(s, less, i) ==
  {j \in DOMAIN s : <<s[j], s[i]>> \in less \/ (j < i /\ <<s[i], s[j]>> \notin less)}
Sorted(s, less) ==
  Arranged(s, DOMAIN s, [i \in DOMAIN s |-> Cardinality(Before(s, less, i)) + 1])

\* The sum of a sequence of numbers.
Total(s) ==
  LET upTo[k \in 0 .. Len(s)] == IF k = 0 THEN 0 ELSE upTo[k - 1] + s[k] IN upTo[Len(s)]

-----------------------------------------------------------------------------
(* The strategies.  An order is a side, a quantity and a preferred venue or *)
(* None; candidates are a sequence of venues, quote gives what each offers. *)

Cheaper(side, p, q) == IF side = "buy" THEN p.ask < q.ask ELSE p.bid > q.bid

\* Mutant: a sell is ranked like a buy.
BetterBlindly(side, p, q) ==
  \/ p.ask < q.ask
  \/ p.ask = q.ask /\ p.latency < q.latency
  \/ p.ask = q.ask /\ p.latency = q.latency /\ p.fillRate > q.fillRate

\* Price, then latency, then fill rate.
Better(side, p, q) ==
  \/ Cheaper(side, p, q)
  \/ ~Cheaper(side, q, p) /\ p.latency < q.latency
  \/ ~Cheaper(side, q, p) /\ p.latency = q.latency /\ p.fillRate > q.fillRate

Allocate(v, q) == [venue |-> v, qty |-> q]

\* The first of a ranking takes the whole order, or each is given its depth.
ByDepth(order, ranking, quote) ==
  IF quote[ranking[1]].depth >= order.qty THEN <<Allocate(ranking[1], order.qty)>>
  ELSE [k \in DOMAIN ranking |-> Allocate(ranking[k], quote[ranking[k]].depth)]

BestPrice(order, candidates, quote) ==
  LET known  == ToSet(candidates)
      better == {p \in known \X known : Better(order.side, quote[p[1]], quote[p[2]])}
  IN ByDepth(order, Sorted(candidates, better), quote)

VenuePreference(order, candidates, quote) ==
  IF order.venue \in ToSet(candidates) THEN <<Allocate(order.venue, order.qty)>>
  ELSE BestPrice(order, candidates, quote)

\* What the ML sidecar answers: venues by their rank; nothing at all is as good
\* as an error or a timeout.
Scores == {Error} \cup {<<v>> : v \in Venues} \cup (Venues \X Venues)

\* Only the candidates that were scored, if any.
MLScored(order, candidates, quote, scores) ==
  LET known == Kept(scores, {k \in DOMAIN scores : scores[k] \in ToSet(candidates)}) IN
  IF known = <<>> THEN BestPrice(order, candidates, quote)
  ELSE IF known[1] = scores[1] THEN ByDepth(order, known, quote)
  ELSE [k \in DOMAIN known |-> Allocate(known[k], quote[known[k]].depth)]

Evaluate(name, order, candidates, quote, scores) ==
  CASE name = "best-price" -> BestPrice(order, candidates, quote)
    [] name = "venue-preference" -> VenuePreference(order, candidates, quote)
    [] OTHER -> MLScored(order, candidates, quote, scores)

-----------------------------------------------------------------------------
(* The router.                                                             *)

Register(name) ==
  /\ strategies' = strategies \cup {name}
  /\ default' = IF default = None THEN name ELSE default
  /\ UNCHANGED asked

SetDefault(name) ==
  /\ name \in strategies
  /\ default' = name
  /\ UNCHANGED <<strategies, asked>>

\* The strategy that was asked for, else the default.
Resolve(name) == IF name \in strategies THEN name ELSE default

Orders == [side : Sides, qty : OrderSizes, venue : Venues \cup {None}]

Route(name, order, candidates, quote, scores) ==
  asked' = [call |-> "route", order |-> order, candidates |-> candidates, quote |-> quote,
            scores |-> scores, by |-> Resolve(name),
            answer |-> IF candidates = <<>> \/ default = None THEN Error
                       ELSE Evaluate(Resolve(name), order, candidates, quote, scores)]

-----------------------------------------------------------------------------
(* The price comparator: the venues whose quote is fresh, best price first. *)

Compare(side, venues, fresh, quote) ==
  LET live  == Kept(venues, {k \in DOMAIN venues : venues[k] \in fresh})
      known == ToSet(live)
      less  == {p \in known \X known : Cheaper(side, quote[p[1]], quote[p[2]])}
  IN asked' = [call |-> "compare", side |-> side, fresh |-> known, quote |-> quote,
               answer |-> IF live = <<>> THEN Error ELSE Sorted(live, less)]

-----------------------------------------------------------------------------
(* The splitter.                                                           *)

TotalDepth(ranked, depth) == Total([k \in DOMAIN ranked |-> depth[ranked[k]]])
Panic == <<Allocate(None, 0)>>   \* a division by zero
Allocated(allocs) == Total([k \in DOMAIN allocs |-> allocs[k].qty])

\* depth / total * qty, in whole lots.
Portion(depth, total, qty, lot) ==
  lot * (Rounded(Rounded(depth * Scale, total) * qty, lot) \div Scale)

\* Mutant: the remainder replaces what the best venue has.
ToBestInstead(allocs, best, rest) ==
  IF allocs # <<>> /\ allocs[1].venue = best THEN [allocs EXCEPT ![1].qty = rest]
  ELSE <<Allocate(best, rest)>> \o allocs

\* What rounding left over goes to the best venue, which may have had no lot.
ToBest(allocs, best, rest) ==
  IF allocs # <<>> /\ allocs[1].venue = best THEN [allocs EXCEPT ![1].qty = @ + rest]
  ELSE <<Allocate(best, rest)>> \o allocs

SplitOrder(qty, ranked, depth, lot) ==
  IF ranked = <<>> THEN <<>>
  ELSE IF Len(ranked) = 1 \/ 2 * qty <= depth[ranked[1]]
  THEN <<Allocate(ranked[1], qty)>>
  ELSE LET total    == TotalDepth(ranked, depth)
           portions == [k \in DOMAIN ranked |->
                          Allocate(ranked[k], Portion(depth[ranked[k]], total, qty, lot))]
           allocs   == Kept(portions, {k \in DOMAIN portions : portions[k].qty >= lot})
           rest     == qty - Allocated(allocs)
       IN IF total = 0 THEN Panic
          ELSE IF rest > 0 THEN ToBest(allocs, ranked[1], rest) ELSE allocs

\* The two roundings of a portion, for all venues together, are less than a unit.
ASSUME PreciseDivision ==
  \A qty \in OrderSizes, lot \in LotSizes : Cardinality(Venues) * (qty + lot) < 2 * Scale

Split(qty, ranked, depth, lot) ==
  asked' = [call |-> "split", qty |-> qty, ranked |-> ranked, depth |-> depth, lot |-> lot,
            answer |-> SplitOrder(qty, ranked, depth, lot)]

-----------------------------------------------------------------------------
\* Asking changes nothing else: calls are made from a quiet state here.
Ask ==
  /\ asked.call = None
  /\ \/ \E name \in Strategies \cup {None}, order \in Orders, candidates \in Lists :
          \E quote \in [ToSet(candidates) -> Quotes],
             scores \in IF Resolve(name) = "ml-scored" THEN Scores ELSE {Error} :
            Route(name, order, candidates, quote, scores)
     \/ \E side \in Sides, venues \in Lists, fresh \in SUBSET Venues :
          \E quote \in [ToSet(venues) -> Quotes] : Compare(side, venues, fresh, quote)
     \/ \E qty \in OrderSizes, ranked \in Lists, lot \in LotSizes :
          \E depth \in [ToSet(ranked) -> Depths] : Split(qty, ranked, depth, lot)
  /\ UNCHANGED <<strategies, default>>

RouterNext ==
  \/ asked.call = None /\ \E name \in Strategies : Register(name) \/ SetDefault(name)
  \/ Ask

RouterSpec == RouterInit /\ [][RouterNext]_routerVars

-----------------------------------------------------------------------------
(* Properties.                                                             *)

Beats(side, p, q) ==
  LET cost(x) == IF side = "buy" THEN x.ask ELSE -x.bid IN
  \/ cost(p) < cost(q)
  \/ cost(p) = cost(q) /\ p.latency < q.latency
  \/ cost(p) = cost(q) /\ p.latency = q.latency /\ p.fillRate > q.fillRate

VenuesOf(allocs) == {allocs[k].venue : k \in DOMAIN allocs}

\* Whoever decides, there is an allocation if there are candidates, to
\* candidates only, and without a sidecar to each but once.  A preferred venue
\* gets all; without a preference or scores that name a candidate the first
\* venue is one that no candidate beats on price, latency and fill rate, and an
\* allocation that is alone is the whole order or all there is.  The comparator
\* keeps every fresh venue and puts none before a cheaper one.
DecisionsSound ==
  LET a == asked.answer IN
  /\ asked.call = "route" =>
       LET candidates == ToSet(asked.candidates)
           scored == asked.by = "ml-scored" /\ ToSet(asked.scores) \cap candidates # {}
           preferred == asked.by = "venue-preference" /\ asked.order.venue \in candidates
       IN /\ a = Error <=> candidates = {} \/ default = None
          /\ VenuesOf(a) \subseteq candidates
          /\ ~scored => Cardinality(VenuesOf(a)) = Len(a)
          /\ preferred => a = <<Allocate(asked.order.venue, asked.order.qty)>>
          /\ a # Error /\ ~scored /\ ~preferred =>
               /\ \A v \in candidates :
                    ~Beats(asked.order.side, asked.quote[v], asked.quote[a[1].venue])
               /\ Len(a) = 1 => a[1].qty = asked.order.qty \/ Cardinality(candidates) = 1
  /\ asked.call = "compare" =>
       /\ ToSet(a) = asked.fresh /\ Len(a) = Cardinality(asked.fresh)
       /\ \A i, j \in DOMAIN a :
            i < j => IF asked.side = "buy" THEN asked.quote[a[i]].ask <= asked.quote[a[j]].ask
                     ELSE asked.quote[a[i]].bid >= asked.quote[a[j]].bid

\* A split hands out the whole order and no more, in positive quantities, to
\* each venue at most once.  Whoever is not the best venue has whole lots, its
\* share of the depth rounded up to a unit at most, and no more than a lot and a
\* unit less than its share.  It fails only where no venue has any depth.
SplitConserves ==
  asked.call = "split" /\ asked.ranked # <<>> =>
    LET a == asked.answer
        total == TotalDepth(asked.ranked, asked.depth)
    IN \/ a = Panic /\ total = 0
       \/ /\ a # Panic /\ Allocated(a) = asked.qty
          /\ \A k \in DOMAIN a : a[k].qty > 0
          /\ Cardinality(VenuesOf(a)) = Len(a)
          /\ \A v \in ToSet(Tail(asked.ranked)) :
               LET q     == Allocated(Kept(a, {k \in DOMAIN a : a[k].venue = v}))
                   share == asked.depth[v] * asked.qty
               IN /\ q % asked.lot = 0 /\ (q > 0 => (q - 1) * total < share)
                  /\ Len(a) > 1 => share - q * total < (asked.lot + 1) * total
=============================================================================
