---------------------------- MODULE RiskComposer ----------------------------
(***************************************************************************)
(* The long-horizon risk composer: from paired return paths of a strategy  *)
(* and of its benchmark to one advised scale, or to none                   *)
(* (long_horizon_risk_composer.py and long_horizon_risk_composer_v2.py).   *)
(*                                                                         *)
(* Returns and scales are counted in units of 1/One, where the code counts *)
(* basis points; equity stays exact, as the code's 48 digits keep it.  All *)
(* paths have the same length, so a path's logarithmic growth is ordered   *)
(* as its last equity is.                                                  *)
(***************************************************************************)
EXTENDS Integers, Sequences, FiniteSetsExt, SequencesExt

CONSTANTS
  One,          \* units of a whole: 10000 in the code
  Horizon,      \* returns of a path, and the fewest a path may have
  Scales,       \* the scale grid
  Multiples,    \* the drawdown multiple of each risk preference
  Kinds,        \* the evidence families
  ObservedPaths \* the pairs of strategy and benchmark returns observed

\* _validate_scenario: paired, and no return is a total loss
ScenarioValid(path) ==
  /\ Len(path.strategy) = Len(path.benchmark)
  /\ \A r \in Range(path.strategy) \cup Range(path.benchmark) : -One < r

ASSUME ComposerAssumption ==
  /\ One \in Nat \ {0} /\ Horizon \in Nat \ {0}
  /\ Scales \subseteq 1 .. One
  /\ \A path \in ObservedPaths : ScenarioValid(path)

VARIABLES
  observed,  \* the paths of each family, and what the candidate declares
  advice     \* the recommendation, once it is composed
composerVars == <<observed, advice>>

\* _scaled_return_bps: rounded towards the worse
Scaled(r, scale) == (r * scale) \div One

\* Equity after each return, as a numerator over One^k
Grown(factors) == [k \in 1 .. Len(factors) |-> FoldLeft(LAMBDA x, y : x * y, 1, SubSeq(factors, 1, k))]
CeilOf(a, b) == -((-a) \div b)

\* _maximum_drawdown_bps: the drawdown from the running peak, rounded up, of an
\* equity path e over the denominators d; the peak starts at one.
Drawdown(e, d) ==
  LET start == [peak |-> <<1, 1>>, worst |-> 0]
      step(s, k) ==
        IF e[k] * s.peak[2] >= s.peak[1] * d[k] THEN [s EXCEPT !.peak = <<e[k], d[k]>>]
        ELSE LET drop == CeilOf((s.peak[1] * d[k] - e[k] * s.peak[2]) * One, s.peak[1] * d[k])
             IN  [s EXCEPT !.worst = IF drop > @ THEN drop ELSE @]
  IN  FoldLeft(step, start, [k \in 1 .. Len(e) |-> k]).worst

\* _path_metrics, per scale
Metrics(path, scale) ==
  LET ones == [k \in 1 .. Horizon |-> One^k]
      e == Grown([k \in 1 .. Horizon |-> One + Scaled(path.strategy[k], scale)])
      b == Grown([k \in 1 .. Horizon |-> One + path.benchmark[k]])
  IN  [growth |-> e[Horizon] - One^Horizon, drawdown |-> Drawdown(e, ones),
       benchmark |-> Drawdown(b, ones)]

\* _profile_drawdown_cap_bps: the envelope of one path is its own benchmark's
\* drawdown, times the preference's multiple.
Envelope(metric, multiple) ==
  LET cap == CeilOf(metric.benchmark * multiple, One) IN IF cap < One THEN cap ELSE One

\* median_low of a sequence of integers
MedianLow(s) == SortSeq(s, LAMBDA x, y : x < y)[(Len(s) + 1) \div 2]

\* _family_growth_summary: each family has one voice, whatever its size.
GrowthOf(ms) == [i \in DOMAIN ms |-> ms[i].growth]
FamilyGrowth(metrics) ==
  LET kinds == SetToSeq(Kinds)
  IN  MedianLow([i \in DOMAIN kinds |-> MedianLow(GrowthOf(metrics[kinds[i]]))])
Positive(ms) == 3 * Quantify(DOMAIN ms, LAMBDA i : ms[i].growth > 0) >= 2 * Len(ms)
GrowthSuffices(metrics) == 3 * Quantify(Kinds, LAMBDA kind : Positive(metrics[kind])) >= 2 * Cardinality(Kinds)

\* One row of the frontier
Row(paths, scale, multiple) ==
  LET metrics == [kind \in Kinds |-> [i \in DOMAIN paths[kind] |-> Metrics(paths[kind][i], scale)]]
      all == UNION {Range(metrics[kind]) : kind \in Kinds}
  IN  [scale |-> scale, growth |-> FamilyGrowth(metrics), drawdown |-> Max({x.drawdown : x \in all}),
       eligible |-> /\ GrowthSuffices(metrics)
                    /\ \A x \in all : x.drawdown <= Envelope(x, multiple)]

Parked == [status |-> "parked", scale |-> 0, growth |-> 0, drawdown |-> 0]

\* compose_long_horizon_risk_recommendation: most growth, then least scale
Composed(paths, multiple) ==
  LET incomplete == \E kind \in Kinds : paths[kind] = <<>>
      short == \E kind \in Kinds : \E path \in Range(paths[kind]) : Len(path.strategy) < Horizon
      eligible == {row \in {Row(paths, scale, multiple) : scale \in Scales} : row.eligible}
      best == CHOOSE row \in eligible : \A x \in eligible :
                 x.growth < row.growth \/ (x.growth = row.growth /\ row.scale <= x.scale)
  IN  IF incomplete \/ short THEN Parked
      ELSE IF eligible = {} THEN Parked
      ELSE [status |-> "ready", scale |-> best.scale, growth |-> best.growth, drawdown |-> best.drawdown]

\* The v2 facade: what a linear scale cannot express is parked, never scaled.
Scalable(c) == c.evaluation = "linear" /\ c.scope = "single" /\ c.cashflow = "none"
ComposedV2(o) == IF Scalable(o.capability) THEN Composed(o.paths, o.multiple) ELSE Parked

-----------------------------------------------------------------------------
Linear == [evaluation |-> "linear", scope |-> "single", cashflow |-> "none"]

\* An observation has one path of each family, and may have a second path of
\* one family, a missing family or a capability beyond the linear engine.
ComposerInit ==
  /\ \E f \in [Kinds -> ObservedPaths], extra \in ObservedPaths, k \in Kinds, more \in {-1, 0, 1},
        c \in {Linear, [Linear EXCEPT !.scope = "portfolio"], [Linear EXCEPT !.evaluation = "replay"]},
        m \in Multiples :
       observed = [capability |-> c, multiple |-> m,
                   paths |-> [x \in Kinds |-> IF x # k \/ more = 0 THEN <<f[x]>>
                                              ELSE IF more = 1 THEN <<f[x], extra>> ELSE <<>>]]
  /\ advice = [status |-> "none"]

Compose == advice.status = "none" /\ advice' = ComposedV2(observed) /\ UNCHANGED observed
ComposerNext == Compose

-----------------------------------------------------------------------------
\* Every loss from an earlier level to a later one, the start included: what the
\* running peak must be the largest of.  A loss is a pair: amount and level.
Losses(path, scale) ==
  LET level[k \in 0 .. Horizon] ==
        IF k = 0 THEN 1 ELSE level[k - 1] * (One + ((path.strategy[k] * scale) \div One))
      then(i, j) == level[i] * One^(j - i)
  IN  {<<(then(p[1], p[2]) - level[p[2]]) * One, then(p[1], p[2])>> :
         p \in {q \in (0 .. Horizon) \X (0 .. Horizon) : q[1] <= q[2]}}

\* An advised scale keeps every path inside the envelope of its own benchmark:
\* no path's deep benchmark drawdown excuses another path.
EnvelopeIsPaired ==
  advice.status = "ready" =>
    \A kind \in Kinds : \A path \in Range(observed.paths[kind]) :
      LET e == Envelope(Metrics(path, advice.scale), observed.multiple)
      IN  \A loss \in Losses(path, advice.scale) : loss[1] <= e * loss[2]

\* How many valid replicas of a family's paths are supplied changes nothing.
ReplicasDoNotMatter ==
  advice.status # "none" =>
    \A kind \in Kinds :
      ComposedV2([observed EXCEPT !.paths[kind] = @ \o @]) = advice

\* A less cautious preference never loses an advice, nor growth.
PreferenceIsOrdered ==
  advice.status = "ready" =>
    \A m \in Multiples : m >= observed.multiple =>
      LET bold == ComposedV2([observed EXCEPT !.multiple = m])
      IN  bold.status = "ready" /\ bold.growth >= advice.growth

AdviceIsSound == EnvelopeIsPaired /\ ReplicasDoNotMatter /\ PreferenceIsOrdered
=============================================================================
