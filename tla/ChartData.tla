------------------------------ MODULE ChartData ------------------------------
(* What the analytics page draws from the series of a node: the metrics    *)
(* split into digital and analog, a time axis for each chart, the lines    *)
(* aligned to it, the summary and the histogram of a metric.  A render is  *)
(* a function of the series and of the classification, so these are the    *)
(* only variables.  A point is its value: the minimum, the maximum and the *)
(* average of a bucket are drawn in the same way.                          *)
EXTENDS Integers, Sequences, FiniteSets, SequencesExt, FiniteSetsExt

CONSTANTS
  Metrics,
  MaxTime, MaxValue,   \* bounds: times are 1..MaxTime, values 0..MaxValue
  Bins                 \* bins of a histogram

ChartAssumption ==
  MaxTime \in Nat /\ MaxValue \in Nat /\ Bins \in Nat \ {0}

VARIABLES
  series,       \* seriesByMetric: points in the order of their times
  booleanSet    \* metrics that the last hour shows to be digital

chartVars == <<series, booleanSet>>

Point == [t : 1..MaxTime, v : 0..MaxValue]
Gap == -1      \* null in the data of a chart: the line breaks
NoStats == [count |-> 0, min |-> Gap, max |-> Gap, last |-> Gap]

TypeOK ==
  /\ series \in [Metrics -> Seq(Point)]
  /\ booleanSet \subseteq Metrics

Values(pts) == {pts[i].v : i \in DOMAIN pts}
Times(pts) == {pts[i].t : i \in DOMAIN pts}

-----------------------------------------------------------------------------
\* The last hour decides; until it has, the values shown do.
IsBooleanMetric(pts) == pts # <<>> /\ Values(pts) \subseteq {0, 1}

BoolMetrics ==
  IF booleanSet # {} THEN booleanSet
  ELSE {m \in Metrics : IsBooleanMetric(series[m])}
AnalogMetrics == Metrics \ BoolMetrics

\* The times of some metrics, in their order.
BuildAxis(ms) ==
  LET times == UNION {Times(series[m]) : m \in ms}
  IN [i \in 1..Cardinality(times) |->
        CHOOSE t \in times : Cardinality({u \in times : u < t}) = i - 1]

\* Mutant: the i-th point at the i-th time.
AlignByIndex(axis, pts) ==
  [i \in DOMAIN axis |-> IF i \in DOMAIN pts THEN pts[i].v ELSE Gap]

\* The points of one series at the places of their times, gaps elsewhere.
AlignToAxis(axis, pts) ==
  [i \in DOMAIN axis |->
     LET at == {j \in DOMAIN pts : pts[j].t = axis[i]}
     IN IF at = {} THEN Gap ELSE pts[Max(at)].v]

TrendLine(m) == AlignToAxis(BuildAxis(AnalogMetrics), series[m])
StateLine(m) == AlignToAxis(BuildAxis(BoolMetrics), series[m])

StatsOf(pts) ==
  IF pts = <<>> THEN NoStats
  ELSE [count |-> Len(pts), min |-> Min(Values(pts)), max |-> Max(Values(pts)),
        last |-> Last(pts).v]

\* The greatest value belongs to the last bin.
BinOf(v, low, high) ==
  LET bin == ((v - low) * Bins) \div (high - low)
  IN IF bin >= Bins THEN Bins - 1 ELSE bin

\* One bar for values that are all equal, none for no values.
Histogram(pts) ==
  LET low == Min(Values(pts))
      high == Max(Values(pts))
  IN IF pts = <<>> THEN <<>>
     ELSE IF low = high THEN <<Len(pts)>>
     ELSE [b \in 1..Bins |->
             Cardinality({i \in DOMAIN pts : BinOf(pts[i].v, low, high) = b - 1})]

-----------------------------------------------------------------------------
Init ==
  /\ series = [m \in Metrics |-> <<>>]
  /\ booleanSet = {}

\* A load brings one more point than the one before, or nothing.
Load ==
  /\ \/ \E m \in Metrics, p \in Point :
          /\ series[m] # <<>> => Last(series[m]).t < p.t
          /\ series' = [series EXCEPT ![m] = Append(@, p)]
     \/ series' = [m \in Metrics |-> <<>>]
  /\ UNCHANGED booleanSet

Classify ==
  /\ booleanSet' \in SUBSET Metrics
  /\ UNCHANGED series

Next == Load \/ Classify

Spec == Init /\ [][Next]_chartVars

-----------------------------------------------------------------------------
(* Properties. *)

Plotted(axis, line) ==
  {[t |-> axis[i], v |-> line[i]] : i \in {j \in DOMAIN axis : line[j] # Gap}}

\* Each metric is drawn in one of the two charts, with each of its points at
\* the place of its time and nothing else, whatever times the other metrics
\* have (Analytics.jsx:96-99, "line up by actual timestamp instead of by
\* array index").
LinesAreTheSeries ==
  /\ \A m \in AnalogMetrics :
       Plotted(BuildAxis(AnalogMetrics), TrendLine(m)) = ToSet(series[m])
  /\ \A m \in BoolMetrics :
       Plotted(BuildAxis(BoolMetrics), StateLine(m)) = ToSet(series[m])

\* No histogram loses or doubles a value, each bar counts the values between
\* its bounds, and the summary bounds them (Analytics.jsx, histogram).
BarsCountTheSeries ==
  \A m \in Metrics :
    LET pts == series[m]
        bars == Histogram(pts)
        stats == StatsOf(pts)
        width == stats.max - stats.min
    IN /\ FoldLeft(+, 0, bars) = stats.count
       /\ \A b \in DOMAIN bars : Len(bars) > 1 =>
            bars[b] = Cardinality({i \in DOMAIN pts :
              LET scaled == (pts[i].v - stats.min) * Bins
              IN /\ (b - 1) * width <= scaled
                 /\ scaled < b * width \/ (b = Bins /\ scaled = b * width)})

\* What the lines rest on: the times of a series increase.
TimesIncrease ==
  \A m \in Metrics : \A i, j \in DOMAIN series[m] :
    i < j => series[m][i].t < series[m][j].t
ChartInv == TypeOK /\ TimesIncrease
=============================================================================
