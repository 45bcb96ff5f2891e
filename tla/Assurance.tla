------------------------------- MODULE Assurance -------------------------------
(***************************************************************************)
(* Service assurance (service_assurance/): the KQI calculator, the SLA      *)
(* manager, the anomaly detector and the root-cause engine.  Three threads  *)
(* (collection, SLA monitor, anomaly monitor) and the API share them:      *)
(* indicators are cached when computed and read from the cache later, a new *)
(* violation or anomaly calls the root-cause engine back on the thread that *)
(* found it.  Of a metric's window only the two totals count that the      *)
(* formulas divide; the list of finished analyses is kept as the metrics   *)
(* that the analysis of each open violation and anomaly saw.                *)
(***************************************************************************)
EXTENDS Integers, Sequences, FiniteSets, SequencesExt

CONSTANTS
  Rates, Losses,       \* KQIs: success per attempt, and loss per packet
  Totals,              \* what a window may add up to: <<base, counted>>
  Slas,                \* registered SLAs, each [thresholds, severity]
  Window, RatePct,     \* the detector's window_size and rate_change_threshold
  NotYet               \* nothing computed, or nothing analysed

Kqis == Rates \cup Losses
ASSUME AssuranceAssumption ==
  /\ Rates \cap Losses = {} /\ Window \in Nat \ {0} /\ RatePct \in Nat \ {0}
  /\ Totals \subseteq Nat \X Nat /\ <<0, 0>> \in Totals
  /\ NotYet \notin Nat /\ \A seen \in SUBSET Kqis : NotYet # seen
  /\ \A sla \in Slas : /\ sla.severity \in {"critical", "major", "warning"}
                       /\ \A t \in sla.thresholds : t.kqi \in Kqis /\ t.op \in {">=", "<="}

VARIABLES
  window,      \* _raw_metrics: the totals of the metrics behind each KQI
  cachedKqi,   \* _kqi_cache
  toCheck,     \* <<SLA, threshold>>s the SLA monitor has still to check this round
  toAnalyze,   \* KQIs the anomaly monitor has still to analyse this round
  violations,  \* _active_violations by <<SLA, KQI>>: metrics its analysis saw, or NotYet
  averages,    \* _moving_averages: the latest Window values
  anomalies    \* _active_anomalies by <<KQI, type>>: [severity, saw]

assVars == <<window, cachedKqi, toCheck, toAnalyze, violations, averages, anomalies>>

Checks == {<<sla, t>> : sla \in Slas, t \in UNION {s.thresholds : s \in Slas}}
Checked == {c \in Checks : c[2] \in c[1].thresholds}
Absent == [x \in {} |-> NotYet]   \* an empty dictionary

AssInit ==
  /\ window = [k \in Kqis |-> <<0, 0>>] /\ cachedKqi = [k \in Kqis |-> NotYet]
  /\ toCheck = {} /\ toAnalyze = {}
  /\ violations = Absent /\ anomalies = Absent /\ averages = [k \in Kqis |-> <<>>]

\* Without attempts everything succeeded, without packets none was lost.
ValueOf(k, total) ==
  IF total[1] = 0 THEN (IF k \in Rates THEN 100 ELSE 0) ELSE (total[2] * 100) \div total[1]

\* The value over the monitors' own window of five minutes.
KqiValue(k) == ValueOf(k, window[k])

\* A simulated round or a pushed metric changes what the window adds up to.
Collect(k) ==
  /\ \E w \in Totals : window' = [window EXCEPT ![k] = w]
  /\ UNCHANGED <<cachedKqi, toCheck, toAnalyze, violations, averages, anomalies>>

\* compute_all_kqis for the dashboard, over the monitors' window
ComputeAll ==
  /\ cachedKqi' = [k \in Kqis |-> KqiValue(k)]
  /\ UNCHANGED <<window, toCheck, toAnalyze, violations, averages, anomalies>>

\* A client asks for a KQI (the list of them is one such call each) over a window of its
\* own, where the metrics add up to something else; the result goes into the same cache.
ComputeOver(k, total) ==
  /\ cachedKqi' = [cachedKqi EXCEPT ![k] = ValueOf(k, total)]
  /\ UNCHANGED <<window, toCheck, toAnalyze, violations, averages, anomalies>>

Breaches(t, v) == IF t.op = ">=" THEN v < t.value ELSE v > t.value

\* What an analysis sees: the metrics of the violations and anomalies open then.
AffectedMetrics(open, odd) == {key[2] : key \in open} \cup {key[1] : key \in odd}

SlaRoundStarts ==
  /\ toCheck = {} /\ toCheck' = Checked
  /\ UNCHANGED <<window, cachedKqi, toAnalyze, violations, averages, anomalies>>

\* A dictionary with one more entry.
Opened(dict, key, entry) ==
  [x \in DOMAIN dict \cup {key} |-> IF x \in DOMAIN dict THEN dict[x] ELSE entry]

\* The cached value decides; only a KQI never computed is computed here.  A new breach
\* is stored and, when major or critical, analysed; a breach that is over is resolved.
CheckThreshold(c) ==
  LET k == c[2].kqi  key == <<c[1], k>>
      value == IF cachedKqi[k] = NotYet THEN KqiValue(k) ELSE cachedKqi[k]
      open == DOMAIN violations \cup {key} IN
  /\ c \in toCheck /\ toCheck' = toCheck \ {c}
  /\ cachedKqi' = [cachedKqi EXCEPT ![k] = value]
  /\ violations' = IF ~Breaches(c[2], value)
                   THEN [x \in DOMAIN violations \ {key} |-> violations[x]]
                   ELSE IF key \in DOMAIN violations THEN violations
                   ELSE Opened(violations, key, IF c[1].severity \in {"critical", "major"}
                          THEN AffectedMetrics(open, DOMAIN anomalies) ELSE NotYet)
  /\ UNCHANGED <<window, toAnalyze, averages, anomalies>>

\* analyze_all_kqis computes every KQI first.  It then looks for a KQI's baseline among
\* the raw metrics, where there is none, so only the moving average is ever at work.
AnomalyRoundStarts ==
  /\ toAnalyze = {} /\ toAnalyze' = Kqis
  /\ cachedKqi' = [k \in Kqis |-> KqiValue(k)]
  /\ UNCHANGED <<window, toCheck, violations, averages, anomalies>>

\* The deviation from the mean of the window, the value itself included, in steps of RatePct.
Severity(values) ==
  LET sum == FoldSeq(LAMBDA x, y : x + y, 0, values)
      off == Window * Last(values) - sum
      dev == 100 * (IF off < 0 THEN -off ELSE off) IN
  IF Len(values) < Window \/ sum = 0 \/ dev < RatePct * sum THEN "none"
  ELSE IF dev > 3 * RatePct * sum THEN "critical"
  ELSE IF dev > 2 * RatePct * sum THEN "major" ELSE "warning"

AnomalyType(values) ==
  IF Window * Last(values) > FoldSeq(LAMBDA x, y : x + y, 0, values) THEN "SPIKE" ELSE "DROP"

\* Severities are compared as the words they are: only "warning" is after "critical".
WordAfter(s, t) == <<s, t>> \in {<<"warning", "critical">>, <<"warning", "major">>, <<"major", "critical">>}

\* An open anomaly is updated in silence; a new one that is critical is analysed.
AnalyzeKqi(k) ==
  LET recent == averages[k] \o <<cachedKqi[k]>>
      values == IF Len(recent) > Window THEN Tail(recent) ELSE recent
      key == <<k, AnomalyType(values)>>  found == Severity(values)
      odd == DOMAIN anomalies \cup {key} IN
  /\ k \in toAnalyze /\ toAnalyze' = toAnalyze \ {k}
  /\ averages' = [averages EXCEPT ![k] = values]
  /\ anomalies' =
       IF found = "none" THEN anomalies
       ELSE IF key \in DOMAIN anomalies
       THEN [anomalies EXCEPT ![key].severity = IF WordAfter(found, @) THEN found ELSE @]
       ELSE Opened(anomalies, key, [severity |-> found,
              saw |-> IF found = "critical"
                      THEN AffectedMetrics(DOMAIN violations, odd) ELSE NotYet])
  /\ UNCHANGED <<window, cachedKqi, toCheck, violations>>

AssNext ==
  \/ \E k \in Kqis : Collect(k) \/ AnalyzeKqi(k)
  \/ \E k \in Kqis, total \in Totals : ComputeOver(k, total)
  \/ ComputeAll \/ SlaRoundStarts \/ AnomalyRoundStarts
  \/ \E c \in toCheck : CheckThreshold(c)

AssTypeOK ==
  /\ window \in [Kqis -> Totals]
  /\ cachedKqi \in [Kqis -> Nat \cup {NotYet}]
  /\ toCheck \subseteq Checked /\ toAnalyze \subseteq Kqis
  /\ DOMAIN violations \subseteq Slas \X Kqis
  /\ DOMAIN anomalies \subseteq Kqis \X {"SPIKE", "DROP"}
  /\ \A k \in Kqis : Len(averages[k]) <= Window

-----------------------------------------------------------------------------
\* What the root-cause engine is called for it can see: the analysis of a major or
\* critical violation, and of an anomaly that was critical when it opened, counts the
\* metric that triggered it among the affected ones (the callbacks of
\* assurance_api.py:103-116 run on the finding thread; rca_engine.py:387 reads the lists).
AnalysesSeeTheirTrigger ==
  /\ \A key \in DOMAIN violations :
       key[1].severity \in {"critical", "major"} =>
         violations[key] # NotYet /\ key[2] \in violations[key]
  /\ \A key \in DOMAIN anomalies :
       anomalies[key].saw # NotYet => key[1] \in anomalies[key].saw

\* A client's computation leaves a KQI in the cache at a value its own window gave it.
HidesKqi(k) == cachedKqi'[k] # cachedKqi[k] /\ cachedKqi'[k] # KqiValue(k)

\* A threshold that stays breached becomes an open violation, and one that stays met has
\* none: the monitor that checks and the one that refreshes the cache are two threads
\* (sla_manager.py:255-316, kqi_calculator.py:608-612).  Clients that ask over other windows
\* may hide it by what they leave in the cache (assurance_api.py:249-272), but not after
\* the last of them.
BreachesNoticed ==
  \A c \in Checked :
    LET key == <<c[1], c[2].kqi>>  breached == Breaches(c[2], KqiValue(c[2].kqi)) IN
    <>[][~HidesKqi(c[2].kqi)]_assVars =>
      /\ <>[]breached => <>[](key \in DOMAIN violations)
      /\ <>[]~breached => <>[](key \notin DOMAIN violations)
=============================================================================
