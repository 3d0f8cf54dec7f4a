------------------------------- MODULE Evaluation -------------------------------
(***************************************************************************)
(* The metrics a model is promoted on                                      *)
(* (ml-service/aegis_ml/training/evaluation.py): examples are scored one   *)
(* by one and evaluate() turns them into a report.  A score is a whole     *)
(* number of parts of ScoreTop, a metric a fraction <<over, under>>.       *)
(***************************************************************************)
EXTENDS Integers, Sequences, SequencesExt, FiniteSetsExt

CONSTANTS
    ScoreTop,       \* the score 1.0
    HistogramBins,  \* bins of equal width
    SweepSteps,     \* thresholds of the sweep, 0.0 and 1.0 included
    Parts,          \* a multiple of every number of examples there may be: the unit
                    \* a precision is counted in
    MaxExamples     \* bound: examples

ASSUME EvaluationAssumption ==
    /\ {ScoreTop, HistogramBins} \subseteq Nat \ {0} /\ SweepSteps \in Nat \ {0, 1}
    /\ ScoreTop % HistogramBins = 0 /\ ScoreTop % (SweepSteps - 1) = 0
    /\ MaxExamples \in Nat /\ Parts \in Nat \ {0} /\ \A n \in 1..MaxExamples : Parts % n = 0

VARIABLES
    examples,   \* the scored examples, in the order they came
    evaluation  \* the report, NoEvaluation before, Undefined when a metric has no value

evaluationVars == <<examples, evaluation>>

NoEvaluation == [is |-> "none"]
Undefined == [is |-> "undefined"]

Example == [score : 0..ScoreTop, threat : BOOLEAN]
EvaluationTypeOK ==
    examples \in Seq(Example) /\ evaluation.is \in {"none", "undefined", "report"}

EvaluationInit == examples = <<>> /\ evaluation = NoEvaluation

All == DOMAIN examples
Threats == {i \in All : examples[i].threat}
Benign == All \ Threats
AtLeast(score) == {i \in All : examples[i].score >= score}
-----------------------------------------------------------------------------
(* confusion_at: a score equal to the threshold is a threat.               *)
ConfusionAt(threshold) ==
    [tp |-> Cardinality(Threats \cap AtLeast(threshold)),
     fp |-> Cardinality(Benign \cap AtLeast(threshold)),
     fn |-> Cardinality(Threats \ AtLeast(threshold)),
     tn |-> Cardinality(Benign \ AtLeast(threshold))]

(* _score_histogram: the last bin takes the score 1.0 in.                  *)
BinOf(score) == Min({score \div (ScoreTop \div HistogramBins), HistogramBins - 1}) + 1
ScoreHistogram ==
    [b \in 1..HistogramBins |->
        [threat |-> Cardinality({i \in Threats : BinOf(examples[i].score) = b}),
         benign |-> Cardinality({i \in Benign : BinOf(examples[i].score) = b})]]

(* roc_auc: the examples in order of score, ties sharing the average of    *)
(* the ranks low + 1 .. high + 1; twice that rank.                         *)
Low(i) == Cardinality({j \in All : examples[j].score < examples[i].score})
High(i) == Cardinality({j \in All : examples[j].score <= examples[i].score}) - 1

(* Variant: a tie takes its lowest rank.                                   *)
TwiceTheLowestRank(i) == 2 * (Low(i) + 1)

TwiceTheRank(i) == Low(i) + High(i) + 2
RocAuc ==
    LET p == Cardinality(Threats)  n == Cardinality(Benign) IN
    <<MapThenSumSet(TwiceTheRank, Threats) - p * (p + 1), 2 * p * n>>

(* average_precision: group by group of equal scores, from the highest.    *)
Descending(S) ==
    [k \in 1..Cardinality(S) |-> CHOOSE x \in S : Cardinality({y \in S : y > x}) = k - 1]
AveragePrecision ==
    LET descending == Descending({examples[i].score : i \in All})
        AddGroup(sum, score) ==
            LET hits == Cardinality({i \in Threats : examples[i].score = score})
                count == Cardinality({i \in All : examples[i].score = score})
                found == sum.found + hits
                seen == sum.seen + count IN
            [found |-> found, seen |-> seen, area |-> sum.area + hits * found * (Parts \div seen)]
        whole == FoldLeft(AddGroup, [found |-> 0, seen |-> 0, area |-> 0], descending) IN
    <<whole.area, Cardinality(Threats) * Parts>>

(* threshold_sweep, and _best_f1: of equal ones the highest threshold.     *)
SweepThresholds == {(k * ScoreTop) \div (SweepSteps - 1) : k \in 0..(SweepSteps - 1)}
Sweep == [t \in SweepThresholds |-> ConfusionAt(t)]
F1(c) == <<2 * c.tp, IF c.tp = 0 THEN 1 ELSE 2 * c.tp + c.fp + c.fn>>
Less(x, y) == x[1] * y[2] < y[1] * x[2]
BestF1 ==
    CHOOSE t \in SweepThresholds : \A u \in SweepThresholds :
        \/ Less(F1(Sweep[u]), F1(Sweep[t]))
        \/ ~Less(F1(Sweep[t]), F1(Sweep[u])) /\ u <= t

Score(example) ==
    /\ evaluation = NoEvaluation /\ Len(examples) < MaxExamples
    /\ examples' = Append(examples, example) /\ UNCHANGED evaluation

(* evaluate: both classes are needed, and the report must agree with       *)
(* itself (histogram_matches_evaluation).                                  *)
SumOver(bins, class) == MapThenSumSet(LAMBDA b : bins[b][class], DOMAIN bins)
AgreesWithItself(r) ==
    /\ SumOver(r.histogram, "threat") = r.positives /\ r.confusion.tp + r.confusion.fn = r.positives
    /\ SumOver(r.histogram, "benign") = r.negatives /\ r.confusion.tn + r.confusion.fp = r.negatives
Evaluate(threshold) ==
    LET report == [is |-> "report", threshold |-> threshold, histogram |-> ScoreHistogram,
                   positives |-> Cardinality(Threats), negatives |-> Cardinality(Benign),
                   confusion |-> ConfusionAt(threshold), rocAuc |-> RocAuc,
                   prAuc |-> AveragePrecision, sweep |-> Sweep, best |-> BestF1] IN
    /\ evaluation = NoEvaluation /\ examples # <<>>
    /\ evaluation' = IF {} \in {Threats, Benign} \/ ~AgreesWithItself(report)
                     THEN Undefined ELSE report
    /\ UNCHANGED examples

EvaluationNext ==
    \/ \E e \in Example : Score(e)
    \/ \E t \in 0..ScoreTop : Evaluate(t)

EvaluationSpec == EvaluationInit /\ [][EvaluationNext]_evaluationVars
-----------------------------------------------------------------------------
(* The report says what its names promise (evaluation.py, "exact           *)
(* implementations"): AUC is the share of (threat, benign) pairs in the    *)
(* right order, a tie counting half; average precision is the mean, over   *)
(* the threats, of the precision at that threat's score; the sweep only    *)
(* loses detections as the threshold rises and the histogram gives the     *)
(* same counts at its edges; no threshold beats the best one, nor equals   *)
(* it with fewer false alarms; a report is made whenever both classes are  *)
(* there.                                                                  *)
MetricsMeanWhatTheySay ==
    LET r == evaluation
        Pair(i, j) == IF examples[i].score > examples[j].score THEN 2
                      ELSE IF examples[i].score = examples[j].score THEN 1 ELSE 0
        Pairs == MapThenSumSet(LAMBDA ij : Pair(ij[1], ij[2]), Threats \X Benign)
        PrecisionAt(i) ==
            LET above == {j \in All : examples[j].score >= examples[i].score} IN
            Cardinality(above \cap Threats) * (Parts \div Cardinality(above))
        Edge(k) == k * (ScoreTop \div HistogramBins)
        From(k, class) == MapThenSumSet(LAMBDA b : r.histogram[b][class], (k + 1)..HistogramBins) IN
    /\ (r.is = "undefined") => {} \in {Threats, Benign}
    /\ r.is = "report" =>
        /\ r.rocAuc = <<Pairs, 2 * Cardinality(Threats) * Cardinality(Benign)>>
        /\ r.prAuc[1] = MapThenSumSet(PrecisionAt, Threats)
        /\ \A t, u \in DOMAIN r.sweep :
               t <= u => r.sweep[u].tp <= r.sweep[t].tp /\ r.sweep[u].fp <= r.sweep[t].fp
        /\ \A k \in 0..(HistogramBins - 1) :
               Edge(k) \in DOMAIN r.sweep =>
                   /\ From(k, "threat") = r.sweep[Edge(k)].tp
                   /\ From(k, "benign") = r.sweep[Edge(k)].fp
        /\ \A t \in DOMAIN r.sweep :
               LET b == r.sweep[r.best]  c == r.sweep[t] IN
               /\ ~Less(F1(b), F1(c))
               /\ ~Less(F1(c), F1(b)) => b.fp <= c.fp
=============================================================================
