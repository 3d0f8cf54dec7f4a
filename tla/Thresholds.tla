------------------------------ MODULE Thresholds ------------------------------
(***************************************************************************)
(* What analysts decide and what it moves.  Verdicts on alerts             *)
(* (services/verdict_service.py over InMemoryVerdictLedger; the verdict    *)
(* routes of endpoints/alerts.py) are only ever appended.  The lower       *)
(* bounds of the severity bands in force for one family are set by hand    *)
(* (services/threshold_admin.py) and recalibrated from the verdicts        *)
(* (services/recalibration.py, with the fit and the guardrail of           *)
(* aegis_ml/scoring/thresholds.py).  Each route runs in a thread; a score  *)
(* is an integer out of Scale.                                             *)
(***************************************************************************)
EXTENDS Integers, Sequences, FiniteSetsExt, Threadpool

CONSTANTS
    AlertIds,      \* the alerts, each named with its created_at
    Analysts,
    Decisions,     \* the values of Verdict
    MaxVerdicts    \* bound: records of one alert

ASSUME VerdictsAssumption == AlertIds \subseteq Nat \ {0} /\ MaxVerdicts \in Nat \ {0}

VARIABLES
    ledger,        \* _by_alert
    judging,       \* the decision each thread has checked and not yet appended
    crossed        \* history: alerts two analysts judged at once

verdictsVars == <<ledger, judging, crossed>>

NoRecord == [id |-> 0]
VerdictRecord == [id : 1..MaxVerdicts, verdict : Decisions, actor : Analysts,
                  supersedes : 0..MaxVerdicts]
NotJudging == [alert |-> 0]

VerdictsTypeOK ==
    /\ ledger \in [AlertIds -> Seq(VerdictRecord)]
    /\ \A a \in AlertIds : Len(ledger[a]) <= MaxVerdicts
    /\ \A t \in Threads : judging[t] = NotJudging \/ judging[t].alert \in AlertIds
    /\ crossed \subseteq AlertIds

VerdictsInit ==
    /\ ledger = [a \in AlertIds |-> <<>>]
    /\ judging = [t \in Threads |-> NotJudging]
    /\ crossed = {}
-----------------------------------------------------------------------------
(* InMemoryVerdictLedger.current                                           *)
Current(a) == IF ledger[a] = <<>> THEN NoRecord ELSE ledger[a][Len(ledger[a])]

(* Variant: every verdict sent is a new one.                               *)
RepeatsNever(a, who, v) == FALSE

(* The same analyst sends the verdict that is current again.               *)
Repeats(a, who, v) == Current(a) # NoRecord /\ Current(a).verdict = v /\ Current(a).actor = who

(* record_verdict up to the append: a repeat is answered "unchanged"; the  *)
(* record is numbered after the history as it is now.                      *)
Judge(t, a, who, v) ==
    /\ judging[t] = NotJudging /\ Len(ledger[a]) < MaxVerdicts
    /\ ~Repeats(a, who, v)
    /\ judging' = [judging EXCEPT ![t] =
           [alert |-> a, record |-> [id |-> Len(ledger[a]) + 1, verdict |-> v, actor |-> who,
                                     supersedes |-> Current(a).id]]]
    /\ crossed' = crossed \cup {b \in {a} : \E u \in Threads \ {t} : judging[u].alert = b}
    /\ UNCHANGED ledger

(* InMemoryVerdictLedger.append                                            *)
AppendVerdict(t) ==
    /\ judging[t] # NotJudging /\ Len(ledger[judging[t].alert]) < MaxVerdicts
    /\ ledger' = [ledger EXCEPT ![judging[t].alert] = Append(@, judging[t].record)]
    /\ judging' = [judging EXCEPT ![t] = NotJudging]
    /\ UNCHANGED crossed

VerdictsNext ==
    \/ \E t \in Threads, a \in AlertIds, who \in Analysts, v \in Decisions : Judge(t, a, who, v)
    \/ \E t \in Threads : AppendVerdict(t)
-----------------------------------------------------------------------------
(* Every reversal is on record, and nothing else is: in the history of an  *)
(* alert that no two analysts judged at once, record n is number n, it     *)
(* supersedes record n - 1, and two successive records differ in the       *)
(* verdict or in who gave it.                                              *)
HistoryIsAChain ==
    \A a \in AlertIds \ crossed : \A n \in 1..Len(ledger[a]) :
        /\ ledger[a][n].id = n /\ ledger[a][n].supersedes = n - 1
        /\ n > 1 => <<ledger[a][n].verdict, ledger[a][n].actor>>
                    # <<ledger[a][n - 1].verdict, ledger[a][n - 1].actor>>
-----------------------------------------------------------------------------
CONSTANTS
    Scale,
    BandDefaults,    \* SeverityBands, worst first: a function of 1..4
    Guardrail,       \* the most one recalibration may move a bound
    MinFeedback,
    Proposals,       \* the values admins type
    AlertScore,      \* the score of each alert
    BenignLabels

ASSUME ThresholdsAssumption ==
    /\ Scale \in Nat /\ Guardrail \in Nat /\ MinFeedback \in Nat \ {0}
    /\ BandDefaults \in [1..4 -> 1..(Scale - 1)]
    /\ \A b \in 1..3 : BandDefaults[b] > BandDefaults[b + 1]
    /\ AlertScore \in [AlertIds -> 0..Scale]
    /\ Proposals \subseteq Int

VARIABLES
    bounds,          \* the store's rows, by band
    setting,         \* the write each thread has decided on
    unchecked        \* history: the last write was no edit, or another overlapped it

thresholdsVars == <<bounds, setting, unchecked>>

BandIds == 1..4
DefaultRow == [source |-> "default"]
BandRow == [source : {"manual", "recalibration"}, value : 0..Scale]
NotSetting == [band |-> 0]

ThresholdsTypeOK ==
    /\ bounds \in [BandIds -> BandRow \cup {DefaultRow}]
    /\ \A t \in Threads : setting[t] = NotSetting \/
           setting[t] \in [band : BandIds, row : BandRow, alone : BOOLEAN]
    /\ unchecked \in BOOLEAN

ThresholdsInit ==
    /\ bounds = [b \in BandIds |-> DefaultRow]
    /\ setting = [t \in Threads |-> NotSetting]
    /\ unchecked = FALSE
-----------------------------------------------------------------------------
(* value_in_force: the row's, or the documented default.                   *)
InForce(b) == IF bounds[b] = DefaultRow THEN BandDefaults[b] ELSE bounds[b].value

(* SeverityBands: every bound inside (0, Scale), strictly descending.      *)
Descending(v) ==
    /\ \A b \in BandIds : v[b] > 0 /\ v[b] < Scale
    /\ \A b \in 1..3 : v[b] > v[b + 1]

(* Variant: checked against the documented bounds, not those in force.     *)
AcceptsByDefaults(b, v) == v > 0 /\ v < Scale /\ Descending([BandDefaults EXCEPT ![b] = v])

(* set_manual's checks: against the other three bounds in force.           *)
Accepts(b, v) ==
    v > 0 /\ v < Scale /\ Descending([[c \in BandIds |-> InForce(c)] EXCEPT ![b] = v])

(* A write decided on; `alone` while no other one is.                      *)
Overlapping(t) == \E u \in Threads \ {t} : setting[u] # NotSetting

Decide(t, b, row) ==
    setting' = [u \in Threads |->
        IF u = t THEN [band |-> b, row |-> row, alone |-> ~Overlapping(t)]
        ELSE IF setting[u] = NotSetting THEN NotSetting ELSE [setting[u] EXCEPT !.alone = FALSE]]

(* set_manual up to its put; a value this hand has set already is no write *)
SetManual(t, b, v) ==
    /\ setting[t] = NotSetting
    /\ Accepts(b, v)
    /\ bounds[b] # [source |-> "manual", value |-> v]
    /\ Decide(t, b, [source |-> "manual", value |-> v])
    /\ UNCHANGED <<bounds, unchecked>>

(* labelled_scores, kept to the labels that are evidence of benign traffic *)
BenignScores ==
    {a \in AlertIds : Current(a) # NoRecord /\ Current(a).verdict \in BenignLabels}

(* fit_threshold: a quantile lies within the sample's range.               *)
Fits == LET scores == {AlertScore[a] : a \in BenignScores} IN Min(scores)..Max(scores)

(* calibrate: moved no further than the guardrail, and kept in range.      *)
Clamp(requested, previous) ==
    Min({Max({Min({Max({requested, previous - Guardrail}), previous + Guardrail}), 0}), Scale})

(* recalibrate up to its puts, for a family with enough evidence: the      *)
(* other three bounds are not looked at.                                   *)
Recalibrate(t, b) ==
    /\ setting[t] = NotSetting
    /\ Cardinality(BenignScores) >= MinFeedback
    /\ \E fit \in Fits :
           /\ Clamp(fit, InForce(b)) # InForce(b)
           /\ Decide(t, b, [source |-> "recalibration", value |-> Clamp(fit, InForce(b))])
    /\ UNCHANGED <<bounds, unchecked>>

(* InMemoryThresholdStore.put                                              *)
PutBound(t) ==
    /\ setting[t] # NotSetting
    /\ bounds' = [bounds EXCEPT ![setting[t].band] = setting[t].row]
    /\ unchecked' = ~(setting[t].row.source = "manual" /\ setting[t].alone)
    /\ setting' = [setting EXCEPT ![t] = NotSetting]

ThresholdsNext ==
    \/ \E t \in Threads, b \in BandIds, v \in Proposals : SetManual(t, b, v)
    \/ \E t \in Threads, b \in BandIds : Recalibrate(t, b)
    \/ \E t \in Threads : PutBound(t)
-----------------------------------------------------------------------------
(* "A manual set cannot make the bands cross" (threshold_admin.py): after  *)
(* an edit that no other write overlapped, the bounds in force are a band  *)
(* set SeverityBands would take, whatever recalibrations, which look at    *)
(* one band only, had made of them before.                                 *)
EditsKeepBandOrder == ~unchecked => Descending([b \in BandIds |-> InForce(b)])
=============================================================================
