------------------------------ MODULE ModelServing ------------------------------
(***************************************************************************)
(* The model service while it serves: its registry of loaded versions      *)
(* (ml-service/aegis_ml/registry/model_registry.py), the shadow harness a  *)
(* staging version scores through before it is promoted                    *)
(* (ml-service/aegis_ml/scoring/shadow.py), and the scoring endpoints      *)
(* (ml-service/aegis_ml/serving/scoring.py).                               *)
(***************************************************************************)
EXTENDS Integers, Sequences, FiniteSets, FiniteSetsExt, TLC

(* The registry and the shadow harness.  A score is a whole number.        *)
CONSTANTS
    Ids,            \* model ids asked for
    ForbiddenIds,   \* "latest" and its like
    RegistryKindOf, \* the kind of each id
    ScoreValues,    \* scores a model may give
    AlertScore,     \* the harness's alert threshold
    MaxMoves,       \* bound: registrations and status changes
    MaxShadowed     \* bound: windows shadow-scored

ASSUME ModelRegistryAssumption ==
    ForbiddenIds \subseteq Ids /\ ScoreValues \subseteq Nat /\ {MaxMoves, MaxShadowed} \subseteq Nat

VARIABLES
    registryOf,     \* id -> the status of a registered version, or Unregistered
    past,           \* <<id, status>> in the order they were entered
    shadowed,       \* the harness's entries: [id, active, score, activeScore]
    compared        \* the last comparison, or NotCompared

registryVars == <<registryOf, past, shadowed, compared>>

Unregistered == "none"
NoActive == "no active model"
NotCompared == [pairs |-> 0]

RegistryTypeOK ==
    /\ \A id \in Ids : registryOf[id] \in {"none", "staging", "active", "retired"}
    /\ compared.pairs \in Nat

RegistryInit ==
    /\ registryOf = [id \in Ids |-> Unregistered]
    /\ past = <<>> /\ shadowed = <<>> /\ compared = NotCompared

Registered == {id \in Ids : registryOf[id] # Unregistered}
(* active: the one version of a kind that serves; ids that R-68 forbids    *)
(* never come this far (_check_forbidden).                                 *)
ActiveOf(kind) == {id \in Registered : registryOf[id] = "active" /\ RegistryKindOf[id] = kind}
ActiveId(kind) == IF ActiveOf(kind) = {} THEN NoActive ELSE CHOOSE id \in ActiveOf(kind) : TRUE

Enter(moves) == past' = past \o moves /\ Len(past') <= MaxMoves
-----------------------------------------------------------------------------
(* register: a registered id stays as it is - the same bytes again change  *)
(* nothing, other bytes are refused - and so is refused a second active    *)
(* version of a kind.                                                      *)
Register(id, status) ==
    /\ id \notin ForbiddenIds /\ id \notin Registered
    /\ status = "active" => ActiveOf(RegistryKindOf[id]) = {}
    /\ registryOf' = [registryOf EXCEPT ![id] = status]
    /\ Enter(<<<<id, status>>>>) /\ UNCHANGED <<shadowed, compared>>

AllowedFrom(status) ==
    CASE status = "staging" -> {"active", "retired"}
      [] status = "active"  -> {"retired"}
      [] status = "retired" -> {}

(* Variant: the incumbent is left as it is.                                *)
IncumbentStays(kind) == {}

(* promote: the incumbent steps down in the same call.                     *)
SteppingDown(kind) == ActiveOf(kind)
Promote(id) ==
    /\ id \in Registered /\ registryOf[id] = "staging"
    /\ LET down == SteppingDown(RegistryKindOf[id]) IN
       /\ registryOf' = [other \in Ids |->
              IF other = id THEN "active"
              ELSE IF other \in down THEN "retired"
              ELSE registryOf[other]]
       /\ Enter((IF down = {} THEN <<>> ELSE <<<<CHOOSE d \in down : TRUE, "retired">>>>)
                \o <<<<id, "active">>>>)
    /\ UNCHANGED <<shadowed, compared>>

Retire(id) ==
    /\ id \in Registered /\ "retired" \in AllowedFrom(registryOf[id])
    /\ registryOf' = [registryOf EXCEPT ![id] = "retired"]
    /\ Enter(<<<<id, "retired">>>>) /\ UNCHANGED <<shadowed, compared>>

(* ShadowHarness.score: the version and the incumbent, when there is one,  *)
(* score the same window; nothing but the record changes.                  *)
ShadowScore(id, score, activeScore) ==
    /\ id \in Registered /\ registryOf[id] = "staging" /\ Len(shadowed) < MaxShadowed
    /\ shadowed # <<>> => shadowed[1].id = id
    /\ LET active == ActiveId(RegistryKindOf[id]) IN
       shadowed' = Append(shadowed, [id |-> id, active |-> active, score |-> score,
                                     activeScore |-> activeScore])
    /\ UNCHANGED <<registryOf, past, compared>>

(* compare: entries without an incumbent are left out; two are needed.     *)
Alerts(score) == score >= AlertScore
CompareShadow ==
    LET paired == {i \in DOMAIN shadowed : shadowed[i].active # NoActive} IN
    /\ Cardinality(paired) >= 2
    /\ compared' = [pairs |-> Cardinality(paired),
                    shadowAlerts |-> Cardinality({i \in paired : Alerts(shadowed[i].score)}),
                    activeAlerts |-> Cardinality({i \in paired : Alerts(shadowed[i].activeScore)}),
                    disagreements |-> Cardinality({i \in paired :
                        Alerts(shadowed[i].score) # Alerts(shadowed[i].activeScore)})]
    /\ UNCHANGED <<registryOf, past, shadowed>>

RegistryNext ==
    \/ \E id \in Ids, s \in {"staging", "active"} : Register(id, s)
    \/ \E id \in Ids : Promote(id) \/ Retire(id)
    \/ \E id \in Ids, x, y \in ScoreValues : ShadowScore(id, x, y)
    \/ CompareShadow

RegistrySpec == RegistryInit /\ [][RegistryNext]_registryVars
-----------------------------------------------------------------------------
(* "The set of versions that have ever served traffic is append-only"      *)
(* (model_registry.py, R-68): in the order statuses were entered no        *)
(* version comes back from retirement or serves twice, and between one     *)
(* version's activation and the next of its kind the first was retired, so *)
(* a score at any time has one model to be attributed to.                  *)
ServingHistoryIsAppendOnly ==
    \A i, j \in DOMAIN past :
        i < j =>
            /\ past[i][1] = past[j][1] => past[i][2] # "retired" /\ past[j][2] # "staging"
            /\ (past[i][2] = "active" /\ past[j][2] = "active"
                /\ RegistryKindOf[past[i][1]] = RegistryKindOf[past[j][1]]) =>
                   \E k \in (i + 1)..(j - 1) : past[k] = <<past[i][1], "retired">>

(* What serves is where the history puts it: one version of a kind is      *)
(* active at most, and each has the status entered last for it, or none    *)
(* was.                                                                    *)
OneActive(statuses) ==
    \A x, y \in Ids :
        statuses[x] = "active" /\ statuses[y] = "active" /\ RegistryKindOf[x] = RegistryKindOf[y] => x = y
LastEntered(statuses, moves) ==
    \A id \in Ids :
        \/ statuses[id] = Unregistered /\ \A i \in DOMAIN moves : moves[i][1] # id
        \/ \E i \in DOMAIN moves :
               moves[i] = <<id, statuses[id]>> /\ \A j \in (i + 1)..Len(moves) : moves[j][1] # id

(* The comparison is of pairs: the two models' alert counts cannot differ  *)
(* by more than the windows they disagree on (shadow.py: distribution      *)
(* agreement "does not bound" disagreement, disagreement bounds the        *)
(* counts).                                                                *)
DisagreementBoundsCounts ==
    compared # NotCompared =>
        /\ compared.shadowAlerts <= compared.activeAlerts + compared.disagreements
        /\ compared.activeAlerts <= compared.shadowAlerts + compared.disagreements
        /\ compared.disagreements <= compared.pairs

RegistryIsAHistory ==
    /\ OneActive(registryOf) /\ LastEntered(registryOf, past)
    /\ ServingHistoryIsAppendOnly
    /\ DisagreementBoundsCounts
-----------------------------------------------------------------------------
(* The scoring endpoints are plain functions, so they run in pool threads, *)
(* and the checkpoints are loaded by whichever requests come first:        *)
(* nothing stops two of them loading at once.  Scores and ratios are kept  *)
(* in thousandths.                                                         *)
CONSTANTS
    Scorers,           \* threads that run an endpoint
    WindowFlows,       \* the flows of each window, a sequence for each window's name
    NetScores,         \* what FlowNet may make of a window, in thousandths
    MaxScored          \* bound: different answers, those in the making aside

ASSUME WindowScoringAssumption ==
    NetScores \subseteq 0..1000 /\ MaxScored \in Nat \ {0}

VARIABLES
    checkpoint,   \* what lies at FLOWNET_MODEL_PATH and LOGNET_MODEL_PATH
    loadedNets,   \* _flownet_model and _lognet_model, by the name of those set
    triedLoading, \* _models_loaded
    scoring,      \* what each thread is doing
    scored        \* ghost: the answers given
scoringVars == <<checkpoint, loadedNets, triedLoading, scoring, scored>>

Resting == [at |-> "rest"]

ScoringTypeOK ==
    /\ checkpoint \in [{"flownet", "lognet"} -> {"absent", "good", "bad"}]
    /\ loadedNets \subseteq {"flownet", "lognet"}
    /\ triedLoading \in BOOLEAN
    /\ \A t \in Scorers : scoring[t].at \in {"rest", "flownet", "lognet", "mark", "score", "combine"}
    /\ \A a \in scored : a.kind \in {"flows", "logs"}

ScoringInit ==
    /\ checkpoint \in [{"flownet", "lognet"} -> {"absent", "good", "bad"}]
    /\ loadedNets = {} /\ triedLoading = FALSE
    /\ scoring = [t \in Scorers |-> Resting]
    /\ scored = {}
-----------------------------------------------------------------------------
(* extract_features: what the score reads of a window.  A flow's state is  *)
(* a failed one or not, its duration short or not, and either may be       *)
(* unknown, which takes the flow out of that share; small says whether it  *)
(* has fewer than 100 bytes, which the units of `bytes` do not.            *)
Unknown == "unknown"
ShareOf(part, whole) == (1000 * Cardinality(part)) \div Max({Cardinality(whole), 1})
WindowFeatures(flows) ==
    LET all == DOMAIN flows
        bytes == [i \in all |-> flows[i].bytes] IN
    [count |-> Len(flows),
     ports |-> Cardinality({flows[i].port : i \in all}),
     failed |-> ShareOf({i \in all : flows[i].state = "failed"},
                        {i \in all : flows[i].state # Unknown}),
     short |-> ShareOf({i \in all : flows[i].lasted = "short"},
                       {i \in all : flows[i].lasted # Unknown}),
     small |-> ShareOf({i \in all : flows[i].small}, all),
     dns |-> ShareOf({i \in all : flows[i].port = 53 \/ flows[i].service = "dns"}, all),
     largest |-> Max({bytes[i] : i \in all} \cup {0}),
     total |-> MapThenSumSet(LAMBDA i : bytes[i], all)]

(* compute_statistical_score: each indicator that fires and what it adds.  *)
(* Bytes are in units of 1000, so that they fit the checker's integers.    *)
Indicators(f) ==
    { <<"ports", f.ports > 20, Min({((f.ports - 20) * 1000) \div 80, 300})>>,
      <<"failed", f.failed > 300, Min({(f.failed * 3) \div 10, 250})>>,
      <<"short", f.short > 700 /\ f.count > 10, Min({(f.short - 700) \div 2, 200})>>,
      <<"largest", f.largest > 50000, Min({f.largest \div 500, 200})>>,
      <<"total", f.total > 100000, Min({f.total \div 1000, 150})>>,
      <<"small", f.small > 600 /\ f.count > 5, Min({((f.small - 600) * 3) \div 10, 150})>>,
      <<"dns", f.dns > 500 /\ f.count > 10, Min({(f.dns - 500) \div 5, 100})>> }
Clamp(score) == IF score \in 0..1000 THEN score ELSE IF score < 0 THEN 0 ELSE 1000
StatisticalScore(f) ==
    Clamp(MapThenSumSet(LAMBDA i : i[3], {i \in Indicators(f) : i[2]}))
-----------------------------------------------------------------------------
Go(t, state) == scoring' = [scoring EXCEPT ![t] = state]

(* Variant: the flag is set before the checkpoints are read.               *)
AskMarkedFirst(t, w) ==
    /\ scoring[t] = Resting /\ Cardinality(scored) < MaxScored
    /\ Go(t, [at |-> IF triedLoading THEN "score" ELSE "flownet", window |-> w])
    /\ triedLoading' = TRUE
    /\ UNCHANGED <<checkpoint, loadedNets, scored>>

(* score_window, score_log_window: a request loads the checkpoints unless  *)
(* some request is already through with it.                                *)
Ask(t, w) ==
    /\ scoring[t] = Resting /\ Cardinality(scored) < MaxScored
    /\ Go(t, [at |-> IF triedLoading THEN "score" ELSE "flownet", window |-> w])
    /\ UNCHANGED <<checkpoint, loadedNets, triedLoading, scored>>

(* _try_load_models: one checkpoint, then the other.  One that cannot be   *)
(* read ends the attempt, whatever comes after it.                         *)
LoadNet(t, net, next) ==
    /\ scoring[t].at = net
    /\ loadedNets' = IF checkpoint[net] = "good" THEN loadedNets \cup {net} ELSE loadedNets
    /\ Go(t, [scoring[t] EXCEPT !.at = IF checkpoint[net] = "bad" THEN "mark" ELSE next])
    /\ UNCHANGED <<checkpoint, triedLoading, scored>>
LoadFlowNet(t) == LoadNet(t, "flownet", "lognet")
LoadLogNet(t) == LoadNet(t, "lognet", "mark")
MarkTried(t) ==
    /\ scoring[t].at = "mark"
    /\ triedLoading' = TRUE
    /\ Go(t, [scoring[t] EXCEPT !.at = "score"])
    /\ UNCHANGED <<checkpoint, loadedNets, scored>>

(* score_window, up to the transformer's score: nothing without the model  *)
(* or for fewer than two flows, and nothing when the model fails.          *)
LogWindow == "logs"
ScoreByNet(t) ==
    /\ scoring[t].at = "score" /\ scoring[t].window # LogWindow
    /\ \E s \in IF "flownet" \in loadedNets /\ Len(WindowFlows[scoring[t].window]) >= 2
                THEN NetScores \cup {0} ELSE {0} :
          Go(t, [at |-> "combine", window |-> scoring[t].window, net |-> s])
    /\ UNCHANGED <<checkpoint, loadedNets, triedLoading, scored>>

Respond(t, answer) ==
    /\ scored' = scored \cup {answer}
    /\ Go(t, Resting)
    /\ UNCHANGED <<checkpoint, loadedNets, triedLoading>>

(* Variant: the two scores added up instead of weighed.                    *)
CombinedUnweighed(net, statistical) ==
    IF "flownet" \in loadedNets THEN net + statistical ELSE statistical

(* The composite (T-205).                                                  *)
Combined(net, statistical) ==
    IF "flownet" \in loadedNets THEN (7 * net + 3 * statistical) \div 10 ELSE statistical

(* score_window, the rest: the model is looked up once more.               *)
Combine(t) ==
    /\ scoring[t].at = "combine"
    /\ Respond(t, [kind |-> "flows", flows |-> Len(WindowFlows[scoring[t].window]),
                    method |-> IF "flownet" \in loadedNets THEN "transformer" ELSE "statistical",
                    score |-> Combined(scoring[t].net, StatisticalScore(WindowFeatures(WindowFlows[scoring[t].window])))])

(* score_log_window: the score of the heuristics, which add up to 700 at   *)
(* most, under the name of LogNet when one is loaded; no logs, no name.    *)
ScoreLogs(t) ==
    /\ scoring[t].at = "score" /\ scoring[t].window = LogWindow
    /\ \/ Respond(t, [kind |-> "logs", flows |-> 0, method |-> "statistical", score |-> 0])
       \/ \E s \in {0, 700} :
             Respond(t, [kind |-> "logs", flows |-> 0,
                          method |-> IF "lognet" \in loadedNets THEN "lognet" ELSE "statistical",
                          score |-> s])

ScoringNext ==
    \E t \in Scorers :
        \/ \E w \in DOMAIN WindowFlows \cup {LogWindow} : Ask(t, w)
        \/ LoadFlowNet(t) \/ LoadLogNet(t) \/ MarkTried(t)
        \/ ScoreByNet(t) \/ Combine(t) \/ ScoreLogs(t)

ScoringSpec == ScoringInit /\ [][ScoringNext]_scoringVars
-----------------------------------------------------------------------------
(* Whichever request loads the models and however two loads interleave,    *)
(* every window of flows is answered by the transformer if its checkpoint  *)
(* can be read, by the statistics if not, a broken LogNet notwithstanding; *)
(* and no indicator or model makes a score the response cannot carry       *)
(* (ScoreResponse.score is at most 1).                                     *)
AnswersByTheLoadedModel ==
    \A a \in scored :
        /\ a.kind = "flows" => ((a.method = "transformer") <=> checkpoint["flownet"] = "good")
        /\ a.score \in 0..1000
=============================================================================
