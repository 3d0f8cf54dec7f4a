-------------------------------- MODULE DataSplits --------------------------------
(***************************************************************************)
(* The folds a model is trained, tuned and tested on                       *)
(* (ml-service/aegis_ml/data/splits.py): windows are collected and then    *)
(* divided by time, by entity, or by holding an attacker or an attack      *)
(* family out.  A fold is a set of positions in the corpus; an entity's    *)
(* hash is the bucket it falls in; fractions are in tenths.                *)
(***************************************************************************)
EXTENDS Integers, Sequences, SequencesExt, FiniteSetsExt

CONSTANTS
    SplitWindows,              \* the windows there may be: [key, start, families]
    BucketOf,                  \* _entity_bucket of each key
    ValueOf,                   \* a numeric feature of each window
    TestCut, ValidCut,         \* buckets below them are the test's, the validation's
    TestTenths, ValidTenths,   \* the fractions of the timeline held back
    MaxCorpus                  \* bound: windows

ASSUME DataSplitsAssumption ==
    /\ \A w \in SplitWindows : w.key \in DOMAIN BucketOf /\ w.start \in Int
    /\ ValueOf \in [SplitWindows -> Nat]
    /\ TestCut < ValidCut /\ {TestTenths, ValidTenths} \subseteq 1..9

VARIABLES
    corpus,     \* the windows to divide
    split       \* what the chosen policy made of them, or Unsplit

splitVars == <<corpus, split>>

Unsplit == [is |-> "unsplit"]
RefusedSplit == [is |-> "refused"]

CorpusWindows == DOMAIN corpus
KeysOf(ws) == {corpus[i].key : i \in ws}
AttackKeys == KeysOf({i \in CorpusWindows : corpus[i].families # {}})

SplitsTypeOK == corpus \in Seq(SplitWindows) /\ split.is \in {"unsplit", "refused", "split"}

SplitsInit == corpus = <<>> /\ split = Unsplit

(* Windows come key by key, each key's in order of time.                   *)
InWindowOrder(v, w) == v.key < w.key \/ (v.key = w.key /\ v.start <= w.start)
Collect(w) ==
    /\ split = Unsplit /\ Len(corpus) < MaxCorpus
    /\ corpus # <<>> => InWindowOrder(Last(corpus), w)
    /\ corpus' = Append(corpus, w) /\ UNCHANGED split
-----------------------------------------------------------------------------
(* _cut: the start at which the late fraction begins, and both sides kept  *)
(* from being empty.                                                       *)
CutIndex(n, tenths) == Min({Max({(n * (10 - tenths)) \div 10, 1}), n - 1})
FoldCutoff(ws, tenths) ==
    CHOOSE s \in {corpus[i].start : i \in ws} :
        /\ Cardinality({i \in ws : corpus[i].start < s}) <= CutIndex(Cardinality(ws), tenths)
        /\ Cardinality({i \in ws : corpus[i].start <= s}) > CutIndex(Cardinality(ws), tenths)

Early(ws, tenths) == {i \in ws : corpus[i].start < FoldCutoff(ws, tenths)}

(* Variant: an entity seen early is kept.                                  *)
LateShared(ws, tenths, disjoint) == ws \ Early(ws, tenths)

(* A late window of an early entity is dropped.                            *)
Late(ws, tenths, disjoint) ==
    {i \in ws \ Early(ws, tenths) : disjoint => corpus[i].key \notin KeysOf(Early(ws, tenths))}
Dropped(ws, tenths, disjoint) ==
    Cardinality(ws) - Cardinality(Early(ws, tenths)) - Cardinality(Late(ws, tenths, disjoint))

Folds(train, valid, test, dropped) ==
    IF {} \in {train, valid, test} THEN RefusedSplit
    ELSE [is |-> "split", train |-> train, valid |-> valid, test |-> test, dropped |-> dropped]

(* split_windows: the test cut, then the validation cut within what is     *)
(* before it.                                                              *)
TemporalSplit(disjoint) ==
    LET before == Early(CorpusWindows, TestTenths)
        test == Late(CorpusWindows, TestTenths, disjoint)
        train == Early(before, ValidTenths)
        valid == Late(before, ValidTenths, disjoint) IN
    IF {} \in {before, test} THEN RefusedSplit
    ELSE Folds(train, valid, test,
               Dropped(CorpusWindows, TestTenths, disjoint) + Dropped(before, ValidTenths, disjoint))

(* The bucket decides where an entity's windows go.                        *)
FoldOf(i) == LET b == BucketOf[corpus[i].key] IN
           IF b < TestCut THEN "test" ELSE IF b < ValidCut THEN "valid" ELSE "train"
InFold(fold, ws) == {i \in ws : FoldOf(i) = fold}

GroupSplit == Folds(InFold("train", CorpusWindows), InFold("valid", CorpusWindows), InFold("test", CorpusWindows), 0)

(* leave_one_entity_out: the attacker held out is tested, the others are   *)
(* trained on, benign entities go by bucket.                               *)
LeaveOneOut(holdout) ==
    LET benign == {i \in CorpusWindows : corpus[i].key \notin AttackKeys}
        others == {i \in CorpusWindows : corpus[i].key \in AttackKeys \ {holdout}}
        test == {i \in CorpusWindows : corpus[i].key = holdout} \cup InFold("test", benign)
        Attacks(ws) == {i \in ws : corpus[i].families # {}} IN
    IF Attacks(test) = test \/ Attacks(others) = {} THEN RefusedSplit
    ELSE Folds(others \cup InFold("train", benign), InFold("valid", benign), test, 0)

(* family_split: a window of a held-out family is tested whatever its      *)
(* entity, the others go by bucket.                                        *)
FamilySplit(families) ==
    LET held == {i \in CorpusWindows : corpus[i].families \cap families # {}}
        rest == CorpusWindows \ held IN
    IF held = {} THEN RefusedSplit
    ELSE Folds(InFold("train", rest), InFold("valid", rest), held \cup InFold("test", rest), 0)

(* Every policy says whether it keeps the folds in time and the entities   *)
(* apart, and what it holds out.                                           *)
Claiming(policy, inTime, disjoint, holdout, folds) ==
    IF folds.is = "refused" THEN RefusedSplit
    ELSE [is |-> "split", policy |-> policy, inTime |-> inTime, disjoint |-> disjoint, holdout |-> holdout,
          train |-> folds.train, valid |-> folds.valid, test |-> folds.test, dropped |-> folds.dropped]

DivideInTime(disjoint) ==
    /\ split = Unsplit /\ corpus # <<>> /\ UNCHANGED corpus
    /\ split' = Claiming("time", TRUE, disjoint, {}, TemporalSplit(disjoint))
DivideByGroup ==
    /\ split = Unsplit /\ corpus # <<>> /\ UNCHANGED corpus
    /\ split' = Claiming("group", FALSE, TRUE, {}, GroupSplit)
HoldEntityOut(key) ==
    /\ split = Unsplit /\ key \in AttackKeys /\ UNCHANGED corpus
    /\ split' = Claiming("entity", FALSE, TRUE, {key}, LeaveOneOut(key))
HoldFamilyOut(families) ==
    /\ split = Unsplit /\ corpus # <<>> /\ UNCHANGED corpus
    /\ split' = Claiming("family", FALSE, FALSE, families, FamilySplit(families))

SplitsNext ==
    \/ \E w \in SplitWindows : Collect(w)
    \/ \E d \in BOOLEAN : DivideInTime(d)
    \/ DivideByGroup
    \/ \E k \in DOMAIN BucketOf : HoldEntityOut(k)
    \/ \E f \in UNION {w.families : w \in SplitWindows} : HoldFamilyOut({f})

SplitsSpec == SplitsInit /\ [][SplitsNext]_splitVars
-----------------------------------------------------------------------------
StartsBefore(ws, vs) == \A i \in ws, j \in vs : corpus[i].start < corpus[j].start
ShareKeys(ws, vs) == KeysOf(ws) \cap KeysOf(vs) # {}

(* What each policy promises of its folds (splits.py, the docstrings): no  *)
(* window is in two of them and none is lost uncounted; in time, "every    *)
(* test window starts strictly after every train window" and validation    *)
(* between them; by entity, no entity in two; an attacker held out is the  *)
(* only one tested and is not trained on; a held-out family is never       *)
(* trained or tuned on, and the test's negatives are of unseen hosts.      *)
FoldsDoNotLeak ==
    (split.is = "split" /\ split.policy # "hand") =>
        LET train == split.train  valid == split.valid  test == split.test IN
        /\ Cardinality(train) + Cardinality(valid) + Cardinality(test) + split.dropped = Len(corpus)
        /\ Cardinality(train \cup valid \cup test) + split.dropped = Len(corpus)
        /\ split.policy = "time" => StartsBefore(train \cup valid, test) /\ StartsBefore(train, valid)
        /\ split.disjoint =>
               ~ShareKeys(train, valid) /\ ~ShareKeys(train, test) /\ ~ShareKeys(valid, test)
        /\ split.policy = "entity" => KeysOf(test) \cap AttackKeys = split.holdout
        /\ split.policy = "family" =>
               /\ \A i \in train \cup valid : corpus[i].families \cap split.holdout = {}
               /\ ~ShareKeys(train, {i \in test : corpus[i].families = {}})
-----------------------------------------------------------------------------
(***************************************************************************)
(* The leakage audit a trained run must pass (ml-                          *)
(* service/aegis_ml/data/audit.py, audit_trained): it is shown a split,    *)
(* made above or edited by hand, a scaler, the windows the caller says it  *)
(* was fitted on and the feature rows, the last two or not, and names the  *)
(* kinds of leak that block the release.  The features are one number      *)
(* here, in exact arithmetic, and a row's label is its window's families.  *)
(***************************************************************************)
VARIABLES
    fitted,     \* the positions the scaler was fitted on
    caller,     \* fit_on and rows: what the audit was called with
    blocking    \* the kinds of finding that block, or NotAudited

auditVars == <<fitted, caller, blocking>>
leakVars == <<splitVars, auditVars>>

NotAudited == {"not audited"}
LeakKinds == {"time", "entity", "record", "scaler", "label"}

(* fit_on is a set with the windows declared, empty for None.              *)
NoCaller == [fitOn |-> {}, rows |-> FALSE]

LeakTypeOK ==
    /\ SplitsTypeOK /\ fitted \subseteq CorpusWindows
    /\ caller \in [fitOn : SUBSET SUBSET CorpusWindows, rows : BOOLEAN]
    /\ blocking \subseteq {"not audited"} \cup LeakKinds

LeakInit == SplitsInit /\ fitted = {} /\ caller = NoCaller /\ blocking = NotAudited

(* A window is known by its entity and its start.                          *)
WindowId(i) == <<corpus[i].key, corpus[i].start>>
WindowIds(ws) == {WindowId(i) : i \in ws}
Starts(ws) == {corpus[i].start : i \in ws}

TimeLeaks ==
    \/ {} \in {split.train, split.test}
    \/ split.valid # {} /\ Min(Starts(split.valid)) <= Max(Starts(split.train))
    \/ Min(Starts(split.test)) <= Max(Starts(split.train \cup split.valid))
EntityLeaks ==
    {} # UNION {KeysOf(split.train) \cap KeysOf(split.valid),
                KeysOf(split.train) \cap KeysOf(split.test),
                KeysOf(split.valid) \cap KeysOf(split.test)}

(* Variant: a window is compared with the test fold only.                  *)
RecordTestOnly == WindowIds(split.train \cup split.valid) \cap WindowIds(split.test) # {}

RecordLeaks ==
    {} # UNION {WindowIds(split.train) \cap WindowIds(split.valid), WindowIds(split.train) \cap WindowIds(split.test),
                WindowIds(split.valid) \cap WindowIds(split.test)}

(* check_scaler_leakage, of what the caller declares.                      *)
DeclaredBeyond == \E ws \in caller.fitOn : ~(WindowIds(ws) \subseteq WindowIds(split.train))

(* check_scaler_statistics: the mean and the deviation of the artifact are *)
(* those of the training rows; equal sums of values and of squares, each   *)
(* over its number of rows, say the same.                                  *)
ValueSum(c, ws) == MapThenSumSet(LAMBDA i : ValueOf[c[i]], ws)
SquareSum(c, ws) == MapThenSumSet(LAMBDA i : ValueOf[c[i]] * ValueOf[c[i]], ws)
SameStatistics(c, ws, vs) ==
    /\ ValueSum(c, ws) * Cardinality(vs) = ValueSum(c, vs) * Cardinality(ws)
    /\ SquareSum(c, ws) * Cardinality(vs) = SquareSum(c, vs) * Cardinality(ws)

ScalerLeaks ==
    \/ DeclaredBeyond
    \/ split.train = {} \/ ~SameStatistics(corpus, fitted, split.train)

(* check_label_leakage: in the order of the feature, rows that tie in the  *)
(* order they came in, each label is one unbroken run.                     *)
Separates(c, ws) ==
    LET InOrder(i, j) == ValueOf[c[i]] < ValueOf[c[j]] \/ (ValueOf[c[i]] = ValueOf[c[j]] /\ i < j)
        Label(i) == c[i].families IN
    /\ \E i, j \in ws : Label(i) # Label(j)
    /\ \A i, j, k \in ws :
           InOrder(i, j) /\ InOrder(j, k) /\ Label(i) = Label(k) => Label(j) = Label(i)
LabelLeaks == caller.rows /\ Separates(corpus, split.train \cup split.valid \cup split.test)

Found == {kind \in LeakKinds :
             \/ kind = "time" /\ TimeLeaks
             \/ kind = "entity" /\ EntityLeaks
             \/ kind = "record" /\ RecordLeaks
             \/ kind = "scaler" /\ ScalerLeaks
             \/ kind = "label" /\ LabelLeaks}

(* _is_declared: a policy that does not claim an order is not blocked for  *)
(* breaking it.                                                            *)
Declared(kind) == (kind = "time" /\ ~split.inTime) \/ (kind = "entity" /\ ~split.disjoint)

(* A fold changed by hand: a window is put in another one, and taken out   *)
(* of its own or not.                                                      *)
EditByHand(i, fold, moved) ==
    /\ split.is = "split" /\ split.policy # "hand" /\ blocking = NotAudited
    /\ i \notin split[fold] /\ i \in split.train \cup split.valid \cup split.test
    /\ LET Without(ws) == IF moved THEN ws \ {i} ELSE ws
           cut == [split EXCEPT !.train = Without(@), !.valid = Without(@), !.test = Without(@)] IN
       split' = [cut EXCEPT ![fold] = @ \cup {i}, !.policy = "hand"]
    /\ UNCHANGED <<corpus, auditVars>>

(* audit_trained and blocking_findings; StandardScaler.fit needs a row.    *)
Audit(fit, call) ==
    /\ split.is = "split" /\ blocking = NotAudited /\ fit # {}
    /\ UNCHANGED splitVars /\ fitted' = fit /\ caller' = call
    /\ blocking' = {kind \in Found' : ~Declared(kind)}

(* What a run may have fitted its scaler on, and may say it did.           *)
FitChoices == {split.train, split.train \cup split.valid, CorpusWindows}
Calls(fit) == [fitOn : {{}, {fit}, {split.train}}, rows : BOOLEAN]

LeakNext ==
    \/ SplitsNext /\ UNCHANGED auditVars
    \/ \E i \in CorpusWindows, fold \in {"train", "valid", "test"}, m \in BOOLEAN : EditByHand(i, fold, m)
    \/ split.is = "split" /\ \E fit \in FitChoices : \E call \in Calls(fit) : Audit(fit, call)

LeakSpec == LeakInit /\ [][LeakNext]_leakVars
-----------------------------------------------------------------------------
Told == \A i, j \in CorpusWindows : WindowId(i) = WindowId(j) => i = j

(* "A hand-built or hand-edited split must fail the same way"              *)
(* (audit.py): whatever made the folds, a release that nothing blocks has  *)
(* no window in two of them, keeps the orders the split claims, and has a  *)
(* scaler with the training fold's statistics, whatever the caller says it *)
(* was fitted on; and what blocks a split the policies made, its scaler    *)
(* fitted and declared on its training windows, is a feature that gives    *)
(* the label away and nothing else.  Two windows of one entity that start  *)
(* together are one to the audit, so the claim is about corpora in which   *)
(* they can be told apart.                                                 *)
AuditIsExact ==
    (split.is = "split" /\ blocking # NotAudited /\ Told) =>
        LET train == split.train  valid == split.valid  test == split.test IN
        /\ blocking = {} =>
               /\ train \cap valid = {} /\ train \cap test = {} /\ valid \cap test = {}
               /\ split.inTime => StartsBefore(train \cup valid, test) /\ StartsBefore(train, valid)
               /\ split.disjoint => ~ShareKeys(train, valid \cup test) /\ ~ShareKeys(valid, test)
               /\ SameStatistics(corpus, fitted, train) /\ UNION caller.fitOn \subseteq train
        /\ split.policy # "hand" /\ fitted = train /\ UNION caller.fitOn \subseteq train =>
               blocking = IF caller.rows /\ Separates(corpus, train \cup valid \cup test)
                          THEN {"label"} ELSE {}
=============================================================================
