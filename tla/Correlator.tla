------------------------------ MODULE Correlator ------------------------------
(***************************************************************************)
(* The correlator (services/correlator.py) over its InMemoryCaseStore:     *)
(* scored windows become cases.  A window may repeat a case inside the     *)
(* cool-down, join a case of the other modality within the group window,   *)
(* open a case of its own, or be a replay of one already counted.          *)
(*                                                                         *)
(* The store looks cases up by entity and never across entities, so one    *)
(* entity is modelled.  Windows come in any order of their close times, as *)
(* often as the at-least-once worker delivers them.  Nothing in the        *)
(* program closes a case.  Scores are points of MaxScore; a composite is   *)
(* in twentieths of a point, in which the fusion weights are whole.        *)
(***************************************************************************)
EXTENDS Integers, Sequences, FiniteSets, FiniteSetsExt

CONSTANTS
    Families,     \* threat families
    Scores,       \* the scores a window may get
    Times,        \* close times of windows
    CoolDown,     \* config.cool_down
    GroupWindow,  \* config.group_window
    Retention,    \* config.evidence_retention
    Bands,        \* severity lower bounds, in composites
    MaxWindows    \* bound: distinct windows delivered

ASSUME CorrelatorAssumption ==
    /\ Scores \subseteq Nat /\ Times \subseteq Nat /\ Bands \subseteq Nat
    /\ CoolDown \in Nat \ {0} /\ GroupWindow \in Nat \ {0} /\ Retention \in Nat \ {0}
    /\ IsFiniteSet(Bands) /\ MaxWindows \in Nat

VARIABLES
    cases,      \* store._cases in creation order, which is _by_entity's order
    evidence,   \* store._evidence: the case that counted each window
    delivered,  \* history: the windows delivered, each known by its position
    inOrder     \* history: no window closed before one delivered earlier

vars == <<cases, evidence, delivered, inOrder>>

Modality == {"flow", "log"}
Detection == [id : 1..MaxWindows, family : Families, modality : Modality,
              score : Scores, at : Times]

Init == /\ cases = <<>>
        /\ evidence = <<>>
        /\ delivered = <<>>
        /\ inOrder = TRUE
-----------------------------------------------------------------------------
(* scoring/fusion.py: 0.6 and 0.4 when both modalities spoke, three        *)
(* quarters of the only one otherwise; the best score of each counts.      *)
ModalitiesOf(occurrences) == {occurrences[i].modality : i \in DOMAIN occurrences}
BestScore(occurrences, m) ==
    Max({occurrences[i].score : i \in {j \in DOMAIN occurrences : occurrences[j].modality = m}})

Composite(occurrences) ==
    IF ModalitiesOf(occurrences) = Modality
    THEN 12 * BestScore(occurrences, "flow") + 8 * BestScore(occurrences, "log")
    ELSE 15 * BestScore(occurrences, CHOOSE m \in ModalitiesOf(occurrences) : TRUE)

Partial(occurrences) == ModalitiesOf(occurrences) # Modality

(* severity_for: how many of the bands' lower bounds the score reaches.    *)
Severity(score) == Cardinality({b \in Bands : score >= b})

(* _latest: the most recently active of these cases, the oldest of equals. *)
Latest(candidates) ==
    CHOOSE i \in candidates : \A j \in candidates :
        \/ cases[i].lastSeen > cases[j].lastSeen
        \/ (cases[i].lastSeen = cases[j].lastSeen /\ i <= j)

(* latest_for_entity, latest_for: no upper bound on last_seen.             *)
ActiveSince(t) == {i \in DOMAIN cases : cases[i].lastSeen >= t}

(* Variant: the window looks back only.                                    *)
NearBackOnly(case, d) == d.at >= case.lastSeen

(* _grouping_candidate: the window is symmetric.                           *)
Near(case, d) == d.at - case.lastSeen <= GroupWindow /\ case.lastSeen - d.at <= GroupWindow

(* _grouping_candidate: only the latest case is looked at.                 *)
Groupable(d) ==
    LET active == ActiveSince(d.at - GroupWindow) IN
    IF active = {} THEN {}
    ELSE {i \in {Latest(active)} : Near(cases[i], d)
                                   /\ d.modality \notin ModalitiesOf(cases[i].occurrences)}

(* Variant: a cool-down that is over one tick early.                       *)
RepeatableShort(d) ==
    LET active == {i \in ActiveSince(d.at - CoolDown + 1) : d.family \in cases[i].families} IN
    IF active = {} THEN {} ELSE {Latest(active)}

(* _repeat_candidate.                                                      *)
Repeatable(d) ==
    LET active == {i \in ActiveSince(d.at - CoolDown) : d.family \in cases[i].families} IN
    IF active = {} THEN {} ELSE {Latest(active)}

(* Variant: only the composite of what is retained now.                    *)
CurrentScore(case, occurrences) == Composite(occurrences)

(* A case keeps the highest composite it has seen.                         *)
PeakScore(case, occurrences) == Max({case.score, Composite(occurrences)})

(* Variant: trim after one too many.                                       *)
TrimmedLate(occurrences) ==
    SubSeq(occurrences, Max({1, Len(occurrences) - Retention}), Len(occurrences))

(* The newest occurrences, in order of arrival.                            *)
Trimmed(occurrences) ==
    SubSeq(occurrences, Max({1, Len(occurrences) - Retention + 1}), Len(occurrences))

(* Variant: the window that came last was active last.                     *)
LastArrival(case, d) == d.at

LastSeen(case, d) == Max({case.lastSeen, d.at})

(* _create.                                                                *)
NewCase(d) ==
    [family |-> d.family, families |-> {d.family}, score |-> Composite(<<d>>),
     firstSeen |-> d.at, lastSeen |-> d.at, count |-> 1,
     partial |-> Partial(<<d>>), grouped |-> FALSE,
     opened |-> d.at, occurrences |-> <<d>>]

(* _merge.                                                                 *)
Merged(case, d, grouping) ==
    LET occurrences == Trimmed(Append(case.occurrences, d)) IN
    [case EXCEPT !.families = @ \cup {d.family},
                 !.score = PeakScore(case, occurrences),
                 !.firstSeen = Min({@, d.at}),
                 !.lastSeen = LastSeen(case, d),
                 !.count = @ + 1,
                 !.partial = Partial(occurrences),
                 !.grouped = @ \/ grouping,
                 !.occurrences = occurrences]

(* Variant: the index holds what the case retains.                         *)
IndexRetained(i, case) ==
    [e \in {x \in DOMAIN evidence : evidence[x] # i}
           \cup {case.occurrences[k].id : k \in DOMAIN case.occurrences} |->
        IF e \in DOMAIN evidence /\ evidence[e] # i THEN evidence[e] ELSE i]

(* store.save: retained windows are indexed, evicted ones stay indexed.    *)
Index(i, case) ==
    [e \in DOMAIN evidence \cup {case.occurrences[k].id : k \in DOMAIN case.occurrences} |->
        IF \E k \in DOMAIN case.occurrences : case.occurrences[k].id = e THEN i
        ELSE evidence[e]]

Save(i, case) ==
    /\ cases' = IF i \in DOMAIN cases THEN [cases EXCEPT ![i] = case] ELSE Append(cases, case)
    /\ evidence' = Index(i, case)
-----------------------------------------------------------------------------
(* _correlate: the four-way decision, in the code's order.                 *)
Duplicate(d) == d.id \in DOMAIN evidence /\ UNCHANGED <<cases, evidence>>

Group(d) ==
    /\ d.id \notin DOMAIN evidence
    /\ \E i \in Groupable(d) : Save(i, Merged(cases[i], d, TRUE))

Absorb(d) ==
    /\ d.id \notin DOMAIN evidence
    /\ Groupable(d) = {}
    /\ \E i \in Repeatable(d) : Save(i, Merged(cases[i], d, FALSE))

Create(d) ==
    /\ d.id \notin DOMAIN evidence
    /\ Groupable(d) = {} /\ Repeatable(d) = {}
    /\ Save(Len(cases) + 1, NewCase(d))

Ingest(d) == Duplicate(d) \/ Group(d) \/ Absorb(d) \/ Create(d)

(* The worker delivers a window for the first time.                        *)
Deliver(d) ==
    /\ Len(delivered) < MaxWindows
    /\ d.id = Len(delivered) + 1
    /\ Ingest(d)
    /\ delivered' = Append(delivered, d)
    /\ inOrder' = (inOrder /\ \A i \in DOMAIN delivered : delivered[i].at <= d.at)

(* The worker delivers it again, with the same identity and content.       *)
Replay(i) ==
    /\ Ingest(delivered[i])
    /\ UNCHANGED <<delivered, inOrder>>

Next == \/ \E d \in Detection : Deliver(d)
        \/ \E i \in DOMAIN delivered : Replay(i)

Spec == Init /\ [][Next]_vars
-----------------------------------------------------------------------------
Case == [family : Families, families : SUBSET Families, score : Nat,
         firstSeen : Times, lastSeen : Times, count : Nat, partial : BOOLEAN,
         grouped : BOOLEAN, opened : Times, occurrences : Seq(Detection)]

TypeOK ==
    /\ cases \in Seq(Case)
    /\ \A i \in DOMAIN cases : Len(cases[i].occurrences) \in 1..Retention
    /\ DOMAIN evidence \subseteq 1..MaxWindows
    /\ \A e \in DOMAIN evidence : evidence[e] \in DOMAIN cases
    /\ delivered \in Seq(Detection) /\ Len(delivered) <= MaxWindows
    /\ inOrder \in BOOLEAN

CountedIn(c) == {e \in DOMAIN evidence : evidence[e] = c}

(* The correlator is an IncidentLedger: a replay changes nothing, also     *)
(* after its window was evicted from what the case retains, and no window  *)
(* is ever counted twice or moved to another case.                         *)
Ledger == INSTANCE IncidentLedger WITH
    Evidence <- 1..MaxWindows, CaseIds <- 1..MaxWindows,
    counted <- [c \in 1..MaxWindows |-> CountedIn(c)],
    count <- [c \in 1..MaxWindows |-> IF c \in DOMAIN cases THEN cases[c].count ELSE 0]

CountsEachWindowOnce == Ledger!Spec

(* "The case never de-escalates": whatever is delivered, replayed or       *)
(* evicted, a case that once showed a severity shows at least that one     *)
(* later, and keeps its label, its families and its grouping.              *)
NeverDeescalates ==
    [][\A i \in DOMAIN cases :
          /\ i \in DOMAIN cases'
          /\ Severity(cases'[i].score) >= Severity(cases[i].score)
          /\ cases[i].families \subseteq cases'[i].families
          /\ cases'[i].family = cases[i].family
          /\ cases[i].grouped => cases'[i].grouped]_vars

(* A case spans what it has counted, evicted windows included, in whatever *)
(* order they came.                                                        *)
SpansItsEvidence ==
    \A i \in DOMAIN cases :
        LET times == {delivered[e].at : e \in CountedIn(i)} IN
        cases[i].firstSeen = Min(times) /\ cases[i].lastSeen = Max(times)

(* FR-15, across cases and any number of groupings between them: while     *)
(* windows arrive in order, two cases with one label are more than the     *)
(* cool-down apart, the earlier one's whole activity included.             *)
OneCasePerCoolDown ==
    inOrder => \A i, j \in DOMAIN cases :
        i < j /\ cases[i].family = cases[j].family =>
            cases[i].lastSeen + CoolDown < cases[j].opened

(* FR-19: "both orders describe one incident".  A flow and a log window    *)
(* that close within the group window of each other and are all that was   *)
(* delivered end up in one case, with at least the composite of the two,   *)
(* whichever came first.                                                   *)
PairIsOneIncident ==
    LET d == delivered IN
    (Len(d) = 2 /\ d[1].modality # d[2].modality
        /\ d[1].at - d[2].at <= GroupWindow /\ d[2].at - d[1].at <= GroupWindow) =>
            /\ Len(cases) = 1 /\ cases[1].grouped /\ ~cases[1].partial
            /\ cases[1].score >= Composite(<<d[2], d[1]>>)
=============================================================================
