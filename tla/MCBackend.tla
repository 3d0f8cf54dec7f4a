-------------------------------- MODULE MCBackend --------------------------------
(***************************************************************************)
(* What the backend keeps about its alerts and models, in one instance.    *)
(* The services share the thread pool and no other state (verdicts and     *)
(* thresholds are one module), so in any one behaviour one of them is busy *)
(* and the others rest: `focus` says which.                                *)
(***************************************************************************)
EXTENDS ModelOps, AlertDesk, Thresholds, Webhooks, Retention, Erasure, AuditTrail, Correlator, TLC

VARIABLE focus

backendVars == <<focus, modelOpsVars, verdictsVars, alertDeskVars, thresholdsVars, webhooksVars,
                 retentionVars, erasureVars, auditVars, vars>>
-----------------------------------------------------------------------------
(* The constants that a cfg cannot spell.                                  *)
Perms == Permutations(Threads) \cup Permutations(Families)

OneKind == [v \in Versions |-> "flow"]
MCReports ==
    LET good == [model |-> "b", schema |-> "eval@2", split |-> TRUE, scalarsMatch |-> TRUE,
                 tp |-> 1, fn |-> 1, tn |-> 1, fp |-> 0, positives |-> 2, negatives |-> 1,
                 threat |-> 2, benign |-> 1] IN
    {good, [good EXCEPT !.model = "c", !.fn = 0]}

MCEntityOf == [c \in Cases |-> IF c = "c1" THEN 1 ELSE 2]
MCQueries ==
    {[start |-> 0, end |-> 3, bands |-> {1, 2}, desc |-> TRUE],
     [start |-> 0, end |-> 3, bands |-> {2}, desc |-> FALSE],
     [start |-> 1, end |-> 2, bands |-> {1, 2}, desc |-> TRUE]}

MCBandDefaults == <<9, 7, 5, 3>>
MCAlertScore == [a \in AlertIds |-> 7]

MCMonthStarts == <<0, 1, 3, 4>>

MCSubjects == {[kind |-> "user", id |-> "bob"], [kind |-> "entity", id |-> "bob"]}

MCAuditQueries == {[start |-> 0, end |-> 3, actor |-> AnyActor],
                   [start |-> 1, end |-> 2, actor |-> "root"]}

(* Severity bounds of 0.90, 0.75, 0.55 and 0.35 of ten points, in composites. *)
DefaultBands == {180, 150, 110, 70}
-----------------------------------------------------------------------------
Services == {"models", "desk", "verdicts", "thresholds", "webhooks", "retention", "erasure",
             "audit", "correlator"}

BackendInit ==
    /\ focus \in Services
    /\ ModelOpsInit /\ VerdictsInit /\ AlertDeskInit /\ ThresholdsInit
    /\ WebhooksInit /\ RetentionInit /\ ErasureInit /\ AuditInit /\ Init

(* Bounds: alerts are judged, once each, before any threshold is set, and  *)
(* nothing is registered while a client walks the ledger of erasures.      *)
Untouched == bounds = [b \in BandIds |-> DefaultRow] /\ setting = [t \in Threads |-> NotSetting]

Rests(service, v) == IF focus = service THEN TRUE ELSE UNCHANGED v

BackendNext ==
    /\ \/ focus = "models" /\ ModelOpsNext
       \/ focus = "desk" /\ AlertDeskNext
       \/ focus = "verdicts" /\ VerdictsNext /\ UNCHANGED thresholdsVars
       \/ focus = "thresholds" /\ UNCHANGED thresholdsVars /\ Untouched
          /\ VerdictsNext /\ \A a \in AlertIds : Len(ledger'[a]) <= 1
       \/ focus = "thresholds" /\ ThresholdsNext /\ UNCHANGED verdictsVars
       \/ focus = "webhooks" /\ WebhooksNext
       \/ focus = "retention" /\ RetentionNext
       \/ focus = "erasure" /\ ErasureNext /\ (adds' # adds => listing = NotListing)
       \/ focus = "audit" /\ AuditNext
       \/ focus = "correlator" /\ Next
    /\ UNCHANGED focus
    /\ Rests("models", modelOpsVars) /\ Rests("desk", alertDeskVars)
    /\ IF focus \in {"verdicts", "thresholds"} THEN TRUE ELSE UNCHANGED <<verdictsVars, thresholdsVars>>
    /\ Rests("webhooks", webhooksVars) /\ Rests("retention", retentionVars)
    /\ Rests("erasure", erasureVars) /\ Rests("audit", auditVars) /\ Rests("correlator", vars)

BackendSpec == BackendInit /\ [][BackendNext]_backendVars
-----------------------------------------------------------------------------
BackendTypeOK ==
    /\ focus \in Services
    /\ focus = "models" => ModelOpsTypeOK
    /\ focus = "desk" => AlertDeskTypeOK
    /\ focus \in {"verdicts", "thresholds"} => VerdictsTypeOK /\ ThresholdsTypeOK
    /\ focus = "webhooks" => WebhooksTypeOK
    /\ focus = "retention" => RetentionTypeOK
    /\ focus = "erasure" => ErasureTypeOK
    /\ focus = "audit" => AuditTypeOK
    /\ focus = "correlator" => TypeOK

(* Each of the following is the conjunction of what the modules state, of  *)
(* the service that is busy: the others have done nothing.                 *)

(* What is read in pages or summed up is what is stored, though rows are   *)
(* written while a client walks: alerts, erasures, audit entries, and the  *)
(* overview of a window, which reads the rows alone: looked at before a    *)
(* walk starts, it is looked at for every set of rows.                     *)
ReadsAreExact ==
    /\ focus = "desk" => WalkIsComplete /\ (walk = NoWalk => OverviewAddsUp)
    /\ focus = "erasure" => LedgerWalkIsComplete
    /\ focus = "audit" => PagesCanBeCited

(* A delivery is one record and its retries carry a signature the receiver *)
(* still takes.                                                            *)
DeliveriesAreHonest == focus = "webhooks" => EachDeliveryCountedOnce /\ RetriesStillVerify

(* A case is what it has counted: its span, its label within a cool-down,  *)
(* its pair of modalities.                                                 *)
CasesAreTrue ==
    focus = "correlator" => SpansItsEvidence /\ OneCasePerCoolDown /\ PairIsOneIncident
=============================================================================
