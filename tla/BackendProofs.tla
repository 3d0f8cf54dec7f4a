------------------------------ MODULE BackendProofs ------------------------------
(***************************************************************************)
(* Proofs about the backend's services as MCBackend composes them: what a  *)
(* service keeps true on its own, it keeps true beside the others.         *)
(***************************************************************************)
EXTENDS MCBackend, CorrelatorProofs

(* The correlator of the backend is the correlator on its own.             *)
LEMMA BackendCorrelates == BackendSpec => Spec
<1>1. BackendInit => Init
  BY DEF BackendInit
<1>2. [BackendNext]_backendVars => [Next]_vars
  BY DEF BackendNext, backendVars, Rests
<1> QED
  BY <1>1, <1>2, PTL DEF BackendSpec, Spec

(* CasesAreTrue: every case of the backend spans what it has counted, is   *)
(* the only one with its label within a cool-down while windows come in    *)
(* order, and takes in both modalities of a pair.                          *)
THEOREM BackendCasesAreTrue ==
    ASSUME Retention > 1 PROVE BackendSpec => []CasesAreTrue
<1>1. SpansItsEvidence /\ OneCasePerCoolDown /\ PairIsOneIncident => CasesAreTrue
  BY DEF CasesAreTrue
<1> QED
  BY <1>1, BackendCorrelates, CasesSpanTheirEvidence, CasesApart, PairsMeet, PTL
-----------------------------------------------------------------------------
(* What the ledger and the threads hold: a thread that judges holds the    *)
(* record it will append.                                                  *)
Judging == {NotJudging} \cup [alert : AlertIds, record : VerdictRecord]

VerdictsInv ==
    /\ VerdictsTypeOK
    /\ judging \in [Threads -> Judging]

(* A record that continues the history h of an alert: numbered after it,   *)
(* superseding its last, and saying something else than that one.          *)
Continues(h, r) ==
    /\ r.id = Len(h) + 1 /\ r.supersedes = Len(h)
    /\ Len(h) > 0 => <<r.verdict, r.actor>> # <<h[Len(h)].verdict, h[Len(h)].actor>>

(* A history that is a chain from its first record on.                     *)
IsChain(h) ==
    \A n \in 1..Len(h) :
        /\ h[n].id = n /\ h[n].supersedes = n - 1
        /\ n > 1 => <<h[n].verdict, h[n].actor>> # <<h[n - 1].verdict, h[n - 1].actor>>

(* Until two threads judge an alert at once, one at most is about to, and  *)
(* what it will append continues the alert's history as it stands.         *)
ChainInv ==
    \A a \in AlertIds \ crossed :
        /\ IsChain(ledger[a])
        /\ \A t \in Threads : judging[t].alert = a =>
              /\ Continues(ledger[a], judging[t].record)
              /\ \A u \in Threads : judging[u].alert = a => u = t

(* One more record continues a chain.                                      *)
LEMMA ChainGrows ==
    ASSUME NEW h \in Seq(VerdictRecord), NEW r \in VerdictRecord, IsChain(h), Continues(h, r)
    PROVE  IsChain(Append(h, r))
<1>1. /\ Len(h) \in Nat /\ Len(Append(h, r)) = Len(h) + 1 /\ Append(h, r)[Len(h) + 1] = r
      /\ \A n \in 1..Len(h) : Append(h, r)[n] = h[n]
  BY AppendProperties, LenProperties
<1> SUFFICES ASSUME NEW n \in 1..(Len(h) + 1)
             PROVE  /\ Append(h, r)[n].id = n /\ Append(h, r)[n].supersedes = n - 1
                    /\ n > 1 => <<Append(h, r)[n].verdict, Append(h, r)[n].actor>>
                                # <<Append(h, r)[n - 1].verdict, Append(h, r)[n - 1].actor>>
  BY <1>1 DEF IsChain
<1>2. CASE n = Len(h) + 1
  <2>1. n > 1 => Append(h, r)[n - 1] = h[Len(h)]
    BY <1>1, <1>2
  <2> QED
    BY <1>1, <1>2, <2>1 DEF Continues
<1>3. CASE n # Len(h) + 1
  <2>1. n \in 1..Len(h) /\ (n > 1 => n - 1 \in 1..Len(h))
    BY <1>1, <1>3
  <2> QED
    BY <1>1, <2>1 DEF IsChain
<1> QED
  BY <1>2, <1>3

(* The record that is current, seen as the last of its history.            *)
LEMMA CurrentIsLast ==
    ASSUME VerdictsInv, NEW a \in AlertIds
    PROVE  /\ ledger[a] \in Seq(VerdictRecord) /\ Len(ledger[a]) \in Nat
           /\ Len(ledger[a]) = 0 => Current(a) = NoRecord
           /\ Len(ledger[a]) > 0 => /\ Current(a) = ledger[a][Len(ledger[a])]
                                    /\ Current(a) \in VerdictRecord /\ Current(a) # NoRecord
<1>1. ledger[a] \in Seq(VerdictRecord) /\ Len(ledger[a]) \in Nat
  BY LenProperties DEF VerdictsInv, VerdictsTypeOK
<1>2. ASSUME Len(ledger[a]) = 0 PROVE Current(a) = NoRecord
  BY <1>1, <1>2, EmptySeq DEF Current
<1>3. ASSUME Len(ledger[a]) > 0
      PROVE  /\ Current(a) = ledger[a][Len(ledger[a])] /\ Current(a) \in VerdictRecord
             /\ Current(a) # NoRecord
  <2>1. ledger[a] # <<>>
    BY <1>3, EmptySeq
  <2>2. Current(a) = ledger[a][Len(ledger[a])] /\ Current(a) \in VerdictRecord
    BY <1>1, <1>3, <2>1, ElementOfSeq DEF Current
  <2>3. Current(a).id # 0
    BY <2>2 DEF VerdictRecord
  <2> QED
    BY <2>2, <2>3 DEF NoRecord
<1> QED
  BY <1>1, <1>2, <1>3

(* What Judge and AppendVerdict do to the threads and the ledger.          *)
LEMMA JudgeType ==
    ASSUME VerdictsInv, NEW t \in Threads, NEW a \in AlertIds, NEW who \in Analysts,
           NEW v \in Decisions, Judge(t, a, who, v)
    PROVE  \E r \in VerdictRecord :
              /\ r = [id |-> Len(ledger[a]) + 1, verdict |-> v, actor |-> who,
                      supersedes |-> Current(a).id]
              /\ judging' = [judging EXCEPT ![t] = [alert |-> a, record |-> r]]
              /\ [alert |-> a, record |-> r] \in Judging
<1> DEFINE r == [id |-> Len(ledger[a]) + 1, verdict |-> v, actor |-> who,
                 supersedes |-> Current(a).id]
<1>1. Len(ledger[a]) \in Nat /\ Len(ledger[a]) < MaxVerdicts /\ MaxVerdicts \in Nat
  BY CurrentIsLast, VerdictsAssumption DEF Judge
<1>2. Current(a).id \in 0..MaxVerdicts
  BY <1>1, CurrentIsLast DEF NoRecord, VerdictRecord
<1>3. Len(ledger[a]) + 1 \in 1..MaxVerdicts
  BY <1>1
<1>4. r \in VerdictRecord
  BY <1>2, <1>3 DEF VerdictRecord
<1>5. judging' = [judging EXCEPT ![t] = [alert |-> a, record |-> r]]
  BY DEF Judge
<1> HIDE DEF r
<1>6. [alert |-> a, record |-> r] \in Judging
  BY <1>4 DEF Judging
<1> QED
  BY <1>4, <1>5, <1>6 DEF r

(* An append writes the record that is held to one history.                *)
LEMMA AppendVerdictType ==
    ASSUME VerdictsInv, NEW t \in Threads, AppendVerdict(t)
    PROVE  \E a \in AlertIds : \E r \in VerdictRecord :
              /\ judging[t].alert = a /\ judging[t].record = r
              /\ ledger' = [ledger EXCEPT ![a] = Append(ledger[a], r)]
              /\ Append(ledger[a], r) \in Seq(VerdictRecord)
              /\ Len(Append(ledger[a], r)) <= MaxVerdicts
              /\ judging' = [judging EXCEPT ![t] = NotJudging]
<1>1. judging[t] # NotJudging /\ judging[t] \in Judging
  BY DEF AppendVerdict, VerdictsInv
<1>2. PICK a \in AlertIds, r \in VerdictRecord : judging[t] = [alert |-> a, record |-> r]
  BY <1>1 DEF Judging
<1>3. judging[t].alert = a /\ judging[t].record = r
  BY <1>2
<1>4. /\ Len(ledger[a]) < MaxVerdicts /\ judging' = [judging EXCEPT ![t] = NotJudging]
      /\ ledger' = [ledger EXCEPT ![a] = Append(ledger[a], r)]
  BY <1>3 DEF AppendVerdict
<1>5. Append(ledger[a], r) \in Seq(VerdictRecord) /\ Len(Append(ledger[a], r)) = Len(ledger[a]) + 1
      /\ Len(ledger[a]) \in Nat
  BY CurrentIsLast, AppendProperties
<1>6. Len(Append(ledger[a], r)) <= MaxVerdicts
  BY <1>4, <1>5, VerdictsAssumption
<1> QED
  BY <1>3, <1>4, <1>5, <1>6

(* A step of the verdicts keeps the types and the chains.                  *)
LEMMA VerdictsStep ==
    ASSUME VerdictsInv, ChainInv, [VerdictsNext]_verdictsVars
    PROVE  VerdictsInv' /\ ChainInv'
<1>1. ASSUME NEW t \in Threads, NEW a \in AlertIds, NEW who \in Analysts, NEW v \in Decisions,
             Judge(t, a, who, v)
      PROVE  VerdictsInv' /\ ChainInv'
  <2>1. PICK r \in VerdictRecord :
           /\ r = [id |-> Len(ledger[a]) + 1, verdict |-> v, actor |-> who,
                   supersedes |-> Current(a).id]
           /\ judging' = [judging EXCEPT ![t] = [alert |-> a, record |-> r]]
           /\ [alert |-> a, record |-> r] \in Judging
    BY <1>1, JudgeType
  <2>2. /\ ledger' = ledger /\ judging[t] = NotJudging /\ ~Repeats(a, who, v)
        /\ crossed' = crossed \cup {b \in {a} : \E u \in Threads \ {t} : judging[u].alert = b}
    BY <1>1 DEF Judge
  <2>3. /\ judging'[t].alert = a /\ judging'[t].record = r
        /\ \A u \in Threads : u # t => judging'[u] = judging[u]
    BY <2>1 DEF VerdictsInv
  <2>4. judging' \in [Threads -> Judging]
    BY <2>1 DEF VerdictsInv
  <2>5. VerdictsTypeOK'
    <3>1. \A u \in Threads : judging'[u] = NotJudging \/ judging'[u].alert \in AlertIds
      BY <2>4 DEF Judging
    <3> QED
      BY <2>2, <3>1 DEF VerdictsInv, VerdictsTypeOK
  <2>6. ASSUME a \notin crossed PROVE Continues(ledger[a], r)
    <3>1. Len(ledger[a]) = 0 => r.supersedes = 0
      BY <2>1, CurrentIsLast DEF NoRecord
    <3>2. ASSUME Len(ledger[a]) > 0
          PROVE  /\ r.supersedes = Len(ledger[a])
                 /\ <<r.verdict, r.actor>>
                    # <<ledger[a][Len(ledger[a])].verdict, ledger[a][Len(ledger[a])].actor>>
      <4>1. Current(a) = ledger[a][Len(ledger[a])] /\ Current(a) # NoRecord
        BY <3>2, CurrentIsLast
      <4>2. Current(a).verdict # v \/ Current(a).actor # who
        BY <2>2, <4>1 DEF Repeats
      <4>3. Current(a).id = Len(ledger[a])
        BY <2>6, <3>2, <4>1, CurrentIsLast DEF ChainInv, IsChain
      <4> QED
        BY <2>1, <4>1, <4>2, <4>3
    <3> QED
      BY <2>1, <3>1, <3>2, CurrentIsLast DEF Continues
  <2>7. ChainInv'
    <3> SUFFICES ASSUME NEW b \in AlertIds \ crossed'
                 PROVE  /\ IsChain(ledger[b])
                        /\ \A u \in Threads : judging'[u].alert = b =>
                              /\ Continues(ledger[b], judging'[u].record)
                              /\ \A w \in Threads : judging'[w].alert = b => w = u
      BY <2>2 DEF ChainInv
    <3>1. b \notin crossed
      BY <2>2
    <3>2. CASE b # a
      BY <2>3, <3>1, <3>2 DEF ChainInv
    <3>3. CASE b = a
      <4>1. \A u \in Threads : u # t => judging'[u].alert # a
        BY <2>2, <2>3, <3>3
      <4> QED
        BY <2>3, <2>6, <3>1, <3>3, <4>1 DEF ChainInv
    <3> QED
      BY <3>2, <3>3
  <2> QED
    BY <2>4, <2>5, <2>7 DEF VerdictsInv
<1>2. ASSUME NEW t \in Threads, AppendVerdict(t) PROVE VerdictsInv' /\ ChainInv'
  <2>1. PICK a \in AlertIds, r \in VerdictRecord :
           /\ judging[t].alert = a /\ judging[t].record = r
           /\ ledger' = [ledger EXCEPT ![a] = Append(ledger[a], r)]
           /\ Append(ledger[a], r) \in Seq(VerdictRecord)
           /\ Len(Append(ledger[a], r)) <= MaxVerdicts
           /\ judging' = [judging EXCEPT ![t] = NotJudging]
    BY <1>2, AppendVerdictType
  <2>2. /\ crossed' = crossed /\ judging' \in [Threads -> Judging]
        /\ judging'[t] = NotJudging /\ \A u \in Threads : u # t => judging'[u] = judging[u]
    BY <1>2, <2>1 DEF AppendVerdict, VerdictsInv, Judging
  <2>3. /\ ledger' \in [AlertIds -> Seq(VerdictRecord)] /\ ledger'[a] = Append(ledger[a], r)
        /\ \A b \in AlertIds : b # a => ledger'[b] = ledger[b]
    BY <2>1 DEF VerdictsInv, VerdictsTypeOK
  <2>4. VerdictsTypeOK'
    <3>1. \A u \in Threads : judging'[u] = NotJudging \/ judging'[u].alert \in AlertIds
      BY <2>2 DEF Judging
    <3>2. \A b \in AlertIds : Len(ledger'[b]) <= MaxVerdicts
      BY <2>1, <2>3 DEF VerdictsInv, VerdictsTypeOK
    <3> QED
      BY <2>2, <2>3, <3>1, <3>2 DEF VerdictsInv, VerdictsTypeOK
  <2>5. ChainInv'
    <3> SUFFICES ASSUME NEW b \in AlertIds \ crossed
                 PROVE  /\ IsChain(ledger'[b])
                        /\ \A u \in Threads : judging'[u].alert = b =>
                              /\ Continues(ledger'[b], judging'[u].record)
                              /\ \A w \in Threads : judging'[w].alert = b => w = u
      BY <2>2 DEF ChainInv
    <3>1. b # 0 /\ NotJudging.alert = 0
      BY VerdictsAssumption DEF NotJudging
    <3>2. CASE b # a
      <4>1. IsChain(ledger'[b])
        BY <2>3, <3>2 DEF ChainInv
      <4>2. ASSUME NEW u \in Threads, judging'[u].alert = b
            PROVE  u # t /\ judging'[u] = judging[u]
        BY <2>2, <3>1, <4>2
      <4>3. ASSUME NEW u \in Threads, judging'[u].alert = b
            PROVE  /\ Continues(ledger'[b], judging'[u].record)
                   /\ \A w \in Threads : judging'[w].alert = b => w = u
        <5>1. judging'[u] = judging[u] /\ judging[u].alert = b /\ ledger'[b] = ledger[b]
          BY <2>3, <3>2, <4>2, <4>3
        <5>2. Continues(ledger[b], judging[u].record)
          BY <5>1 DEF ChainInv
        <5>3. ASSUME NEW w \in Threads, judging'[w].alert = b PROVE w = u
          BY <4>2, <5>1, <5>3 DEF ChainInv
        <5> QED
          BY <5>1, <5>2, <5>3
      <4> QED
        BY <4>1, <4>3
    <3>3. CASE b = a
      <4>1. /\ IsChain(ledger[a]) /\ Continues(ledger[a], r)
            /\ \A u \in Threads : judging[u].alert = a => u = t
        BY <2>1, <3>3 DEF ChainInv
      <4>2. IsChain(ledger'[a])
        BY <2>3, <4>1, ChainGrows, CurrentIsLast
      <4>3. \A u \in Threads : judging'[u].alert # a
        BY <2>2, <3>1, <3>3, <4>1
      <4> QED
        BY <3>3, <4>2, <4>3
    <3> QED
      BY <3>2, <3>3
  <2> QED
    BY <2>2, <2>4, <2>5 DEF VerdictsInv
<1>3. CASE UNCHANGED verdictsVars
  BY <1>3 DEF verdictsVars, VerdictsInv, VerdictsTypeOK, ChainInv
<1> QED
  BY <1>1, <1>2, <1>3 DEF VerdictsNext

(* Empty histories are chains, and nobody judges.                          *)
LEMMA VerdictsBegin == VerdictsInit => VerdictsInv /\ ChainInv
<1> SUFFICES ASSUME VerdictsInit PROVE VerdictsInv /\ ChainInv
  OBVIOUS
<1>1. /\ <<>> \in Seq(VerdictRecord) /\ Len(<<>>) = 0 /\ NotJudging.alert = 0
      /\ \A a \in AlertIds : ledger[a] = <<>> /\ a # 0
      /\ \A t \in Threads : judging[t] = NotJudging
  BY VerdictsAssumption DEF VerdictsInit, NotJudging
<1>2. IsChain(<<>>)
  BY DEF IsChain
<1>3. VerdictsInv
  BY <1>1, VerdictsAssumption DEF VerdictsInit, VerdictsInv, VerdictsTypeOK, Judging
<1>4. ChainInv
  BY <1>1, <1>2 DEF ChainInv
<1> QED
  BY <1>3, <1>4
-----------------------------------------------------------------------------
(* What the store and the threads hold, as far as order needs it: a thread *)
(* that sets a bound holds a row of one of the four bands.                 *)
SettingInv ==
    /\ DOMAIN bounds = BandIds /\ DOMAIN setting = Threads
    /\ bounds = [b \in BandIds |-> bounds[b]]
    /\ \A t \in Threads : setting[t] # NotSetting =>
          /\ setting[t].band \in BandIds /\ setting[t].row.source # "default"
          /\ setting[t] = [band |-> setting[t].band, row |-> setting[t].row, alone |-> setting[t].alone]

(* A thread that decided alone is still the only one, and if it is an edit *)
(* the store would still take the value the thread has checked.            *)
StillAccepted(t) == Accepts(setting[t].band, setting[t].row.value)

AloneInv(t) ==
    (setting[t] # NotSetting /\ setting[t].alone) =>
        /\ setting[t].row.source = "manual" => StillAccepted(t)
        /\ \A u \in Threads : setting[u] # NotSetting => u = t

(* After an edit nothing overlapped the bands are in order.                *)
EditInv ==
    /\ ~unchecked => Descending([b \in BandIds |-> InForce(b)])
    /\ \A t \in Threads : AloneInv(t)

(* A write is decided on: an edit that the store accepts, or any other.    *)
LEMMA DecideStep ==
    ASSUME SettingInv, EditInv, NEW t \in Threads, NEW b \in BandIds, NEW row,
           row.source # "default", row.source = "manual" => Accepts(b, row.value),
           setting[t] = NotSetting, Decide(t, b, row), UNCHANGED <<bounds, unchecked>>
    PROVE  SettingInv' /\ EditInv'
<1>1. PICK s : s = [band |-> b, row |-> row, alone |-> ~Overlapping(t)]
  OBVIOUS
<1>2. s.band = b /\ s.row = row /\ s.alone = ~Overlapping(t)
  BY <1>1
<1>3. /\ DOMAIN setting' = Threads /\ setting'[t] = s
      /\ \A u \in Threads : u # t =>
            setting'[u] = IF setting[u] = NotSetting THEN NotSetting
                          ELSE [setting[u] EXCEPT !.alone = FALSE]
  BY <1>1 DEF Decide
<1>4. ASSUME NEW u \in Threads, u # t, setting'[u] # NotSetting
      PROVE  /\ setting[u] # NotSetting
             /\ setting'[u] = [band |-> setting[u].band, row |-> setting[u].row, alone |-> FALSE]
  <2>1. setting[u] # NotSetting /\ setting'[u] = [setting[u] EXCEPT !.alone = FALSE]
    BY <1>3, <1>4
  <2>2. setting[u] = [band |-> setting[u].band, row |-> setting[u].row, alone |-> setting[u].alone]
    BY <2>1 DEF SettingInv
  <2> QED
    BY <2>1, <2>2
<1>5. SettingInv'
  <2>1. setting'[t].band \in BandIds /\ setting'[t].row.source # "default"
    BY <1>2, <1>3
  <2>2. setting'[t] = [band |-> setting'[t].band, row |-> setting'[t].row, alone |-> setting'[t].alone]
    BY <1>1, <1>2, <1>3
  <2>3. ASSUME NEW u \in Threads, u # t, setting'[u] # NotSetting
        PROVE  /\ setting'[u].band \in BandIds /\ setting'[u].row.source # "default"
               /\ setting'[u] = [band |-> setting'[u].band, row |-> setting'[u].row,
                                 alone |-> setting'[u].alone]
    <3>1. setting[u].band \in BandIds /\ setting[u].row.source # "default"
      BY <1>4, <2>3 DEF SettingInv
    <3>2. PICK old, held : old = setting[u].band /\ held = setting[u].row
      OBVIOUS
    <3>3. setting'[u] = [band |-> old, row |-> held, alone |-> FALSE]
      BY <1>4, <2>3, <3>2
    <3>4. setting'[u].band = old /\ setting'[u].row = held /\ setting'[u].alone = FALSE
      BY <3>3
    <3> QED
      BY <3>1, <3>2, <3>3, <3>4
  <2> QED
    BY <1>3, <2>1, <2>2, <2>3 DEF SettingInv
<1>6. \A c, x : Accepts(c, x) => Accepts(c, x)'
  BY DEF Accepts, InForce, Descending
<1>7. ASSUME NEW u \in Threads, setting'[u] # NotSetting, setting'[u].alone
      PROVE  /\ setting'[u].row.source = "manual" => StillAccepted(u)'
             /\ \A w \in Threads : setting'[w] # NotSetting => w = u
  <2>1. CASE u = t
    <3>1. \A w \in Threads : w # t => setting[w] = NotSetting
      BY <1>2, <1>3, <1>7, <2>1 DEF Overlapping
    <3>2. \A w \in Threads : setting'[w] # NotSetting => w = u
      BY <1>3, <2>1, <3>1
    <3>3. setting'[u].row.source = "manual" => StillAccepted(u)'
      BY <1>2, <1>3, <1>6, <2>1 DEF StillAccepted
    <3> QED
      BY <3>2, <3>3
  <2>2. CASE u # t
    <3>2. PICK old, held : old = setting[u].band /\ held = setting[u].row
      OBVIOUS
    <3>3. setting'[u] = [band |-> old, row |-> held, alone |-> FALSE]
      BY <1>4, <1>7, <2>2, <3>2
    <3>1. setting'[u].alone = FALSE
      BY <3>3
    <3> QED
      BY <1>7, <3>1, Zenon
  <2> QED
    BY <2>1, <2>2
<1>8. ~unchecked' => Descending([c \in BandIds |-> InForce(c)])'
  BY DEF EditInv, InForce, Descending
<1> QED
  BY <1>5, <1>7, <1>8 DEF EditInv, AloneInv

(* A step of the thresholds keeps both.                                    *)
LEMMA ThresholdsStep ==
    ASSUME SettingInv, EditInv, [ThresholdsNext]_thresholdsVars
    PROVE  SettingInv' /\ EditInv'
<1>1. ASSUME NEW t \in Threads, NEW b \in BandIds, NEW v \in Proposals, SetManual(t, b, v)
      PROVE  SettingInv' /\ EditInv'
  <2>1. PICK row : row = [source |-> "manual", value |-> v]
    OBVIOUS
  <2>2. /\ row.source # "default" /\ row.value = v /\ Decide(t, b, row) /\ Accepts(b, v)
        /\ setting[t] = NotSetting /\ UNCHANGED <<bounds, unchecked>>
    BY <1>1, <2>1 DEF SetManual
  <2> QED
    BY <2>2, DecideStep
<1>2. ASSUME NEW t \in Threads, NEW b \in BandIds, Recalibrate(t, b)
      PROVE  SettingInv' /\ EditInv'
  <2>1. PICK fit \in Fits :
           Decide(t, b, [source |-> "recalibration", value |-> Clamp(fit, InForce(b))])
    BY <1>2 DEF Recalibrate
  <2>2. PICK row : row = [source |-> "recalibration", value |-> Clamp(fit, InForce(b))]
    OBVIOUS
  <2>3. /\ row.source = "recalibration" /\ Decide(t, b, row)
        /\ setting[t] = NotSetting /\ UNCHANGED <<bounds, unchecked>>
    BY <1>2, <2>1, <2>2 DEF Recalibrate
  <2> QED
    BY <2>3, DecideStep
<1>3. ASSUME NEW t \in Threads, PutBound(t) PROVE SettingInv' /\ EditInv'
  <2>0. PICK b \in BandIds : b = setting[t].band
    BY <1>3 DEF PutBound, SettingInv
  <2>1. PICK row : b = setting[t].band /\ row = setting[t].row
    BY <2>0
  <2>2. /\ bounds' = [bounds EXCEPT ![b] = row] /\ setting' = [setting EXCEPT ![t] = NotSetting]
        /\ unchecked' = ~(row.source = "manual" /\ setting[t].alone)
        /\ setting[t] # NotSetting /\ row.source # "default"
    BY <1>3, <2>1 DEF PutBound, SettingInv
  <2>3. /\ bounds'[b] = row /\ \A c \in BandIds : c # b => bounds'[c] = bounds[c]
        /\ setting'[t] = NotSetting /\ \A u \in Threads : u # t => setting'[u] = setting[u]
    BY <2>2 DEF SettingInv
  <2>4. SettingInv'
    <3>1. DOMAIN bounds' = BandIds /\ DOMAIN setting' = Threads
      BY <2>2 DEF SettingInv
    <3>2. bounds' = [c \in BandIds |-> bounds'[c]]
      BY <2>2 DEF SettingInv
    <3> QED
      BY <2>3, <3>1, <3>2 DEF SettingInv
  <2>5. ~unchecked' => Descending([c \in BandIds |-> InForce(c)])'
    <3> SUFFICES ASSUME row.source = "manual", setting[t].alone
                 PROVE  Descending([c \in BandIds |-> InForce(c)])'
      BY <2>2
    <3>2. \A c \in BandIds : InForce(c)' = IF c = b THEN row.value ELSE InForce(c)
      <4>1. row # DefaultRow
        BY <2>2 DEF DefaultRow
      <4> QED
        BY <2>3, <4>1 DEF InForce
    <3>3. Descending([[c \in BandIds |-> InForce(c)] EXCEPT ![b] = row.value])
      BY <2>1, <2>2 DEF EditInv, AloneInv, Accepts, StillAccepted
    <3>4. [c \in BandIds |-> InForce(c)]' = [[c \in BandIds |-> InForce(c)] EXCEPT ![b] = row.value]
      BY <3>2
    <3>5. Descending([c \in BandIds |-> InForce(c)]')
      BY <3>3, <3>4
    <3> QED
      BY <3>5 DEF Descending
  <2>6. \A u \in Threads : AloneInv(u)'
    <3> SUFFICES ASSUME NEW u \in Threads, setting'[u] # NotSetting, setting'[u].alone
                 PROVE  FALSE
      BY DEF AloneInv
    <3>1. u # t /\ setting[u] # NotSetting /\ setting[u].alone
      BY <2>3
    <3> QED
      BY <2>2, <3>1 DEF EditInv, AloneInv
  <2> QED
    BY <2>4, <2>5, <2>6 DEF EditInv
<1>4. CASE UNCHANGED thresholdsVars
  BY <1>4 DEF thresholdsVars, SettingInv, EditInv, AloneInv, InForce, Accepts, Descending, StillAccepted
<1> QED
  BY <1>1, <1>2, <1>3, <1>4 DEF ThresholdsNext

(* The default bands descend, and nobody sets one.                         *)
LEMMA ThresholdsBegin == ThresholdsInit => SettingInv /\ EditInv
<1> SUFFICES ASSUME ThresholdsInit PROVE SettingInv /\ EditInv
  OBVIOUS
<1>1. /\ \A b \in BandIds : bounds[b] = DefaultRow /\ InForce(b) = BandDefaults[b]
      /\ \A t \in Threads : setting[t] = NotSetting
  BY DEF ThresholdsInit, InForce
<1>2. SettingInv
  BY <1>1 DEF ThresholdsInit, SettingInv
<1>3. Descending([b \in BandIds |-> InForce(b)])
  BY <1>1, ThresholdsAssumption DEF Descending, BandIds
<1> QED
  BY <1>1, <1>2, <1>3 DEF EditInv, AloneInv
-----------------------------------------------------------------------------
(* What the stores, the ledger and the threads hold.                       *)
Deciding == [at : {"cascade", "keys", "number"}, subject : Subjects, since : Nat, found : BOOLEAN]
Appending == [at : {"append"}, subject : Subjects, since : Nat, found : BOOLEAN, sequence : Nat \ {0}]
Erasings == {NotErasing} \cup Deciding \cup Appending

ErasuresInv ==
    /\ stored \in [Stores -> [Subjects -> Nat]] /\ adds \in Nat
    /\ trailed \in [Stores -> [Subjects -> Int]] /\ erasing \in [Threads -> Erasings]
    /\ erasures \in Seq(LedgerEntry)

(* Nothing was erased, and no erasure begun, after the last registration.  *)
DatedInv ==
    /\ \A store \in Stores, s \in Subjects : trailed[store][s] <= adds
    /\ \A t \in Threads : erasing[t] # NotErasing => erasing[t].since <= adds

(* A store the cascade of an erasure has come past names the subject no    *)
(* more, or names it since.                                                *)
Passed(e) ==
    CASE e.at = "cascade" -> {}
      [] e.at = "keys"    -> {MainStore(e.subject)}
      [] OTHER            -> Owed(e)

Cleared(e) == \A store \in Passed(e) :
                 stored[store][e.subject] = 0 \/ stored[store][e.subject] > e.since

CascadedInv == \A t \in Threads : erasing[t] # NotErasing => Cleared(erasing[t])

(* The later of two erasures of a subject.                                 *)
LEMMA LaterOfTwo ==
    ASSUME NEW x \in Int, NEW y \in Int
    PROVE  Max({x, y}) = IF x >= y THEN x ELSE y
<1>1. \E m \in {x, y} : \A z \in {x, y} : m >= z
  OBVIOUS
<1> QED
  BY <1>1 DEF Max

(* What a thread that erases is in the middle of, and which stores there   *)
(* are to come past.                                                       *)
LEMMA ErasingType ==
    ASSUME ErasuresInv, NEW t \in Threads
    PROVE  /\ erasing[t] = NotErasing => erasing[t].at = "none"
           /\ erasing[t] # NotErasing => /\ erasing[t].subject \in Subjects /\ erasing[t].since \in Nat
                                         /\ erasing[t].at \in {"cascade", "keys", "number", "append"}
           /\ erasing[t].at \in {"cascade", "keys", "number"} => erasing[t] \in Deciding
           /\ erasing[t].at = "append" => erasing[t] \in Appending
<1>1. erasing[t] \in Erasings
  BY DEF ErasuresInv
<1> QED
  BY <1>1 DEF Erasings, Deciding, Appending, NotErasing

LEMMA PassedStores ==
    ASSUME NEW e
    PROVE  Passed(e) \subseteq Stores /\ Owed(e) \subseteq Stores
BY DEF Passed, Owed, HoldsKind, MainStore, Stores

(* A registration is newer than every erasure begun.                       *)
LEMMA RegisterStep ==
    ASSUME ErasuresInv, DatedInv, CascadedInv, RecordedMeansErased,
           NEW store \in Stores, NEW s \in Subjects, Register(store, s)
    PROVE  ErasuresInv' /\ DatedInv' /\ CascadedInv' /\ RecordedMeansErased'
<1>1. /\ stored' = [stored EXCEPT ![store][s] = adds + 1] /\ adds' = adds + 1
      /\ UNCHANGED <<erasures, erasing, trailed, listing>>
  BY DEF Register
<1>2. /\ stored' \in [Stores -> [Subjects -> Nat]] /\ adds \in Nat /\ adds' \in Nat
      /\ stored'[store][s] = adds + 1
      /\ \A st \in Stores, r \in Subjects : st # store \/ r # s => stored'[st][r] = stored[st][r]
  BY <1>1 DEF ErasuresInv
<1>3. ErasuresInv'
  BY <1>1, <1>2 DEF ErasuresInv
<1>4. \A st \in Stores, r \in Subjects : trailed[st][r] <= adds /\ trailed[st][r] \in Int
  BY DEF DatedInv, ErasuresInv
<1>5. ASSUME NEW t \in Threads, erasing[t] # NotErasing
      PROVE  erasing[t].since \in Nat /\ erasing[t].since <= adds
  BY <1>5, ErasingType DEF DatedInv
<1>6. DatedInv'
  BY <1>1, <1>2, <1>4, <1>5 DEF DatedInv
<1>7. CascadedInv'
  <2> SUFFICES ASSUME NEW t \in Threads, erasing[t] # NotErasing, NEW st \in Passed(erasing[t])
               PROVE  stored'[st][erasing[t].subject] = 0 \/ stored'[st][erasing[t].subject] > erasing[t].since
    BY <1>1 DEF CascadedInv, Cleared
  <2>1. PICK e : e = erasing[t]
    OBVIOUS
  <2>2. st \in Stores /\ e.subject \in Subjects /\ e.since \in Nat /\ e.since <= adds
    BY <1>5, <2>1, PassedStores, ErasingType
  <2>3. stored[st][e.subject] = 0 \/ stored[st][e.subject] > e.since
    BY <2>1 DEF CascadedInv, Cleared
  <2>4. stored'[st][e.subject] = 0 \/ stored'[st][e.subject] > e.since
    BY <1>2, <2>2, <2>3
  <2> QED
    BY <2>1, <2>4
<1>8. RecordedMeansErased'
  <2> SUFFICES ASSUME NEW r \in Subjects, NEW st \in Stores
               PROVE  /\ trailed[st][r] >= 0 => Has(r)
                      /\ ~(0 < stored'[st][r] /\ stored'[st][r] <= trailed[st][r])
    BY <1>1 DEF RecordedMeansErased, Outlives, Has
  <2> QED
    BY <1>2, <1>4 DEF RecordedMeansErased, Outlives
<1> QED
  BY <1>3, <1>6, <1>7, <1>8

(* A thread of the cascade moves on, and a store at most forgets.          *)
Forgets ==
    /\ stored' \in [Stores -> [Subjects -> Nat]]
    /\ \A store \in Stores, s \in Subjects :
          stored'[store][s] = stored[store][s] \/ stored'[store][s] = 0
    /\ UNCHANGED <<erasures, trailed, adds>>

Reached(m) ==
    \A store \in Passed(m) : stored'[store][m.subject] = 0 \/ stored'[store][m.subject] > m.since

(* What reaching a store and moving on does to a request.                  *)
LEMMA CascadeMoves ==
    ASSUME ErasuresInv, DatedInv, CascadedInv, RecordedMeansErased, Forgets,
           NEW t \in Threads, NEW m \in Erasings, erasing' = [erasing EXCEPT ![t] = m],
           m # NotErasing => m.since <= adds /\ Reached(m)
    PROVE  ErasuresInv' /\ DatedInv' /\ CascadedInv' /\ RecordedMeansErased'
<1>1. /\ erasing' \in [Threads -> Erasings] /\ erasing'[t] = m
      /\ \A u \in Threads : u # t => erasing'[u] = erasing[u]
  BY DEF ErasuresInv
<1>2. /\ stored' \in [Stores -> [Subjects -> Nat]]
      /\ \A store \in Stores, s \in Subjects :
            stored'[store][s] = stored[store][s] \/ stored'[store][s] = 0
      /\ erasures' = erasures /\ trailed' = trailed /\ adds' = adds
  BY DEF Forgets
<1>3. ErasuresInv'
  BY <1>1, <1>2 DEF ErasuresInv
<1>4. DatedInv'
  BY <1>1, <1>2 DEF DatedInv
<1>5. CascadedInv'
  <2> SUFFICES ASSUME NEW u \in Threads, erasing'[u] # NotErasing, NEW st \in Passed(erasing'[u])
               PROVE  \/ stored'[st][erasing'[u].subject] = 0
                      \/ stored'[st][erasing'[u].subject] > erasing'[u].since
    BY DEF CascadedInv, Cleared
  <2>1. CASE u = t
    BY <1>1, <2>1 DEF Reached
  <2>2. CASE u # t
    <3>1. PICK e : e = erasing[u] /\ e = erasing'[u]
      BY <1>1, <2>2
    <3>2. st \in Stores /\ e.subject \in Subjects
      BY <3>1, PassedStores, ErasingType
    <3>3. stored[st][e.subject] = 0 \/ stored[st][e.subject] > e.since
      BY <3>1 DEF CascadedInv, Cleared
    <3>4. stored'[st][e.subject] = 0 \/ stored'[st][e.subject] > e.since
      BY <1>2, <3>2, <3>3
    <3> QED
      BY <3>1, <3>4
  <2> QED
    BY <2>1, <2>2
<1>6. RecordedMeansErased'
  <2> SUFFICES ASSUME NEW s \in Subjects, NEW st \in Stores
               PROVE  /\ trailed[st][s] >= 0 => Has(s)
                      /\ ~(0 < stored'[st][s] /\ stored'[st][s] <= trailed[st][s])
    BY <1>2 DEF RecordedMeansErased, Outlives, Has
  <2> QED
    BY <1>2 DEF RecordedMeansErased, Outlives
<1> QED
  BY <1>3, <1>4, <1>5, <1>6

(* A request that begins has come past no store.                           *)
LEMMA BeginStep ==
    ASSUME ErasuresInv, DatedInv, CascadedInv, RecordedMeansErased,
           NEW t \in Threads, NEW s \in Subjects, BeginErasure(t, s)
    PROVE  ErasuresInv' /\ DatedInv' /\ CascadedInv' /\ RecordedMeansErased'
<1>1. PICK m : m = [at |-> "cascade", subject |-> s, since |-> adds, found |-> FALSE]
  OBVIOUS
<1>2. m \in Erasings /\ m.since <= adds /\ m.at = "cascade"
  BY <1>1 DEF ErasuresInv, Erasings, Deciding
<1>3. erasing' = [erasing EXCEPT ![t] = m] /\ Forgets
  BY <1>1 DEF BeginErasure, Forgets, ErasuresInv
<1> QED
  BY <1>2, <1>3, CascadeMoves DEF Reached, Passed

(* A request that fails, at either store, leaves no entry.                 *)
LEMMA FailsStep ==
    ASSUME ErasuresInv, DatedInv, CascadedInv, RecordedMeansErased,
           NEW t \in Threads, CascadeFails(t)
    PROVE  ErasuresInv' /\ DatedInv' /\ CascadedInv' /\ RecordedMeansErased'
<1>1. NotErasing \in Erasings
  BY DEF Erasings
<1>2. erasing' = [erasing EXCEPT ![t] = NotErasing] /\ Forgets
  BY DEF CascadeFails, Forgets, ErasuresInv
<1> QED
  BY <1>1, <1>2, CascadeMoves

(* The store of the subject's kind forgets it; the keys are still owed if  *)
(* there was a user's row.                                                 *)
LEMMA CascadeStep ==
    ASSUME ErasuresInv, DatedInv, CascadedInv, RecordedMeansErased,
           NEW t \in Threads, CascadeStore(t)
    PROVE  ErasuresInv' /\ DatedInv' /\ CascadedInv' /\ RecordedMeansErased'
<1>1. PICK e, s, store, found, at :
         /\ e = erasing[t] /\ s = e.subject /\ store = MainStore(s) /\ found = Names(store, s)
         /\ at = IF s.kind = "user" /\ found THEN "keys" ELSE "number"
  OBVIOUS
<1>2. /\ stored' = [stored EXCEPT ![store][s] = 0]
      /\ erasing' = [erasing EXCEPT ![t].found = found, ![t].at = at]
      /\ UNCHANGED <<erasures, trailed, adds>>
  BY <1>1 DEF CascadeStore
<1>3. e \in Deciding /\ s \in Subjects /\ e.since \in Nat /\ e.since <= adds
  <2>1. erasing[t].at = "cascade" /\ erasing[t] # NotErasing
    BY DEF CascadeStore, NotErasing
  <2> QED
    BY <1>1, <2>1, ErasingType DEF DatedInv
<1>4. PICK m : m = [at |-> at, subject |-> s, since |-> e.since, found |-> found]
  OBVIOUS
<1>5. found \in BOOLEAN /\ at \in {"keys", "number"}
  BY <1>1 DEF Names
<1>6. m \in Deciding
  BY <1>3, <1>4, <1>5 DEF Deciding
<1>7. erasing' = [erasing EXCEPT ![t] = m]
  <2>1. e = [at |-> e.at, subject |-> s, since |-> e.since, found |-> e.found]
    <3>1. s = e.subject
      BY <1>1
    <3> QED
      BY <1>3, <3>1 DEF Deciding
  <2>2. PICK old : old = e.at
    OBVIOUS
  <2>3. PICK was, begun : was = e.found /\ begun = e.since
    OBVIOUS
  <2>5. e = [at |-> old, subject |-> s, since |-> begun, found |-> was]
    BY <2>1, <2>2, <2>3
  <2>6. m = [at |-> at, subject |-> s, since |-> begun, found |-> found]
    BY <1>4, <2>3
  <2>7. [e EXCEPT !.found = found] = [at |-> old, subject |-> s, since |-> begun, found |-> found]
    BY <2>5
  <2>4. [[e EXCEPT !.found = found] EXCEPT !.at = at] = m
    <3>1. PICK mid : mid = [e EXCEPT !.found = found]
      OBVIOUS
    <3>2. mid = [at |-> old, subject |-> s, since |-> begun, found |-> found]
      BY <2>7, <3>1
    <3>3. [mid EXCEPT !.at = at] = m
      BY <2>6, <3>2
    <3> QED
      BY <3>1, <3>3, Zenon
  <2> QED
    BY <1>1, <1>2, <2>4 DEF ErasuresInv
<1>8. store \in Stores
  BY <1>1 DEF MainStore, Stores
<1>9. Forgets /\ stored'[store][s] = 0
  BY <1>2, <1>3, <1>8 DEF Forgets, ErasuresInv
<1>10. Passed(m) \subseteq {store}
  <2>1. m.at = at /\ m.subject = s /\ m.found = found
    BY <1>4
  <2>2. s.kind # "user" => HoldsKind(s.kind) = {store}
    BY <1>1 DEF HoldsKind, MainStore
  <2>3. at = "keys" \/ s.kind # "user" \/ ~found
    BY <1>1
  <2> QED
    BY <1>1, <1>5, <2>1, <2>2, <2>3 DEF Passed, Owed
<1>11. Reached(m)
  BY <1>4, <1>9, <1>10 DEF Reached
<1>12. m \in Erasings /\ m.since <= adds
  BY <1>3, <1>4, <1>6 DEF Erasings
<1> QED
  BY <1>7, <1>9, <1>11, <1>12, CascadeMoves

(* The keys follow, and a sequence is taken.                               *)
LEMMA PassedStep ==
    ASSUME ErasuresInv, DatedInv, CascadedInv, RecordedMeansErased,
           NEW t \in Threads, CascadeKeys(t) \/ TakeSequence(t)
    PROVE  ErasuresInv' /\ DatedInv' /\ CascadedInv' /\ RecordedMeansErased'
<1>1. PICK e : e = erasing[t]
  OBVIOUS
<1>2. /\ e.at \in {"keys", "number"} /\ e \in Deciding /\ e # NotErasing
      /\ e.subject \in Subjects /\ e.since \in Nat /\ e.since <= adds
  <2>1. erasing[t].at \in {"keys", "number"} /\ erasing[t] # NotErasing
    BY DEF CascadeKeys, TakeSequence, NotErasing
  <2> QED
    BY <1>1, <2>1, ErasingType DEF DatedInv
<1>3. \A store \in Passed(e) : stored[store][e.subject] = 0 \/ stored[store][e.subject] > e.since
  BY <1>1, <1>2 DEF CascadedInv, Cleared
<1>4. CASE CascadeKeys(t)
  <2>1. PICK m : m = [at |-> "number", subject |-> e.subject, since |-> e.since, found |-> e.found]
    OBVIOUS
  <2>2. m \in Deciding /\ m = [e EXCEPT !.at = "number"]
    BY <1>2, <2>1 DEF Deciding
  <2>3. /\ stored' = [stored EXCEPT !["keys"][e.subject] = 0] /\ erasing' = [erasing EXCEPT ![t] = m]
        /\ UNCHANGED <<erasures, trailed, adds>> /\ "keys" \in Stores /\ e.at = "keys"
    BY <1>1, <1>4, <2>2 DEF CascadeKeys, Stores, ErasuresInv
  <2>4. Forgets /\ stored'["keys"][e.subject] = 0
    BY <1>2, <2>3 DEF Forgets, ErasuresInv
  <2>5. Passed(e) = {MainStore(e.subject)} /\ Passed(m) = Owed(m)
    BY <2>1, <2>3 DEF Passed
  <2>6. Owed(m) \subseteq {MainStore(e.subject), "keys"}
    BY <2>1 DEF Owed, HoldsKind, MainStore
  <2>7. \A store \in Passed(m) : stored'[store][e.subject] = 0 \/ stored'[store][e.subject] > e.since
    <3> SUFFICES ASSUME NEW store \in Passed(m), store # "keys"
                 PROVE  stored'[store][e.subject] = 0 \/ stored'[store][e.subject] > e.since
      BY <2>4
    <3>1. store = MainStore(e.subject) /\ store \in Stores
      BY <2>5, <2>6, PassedStores
    <3> QED
      BY <1>2, <1>3, <2>4, <2>5, <3>1 DEF Forgets
  <2>8. Reached(m)
    BY <2>1, <2>7 DEF Reached
  <2>9. m \in Erasings /\ m.since <= adds
    BY <1>2, <2>1, <2>2 DEF Erasings
  <2> QED
    BY <2>3, <2>4, <2>8, <2>9, CascadeMoves
<1>5. CASE TakeSequence(t)
  <2>1. PICK m : m = [at |-> "append", subject |-> e.subject, since |-> e.since, found |-> e.found,
                      sequence |-> Len(erasures) + 1]
    OBVIOUS
  <2>2. Len(erasures) + 1 \in Nat \ {0}
    BY LenProperties DEF ErasuresInv
  <2>3. m \in Appending
    BY <1>2, <2>1, <2>2 DEF Deciding, Appending
  <2>4. /\ erasing' = [erasing EXCEPT ![t] = m] /\ e.at = "number"
        /\ UNCHANGED <<stored, erasures, trailed, adds>>
    BY <1>1, <1>5, <2>1 DEF TakeSequence, ErasuresInv
  <2>5. Forgets
    BY <2>4 DEF Forgets, ErasuresInv
  <2>6. Passed(m) = Passed(e)
    BY <2>1, <2>4 DEF Passed, Owed
  <2>7. Reached(m)
    BY <1>3, <2>1, <2>4, <2>6 DEF Reached
  <2>8. m \in Erasings /\ m.since <= adds
    BY <1>2, <2>1, <2>3 DEF Erasings
  <2> QED
    BY <2>4, <2>5, <2>7, <2>8, CascadeMoves
<1> QED
  BY <1>4, <1>5

(* The entry and the trail are written: what was erased since is recorded. *)
LEMMA AppendEntryStep ==
    ASSUME ErasuresInv, DatedInv, CascadedInv, RecordedMeansErased,
           NEW t \in Threads, AppendEntry(t)
    PROVE  ErasuresInv' /\ DatedInv' /\ CascadedInv' /\ RecordedMeansErased'
<1>0. erasing[t] \in Appending /\ erasing[t] # NotErasing
  BY ErasingType DEF AppendEntry, NotErasing
<1>a. PICK e \in Appending, s \in Subjects, since \in Nat, entry \in LedgerEntry :
         /\ e = erasing[t] /\ s = e.subject /\ since = e.since
         /\ entry = [sequence |-> e.sequence, tombstone |-> s]
  BY <1>0 DEF LedgerEntry, Appending
<1>1. Passed(e) = Owed(e) /\ Owed(e) \subseteq Stores
  BY PassedStores DEF Passed, Appending
<1>2. /\ erasures' = Append(erasures, entry)
      /\ erasing' = [erasing EXCEPT ![t] = NotErasing]
      /\ trailed' = [store \in Stores |->
            IF store \in Owed(e) THEN [trailed[store] EXCEPT ![s] = Max({trailed[store][s], since})]
            ELSE trailed[store]]
      /\ UNCHANGED <<stored, adds>>
  BY <1>a DEF AppendEntry
<1>3. since <= adds /\ adds \in Nat
  BY <1>a, <1>0 DEF ErasuresInv, DatedInv
<1>4. /\ trailed' \in [Stores -> [Subjects -> Int]]
      /\ \A st \in Stores, r \in Subjects :
            trailed'[st][r] = IF st \in Owed(e) /\ r = s /\ trailed[st][s] < since
                              THEN since ELSE trailed[st][r]
  <2>1. \A st \in Stores : trailed[st] \in [Subjects -> Int]
    BY DEF ErasuresInv
  <2>2. \A st \in Stores : Max({trailed[st][s], since}) =
            IF trailed[st][s] < since THEN since ELSE trailed[st][s]
    BY <2>1, LaterOfTwo
  <2>5. \A st \in Stores : Max({trailed[st][s], since}) \in Int
    BY <2>1, <2>2, <1>3
  <2>3. \A st \in Stores : trailed'[st] \in [Subjects -> Int]
    BY <1>2, <2>1, <2>5
  <2>4. \A st \in Stores, r \in Subjects :
            trailed'[st][r] = IF st \in Owed(e) /\ r = s /\ trailed[st][s] < since
                              THEN since ELSE trailed[st][r]
    BY <1>2, <2>1, <2>2
  <2> QED
    BY <1>2, <2>3, <2>4
<1>5. /\ erasing' \in [Threads -> Erasings] /\ erasing'[t] = NotErasing
      /\ \A u \in Threads : u # t => erasing'[u] = erasing[u]
  BY <1>2 DEF ErasuresInv, Erasings
<1>6. erasures' \in Seq(LedgerEntry) /\ Has(s)' /\ \A r \in Subjects : Has(r) => Has(r)'
  <2>1. entry.tombstone = s
    BY <1>a
  <2>2. /\ erasures' \in Seq(LedgerEntry) /\ DOMAIN erasures' = 1..(Len(erasures) + 1)
        /\ DOMAIN erasures = 1..Len(erasures) /\ Len(erasures) \in Nat
        /\ erasures'[Len(erasures) + 1] = entry
        /\ \A k \in DOMAIN erasures : erasures'[k] = erasures[k]
    <3>1. erasures \in Seq(LedgerEntry) /\ DOMAIN erasures = 1..Len(erasures) /\ Len(erasures) \in Nat
      BY LenProperties DEF ErasuresInv
    <3>2. /\ erasures' \in Seq(LedgerEntry) /\ Len(erasures') = Len(erasures) + 1
          /\ erasures'[Len(erasures) + 1] = entry
          /\ \A k \in 1..Len(erasures) : erasures'[k] = erasures[k]
      BY <1>2, <3>1, AppendProperties
    <3> QED
      BY <3>1, <3>2, LenProperties
  <2>3. \E k \in DOMAIN erasures' : erasures'[k].tombstone = s
    BY <2>1, <2>2
  <2>4. ASSUME NEW r \in Subjects, Has(r) PROVE \E k \in DOMAIN erasures' : erasures'[k].tombstone = r
    BY <2>2, <2>4 DEF Has
  <2> QED
    BY <2>2, <2>3, <2>4 DEF Has
<1>7. ErasuresInv'
  BY <1>2, <1>4, <1>5, <1>6 DEF ErasuresInv
<1>8. DatedInv'
  BY <1>2, <1>3, <1>4, <1>5 DEF DatedInv
<1>9. CascadedInv'
  <2> SUFFICES ASSUME NEW u \in Threads, erasing'[u] # NotErasing
               PROVE  Cleared(erasing[u])' /\ u # t
    BY <1>5 DEF CascadedInv, Cleared
  <2>1. u # t
    BY <1>5
  <2>2. erasing'[u] = erasing[u] /\ Cleared(erasing[u])
    BY <1>5, <2>1 DEF CascadedInv
  <2> QED
    BY <1>2, <2>1, <2>2 DEF Cleared
<1>10. RecordedMeansErased'
  <2> SUFFICES ASSUME NEW r \in Subjects, NEW st \in Stores
               PROVE  /\ trailed'[st][r] >= 0 => Has(r)'
                      /\ ~(0 < stored[st][r] /\ stored[st][r] <= trailed'[st][r])
    BY <1>2 DEF RecordedMeansErased, Outlives
  <2>1. trailed[st][r] >= 0 => Has(r)'
    BY <1>6 DEF RecordedMeansErased
  <2>2. ~(0 < stored[st][r] /\ stored[st][r] <= trailed[st][r])
    BY DEF RecordedMeansErased, Outlives
  <2>3. CASE st \in Owed(e) /\ r = s /\ trailed[st][s] < since
    <3>1. stored[st][s] = 0 \/ stored[st][s] > since
      BY <1>a, <1>0, <1>1, <2>3 DEF CascadedInv, Cleared
    <3>2. stored[st][s] \in Nat /\ trailed'[st][r] = since
      BY <1>4, <2>3 DEF ErasuresInv
    <3> QED
      BY <1>6, <2>3, <3>1, <3>2
  <2>4. CASE ~(st \in Owed(e) /\ r = s /\ trailed[st][s] < since)
    BY <1>4, <2>1, <2>2, <2>4
  <2> QED
    BY <2>3, <2>4
<1> QED
  BY <1>7, <1>8, <1>9, <1>10

(* A step of the erasures keeps what they promise; listing reads only.     *)
LEMMA ErasureStep ==
    ASSUME ErasuresInv, DatedInv, CascadedInv, RecordedMeansErased, [ErasureNext]_erasureVars
    PROVE  ErasuresInv' /\ DatedInv' /\ CascadedInv' /\ RecordedMeansErased'
<1>1. ASSUME UNCHANGED <<stored, erasures, erasing, trailed, adds>>
      PROVE  ErasuresInv' /\ DatedInv' /\ CascadedInv' /\ RecordedMeansErased'
  BY <1>1 DEF ErasuresInv, DatedInv, CascadedInv, Cleared, RecordedMeansErased, Outlives, Has
<1>2. ASSUME NEW limit \in 1..MaxLedgerLimit, StartListing(limit) \/ FetchLedgerPage(limit)
      PROVE  UNCHANGED <<stored, erasures, erasing, trailed, adds>>
  BY <1>2 DEF StartListing, FetchLedgerPage
<1>3. ASSUME UNCHANGED erasureVars PROVE UNCHANGED <<stored, erasures, erasing, trailed, adds>>
  BY <1>3 DEF erasureVars
<1> QED
  BY <1>1, <1>2, <1>3, RegisterStep, BeginStep, CascadeStep, PassedStep, FailsStep, AppendEntryStep
  DEF ErasureNext

(* Nothing is stored, and nothing is recorded as erased.                   *)
LEMMA ErasureBegin ==
    ErasureInit => ErasuresInv /\ DatedInv /\ CascadedInv /\ RecordedMeansErased
<1> SUFFICES ASSUME ErasureInit
             PROVE  ErasuresInv /\ DatedInv /\ CascadedInv /\ RecordedMeansErased
  OBVIOUS
<1>1. /\ stored = [store \in Stores |-> [s \in Subjects |-> 0]] /\ adds = 0
      /\ \A store \in Stores, s \in Subjects : stored[store][s] = 0
      /\ \A store \in Stores, s \in Subjects : trailed[store][s] = -1
      /\ erasing = [t \in Threads |-> NotErasing] /\ \A t \in Threads : erasing[t] = NotErasing
      /\ erasures = <<>> /\ trailed = [store \in Stores |-> [s \in Subjects |-> -1]]
  BY DEF ErasureInit
<1>2. ErasuresInv
  BY <1>1 DEF ErasuresInv, Erasings
<1>3. DatedInv /\ CascadedInv
  BY <1>1 DEF DatedInv, CascadedInv
<1>4. RecordedMeansErased
  BY <1>1 DEF RecordedMeansErased, Outlives
<1> QED
  BY <1>2, <1>3, <1>4
-----------------------------------------------------------------------------
(* What an operation on the versions has read, by what it does.            *)
Moves ==
    {Still}
    \cup [op : {"evaluate"}, kind : Kinds, of : Versions, read : VersionRecord]
    \cup [op : {"retire", "activate", "record"}, kind : Kinds, of : Versions, metrics : BOOLEAN,
          old : Versions \cup {NoVersion}, oldMetrics : BOOLEAN]
    \cup [op : {"stepdown", "reactivate", "mark"}, kind : Kinds, of : Versions, metrics : BOOLEAN,
          old : Versions, oldMetrics : BOOLEAN, undo : Nat]

(* The versions an operation names are registered ones of its kind.        *)
MoveIsOfKind(t) ==
    moving[t] # Still =>
        /\ moving[t].of \in registered /\ KindOf[moving[t].of] = moving[t].kind
        /\ moving[t].op \in {"retire", "activate", "record", "stepdown", "reactivate", "mark"} =>
              /\ t # Registrar
              /\ moving[t].old # NoVersion =>
                    moving[t].old \in registered /\ KindOf[moving[t].old] = moving[t].kind

(* A transition names registered versions of its kind.                     *)
TransitionIsOfKind(i) ==
    \A v \in {history[i].activated, history[i].retired} \ {NoVersion} :
        v \in registered /\ KindOf[v] = history[i].kind

OpsInv ==
    /\ versions \in [Versions -> VersionRecord] /\ history \in Seq(Transition)
    /\ registered \subseteq Versions /\ seeded \in [Kinds -> Versions \cup {NoVersion}]
    /\ moving \in [Admins -> Moves]
    /\ \A v \in Versions \ registered : versions[v].status = "absent"
    /\ \A t \in Admins : MoveIsOfKind(t)
    /\ \A i \in 1..Len(history) : TransitionIsOfKind(i)

(* Who is busy with a kind, and which transitions are its own.             *)
BusyWith(k) == {t \in Admins : moving[t] # Still /\ moving[t].kind = k}
TransitionsOf(k) == {i \in 1..Len(history) : history[i].kind = k}

(* The newest of some transitions, and the version it left active: the one *)
(* the kind started with if there is none.                                 *)
Newest(S) == CHOOSE i \in S : \A j \in S : j <= i
LeftBy(k, S) == IF S = {} THEN seeded[k] ELSE history[Newest(S)].activated

(* A promotion not reversed displaced what the one before it activated.    *)
Displaces(k) ==
    \A i \in Unreversed(k) : history[i].retired = LeftBy(k, {j \in Unreversed(k) : j < i})

(* What a kind's transitions named, but for one version, is retired.       *)
RetiredBut(k, e) ==
    \A i \in TransitionsOf(k) :
        \A v \in {history[i].activated, history[i].retired} \ {NoVersion, e} :
            versions[v].status = "retired"

(* One version serves, and what the history named besides it is retired.   *)
Serves(k, e) == ActiveOf(k) = {e} \ {NoVersion} /\ RetiredBut(k, e)

(* What the operation of a thread that is alone on kind k has read is      *)
(* still so, and what it has written is there.                             *)
StandsBy(k, m) ==
    CASE m.op = "evaluate" ->
           Serves(k, LeftBy(k, Unreversed(k))) /\ m.read.status = versions[m.of].status
      [] m.op = "retire" ->
           Serves(k, LeftBy(k, Unreversed(k))) /\ m.old = LeftBy(k, Unreversed(k))
      [] m.op = "activate" ->
           /\ Serves(k, NoVersion) /\ m.old = LeftBy(k, Unreversed(k))
           /\ m.old # NoVersion => versions[m.old].status = "retired"
      [] m.op = "record" ->
           /\ Serves(k, m.of) /\ m.old = LeftBy(k, Unreversed(k))
           /\ m.old \notin {NoVersion, m.of} => versions[m.old].status = "retired"
      [] m.op \in {"stepdown", "reactivate", "mark"} ->
           /\ Unreversed(k) # {} /\ m.undo = Newest(Unreversed(k))
           /\ m.of = history[m.undo].retired
           /\ m.op = "stepdown" => /\ Serves(k, LeftBy(k, Unreversed(k)))
                                   /\ m.old = LeftBy(k, Unreversed(k))
           /\ m.op = "reactivate" => Serves(k, NoVersion)
           /\ m.op = "mark" => Serves(k, m.of)

(* Until operations on a kind overlap, one at most is under way, and the   *)
(* versions are where it, or the history, says.                            *)
KindInv(k) ==
    /\ Displaces(k)
    /\ \A t, u \in BusyWith(k) : t = u
    /\ BusyWith(k) = {} => Serves(k, LeftBy(k, Unreversed(k)))
    /\ \A t \in BusyWith(k) : StandsBy(k, moving[t])

ServingInv == \A k \in Kinds \ opsOverlapped : KindInv(k)

(* The newest of some transitions is one of them, and none is newer.       *)
LEMMA NewestIs ==
    ASSUME NEW n \in Nat, NEW S \in SUBSET (1..n), S # {}
    PROVE  Newest(S) \in S /\ \A j \in S : j <= Newest(S)
<1>1. IsFiniteSet(S) /\ S \in SUBSET Nat
  <2>1. IsFiniteSet(1..n)
    BY FS_Interval
  <2>2. IsFiniteSet(S)
    BY <2>1, FS_Subset
  <2> QED
    BY <2>2
<1>2. Max(S) \in S /\ \A j \in S : j <= Max(S)
  BY <1>1, MaxOfSet
<1> QED
  BY <1>2 DEF Newest

(* An operation under way, by what it does.                                *)
LEMMA MoveType ==
    ASSUME OpsInv, NEW t \in Admins
    PROVE  /\ moving[t].op \in {"none", "evaluate", "retire", "activate", "record",
                                "stepdown", "reactivate", "mark"}
           /\ moving[t] = Still <=> moving[t].op = "none"
           /\ moving[t] # Still => moving[t].kind \in Kinds /\ moving[t].of \in Versions
           /\ moving[t].op = "evaluate" => moving[t].read \in VersionRecord
           /\ moving[t].op \in {"retire", "activate", "record"} =>
                 moving[t] \in [op : {"retire", "activate", "record"}, kind : Kinds, of : Versions,
                                metrics : BOOLEAN, old : Versions \cup {NoVersion}, oldMetrics : BOOLEAN]
           /\ moving[t].op \in {"stepdown", "reactivate", "mark"} =>
                 moving[t] \in [op : {"stepdown", "reactivate", "mark"}, kind : Kinds, of : Versions,
                                metrics : BOOLEAN, old : Versions, oldMetrics : BOOLEAN, undo : Nat]
<1>1. moving[t] \in Moves
  BY DEF OpsInv
<1>2. CASE moving[t] = Still
  BY <1>2 DEF Still
<1>3. CASE moving[t] \in [op : {"evaluate"}, kind : Kinds, of : Versions, read : VersionRecord]
  BY <1>3 DEF Still
<1>4. CASE moving[t] \in [op : {"retire", "activate", "record"}, kind : Kinds, of : Versions,
                          metrics : BOOLEAN, old : Versions \cup {NoVersion}, oldMetrics : BOOLEAN]
  BY <1>4 DEF Still
<1>5. CASE moving[t] \in [op : {"stepdown", "reactivate", "mark"}, kind : Kinds, of : Versions,
                          metrics : BOOLEAN, old : Versions, oldMetrics : BOOLEAN, undo : Nat]
  BY <1>5 DEF Still
<1> QED
  BY <1>1, <1>2, <1>3, <1>4, <1>5 DEF Moves

(* The transitions of a kind are those of the history, and name versions.  *)
LEMMA TransitionType ==
    ASSUME OpsInv
    PROVE  /\ Len(history) \in Nat /\ DOMAIN history = 1..Len(history)
           /\ \A i \in 1..Len(history) :
                 /\ history[i] \in Transition /\ history[i].kind \in Kinds
                 /\ history[i].activated \in Versions /\ history[i].activated # NoVersion
                 /\ history[i].retired \in Versions \cup {NoVersion}
           /\ \A k \in Kinds : Unreversed(k) \subseteq TransitionsOf(k)
                               /\ TransitionsOf(k) \subseteq 1..Len(history)
<1>1. history \in Seq(Transition) /\ Len(history) \in Nat /\ DOMAIN history = 1..Len(history)
  BY LenProperties DEF OpsInv
<1>2. \A i \in 1..Len(history) : history[i] \in Transition
  BY <1>1, ElementOfSeq
<1>3. \A i \in 1..Len(history) :
         /\ history[i].kind \in Kinds /\ history[i].activated \in Versions
         /\ history[i].activated # NoVersion /\ history[i].retired \in Versions \cup {NoVersion}
  BY <1>2, ModelOpsAssumption DEF Transition
<1> QED
  BY <1>1, <1>2, <1>3 DEF Unreversed, TransitionsOf

(* What some transitions left active is a version of their kind.           *)
LEMMA LeftByType ==
    ASSUME OpsInv, NEW k \in Kinds, NEW S \in SUBSET Unreversed(k)
    PROVE  /\ LeftBy(k, S) \in Versions \cup {NoVersion}
           /\ S # {} => Newest(S) \in S /\ \A j \in S : j <= Newest(S)
<1>1. S # {} => Newest(S) \in S /\ \A j \in S : j <= Newest(S)
  BY TransitionType, NewestIs
<1> QED
  BY <1>1, TransitionType DEF LeftBy, OpsInv

(* What ExpectedActive reads is what the promotions not reversed left.     *)
LEMMA ExpectedIsLeft ==
    ASSUME OpsInv, NEW k \in Kinds
    PROVE  ExpectedActive(k) = LeftBy(k, Unreversed(k))
<1>1. CASE Unreversed(k) = {}
  BY <1>1 DEF ExpectedActive, LastUnreversed, LeftBy
<1>2. CASE Unreversed(k) # {}
  <2>1. LastUnreversed(k) = Newest(Unreversed(k))
    BY <1>2 DEF LastUnreversed, Newest
  <2>2. Newest(Unreversed(k)) \in 1..Len(history)
    BY <1>2, LeftByType, TransitionType
  <2>3. LastUnreversed(k) # 0
    BY <2>1, <2>2
  <2> QED
    BY <1>2, <2>1, <2>3 DEF ExpectedActive, LeftBy
<1> QED
  BY <1>1, <1>2

(* Which version is found active when one version serves.                  *)
LEMMA ActiveWhenServing ==
    ASSUME OpsInv, NEW k \in Kinds, NEW e \in Versions \cup {NoVersion}, Serves(k, e)
    PROVE  Active(k) = e
<1>1. CASE e = NoVersion
  BY <1>1 DEF Serves, Active
<1>2. CASE e # NoVersion
  BY <1>2 DEF Serves, Active
<1> QED
  BY <1>1, <1>2

(* ServingInv is what ServingFollowsHistory says of a quiet kind.          *)
LEMMA QuietServes ==
    ASSUME OpsInv, ServingInv
    PROVE  ServingFollowsHistory
<1> SUFFICES ASSUME NEW k \in Kinds, Quiet(k)
             PROVE  /\ ActiveOf(k) = {ExpectedActive(k)} \ {NoVersion}
                    /\ \A i \in 1..Len(history) : history[i].kind = k =>
                         \A v \in {history[i].activated, history[i].retired} \ {NoVersion, ExpectedActive(k)} :
                            versions[v].status = "retired"
  BY DEF ServingFollowsHistory
<1>1. k \notin opsOverlapped /\ BusyWith(k) = {}
  BY DEF Quiet, BusyWith
<1>2. Serves(k, ExpectedActive(k))
  BY <1>1, ExpectedIsLeft DEF ServingInv, KindInv
<1> QED
  BY <1>2 DEF Serves, RetiredBut, TransitionsOf

(* A step that leaves a kind's transitions, or its versions, as they are.  *)
KeepsHistory(k) ==
    /\ TransitionsOf(k)' = TransitionsOf(k) /\ Unreversed(k)' = Unreversed(k)
    /\ seeded'[k] = seeded[k]
    /\ \A i \in TransitionsOf(k) : /\ history'[i].activated = history[i].activated
                                   /\ history'[i].retired = history[i].retired

KeepsVersions(k) ==
    \A v \in Versions : KindOf[v] = k => versions'[v].status = versions[v].status

LeavesAlone(k) ==
    /\ KeepsHistory(k) /\ KeepsVersions(k) /\ BusyWith(k)' = BusyWith(k)
    /\ \A t \in BusyWith(k) : moving'[t] = moving[t]

(* What some transitions left active depends on those transitions.         *)
LEMMA LeftByStays ==
    ASSUME OpsInv, NEW k \in Kinds, KeepsHistory(k), NEW S \in SUBSET Unreversed(k)
    PROVE  LeftBy(k, S)' = LeftBy(k, S)
<1>1. S # {} => Newest(S) \in TransitionsOf(k)
  BY LeftByType, TransitionType
<1> QED
  BY <1>1 DEF LeftBy, KeepsHistory

(* ... and so does what all that are not reversed left.                    *)
LEMMA AllLeftByStays ==
    ASSUME OpsInv, NEW k \in Kinds, KeepsHistory(k)
    PROVE  LeftBy(k, Unreversed(k))' = LeftBy(k, Unreversed(k))
<1>1. PICK S : S = Unreversed(k)
  OBVIOUS
<1>2. Unreversed(k)' = S
  BY <1>1 DEF KeepsHistory
<1>3. LeftBy(k, S)' = LeftBy(k, S)
  BY <1>1, LeftByStays
<1>4. LeftBy(k, Unreversed(k))' = LeftBy(k, S)'
  BY <1>2 DEF LeftBy
<1> QED
  BY <1>1, <1>3, <1>4

(* The promotions displace what they did.                                  *)
LEMMA DisplacesStays ==
    ASSUME OpsInv, NEW k \in Kinds, KeepsHistory(k), Displaces(k)
    PROVE  Displaces(k)'
<1> SUFFICES ASSUME NEW i \in Unreversed(k)
             PROVE  history'[i].retired = LeftBy(k, {j \in Unreversed(k) : j < i})'
  BY DEF Displaces, KeepsHistory
<1>1. PICK S : S = {j \in Unreversed(k) : j < i}
  OBVIOUS
<1>2. {j \in Unreversed(k) : j < i}' = S
  BY <1>1 DEF KeepsHistory
<1>3. LeftBy(k, S)' = LeftBy(k, S)
  BY <1>1, LeftByStays
<1>4. LeftBy(k, {j \in Unreversed(k) : j < i})' = LeftBy(k, S)'
  BY <1>2 DEF LeftBy
<1>5. history[i].retired = LeftBy(k, S)
  BY <1>1 DEF Displaces
<1>6. history'[i].retired = history[i].retired
  BY TransitionType DEF KeepsHistory
<1> QED
  BY <1>3, <1>4, <1>5, <1>6

(* The version that serves goes on serving.                                *)
LEMMA ServesStays ==
    ASSUME OpsInv, NEW k \in Kinds, NEW e, KeepsHistory(k), KeepsVersions(k), Serves(k, e)
    PROVE  Serves(k, e)'
<1>1. ActiveOf(k)' = ActiveOf(k)
  BY DEF ActiveOf, KeepsVersions
<1>2. RetiredBut(k, e)'
  <2> SUFFICES ASSUME NEW i \in TransitionsOf(k), NEW v \in {history[i].activated, history[i].retired} \ {NoVersion, e}
               PROVE  versions'[v].status = "retired"
    BY DEF RetiredBut, KeepsHistory
  <2>1. i \in 1..Len(history) /\ history[i].kind = k
    BY DEF TransitionsOf
  <2>2. v \in Versions /\ KindOf[v] = k
    BY <2>1 DEF OpsInv, TransitionIsOfKind
  <2>3. versions[v].status = "retired"
    BY DEF Serves, RetiredBut
  <2> QED
    BY <2>2, <2>3 DEF KeepsVersions
<1> QED
  BY <1>1, <1>2 DEF Serves

(* What an operation stands by, it stands by while others are elsewhere.   *)
LEMMA StandsByStays ==
    ASSUME OpsInv, NEW k \in Kinds, KeepsHistory(k), KeepsVersions(k),
           NEW m \in Moves, m # Still, m.kind = k, StandsBy(k, m),
           m.of \in Versions, KindOf[m.of] = k,
           m.op \in {"retire", "activate", "record"} /\ m.old # NoVersion =>
              m.old \in Versions /\ KindOf[m.old] = k
    PROVE  StandsBy(k, m)'
<1>1. PICK U, l : U = Unreversed(k) /\ l = LeftBy(k, U)
  OBVIOUS
<1>2. Unreversed(k)' = U /\ LeftBy(k, Unreversed(k))' = l
  BY <1>1, AllLeftByStays DEF KeepsHistory
<1>3. \A e : Serves(k, e) => Serves(k, e)'
  BY ServesStays
<1>4. m.op \in {"evaluate", "retire", "activate", "record", "stepdown", "reactivate", "mark"}
  BY DEF Moves, Still
<1>5. CASE m.op = "evaluate"
  BY <1>1, <1>2, <1>3, <1>5 DEF StandsBy, KeepsVersions
<1>6. CASE m.op = "retire"
  BY <1>1, <1>2, <1>3, <1>6 DEF StandsBy
<1>7. CASE m.op = "activate"
  BY <1>1, <1>2, <1>3, <1>7 DEF StandsBy, KeepsVersions
<1>8. CASE m.op = "record"
  BY <1>1, <1>2, <1>3, <1>8 DEF StandsBy, KeepsVersions
<1>9. CASE m.op \in {"stepdown", "reactivate", "mark"}
  <2>1. U # {} /\ m.undo = Newest(U) /\ m.of = history[m.undo].retired
    BY <1>1, <1>9 DEF StandsBy
  <2>2. m.undo \in TransitionsOf(k)
    BY <1>1, <2>1, LeftByType, TransitionType
  <2>3. m.of = history'[m.undo].retired
    BY <2>1, <2>2 DEF KeepsHistory
  <2> QED
    BY <1>1, <1>2, <1>3, <1>9, <2>1, <2>3 DEF StandsBy
<1> QED
  BY <1>4, <1>5, <1>6, <1>7, <1>8, <1>9

(* A kind that is left alone keeps its invariant.                          *)
LEMMA KindStays ==
    ASSUME OpsInv, NEW k \in Kinds, LeavesAlone(k), KindInv(k)
    PROVE  KindInv(k)'
<1>1. /\ KeepsHistory(k) /\ KeepsVersions(k) /\ BusyWith(k)' = BusyWith(k)
      /\ \A t \in BusyWith(k) : moving'[t] = moving[t]
  BY DEF LeavesAlone
<1>2. Displaces(k)'
  BY <1>1, DisplacesStays DEF KindInv
<1>3. (\A t, u \in BusyWith(k) : t = u)'
  BY <1>1 DEF KindInv
<1>4. BusyWith(k)' = {} => Serves(k, LeftBy(k, Unreversed(k)))'
  <2>1. PICK l : l = LeftBy(k, Unreversed(k))
    OBVIOUS
  <2>2. LeftBy(k, Unreversed(k))' = l
    BY <1>1, <2>1, AllLeftByStays
  <2>3. BusyWith(k) = {} => Serves(k, l)'
    BY <1>1, <2>1, ServesStays DEF KindInv
  <2>4. Serves(k, l)' => Serves(k, LeftBy(k, Unreversed(k)))'
    BY <2>2 DEF Serves, RetiredBut
  <2> QED
    BY <1>1, <2>3, <2>4
<1>5. ASSUME NEW t \in BusyWith(k) PROVE StandsBy(k, moving[t])'
  <2>1. PICK m \in Moves : m = moving[t]
    BY DEF OpsInv, BusyWith
  <2>2. /\ t \in Admins /\ m # Still /\ m.kind = k /\ m.of \in Versions /\ KindOf[m.of] = k
        /\ m.op \in {"retire", "activate", "record"} /\ m.old # NoVersion =>
              m.old \in Versions /\ KindOf[m.old] = k
    BY <2>1 DEF BusyWith, OpsInv, MoveIsOfKind
  <2>3. StandsBy(k, m)'
    BY <1>1, <2>1, <2>2, StandsByStays DEF KindInv
  <2>4. moving'[t] = m
    BY <1>1, <2>1
  <2> QED
    BY <2>3, <2>4 DEF StandsBy
<1> QED
  BY <1>1, <1>2, <1>3, <1>4, <1>5 DEF KindInv

(* An operation on one kind leaves the other kinds alone.                  *)
LEMMA OtherKinds ==
    ASSUME OpsInv, ServingInv, NEW k \in Kinds, opsOverlapped \subseteq opsOverlapped',
           \A l \in Kinds \ {k} : LeavesAlone(l), k \notin opsOverlapped' => KindInv(k)'
    PROVE  ServingInv'
<1> SUFFICES ASSUME NEW l \in Kinds \ opsOverlapped' PROVE KindInv(l)'
  BY DEF ServingInv
<1>1. CASE l = k
  BY <1>1
<1>2. CASE l # k
  <2>1. KindInv(l) /\ LeavesAlone(l)
    BY <1>2 DEF ServingInv
  <2> QED
    BY <2>1, KindStays
<1> QED
  BY <1>1, <1>2

(* The same history and the same beginnings.                               *)
LEMMA SameHistory ==
    ASSUME UNCHANGED <<history, seeded>>, NEW k \in Kinds
    PROVE  KeepsHistory(k)
BY DEF KeepsHistory, TransitionsOf, Unreversed

(* A write to one version leaves those of the other kinds as they were.    *)
LEMMA OneVersion ==
    ASSUME OpsInv, NEW w \in Versions, NEW r \in VersionRecord, versions' = [versions EXCEPT ![w] = r]
    PROVE  /\ versions' \in [Versions -> VersionRecord] /\ versions'[w] = r
           /\ \A v \in Versions : v # w => versions'[v] = versions[v]
           /\ \A l \in Kinds : KindOf[w] # l => KeepsVersions(l)
<1>1. /\ versions' \in [Versions -> VersionRecord] /\ versions'[w] = r
      /\ \A v \in Versions : v # w => versions'[v] = versions[v]
  BY DEF OpsInv
<1> QED
  BY <1>1 DEF KeepsVersions

(* An operation moves on: who is busy with what afterwards.                *)
LEMMA BusyAfter ==
    ASSUME OpsInv, NEW k \in Kinds, NEW t \in Admins, NEW m, moving' = [moving EXCEPT ![t] = m],
           moving[t] = Still \/ moving[t].kind = k, m = Still \/ m.kind = k
    PROVE  /\ moving'[t] = m /\ \A u \in Admins : u # t => moving'[u] = moving[u]
           /\ \A l \in Kinds \ {k} : /\ BusyWith(l)' = BusyWith(l)
                                     /\ \A u \in BusyWith(l) : moving'[u] = moving[u]
           /\ BusyWith(k) \subseteq {t} => BusyWith(k)' = IF m = Still THEN {} ELSE {t}
<1>1. moving'[t] = m /\ \A u \in Admins : u # t => moving'[u] = moving[u]
  BY DEF OpsInv
<1>2. ASSUME NEW l \in Kinds \ {k}
      PROVE  BusyWith(l)' = BusyWith(l) /\ \A u \in BusyWith(l) : moving'[u] = moving[u]
  <2>1. t \notin BusyWith(l)
    BY DEF BusyWith
  <2>2. \A u \in BusyWith(l) : moving'[u] = moving[u]
    BY <1>1, <2>1 DEF BusyWith
  <2>3. BusyWith(l)' = BusyWith(l)
    BY <1>1 DEF BusyWith
  <2> QED
    BY <2>2, <2>3
<1>3. ASSUME BusyWith(k) \subseteq {t} PROVE BusyWith(k)' = IF m = Still THEN {} ELSE {t}
  BY <1>1, <1>3 DEF BusyWith
<1> QED
  BY <1>1, <1>2, <1>3

(* The types after a step that writes one version at most.                 *)
LEMMA MoveKeepsTypes ==
    ASSUME OpsInv, NEW t \in Admins, NEW m \in Moves, moving' = [moving EXCEPT ![t] = m],
           m # Still =>
              /\ m.of \in registered /\ KindOf[m.of] = m.kind
              /\ m.op # "evaluate" =>
                    /\ t # Registrar
                    /\ m.old # NoVersion => m.old \in registered /\ KindOf[m.old] = m.kind,
           versions' \in [Versions -> VersionRecord],
           \A v \in Versions \ registered : versions'[v].status = versions[v].status,
           UNCHANGED <<history, registered, seeded>>
    PROVE  OpsInv'
<1>1. /\ moving' \in [Admins -> Moves] /\ moving'[t] = m
      /\ \A u \in Admins : u # t => moving'[u] = moving[u]
  BY DEF OpsInv
<1>2. ASSUME NEW u \in Admins PROVE MoveIsOfKind(u)'
  <2>1. CASE u = t
    BY <1>1, <2>1 DEF MoveIsOfKind
  <2>2. CASE u # t
    <3>1. MoveIsOfKind(u) /\ moving'[u] = moving[u]
      BY <1>1, <2>2 DEF OpsInv
    <3> QED
      BY <3>1 DEF MoveIsOfKind
  <2> QED
    BY <2>1, <2>2
<1>3. \A i \in 1..Len(history) : TransitionIsOfKind(i)'
  BY DEF OpsInv, TransitionIsOfKind
<1>4. \A v \in Versions \ registered : versions'[v].status = "absent"
  BY DEF OpsInv
<1> QED
  BY <1>1, <1>2, <1>3, <1>4 DEF OpsInv

(* One operation is under way on the kind afterwards, or none.             *)
LEMMA OneBusy ==
    ASSUME NEW k \in Kinds, NEW t \in Admins, NEW m, BusyWith(k)' = {t}, moving'[t] = m,
           Displaces(k)', StandsBy(k, m)'
    PROVE  KindInv(k)'
<1>1. StandsBy(k, moving[t])'
  BY DEF StandsBy
<1> QED
  BY <1>1 DEF KindInv

(* With nobody busy, the invariant is about what serves.                   *)
LEMMA NoneBusy ==
    ASSUME NEW k \in Kinds, BusyWith(k)' = {}, Displaces(k)',
           Serves(k, LeftBy(k, Unreversed(k)))'
    PROVE  KindInv(k)'
BY DEF KindInv

(* Whoever has an operation under way on a kind without overlaps is alone, *)
(* and stands by what it read and wrote.                                   *)
LEMMA AloneStands ==
    ASSUME OpsInv, ServingInv, NEW t \in Admins, moving[t] # Still,
           NEW k \in Kinds \ opsOverlapped, moving[t].kind = k
    PROVE  BusyWith(k) = {t} /\ StandsBy(k, moving[t]) /\ Displaces(k)
<1>1. t \in BusyWith(k) /\ KindInv(k)
  BY DEF BusyWith, ServingInv
<1> QED
  BY <1>1 DEF KindInv

(* The version that serves steps down, and one that is not active steps up.*)
LEMMA StepsDown ==
    ASSUME OpsInv, NEW k \in Kinds, NEW e \in Versions, Serves(k, e), KindOf[e] = k,
           NEW r \in VersionRecord, r.status = "retired",
           versions' = [versions EXCEPT ![e] = r], UNCHANGED history
    PROVE  Serves(k, NoVersion)'
<1>1. versions'[e] = r /\ \A v \in Versions : v # e => versions'[v] = versions[v]
  BY OneVersion
<1>2. ActiveOf(k)' = {}
  BY <1>1 DEF Serves, ActiveOf
<1>3. RetiredBut(k, NoVersion)'
  <2> SUFFICES ASSUME NEW i \in TransitionsOf(k),
                      NEW v \in {history[i].activated, history[i].retired} \ {NoVersion}
               PROVE  versions'[v].status = "retired"
    BY DEF RetiredBut, TransitionsOf
  <2>1. v \in Versions
    BY TransitionType DEF TransitionsOf
  <2>2. v # e => versions[v].status = "retired"
    BY DEF Serves, RetiredBut
  <2> QED
    BY <1>1, <2>1, <2>2
<1> QED
  BY <1>2, <1>3 DEF Serves

(* A version steps up where none is active.                                *)
LEMMA StepsUp ==
    ASSUME OpsInv, NEW k \in Kinds, Serves(k, NoVersion), NEW w \in Versions, KindOf[w] = k,
           NEW r \in VersionRecord, r.status = "active",
           versions' = [versions EXCEPT ![w] = r], UNCHANGED history
    PROVE  Serves(k, w)'
<1>1. versions'[w] = r /\ \A v \in Versions : v # w => versions'[v] = versions[v]
  BY OneVersion
<1>2. ActiveOf(k)' = {w} \ {NoVersion}
  BY <1>1, ModelOpsAssumption DEF Serves, ActiveOf
<1>3. RetiredBut(k, w)'
  <2> SUFFICES ASSUME NEW i \in TransitionsOf(k),
                      NEW v \in {history[i].activated, history[i].retired} \ {NoVersion, w}
               PROVE  versions'[v].status = "retired"
    BY DEF RetiredBut, TransitionsOf
  <2>1. v \in Versions
    BY TransitionType DEF TransitionsOf
  <2>2. versions[v].status = "retired"
    BY DEF Serves, RetiredBut
  <2> QED
    BY <1>1, <2>1, <2>2
<1> QED
  BY <1>2, <1>3 DEF Serves

(* The version found active is a registered one of the kind.               *)
LEMMA ActiveType ==
    ASSUME OpsInv, NEW k \in Kinds
    PROVE  Active(k) # NoVersion =>
              Active(k) \in Versions /\ Active(k) \in registered /\ KindOf[Active(k)] = k
<1> SUFFICES ASSUME Active(k) # NoVersion
             PROVE  Active(k) \in Versions /\ Active(k) \in registered /\ KindOf[Active(k)] = k
  OBVIOUS
<1>1. Active(k) \in ActiveOf(k)
  BY DEF Active
<1>2. Active(k) \in Versions /\ KindOf[Active(k)] = k /\ versions[Active(k)].status = "active"
  BY <1>1 DEF ActiveOf
<1> QED
  BY <1>2 DEF OpsInv

(* An operation that begins has read the kind as it stands.                *)
LEMMA Begins ==
    ASSUME OpsInv, ServingInv, NEW k \in Kinds, NEW t \in Admins, moving[t] = Still,
           NEW m \in Moves, m # Still, m.kind = k, Begin(t, k, m),
           m.of \in registered, KindOf[m.of] = k,
           m.op # "evaluate" =>
              /\ t # Registrar
              /\ m.old # NoVersion => m.old \in registered /\ KindOf[m.old] = k,
           Serves(k, LeftBy(k, Unreversed(k))) => StandsBy(k, m),
           UNCHANGED <<versions, history, registered, seeded>>
    PROVE  OpsInv' /\ ServingInv'
<1>1. /\ moving' = [moving EXCEPT ![t] = m] /\ opsOverlapped \subseteq opsOverlapped'
      /\ k \notin opsOverlapped' => BusyWith(k) \subseteq {t}
  BY DEF Begin, BusyWith
<1>2. OpsInv'
  BY <1>1, MoveKeepsTypes DEF OpsInv
<1>3. \A l \in Kinds : KeepsHistory(l) /\ KeepsVersions(l)
  BY SameHistory DEF KeepsVersions
<1>4. \A l \in Kinds \ {k} : LeavesAlone(l)
  BY <1>1, <1>3, BusyAfter DEF LeavesAlone
<1>5. ASSUME k \notin opsOverlapped' PROVE KindInv(k)'
  <2>1. KindInv(k) /\ BusyWith(k) = {}
    BY <1>1, <1>5 DEF ServingInv, BusyWith
  <2>2. StandsBy(k, m) /\ Displaces(k)
    BY <2>1 DEF KindInv
  <2>3. m.of \in Versions /\ registered \subseteq Versions
    BY DEF OpsInv
  <2>4. m.op \in {"retire", "activate", "record"} /\ m.old # NoVersion =>
           m.old \in Versions /\ KindOf[m.old] = k
    BY <2>3
  <2>5. StandsBy(k, m)'
    BY <1>3, <2>2, <2>3, <2>4, StandsByStays
  <2>6. Displaces(k)'
    BY <1>3, <2>2, DisplacesStays
  <2>7. BusyWith(k)' = {t} /\ moving'[t] = m
    <3>1. moving'[t] = m /\ BusyWith(k) \subseteq {t}
      BY <1>1, <1>5 DEF OpsInv
    <3>2. BusyWith(k) \subseteq {t} => BusyWith(k)' = IF m = Still THEN {} ELSE {t}
      BY <1>1, BusyAfter, Zenon
    <3> QED
      BY <3>1, <3>2
  <2> QED
    BY <2>5, <2>6, <2>7, OneBusy
<1>6. ServingInv'
  BY <1>1, <1>4, <1>5, OtherKinds
<1> QED
  BY <1>2, <1>6

(* An evaluation begins: any version of the kind may be read.              *)
LEMMA EvaluationReadStep ==
    ASSUME OpsInv, ServingInv, NEW v \in Versions, EvaluationRead(v)
    PROVE  OpsInv' /\ ServingInv'
<1>1. PICK m : m = [op |-> "evaluate", kind |-> KindOf[v], of |-> v, read |-> versions[v]]
  OBVIOUS
<1>2. KindOf[v] \in Kinds /\ versions[v] \in VersionRecord /\ Registrar \in Admins
  BY ModelOpsAssumption DEF OpsInv, Admins
<1>3. m \in Moves /\ m # Still /\ m.kind = KindOf[v] /\ m.op = "evaluate" /\ m.of = v /\ m.read = versions[v]
  BY <1>1, <1>2 DEF Moves, Still
<1>4. /\ Begin(Registrar, KindOf[v], m) /\ moving[Registrar] = Still /\ v \in registered
      /\ UNCHANGED <<versions, history, registered, seeded>>
  BY <1>1 DEF EvaluationRead
<1>5. Serves(KindOf[v], LeftBy(KindOf[v], Unreversed(KindOf[v]))) => StandsBy(KindOf[v], m)
  BY <1>3 DEF StandsBy
<1> QED
  BY <1>2, <1>3, <1>4, <1>5, Begins

(* A promotion begins with the incumbent it has found.                     *)
LEMMA PromoteReadStep ==
    ASSUME OpsInv, ServingInv, NEW t \in Threads, NEW v \in Versions, PromoteRead(t, v)
    PROVE  OpsInv' /\ ServingInv'
<1>1. PICK k, old : k = KindOf[v] /\ old = Active(k)
  OBVIOUS
<1>2. PICK m : m = [op |-> "retire", kind |-> k, of |-> v, metrics |-> versions[v].metrics,
                    old |-> old, oldMetrics |-> old # NoVersion /\ versions[old].metrics]
  OBVIOUS
<1>3. k \in Kinds /\ versions[v] \in VersionRecord /\ t \in Admins /\ t # Registrar
  BY <1>1, ModelOpsAssumption DEF OpsInv, Admins
<1>4. old # NoVersion => old \in Versions /\ old \in registered /\ KindOf[old] = k
  BY <1>1, <1>3, ActiveType
<1>5. (old # NoVersion /\ versions[old].metrics) \in BOOLEAN /\ versions[v].metrics \in BOOLEAN
  BY <1>3 DEF VersionRecord
<1>6. m \in [op : {"retire", "activate", "record"}, kind : Kinds, of : Versions, metrics : BOOLEAN,
             old : Versions \cup {NoVersion}, oldMetrics : BOOLEAN]
  BY <1>2, <1>3, <1>4, <1>5
<1>7. m \in Moves /\ m # Still /\ m.kind = k /\ m.op = "retire" /\ m.of = v /\ m.old = old
  BY <1>2, <1>6 DEF Moves, Still
<1>8. /\ Begin(t, k, m) /\ moving[t] = Still /\ versions[v].status = "staging"
      /\ UNCHANGED <<versions, history, registered, seeded>>
  BY <1>1, <1>2 DEF PromoteRead, Promotable
<1>9. v \in registered
  BY <1>8 DEF OpsInv
<1>10. ASSUME Serves(k, LeftBy(k, Unreversed(k))) PROVE StandsBy(k, m)
  <2>1. LeftBy(k, Unreversed(k)) \in Versions \cup {NoVersion}
    BY <1>3, LeftByType
  <2>2. old = LeftBy(k, Unreversed(k))
    BY <1>1, <1>3, <1>10, <2>1, ActiveWhenServing
  <2> QED
    BY <1>7, <1>10, <2>2 DEF StandsBy
<1> QED
  BY <1>1, <1>3, <1>4, <1>7, <1>8, <1>9, <1>10, Begins

(* A rollback begins with the newest promotion not reversed.               *)
LEMMA RollbackReadStep ==
    ASSUME OpsInv, ServingInv, NEW t \in Threads, NEW k \in Kinds, RollbackRead(t, k)
    PROVE  OpsInv' /\ ServingInv'
<1>1. PICK i, old, v : i = LastUnreversed(k) /\ old = Active(k) /\ v = history[i].retired
  OBVIOUS
<1>2. PICK m : m = [op |-> "stepdown", kind |-> k, of |-> v, metrics |-> versions[v].metrics,
                    old |-> old, oldMetrics |-> versions[old].metrics, undo |-> i]
  OBVIOUS
<1>3. /\ Begin(t, k, m) /\ moving[t] = Still /\ old # NoVersion /\ i # 0 /\ v # NoVersion
      /\ UNCHANGED <<versions, history, registered, seeded>>
  BY <1>1, <1>2 DEF RollbackRead
<1>4. Unreversed(k) # {} /\ i = Newest(Unreversed(k))
  BY <1>1, <1>3 DEF LastUnreversed, Newest
<1>5. i \in TransitionsOf(k) /\ i \in 1..Len(history) /\ Len(history) \in Nat /\ history[i].kind = k
  BY <1>4, LeftByType, TransitionType DEF TransitionsOf
<1>6. v \in registered /\ v \in Versions /\ KindOf[v] = k
  BY <1>1, <1>3, <1>5 DEF OpsInv, TransitionIsOfKind
<1>7. old \in Versions /\ old \in registered /\ KindOf[old] = k
  BY <1>1, <1>3, ActiveType
<1>8. versions[old].metrics \in BOOLEAN /\ versions[v].metrics \in BOOLEAN
  BY <1>6, <1>7 DEF OpsInv, VersionRecord
<1>9. m \in [op : {"stepdown", "reactivate", "mark"}, kind : Kinds, of : Versions, metrics : BOOLEAN,
             old : Versions, oldMetrics : BOOLEAN, undo : Nat]
  BY <1>2, <1>5, <1>6, <1>7, <1>8
<1>10. /\ m \in Moves /\ m # Still /\ m.kind = k /\ m.op = "stepdown" /\ m.of = v /\ m.old = old
       /\ m.undo = i
  BY <1>2, <1>9 DEF Moves, Still
<1>11. ASSUME Serves(k, LeftBy(k, Unreversed(k))) PROVE StandsBy(k, m)
  <2>1. LeftBy(k, Unreversed(k)) \in Versions \cup {NoVersion}
    BY LeftByType
  <2>2. old = LeftBy(k, Unreversed(k))
    BY <1>1, <1>11, <2>1, ActiveWhenServing
  <2> QED
    BY <1>1, <1>4, <1>10, <1>11, <2>2 DEF StandsBy
<1>12. t \in Admins /\ t # Registrar
  BY ModelOpsAssumption DEF Admins
<1> QED
  BY <1>3, <1>6, <1>7, <1>10, <1>11, <1>12, Begins

(* An operation goes on, or ends, writing one version of its kind at most. *)
LEMMA GoesOn ==
    ASSUME OpsInv, ServingInv, NEW k \in Kinds, NEW t \in Admins, moving[t] # Still,
           moving[t].kind = k, NEW m \in Moves, moving' = [moving EXCEPT ![t] = m],
           m # Still =>
              /\ m.kind = k /\ m.of \in registered /\ KindOf[m.of] = k
              /\ m.op # "evaluate" =>
                    /\ t # Registrar
                    /\ m.old # NoVersion => m.old \in registered /\ KindOf[m.old] = k,
           versions' \in [Versions -> VersionRecord],
           \A v \in Versions \ registered : versions'[v].status = versions[v].status,
           \A l \in Kinds \ {k} : KeepsVersions(l),
           UNCHANGED <<history, registered, seeded, opsOverlapped>>,
           StandsBy(k, moving[t]) =>
              IF m = Still THEN Serves(k, LeftBy(k, Unreversed(k)))' ELSE StandsBy(k, m)'
    PROVE  OpsInv' /\ ServingInv'
<1>1. OpsInv'
  BY MoveKeepsTypes
<1>2. \A l \in Kinds : KeepsHistory(l)
  BY SameHistory
<1>3. \A l \in Kinds \ {k} : LeavesAlone(l)
  <2>1. \A l \in Kinds \ {k} : BusyWith(l)' = BusyWith(l) /\ \A u \in BusyWith(l) : moving'[u] = moving[u]
    BY BusyAfter
  <2> QED
    BY <1>2, <2>1 DEF LeavesAlone
<1>4. ASSUME k \notin opsOverlapped PROVE KindInv(k)'
  <2>1. BusyWith(k) = {t} /\ StandsBy(k, moving[t]) /\ Displaces(k)
    BY <1>4, AloneStands
  <2>2. Displaces(k)'
    BY <1>2, <2>1, DisplacesStays
  <2>3. moving'[t] = m /\ BusyWith(k)' = IF m = Still THEN {} ELSE {t}
    <3>1. BusyWith(k) \subseteq {t} => BusyWith(k)' = IF m = Still THEN {} ELSE {t}
      BY BusyAfter, Zenon
    <3> QED
      BY <2>1, <3>1 DEF OpsInv
  <2>4. CASE m = Still
    BY <2>1, <2>2, <2>3, <2>4, NoneBusy
  <2>5. CASE m # Still
    BY <2>1, <2>2, <2>3, <2>5, OneBusy
  <2> QED
    BY <2>4, <2>5
<1>5. ServingInv'
  BY <1>3, <1>4, OtherKinds
<1> QED
  BY <1>1, <1>5

(* The copy written back has the status that was read.                     *)
LEMMA EvaluationWriteStep ==
    ASSUME OpsInv, ServingInv, EvaluationWrite
    PROVE  OpsInv' /\ ServingInv'
<1>1. Registrar \in Admins
  BY DEF Admins
<1>2. PICK m, k, w, r : /\ m = moving[Registrar] /\ k = m.kind /\ w = m.of
                        /\ r = [m.read EXCEPT !.metrics = TRUE]
  OBVIOUS
<1>3. /\ m.op = "evaluate" /\ m # Still /\ k \in Kinds /\ w \in Versions /\ m.read \in VersionRecord
  BY <1>1, <1>2, MoveType DEF EvaluationWrite, Still
<1>4. r \in VersionRecord /\ r.status = m.read.status
  BY <1>2, <1>3 DEF VersionRecord
<1>5. /\ versions' = [versions EXCEPT ![w] = r] /\ moving' = [moving EXCEPT ![Registrar] = Still]
      /\ UNCHANGED <<history, registered, seeded, opsOverlapped>>
  BY <1>2 DEF EvaluationWrite
<1>6. w \in registered /\ KindOf[w] = k
  BY <1>1, <1>2, <1>3 DEF OpsInv, MoveIsOfKind
<1>7. /\ versions' \in [Versions -> VersionRecord] /\ versions'[w] = r
      /\ \A v \in Versions : v # w => versions'[v] = versions[v]
      /\ \A l \in Kinds \ {k} : KeepsVersions(l)
  BY <1>3, <1>4, <1>5, <1>6, OneVersion
<1>8. ASSUME StandsBy(k, m) PROVE Serves(k, LeftBy(k, Unreversed(k)))'
  <2>1. PICK e : e = LeftBy(k, Unreversed(k))
    OBVIOUS
  <2>2. Serves(k, e) /\ m.read.status = versions[w].status
    BY <1>2, <1>3, <1>8, <2>1 DEF StandsBy
  <2>3. KeepsVersions(k)
    BY <1>4, <1>7, <2>2 DEF KeepsVersions
  <2>4. Serves(k, e)'
    BY <1>3, <1>5, <2>2, <2>3, ServesStays, SameHistory
  <2>5. LeftBy(k, Unreversed(k))' = e
    BY <1>3, <1>5, <2>1, AllLeftByStays, SameHistory
  <2> QED
    BY <2>4, <2>5 DEF Serves, RetiredBut
<1>9. Still \in Moves /\ \A v \in Versions \ registered : versions'[v].status = versions[v].status
  BY <1>6, <1>7 DEF Moves
<1> QED
  BY <1>1, <1>2, <1>3, <1>5, <1>7, <1>8, <1>9, GoesOn

(* What a promotion holds while it writes.                                 *)
LEMMA PromotionMoves ==
    ASSUME OpsInv, NEW t \in Threads, moving[t].op \in {"retire", "activate", "record"},
           NEW op \in {"activate", "record"}, NEW m, m = [moving[t] EXCEPT !.op = op]
    PROVE  /\ t \in Admins /\ t # Registrar /\ moving[t] # Still /\ moving[t].kind \in Kinds
           /\ m \in Moves /\ m # Still /\ m.op = op /\ m.kind = moving[t].kind /\ m.of = moving[t].of
           /\ m.old = moving[t].old /\ m.of \in registered /\ m.of \in Versions
           /\ KindOf[m.of] = m.kind /\ m.metrics \in BOOLEAN /\ m.metrics = moving[t].metrics
           /\ m.oldMetrics \in BOOLEAN /\ m.oldMetrics = moving[t].oldMetrics
           /\ m.old # NoVersion => m.old \in registered /\ m.old \in Versions /\ KindOf[m.old] = m.kind
<1>1. t \in Admins /\ t # Registrar
  BY ModelOpsAssumption DEF Admins
<1>2. /\ moving[t] \in [op : {"retire", "activate", "record"}, kind : Kinds, of : Versions,
                        metrics : BOOLEAN, old : Versions \cup {NoVersion}, oldMetrics : BOOLEAN]
      /\ moving[t] # Still /\ moving[t].kind \in Kinds
  BY <1>1, MoveType DEF Still
<1>3. /\ m \in [op : {"retire", "activate", "record"}, kind : Kinds, of : Versions,
                metrics : BOOLEAN, old : Versions \cup {NoVersion}, oldMetrics : BOOLEAN]
      /\ m.op = op /\ m.kind = moving[t].kind /\ m.of = moving[t].of /\ m.old = moving[t].old
      /\ m.metrics = moving[t].metrics /\ m.oldMetrics = moving[t].oldMetrics
  BY <1>2
<1>4. m \in Moves /\ m # Still
  BY <1>3 DEF Moves, Still
<1>5. /\ m.of \in registered /\ KindOf[m.of] = m.kind
      /\ m.old # NoVersion => m.old \in registered /\ KindOf[m.old] = m.kind
  BY <1>1, <1>2, <1>3 DEF OpsInv, MoveIsOfKind
<1>6. registered \subseteq Versions
  BY DEF OpsInv
<1> QED
  BY <1>1, <1>2, <1>3, <1>4, <1>5, <1>6

(* A promotion retires the incumbent: none serves.                         *)
LEMMA RetireIncumbentStep ==
    ASSUME OpsInv, ServingInv, NEW t \in Threads, RetireIncumbent(t)
    PROVE  OpsInv' /\ ServingInv'
<1>1. PICK m : m = [moving[t] EXCEPT !.op = "activate"]
  OBVIOUS
<1>2. moving[t].op = "retire"
  BY DEF RetireIncumbent
<1>3. /\ t \in Admins /\ t # Registrar /\ moving[t] # Still /\ moving[t].kind \in Kinds
      /\ m \in Moves /\ m # Still /\ m.op = "activate" /\ m.kind = moving[t].kind /\ m.of = moving[t].of
      /\ m.old = moving[t].old /\ m.of \in registered /\ KindOf[m.of] = m.kind
      /\ m.oldMetrics \in BOOLEAN /\ m.oldMetrics = moving[t].oldMetrics
      /\ m.old # NoVersion => m.old \in registered /\ m.old \in Versions /\ KindOf[m.old] = m.kind
  BY <1>1, <1>2, PromotionMoves
<1>4. PICK k \in Kinds : k = moving[t].kind
  BY <1>3
<1>5. PICK r : r = WithStatus("retired", m.oldMetrics)
  OBVIOUS
<1>6. r \in VersionRecord /\ r.status = "retired"
  BY <1>3, <1>5 DEF WithStatus, VersionRecord, Status
<1>7. /\ versions' = IF m.old = NoVersion THEN versions ELSE [versions EXCEPT ![m.old] = r]
      /\ moving' = [moving EXCEPT ![t] = m]
      /\ UNCHANGED <<history, registered, seeded, opsOverlapped>>
  BY <1>1, <1>3, <1>5 DEF RetireIncumbent
<1>8. /\ versions' \in [Versions -> VersionRecord]
      /\ \A v \in Versions \ registered : versions'[v].status = versions[v].status
      /\ \A l \in Kinds \ {k} : KeepsVersions(l)
      /\ m.old # NoVersion => versions'[m.old] = r
  <2>1. CASE m.old = NoVersion
    BY <1>7, <2>1 DEF OpsInv, KeepsVersions
  <2>2. CASE m.old # NoVersion
    BY <1>3, <1>4, <1>6, <1>7, <2>2, OneVersion
  <2> QED
    BY <2>1, <2>2
<1>9. ASSUME StandsBy(k, moving[t]) PROVE StandsBy(k, m)'
  <2>1. Serves(k, m.old) /\ m.old = LeftBy(k, Unreversed(k))
    BY <1>2, <1>3, <1>9 DEF StandsBy
  <2>2. m.old = LeftBy(k, Unreversed(k))'
    BY <1>7, <2>1, AllLeftByStays, SameHistory
  <2>3. Serves(k, NoVersion)'
    <3>1. CASE m.old = NoVersion
      <4>1. KeepsVersions(k)
        BY <1>7, <3>1 DEF KeepsVersions
      <4> QED
        BY <1>7, <2>1, <3>1, <4>1, ServesStays, SameHistory
    <3>2. CASE m.old # NoVersion
      BY <1>3, <1>4, <1>6, <1>7, <2>1, <3>2, StepsDown
    <3> QED
      BY <3>1, <3>2
  <2> QED
    BY <1>3, <1>6, <1>8, <2>2, <2>3 DEF StandsBy
<1> QED
  BY <1>3, <1>4, <1>7, <1>8, <1>9, GoesOn

(* A promotion activates its version: it serves.                           *)
LEMMA ActivateStep ==
    ASSUME OpsInv, ServingInv, NEW t \in Threads, Activate(t)
    PROVE  OpsInv' /\ ServingInv'
<1>1. PICK m : m = [moving[t] EXCEPT !.op = "record"]
  OBVIOUS
<1>2. moving[t].op = "activate"
  BY DEF Activate
<1>3. /\ t \in Admins /\ t # Registrar /\ moving[t] # Still /\ moving[t].kind \in Kinds
      /\ m \in Moves /\ m # Still /\ m.op = "record" /\ m.kind = moving[t].kind /\ m.of = moving[t].of
      /\ m.old = moving[t].old /\ m.of \in registered /\ m.of \in Versions /\ KindOf[m.of] = m.kind
      /\ m.metrics \in BOOLEAN /\ m.metrics = moving[t].metrics
      /\ m.old # NoVersion => m.old \in registered /\ m.old \in Versions /\ KindOf[m.old] = m.kind
  BY <1>1, <1>2, PromotionMoves
<1>4. PICK k \in Kinds : k = moving[t].kind
  BY <1>3
<1>5. PICK r : r = WithStatus("active", m.metrics)
  OBVIOUS
<1>6. r \in VersionRecord /\ r.status = "active"
  BY <1>3, <1>5 DEF WithStatus, VersionRecord, Status
<1>7. /\ versions' = [versions EXCEPT ![m.of] = r] /\ moving' = [moving EXCEPT ![t] = m]
      /\ UNCHANGED <<history, registered, seeded, opsOverlapped>>
  BY <1>1, <1>3, <1>5 DEF Activate
<1>8. /\ versions' \in [Versions -> VersionRecord]
      /\ \A v \in Versions : v # m.of => versions'[v] = versions[v]
      /\ \A v \in Versions \ registered : versions'[v].status = versions[v].status
      /\ \A l \in Kinds \ {k} : KeepsVersions(l)
  BY <1>3, <1>4, <1>6, <1>7, OneVersion
<1>9. ASSUME StandsBy(k, moving[t]) PROVE StandsBy(k, m)'
  <2>1. /\ Serves(k, NoVersion) /\ m.old = LeftBy(k, Unreversed(k))
        /\ m.old # NoVersion => versions[m.old].status = "retired"
    BY <1>2, <1>3, <1>9 DEF StandsBy
  <2>2. m.old = LeftBy(k, Unreversed(k))'
    BY <1>7, <2>1, AllLeftByStays, SameHistory
  <2>3. Serves(k, m.of)'
    BY <1>3, <1>4, <1>6, <1>7, <2>1, StepsUp
  <2>4. m.old \notin {NoVersion, m.of} => versions'[m.old].status = "retired"
    BY <1>3, <1>8, <2>1
  <2> QED
    BY <1>3, <2>2, <2>3, <2>4 DEF StandsBy
<1> QED
  BY <1>3, <1>4, <1>7, <1>8, <1>9, GoesOn

(* What a rollback holds while it writes.                                  *)
LEMMA RollbackMoves ==
    ASSUME OpsInv, NEW t \in Threads, moving[t].op \in {"stepdown", "reactivate", "mark"},
           NEW op \in {"reactivate", "mark"}, NEW m, m = [moving[t] EXCEPT !.op = op]
    PROVE  /\ t \in Admins /\ t # Registrar /\ moving[t] # Still /\ moving[t].kind \in Kinds
           /\ m \in Moves /\ m # Still /\ m.op = op /\ m.kind = moving[t].kind /\ m.of = moving[t].of
           /\ m.old = moving[t].old /\ m.of \in registered /\ m.of \in Versions
           /\ KindOf[m.of] = m.kind /\ m.metrics \in BOOLEAN /\ m.metrics = moving[t].metrics
           /\ m.oldMetrics \in BOOLEAN /\ m.oldMetrics = moving[t].oldMetrics
           /\ m.undo = moving[t].undo
           /\ m.old \in registered /\ m.old \in Versions /\ KindOf[m.old] = m.kind
<1>1. t \in Admins /\ t # Registrar
  BY ModelOpsAssumption DEF Admins
<1>2. /\ moving[t] \in [op : {"stepdown", "reactivate", "mark"}, kind : Kinds, of : Versions,
                        metrics : BOOLEAN, old : Versions, oldMetrics : BOOLEAN, undo : Nat]
      /\ moving[t] # Still /\ moving[t].kind \in Kinds
  BY <1>1, MoveType DEF Still
<1>3. /\ m \in [op : {"stepdown", "reactivate", "mark"}, kind : Kinds, of : Versions,
                metrics : BOOLEAN, old : Versions, oldMetrics : BOOLEAN, undo : Nat]
      /\ m.op = op /\ m.kind = moving[t].kind /\ m.of = moving[t].of /\ m.old = moving[t].old
      /\ m.metrics = moving[t].metrics /\ m.oldMetrics = moving[t].oldMetrics
      /\ m.undo = moving[t].undo
  BY <1>2
<1>4. m \in Moves /\ m # Still
  BY <1>3 DEF Moves, Still
<1>5. m.old # NoVersion
  BY <1>3, ModelOpsAssumption
<1>6. /\ m.of \in registered /\ KindOf[m.of] = m.kind
      /\ m.old \in registered /\ KindOf[m.old] = m.kind
  BY <1>1, <1>2, <1>3, <1>5 DEF OpsInv, MoveIsOfKind
<1>7. registered \subseteq Versions
  BY DEF OpsInv
<1> QED
  BY <1>1, <1>2, <1>3, <1>4, <1>6, <1>7

(* A rollback retires the incumbent: none serves.                          *)
LEMMA StepDownStep ==
    ASSUME OpsInv, ServingInv, NEW t \in Threads, StepDown(t)
    PROVE  OpsInv' /\ ServingInv'
<1>1. PICK m : m = [moving[t] EXCEPT !.op = "reactivate"]
  OBVIOUS
<1>2. moving[t].op = "stepdown"
  BY DEF StepDown
<1>3. /\ t \in Admins /\ t # Registrar /\ moving[t] # Still /\ moving[t].kind \in Kinds
      /\ m \in Moves /\ m # Still /\ m.op = "reactivate" /\ m.kind = moving[t].kind /\ m.of = moving[t].of
      /\ m.old = moving[t].old /\ m.of \in registered /\ KindOf[m.of] = m.kind
      /\ m.oldMetrics \in BOOLEAN /\ m.oldMetrics = moving[t].oldMetrics /\ m.undo = moving[t].undo
      /\ m.old \in registered /\ m.old \in Versions /\ KindOf[m.old] = m.kind
  BY <1>1, <1>2, RollbackMoves
<1>4. PICK k \in Kinds : k = moving[t].kind
  BY <1>3
<1>5. PICK r : r = WithStatus("retired", m.oldMetrics)
  OBVIOUS
<1>6. r \in VersionRecord /\ r.status = "retired"
  BY <1>3, <1>5 DEF WithStatus, VersionRecord, Status
<1>7. /\ versions' = [versions EXCEPT ![m.old] = r] /\ moving' = [moving EXCEPT ![t] = m]
      /\ UNCHANGED <<history, registered, seeded, opsOverlapped>>
  BY <1>1, <1>3, <1>5 DEF StepDown
<1>8. /\ versions' \in [Versions -> VersionRecord]
      /\ \A v \in Versions \ registered : versions'[v].status = versions[v].status
      /\ \A l \in Kinds \ {k} : KeepsVersions(l)
  BY <1>3, <1>4, <1>6, <1>7, OneVersion
<1>9. ASSUME StandsBy(k, moving[t]) PROVE StandsBy(k, m)'
  <2>1. /\ Serves(k, m.old) /\ Unreversed(k) # {} /\ m.undo = Newest(Unreversed(k))
        /\ m.of = history[m.undo].retired
    BY <1>2, <1>3, <1>9 DEF StandsBy
  <2>2. Serves(k, NoVersion)'
    BY <1>3, <1>4, <1>6, <1>7, <2>1, StepsDown
  <2>3. Unreversed(k)' = Unreversed(k)
    BY <1>7 DEF Unreversed
  <2>4. m.undo = Newest(Unreversed(k))' /\ m.of = history'[m.undo].retired
    BY <1>7, <2>1, <2>3 DEF Newest
  <2> QED
    BY <1>3, <2>1, <2>2, <2>3, <2>4 DEF StandsBy
<1> QED
  BY <1>3, <1>4, <1>7, <1>8, <1>9, GoesOn

(* A rollback reactivates what was displaced: it serves.                   *)
LEMMA ReactivateStep ==
    ASSUME OpsInv, ServingInv, NEW t \in Threads, Reactivate(t)
    PROVE  OpsInv' /\ ServingInv'
<1>1. PICK m : m = [moving[t] EXCEPT !.op = "mark"]
  OBVIOUS
<1>2. moving[t].op = "reactivate"
  BY DEF Reactivate
<1>3. /\ t \in Admins /\ t # Registrar /\ moving[t] # Still /\ moving[t].kind \in Kinds
      /\ m \in Moves /\ m # Still /\ m.op = "mark" /\ m.kind = moving[t].kind /\ m.of = moving[t].of
      /\ m.of \in registered /\ m.of \in Versions /\ KindOf[m.of] = m.kind
      /\ m.metrics \in BOOLEAN /\ m.metrics = moving[t].metrics /\ m.undo = moving[t].undo
      /\ m.old \in registered /\ KindOf[m.old] = m.kind
  BY <1>1, <1>2, RollbackMoves
<1>4. PICK k \in Kinds : k = moving[t].kind
  BY <1>3
<1>5. PICK r : r = WithStatus("active", m.metrics)
  OBVIOUS
<1>6. r \in VersionRecord /\ r.status = "active"
  BY <1>3, <1>5 DEF WithStatus, VersionRecord, Status
<1>7. /\ versions' = [versions EXCEPT ![m.of] = r] /\ moving' = [moving EXCEPT ![t] = m]
      /\ UNCHANGED <<history, registered, seeded, opsOverlapped>>
  BY <1>1, <1>3, <1>5 DEF Reactivate
<1>8. /\ versions' \in [Versions -> VersionRecord]
      /\ \A v \in Versions \ registered : versions'[v].status = versions[v].status
      /\ \A l \in Kinds \ {k} : KeepsVersions(l)
  BY <1>3, <1>4, <1>6, <1>7, OneVersion
<1>9. ASSUME StandsBy(k, moving[t]) PROVE StandsBy(k, m)'
  <2>1. /\ Serves(k, NoVersion) /\ Unreversed(k) # {} /\ m.undo = Newest(Unreversed(k))
        /\ m.of = history[m.undo].retired
    BY <1>2, <1>3, <1>9 DEF StandsBy
  <2>2. Serves(k, m.of)'
    BY <1>3, <1>4, <1>6, <1>7, <2>1, StepsUp
  <2>3. Unreversed(k)' = Unreversed(k)
    BY <1>7 DEF Unreversed
  <2>4. m.undo = Newest(Unreversed(k))' /\ m.of = history'[m.undo].retired
    BY <1>7, <2>1, <2>3 DEF Newest
  <2> QED
    BY <1>3, <2>1, <2>2, <2>3, <2>4 DEF StandsBy
<1> QED
  BY <1>3, <1>4, <1>7, <1>8, <1>9, GoesOn

(* A rollback that finds its promotion reversed was not alone.             *)
LEMMA MarkMissingStep ==
    ASSUME OpsInv, ServingInv, NEW t \in Threads, MarkMissing(t)
    PROVE  OpsInv' /\ ServingInv'
<1>1. /\ moving[t].op = "mark" /\ history[moving[t].undo].undone
      /\ moving' = [moving EXCEPT ![t] = Still]
      /\ UNCHANGED <<versions, history, registered, seeded, opsOverlapped>>
  BY DEF MarkMissing
<1>2. t \in Admins /\ moving[t] # Still /\ moving[t].kind \in Kinds
  BY <1>1, ModelOpsAssumption, MoveType DEF Admins, Still
<1>3. PICK k \in Kinds : k = moving[t].kind
  BY <1>2
<1>4. ~StandsBy(k, moving[t])
  <2> SUFFICES ASSUME StandsBy(k, moving[t]) PROVE FALSE
    OBVIOUS
  <2>1. Unreversed(k) # {} /\ moving[t].undo = Newest(Unreversed(k))
    BY <1>1 DEF StandsBy
  <2>2. moving[t].undo \in Unreversed(k)
    BY <2>1, LeftByType
  <2> QED
    BY <1>1, <2>2 DEF Unreversed
<1>5. Still \in Moves /\ versions' \in [Versions -> VersionRecord]
  BY <1>1 DEF Moves, OpsInv
<1>6. /\ \A v \in Versions \ registered : versions'[v].status = versions[v].status
      /\ \A l \in Kinds \ {k} : KeepsVersions(l)
  BY <1>1 DEF KeepsVersions
<1> QED
  BY <1>1, <1>2, <1>3, <1>4, <1>5, <1>6, GoesOn

(* What a rollback is about to mark is a transition of its kind.           *)
MarksItsOwn(m) ==
    m.op \in {"stepdown", "reactivate", "mark"} =>
        m.undo \in 1..Len(history) /\ history[m.undo].kind = m.kind

UndoInv == \A t \in Admins : MarksItsOwn(moving[t])

(* What a set of transitions left active does not depend on the others.    *)
LEMMA LeftByKept ==
    ASSUME OpsInv, NEW k \in Kinds, UNCHANGED seeded, NEW S \in SUBSET Unreversed(k),
           \A i \in Unreversed(k) : history'[i].activated = history[i].activated
    PROVE  LeftBy(k, S)' = LeftBy(k, S)
<1>1. S # {} => Newest(S) \in Unreversed(k)
  BY LeftByType
<1> QED
  BY <1>1 DEF LeftBy

(* The last write of an operation, to the history.                         *)
LEMMA Ends ==
    ASSUME OpsInv, ServingInv, NEW k \in Kinds, NEW t \in Admins, moving[t] # Still,
           moving[t].kind = k, moving' = [moving EXCEPT ![t] = Still],
           UNCHANGED <<versions, registered, seeded, opsOverlapped>>,
           history' \in Seq(Transition), \A i \in 1..Len(history') : TransitionIsOfKind(i)',
           \A l \in Kinds \ {k} : KeepsHistory(l),
           StandsBy(k, moving[t]) /\ Displaces(k) =>
              Displaces(k)' /\ Serves(k, LeftBy(k, Unreversed(k)))'
    PROVE  OpsInv' /\ ServingInv'
<1>1. OpsInv'
  <2>1. /\ moving' \in [Admins -> Moves] /\ moving'[t] = Still
        /\ \A u \in Admins : u # t => moving'[u] = moving[u]
    BY DEF OpsInv, Moves
  <2>2. \A u \in Admins : MoveIsOfKind(u)'
    BY <2>1 DEF OpsInv, MoveIsOfKind
  <2> QED
    BY <2>1, <2>2 DEF OpsInv
<1>2. \A l \in Kinds \ {k} : LeavesAlone(l)
  <2>1. \A l \in Kinds \ {k} : BusyWith(l)' = BusyWith(l) /\ \A u \in BusyWith(l) : moving'[u] = moving[u]
    BY BusyAfter
  <2>2. \A l \in Kinds : KeepsVersions(l)
    BY DEF KeepsVersions
  <2> QED
    BY <2>1, <2>2 DEF LeavesAlone
<1>3. ASSUME k \notin opsOverlapped PROVE KindInv(k)'
  <2>1. BusyWith(k) = {t} /\ StandsBy(k, moving[t]) /\ Displaces(k)
    BY <1>3, AloneStands
  <2>2. BusyWith(k)' = {}
    <3>1. BusyWith(k) \subseteq {t} => BusyWith(k)' = IF Still = Still THEN {} ELSE {t}
      BY BusyAfter, Zenon
    <3> QED
      BY <2>1, <3>1
  <2> QED
    BY <2>1, <2>2, NoneBusy
<1>4. ServingInv'
  BY <1>2, <1>3, OtherKinds
<1> QED
  BY <1>1, <1>4

(* Marked as reversed, the promotion leaves what it had displaced.         *)
LEMMA MarkReversedStep ==
    ASSUME OpsInv, ServingInv, UndoInv, NEW t \in Threads, MarkReversed(t)
    PROVE  OpsInv' /\ ServingInv'
<1>1. PICK n : n = moving[t].undo
  OBVIOUS
<1>2. /\ moving[t].op = "mark" /\ history' = [history EXCEPT ![n].undone = TRUE]
      /\ moving' = [moving EXCEPT ![t] = Still]
      /\ UNCHANGED <<versions, registered, seeded, opsOverlapped>>
  BY <1>1 DEF MarkReversed
<1>3. t \in Admins /\ moving[t] # Still /\ moving[t].kind \in Kinds
  BY <1>2, ModelOpsAssumption, MoveType DEF Admins, Still
<1>4. PICK k \in Kinds : k = moving[t].kind
  BY <1>3
<1>5. n \in TransitionsOf(k) /\ n \in 1..Len(history) /\ history[n].kind = k
  BY <1>1, <1>2, <1>3, <1>4 DEF UndoInv, MarksItsOwn, TransitionsOf
<1>6. history \in Seq(Transition) /\ DOMAIN history = 1..Len(history) /\ history[n] \in Transition
  BY <1>5, TransitionType DEF OpsInv
<1>7. /\ history' \in Seq(Transition) /\ Len(history') = Len(history)
      /\ \A i \in 1..Len(history) : i # n => history'[i] = history[i]
      /\ history'[n] = [history[n] EXCEPT !.undone = TRUE]
  <2>1. [history[n] EXCEPT !.undone = TRUE] \in Transition
    BY <1>6 DEF Transition
  <2> QED
    BY <1>2, <1>5, <1>6, <2>1
<1>8. /\ history'[n].undone = TRUE /\ history'[n].kind = history[n].kind
      /\ history'[n].activated = history[n].activated /\ history'[n].retired = history[n].retired
  BY <1>6, <1>7 DEF Transition
<1>9. \A i \in 1..Len(history) : /\ history'[i].kind = history[i].kind
                                 /\ history'[i].activated = history[i].activated
                                 /\ history'[i].retired = history[i].retired
  BY <1>7, <1>8
<1>10. \A l \in Kinds : TransitionsOf(l)' = TransitionsOf(l)
  BY <1>7, <1>9 DEF TransitionsOf
<1>11. \A i \in 1..Len(history') : TransitionIsOfKind(i)'
  BY <1>2, <1>7, <1>9 DEF OpsInv, TransitionIsOfKind
<1>12. \A l \in Kinds \ {k} : KeepsHistory(l)
  <2> SUFFICES ASSUME NEW l \in Kinds \ {k} PROVE KeepsHistory(l)
    OBVIOUS
  <2>1. Unreversed(l)' = Unreversed(l)
    BY <1>5, <1>7, <1>9 DEF Unreversed
  <2> QED
    BY <1>2, <1>9, <1>10, <2>1 DEF KeepsHistory, TransitionsOf
<1>13. ASSUME StandsBy(k, moving[t]), Displaces(k)
       PROVE  Displaces(k)' /\ Serves(k, LeftBy(k, Unreversed(k)))'
  <2>1. PICK U, e : U = Unreversed(k) /\ e = moving[t].of
    OBVIOUS
  <2>2. Serves(k, e) /\ U # {} /\ n = Newest(U) /\ e = history[n].retired
    BY <1>1, <1>2, <1>13, <2>1 DEF StandsBy
  <2>3. n \in U /\ U \subseteq 1..Len(history) /\ \A j \in U : j <= n
    BY <2>1, <2>2, LeftByType DEF Unreversed
  <2>4. Unreversed(k)' = U \ {n}
    BY <1>5, <1>7, <1>8, <1>9, <2>1, <2>3 DEF Unreversed
  <2>5. \A S \in SUBSET U : LeftBy(k, S)' = LeftBy(k, S)
    BY <1>2, <1>9, <2>1, <2>3, LeftByKept
  <2>6. ASSUME NEW i \in U PROVE history[i].retired = LeftBy(k, {j \in U : j < i})
    BY <1>13, <2>1, <2>6 DEF Displaces
  <2>7. ASSUME NEW i \in U \ {n} PROVE history'[i].retired = LeftBy(k, {j \in Unreversed(k) : j < i})'
    <3>1. PICK S : S = {j \in U : j < i}
      OBVIOUS
    <3>2. {j \in Unreversed(k) : j < i}' = S
      <4>1. n \in Int /\ i \in Int /\ i <= n
        BY <2>3
      <4>2. ~(n < i)
        BY <4>1
      <4> QED
        BY <2>4, <3>1, <4>2
    <3>3. LeftBy(k, {j \in Unreversed(k) : j < i})' = LeftBy(k, S)'
      BY <3>2 DEF LeftBy
    <3>4. LeftBy(k, S)' = LeftBy(k, S)
      BY <2>5, <3>1
    <3> QED
      BY <1>9, <2>3, <2>6, <3>1, <3>3, <3>4
  <2>8. Displaces(k)'
    BY <2>4, <2>7 DEF Displaces
  <2>9. LeftBy(k, Unreversed(k))' = e
    <3>1. PICK S : S = {j \in U : j < n}
      OBVIOUS
    <3>2. Unreversed(k)' = S
      <4>1. U \subseteq Int /\ \A j \in U : j <= n
        BY <2>3
      <4>2. \A j \in U : j # n <=> j < n
        BY <2>3, <4>1
      <4> QED
        BY <2>3, <2>4, <3>1, <4>2
    <3>3. LeftBy(k, Unreversed(k))' = LeftBy(k, S)'
      BY <3>2 DEF LeftBy
    <3>4. LeftBy(k, S)' = LeftBy(k, S)
      BY <2>5, <3>1
    <3> QED
      BY <2>2, <2>3, <2>6, <3>1, <3>3, <3>4
  <2>10. ActiveOf(k)' = {e} \ {NoVersion}
    BY <1>2, <2>2 DEF Serves, ActiveOf
  <2>11. RetiredBut(k, e)'
    BY <1>2, <1>9, <1>10, <2>2 DEF Serves, RetiredBut, TransitionsOf
  <2> QED
    BY <2>8, <2>9, <2>10, <2>11 DEF Serves, RetiredBut
<1> QED
  BY <1>2, <1>3, <1>4, <1>7, <1>11, <1>12, <1>13, Ends

(* Recorded, the promotion is the newest and left its version.             *)
LEMMA RecordTransitionStep ==
    ASSUME OpsInv, ServingInv, NEW t \in Threads, RecordTransition(t)
    PROVE  OpsInv' /\ ServingInv'
<1>1. PICK m, k, n, x : /\ m = moving[t] /\ k = m.kind /\ n = Len(history) + 1
                        /\ x = [kind |-> k, activated |-> m.of, retired |-> m.old, undone |-> FALSE]
  OBVIOUS
<1>2. /\ m.op = "record" /\ history' = Append(history, x)
      /\ moving' = [moving EXCEPT ![t] = Still]
      /\ UNCHANGED <<versions, registered, seeded, opsOverlapped>>
  BY <1>1 DEF RecordTransition
<1>3. PICK q : q = [m EXCEPT !.op = "record"]
  OBVIOUS
<1>4. /\ t \in Admins /\ m # Still /\ k \in Kinds /\ m.of \in registered /\ m.of \in Versions
      /\ KindOf[m.of] = k
      /\ m.old # NoVersion => m.old \in registered /\ m.old \in Versions /\ KindOf[m.old] = k
  BY <1>1, <1>2, <1>3, PromotionMoves
<1>5. m.old \in Versions \cup {NoVersion} /\ m.of # NoVersion
  BY <1>4, ModelOpsAssumption
<1>6. x \in Transition
  BY <1>1, <1>4, <1>5 DEF Transition
<1>7. /\ history \in Seq(Transition) /\ Len(history) \in Nat /\ n \in Nat /\ n \notin 1..Len(history)
  BY <1>1 DEF OpsInv
<1>8. /\ history' \in Seq(Transition) /\ Len(history') = n /\ history'[n] = x
      /\ \A i \in 1..Len(history) : history'[i] = history[i]
  BY <1>1, <1>2, <1>6, <1>7
<1>9. 1..Len(history') = 1..Len(history) \cup {n}
  BY <1>1, <1>7, <1>8
<1>10. x.kind = k /\ x.activated = m.of /\ x.retired = m.old /\ ~x.undone
  BY <1>1
<1>11. \A i \in 1..Len(history') : TransitionIsOfKind(i)'
  <2>1. ASSUME NEW i \in 1..Len(history) PROVE TransitionIsOfKind(i)'
    BY <1>2, <1>8 DEF OpsInv, TransitionIsOfKind
  <2>2. TransitionIsOfKind(n)'
    BY <1>2, <1>4, <1>8, <1>10 DEF TransitionIsOfKind
  <2> QED
    BY <1>9, <2>1, <2>2
<1>12. \A l \in Kinds \ {k} : KeepsHistory(l)
  <2> SUFFICES ASSUME NEW l \in Kinds \ {k} PROVE KeepsHistory(l)
    OBVIOUS
  <2>1. Unreversed(l)' = Unreversed(l)
    BY <1>8, <1>9, <1>10 DEF Unreversed
  <2>2. TransitionsOf(l)' = TransitionsOf(l)
    BY <1>8, <1>9, <1>10 DEF TransitionsOf
  <2> QED
    BY <1>2, <1>8, <2>1, <2>2 DEF KeepsHistory, TransitionsOf
<1>13. ASSUME StandsBy(k, m), Displaces(k)
       PROVE  Displaces(k)' /\ Serves(k, LeftBy(k, Unreversed(k)))'
  <2>1. PICK U, l : U = Unreversed(k) /\ l = LeftBy(k, U)
    OBVIOUS
  <2>2. /\ Serves(k, m.of) /\ m.old = l
        /\ m.old \notin {NoVersion, m.of} => versions[m.old].status = "retired"
    BY <1>2, <1>13, <2>1 DEF StandsBy
  <2>3. U \subseteq 1..Len(history) /\ U \subseteq Int /\ n \in Int /\ \A j \in U : j < n
    BY <1>1, <1>7, <2>1 DEF Unreversed
  <2>4. Unreversed(k)' = U \cup {n}
    BY <1>8, <1>9, <1>10, <2>1 DEF Unreversed
  <2>5. \A S \in SUBSET U : LeftBy(k, S)' = LeftBy(k, S)
    BY <1>2, <1>4, <1>8, <2>1, <2>3, LeftByKept
  <2>6. ASSUME NEW i \in U PROVE history[i].retired = LeftBy(k, {j \in U : j < i})
    BY <1>13, <2>1, <2>6 DEF Displaces
  <2>7. ASSUME NEW i \in U \cup {n} PROVE history'[i].retired = LeftBy(k, {j \in Unreversed(k) : j < i})'
    <3>1. PICK S : S = {j \in U : j < i}
      OBVIOUS
    <3>2. {j \in Unreversed(k) : j < i}' = S
      <4>1. i \in Int /\ i <= n
        BY <2>3
      <4>2. ~(n < i)
        BY <2>3, <4>1
      <4> QED
        BY <2>4, <3>1, <4>2
    <3>3. LeftBy(k, {j \in Unreversed(k) : j < i})' = LeftBy(k, S)'
      BY <3>2 DEF LeftBy
    <3>4. LeftBy(k, S)' = LeftBy(k, S)
      BY <2>5, <3>1
    <3>5. CASE i = n
      <4>1. S = U
        BY <2>3, <3>1, <3>5
      <4> QED
        BY <1>8, <1>10, <2>1, <2>2, <3>3, <3>4, <3>5, <4>1
    <3>6. CASE i # n
      BY <1>8, <2>3, <2>6, <3>1, <3>3, <3>4, <3>6
    <3> QED
      BY <3>5, <3>6
  <2>8. Displaces(k)'
    BY <2>4, <2>7 DEF Displaces
  <2>9. LeftBy(k, Unreversed(k))' = m.of
    <3>1. PICK S : S = U \cup {n}
      OBVIOUS
    <3>2. Newest(S) = n
      <4>1. n \in S /\ \A j \in S : j <= n
        BY <2>3, <3>1
      <4>2. S \in SUBSET (1..n) /\ S # {}
        <5>1. 1..Len(history) \subseteq 1..n /\ n \in 1..n
          BY <1>1, <1>7
        <5> QED
          BY <2>3, <3>1, <5>1
      <4>3. Newest(S) \in S /\ \A j \in S : j <= Newest(S)
        BY <1>7, <4>2, NewestIs
      <4>4. Newest(S) \in Int /\ Newest(S) <= n /\ n <= Newest(S)
        BY <2>3, <3>1, <4>1, <4>3
      <4> QED
        BY <2>3, <4>4
    <3>3. LeftBy(k, Unreversed(k))' = LeftBy(k, S)'
      BY <2>4, <3>1 DEF LeftBy
    <3>4. LeftBy(k, S)' = history'[Newest(S)].activated
      BY <3>1 DEF LeftBy
    <3> QED
      BY <1>8, <1>10, <3>2, <3>3, <3>4
  <2>10. ActiveOf(k)' = {m.of} \ {NoVersion}
    BY <1>2, <2>2 DEF Serves, ActiveOf
  <2>11. RetiredBut(k, m.of)'
    <3>1. TransitionsOf(k)' = TransitionsOf(k) \cup {n}
      BY <1>8, <1>9, <1>10 DEF TransitionsOf
    <3>2. ASSUME NEW i \in TransitionsOf(k),
                 NEW v \in {history'[i].activated, history'[i].retired} \ {NoVersion, m.of}
          PROVE  versions'[v].status = "retired"
      BY <1>2, <1>8, <2>2 DEF Serves, RetiredBut, TransitionsOf
    <3>3. ASSUME NEW v \in {history'[n].activated, history'[n].retired} \ {NoVersion, m.of}
          PROVE  versions'[v].status = "retired"
      BY <1>2, <1>8, <1>10, <2>2
    <3> QED
      BY <3>1, <3>2, <3>3 DEF RetiredBut
  <2> QED
    BY <2>8, <2>9, <2>10, <2>11 DEF Serves, RetiredBut
<1> QED
  BY <1>1, <1>2, <1>4, <1>8, <1>11, <1>12, <1>13, Ends

(* The first version of a kind serves, a later one is staged.              *)
LEMMA RegisterOneStep ==
    ASSUME OpsInv, ServingInv, NEW v \in Versions, RegisterOne(v)
    PROVE  OpsInv' /\ ServingInv'
<1>1. PICK k, s, sd : /\ k = KindOf[v]
                      /\ s = IF Active(k) = NoVersion THEN "active" ELSE "staging"
                      /\ sd = IF Active(k) = NoVersion THEN v ELSE seeded[k]
  OBVIOUS
<1>2. /\ moving[Registrar] = Still /\ v \notin registered
      /\ versions' = [versions EXCEPT ![v].status = s]
      /\ seeded' = [seeded EXCEPT ![k] = sd]
      /\ registered' = registered \cup {v}
      /\ UNCHANGED <<history, moving>> /\ opsOverlapped \subseteq opsOverlapped'
  BY <1>1 DEF RegisterOne
<1>3. k \notin opsOverlapped' => BusyWith(k) = {}
  BY <1>1 DEF RegisterOne, BusyWith, Admins
<1>4. PICK r : r = [versions[v] EXCEPT !.status = s]
  OBVIOUS
<1>5. k \in Kinds /\ versions[v] \in VersionRecord /\ versions[v].status = "absent"
  BY <1>1, <1>2, ModelOpsAssumption DEF OpsInv
<1>6. r \in VersionRecord /\ r.status = s
  BY <1>1, <1>4, <1>5 DEF VersionRecord, Status
<1>7. /\ versions' \in [Versions -> VersionRecord] /\ versions'[v] = r
      /\ \A w \in Versions : w # v => versions'[w] = versions[w]
      /\ \A l \in Kinds \ {k} : KeepsVersions(l)
  BY <1>1, <1>2, <1>4, <1>6, OneVersion
<1>8. /\ seeded' \in [Kinds -> Versions \cup {NoVersion}] /\ seeded'[k] = sd
      /\ \A l \in Kinds \ {k} : seeded'[l] = seeded[l]
  BY <1>1, <1>2, <1>5 DEF OpsInv
<1>9. OpsInv'
  <2>1. \A w \in Versions \ registered' : versions'[w].status = "absent"
    BY <1>2, <1>7 DEF OpsInv
  <2>2. \A t \in Admins : MoveIsOfKind(t)'
    BY <1>2 DEF OpsInv, MoveIsOfKind
  <2>3. \A i \in 1..Len(history') : TransitionIsOfKind(i)'
    BY <1>2 DEF OpsInv, TransitionIsOfKind
  <2>4. registered' \subseteq Versions
    BY <1>2 DEF OpsInv
  <2> QED
    BY <1>2, <1>7, <1>8, <2>1, <2>2, <2>3, <2>4 DEF OpsInv
<1>10. \A l \in Kinds : TransitionsOf(l)' = TransitionsOf(l) /\ Unreversed(l)' = Unreversed(l) /\ BusyWith(l)' = BusyWith(l)
  BY <1>2 DEF TransitionsOf, Unreversed, BusyWith
<1>11. \A l \in Kinds : seeded'[l] = seeded[l] => KeepsHistory(l)
  BY <1>2, <1>10 DEF KeepsHistory
<1>12. \A l \in Kinds \ {k} : LeavesAlone(l)
  BY <1>2, <1>7, <1>8, <1>10, <1>11 DEF LeavesAlone
<1>13. ASSUME k \notin opsOverlapped' PROVE KindInv(k)'
  <2>1. PICK U, e : U = Unreversed(k) /\ e = LeftBy(k, U)
    OBVIOUS
  <2>2. Displaces(k) /\ Serves(k, e) /\ BusyWith(k) = {}
    BY <1>2, <1>3, <1>5, <1>13, <2>1 DEF ServingInv, KindInv
  <2>3. ASSUME NEW i \in TransitionsOf(k), NEW w \in {history[i].activated, history[i].retired} \ {NoVersion}
        PROVE  w \in Versions /\ w # v /\ versions'[w] = versions[w]
    BY <1>2, <1>7 DEF OpsInv, TransitionIsOfKind, TransitionsOf
  <2>4. CASE Active(k) = NoVersion
    <3>1. s = "active" /\ sd = v
      BY <1>1, <2>4
    <3>2. ActiveOf(k) = {}
      <4> SUFFICES ASSUME ActiveOf(k) # {} PROVE FALSE
        OBVIOUS
      <4>1. Active(k) \in ActiveOf(k)
        BY DEF Active
      <4>2. Active(k) \in Versions
        BY <4>1 DEF ActiveOf
      <4> QED
        BY <2>4, <4>2, ModelOpsAssumption
    <3>3. e = NoVersion
      BY <2>2, <3>2 DEF Serves
    <3>4. U = {}
      <4> SUFFICES ASSUME U # {} PROVE FALSE
        OBVIOUS
      <4>1. Newest(U) \in U /\ U \subseteq 1..Len(history)
        BY <1>5, <2>1, LeftByType DEF Unreversed
      <4>2. history[Newest(U)].activated # NoVersion
        BY <4>1, TransitionType
      <4> QED
        BY <2>1, <3>3, <4>2 DEF LeftBy
    <3>5. Displaces(k)'
      BY <1>5, <1>10, <2>1, <3>4 DEF Displaces
    <3>6. LeftBy(k, Unreversed(k))' = v
      <4>1. Unreversed(k)' = {}
        BY <1>5, <1>10, <2>1, <3>4
      <4> QED
        BY <1>8, <3>1, <4>1 DEF LeftBy
    <3>7. ActiveOf(k)' = {v} \ {NoVersion}
      <4>1. v # NoVersion
        BY ModelOpsAssumption
      <4>2. \A w \in Versions : KindOf[w] = k => versions[w].status # "active"
        BY <3>2 DEF ActiveOf
      <4>3. versions'[v].status = "active" /\ KindOf[v] = k
        BY <1>1, <1>6, <1>7, <3>1
      <4> QED
        BY <1>7, <4>1, <4>2, <4>3 DEF ActiveOf
    <3>8. RetiredBut(k, v)'
      BY <1>2, <1>5, <1>10, <2>2, <2>3, <3>3 DEF Serves, RetiredBut
    <3>9. Serves(k, LeftBy(k, Unreversed(k)))'
      BY <3>6, <3>7, <3>8 DEF Serves, RetiredBut
    <3> QED
      BY <1>5, <1>10, <2>2, <3>5, <3>9, NoneBusy
  <2>5. CASE Active(k) # NoVersion
    <3>1. s = "staging" /\ seeded'[k] = seeded[k]
      BY <1>1, <1>8, <2>5
    <3>2. KeepsHistory(k)
      BY <1>5, <1>11, <3>1
    <3>3. ActiveOf(k)' = ActiveOf(k)
      BY <1>5, <1>6, <1>7, <3>1 DEF ActiveOf
    <3>4. RetiredBut(k, e)'
      BY <1>2, <1>5, <1>10, <2>2, <2>3 DEF Serves, RetiredBut
    <3>5. Displaces(k)' /\ LeftBy(k, Unreversed(k))' = e
      BY <1>5, <2>1, <2>2, <3>2, DisplacesStays, AllLeftByStays
    <3>6. Serves(k, LeftBy(k, Unreversed(k)))'
      BY <2>2, <3>3, <3>4, <3>5 DEF Serves, RetiredBut
    <3> QED
      BY <1>5, <1>10, <2>2, <3>5, <3>6, NoneBusy
  <2> QED
    BY <2>4, <2>5
<1>14. ServingInv'
  BY <1>2, <1>5, <1>12, <1>13, OtherKinds
<1> QED
  BY <1>9, <1>14

(* What is about to be marked stays a transition of its kind: none leaves  *)
(* the history, and none changes its kind.                                 *)
LEMMA UndoGoesOn ==
    ASSUME OpsInv, UndoInv, NEW t \in Admins, NEW m, moving' = [moving EXCEPT ![t] = m],
           MarksItsOwn(m)', Len(history') \in Nat, Len(history) <= Len(history'),
           \A i \in 1..Len(history) : history'[i].kind = history[i].kind
    PROVE  UndoInv'
<1> SUFFICES ASSUME NEW u \in Admins, u # t PROVE MarksItsOwn(moving[u])'
  <2>1. moving'[t] = m
    BY DEF OpsInv
  <2> QED
    BY <2>1 DEF UndoInv, MarksItsOwn
<1>1. PICK n : n = moving[u]
  OBVIOUS
<1>2. moving'[u] = n /\ MarksItsOwn(n)
  BY <1>1 DEF OpsInv, UndoInv
<1>3. Len(history) \in Nat /\ \A i \in 1..Len(history) : i \in 1..Len(history')
  BY DEF OpsInv
<1>4. MarksItsOwn(n)'
  BY <1>2, <1>3 DEF MarksItsOwn
<1> QED
  BY <1>2, <1>4 DEF MarksItsOwn

(* Every step keeps what is to be marked within the history.               *)
LEMMA UndoStep ==
    ASSUME OpsInv, UndoInv, [ModelOpsNext]_modelOpsVars
    PROVE  UndoInv'
<1>1. /\ Len(history) \in Nat /\ history \in Seq(Transition) /\ Len(history) <= Len(history)
      /\ Len(history) <= Len(history) + 1
  BY DEF OpsInv
<1>2. Threads \subseteq Admins /\ Registrar \in Admins
  BY DEF Admins
<1>3. CASE UNCHANGED <<history, moving>>
  BY <1>3 DEF UndoInv, MarksItsOwn
<1>4. ASSUME NEW t \in Admins, NEW m, moving' = [moving EXCEPT ![t] = m],
             m.op \notin {"stepdown", "reactivate", "mark"}, UNCHANGED history
      PROVE  UndoInv'
  <2>1. MarksItsOwn(m)'
    BY <1>4 DEF MarksItsOwn
  <2> QED
    BY <1>1, <1>4, <2>1, UndoGoesOn
<1>5. ASSUME NEW t \in Threads, NEW op \in {"reactivate", "mark"},
             moving[t].op \in {"stepdown", "reactivate", "mark"},
             moving' = [moving EXCEPT ![t].op = op], UNCHANGED history
      PROVE  UndoInv'
  <2>1. PICK m : m = [moving[t] EXCEPT !.op = op]
    OBVIOUS
  <2>2. m.kind = moving[t].kind /\ m.undo = moving[t].undo
    BY <1>5, <2>1, RollbackMoves
  <2>3. MarksItsOwn(m)'
    BY <1>2, <1>5, <2>2 DEF UndoInv, MarksItsOwn
  <2>4. moving' = [moving EXCEPT ![t] = m]
    BY <1>5, <2>1
  <2> QED
    BY <1>1, <1>2, <1>5, <2>3, <2>4, UndoGoesOn
<1>6. ASSUME NEW v \in Versions, RegisterOne(v) PROVE UndoInv'
  BY <1>3, <1>6 DEF RegisterOne
<1>7. ASSUME NEW v \in Versions, EvaluationRead(v) PROVE UndoInv'
  <2>1. PICK m : m = [op |-> "evaluate", kind |-> KindOf[v], of |-> v, read |-> versions[v]]
    OBVIOUS
  <2>2. moving' = [moving EXCEPT ![Registrar] = m] /\ UNCHANGED history /\ m.op = "evaluate"
    BY <1>7, <2>1 DEF EvaluationRead, Begin
  <2> QED
    BY <1>2, <1>4, <2>2
<1>8. CASE EvaluationWrite
  BY <1>2, <1>4, <1>8 DEF EvaluationWrite, Still
<1>9. ASSUME NEW t \in Threads, NEW v \in Versions, PromoteRead(t, v) PROVE UndoInv'
  <2>1. PICK m : m = [op |-> "retire", kind |-> KindOf[v], of |-> v, metrics |-> versions[v].metrics,
                      old |-> Active(KindOf[v]),
                      oldMetrics |-> Active(KindOf[v]) # NoVersion /\ versions[Active(KindOf[v])].metrics]
    OBVIOUS
  <2>2. m.op = "retire" /\ moving' = [moving EXCEPT ![t] = m] /\ UNCHANGED history
    BY <1>9, <2>1 DEF PromoteRead, Begin
  <2> QED
    BY <1>2, <1>4, <2>2
<1>10. ASSUME NEW t \in Threads, NEW k \in Kinds, RollbackRead(t, k) PROVE UndoInv'
  <2>1. PICK m : /\ m.undo = LastUnreversed(k) /\ m.kind = k
                 /\ moving' = [moving EXCEPT ![t] = m] /\ UNCHANGED history
    <3>1. PICK m : m = [op |-> "stepdown", kind |-> k, of |-> history[LastUnreversed(k)].retired,
                        metrics |-> versions[history[LastUnreversed(k)].retired].metrics,
                        old |-> Active(k), oldMetrics |-> versions[Active(k)].metrics,
                        undo |-> LastUnreversed(k)]
      OBVIOUS
    <3>2. moving' = [moving EXCEPT ![t] = m] /\ UNCHANGED history
      BY <1>10, <3>1 DEF RollbackRead, Begin
    <3> QED
      BY <3>1, <3>2
  <2>2. Unreversed(k) # {} /\ m.undo = Newest(Unreversed(k))
    BY <1>10, <2>1 DEF RollbackRead, LastUnreversed, Newest
  <2>3. m.undo \in Unreversed(k)
    BY <2>2, LeftByType
  <2>4. MarksItsOwn(m)'
    BY <2>1, <2>3 DEF MarksItsOwn, Unreversed
  <2> QED
    BY <1>1, <1>2, <2>1, <2>4, UndoGoesOn
<1>11. ASSUME NEW t \in Threads, NEW op \in {"activate", "record"},
             moving[t].op \in {"retire", "activate", "record"},
             moving' = [moving EXCEPT ![t].op = op], UNCHANGED history
      PROVE  UndoInv'
  <2>1. PICK m : m = [moving[t] EXCEPT !.op = op]
    OBVIOUS
  <2>2. m.op = op
    BY <1>11, <2>1, PromotionMoves
  <2>3. moving' = [moving EXCEPT ![t] = m]
    BY <1>11, <2>1
  <2> QED
    BY <1>2, <1>4, <1>11, <2>2, <2>3
<1>12. ASSUME NEW t \in Threads, RetireIncumbent(t) PROVE UndoInv'
  BY <1>11, <1>12 DEF RetireIncumbent
<1>13. ASSUME NEW t \in Threads, Activate(t) PROVE UndoInv'
  BY <1>11, <1>13 DEF Activate
<1>14. ASSUME NEW t \in Threads, StepDown(t) PROVE UndoInv'
  BY <1>5, <1>14 DEF StepDown
<1>15. ASSUME NEW t \in Threads, Reactivate(t) PROVE UndoInv'
  BY <1>5, <1>15 DEF Reactivate
<1>16. ASSUME NEW t \in Threads, MarkMissing(t) PROVE UndoInv'
  BY <1>2, <1>4, <1>16 DEF MarkMissing, Still
<1>17. ASSUME NEW t \in Threads, RecordTransition(t) PROVE UndoInv'
  <2>1. /\ moving' = [moving EXCEPT ![t] = Still]
        /\ \E x : history' = Append(history, x)
    BY <1>17 DEF RecordTransition
  <2>2. /\ Len(history') = Len(history) + 1
        /\ \A i \in 1..Len(history) : history'[i] = history[i]
    BY <1>1, <2>1
  <2>3. Len(history') \in Nat /\ Len(history) <= Len(history')
    BY <1>1, <2>2
  <2>4. MarksItsOwn(Still)'
    BY DEF MarksItsOwn, Still
  <2> QED
    BY <1>2, <2>1, <2>2, <2>3, <2>4, UndoGoesOn
<1>18. ASSUME NEW t \in Threads, MarkReversed(t) PROVE UndoInv'
  <2>1. PICK n : n = moving[t].undo
    OBVIOUS
  <2>2. /\ moving' = [moving EXCEPT ![t] = Still]
        /\ history' = [history EXCEPT ![n].undone = TRUE]
    BY <1>18, <2>1 DEF MarkReversed
  <2>3. \A i \in 1..Len(history) : history'[i].kind = history[i].kind
    <3>1. \A i \in 1..Len(history) : history[i] \in Transition
      BY TransitionType
    <3> QED
      BY <1>1, <2>2, <3>1 DEF Transition
  <2>4. Len(history') = Len(history)
    BY <1>1, <2>2
  <2>5. MarksItsOwn(Still)'
    BY DEF MarksItsOwn, Still
  <2> QED
    BY <1>1, <1>2, <2>2, <2>3, <2>4, <2>5, UndoGoesOn
<1> QED
  BY <1>3, <1>6, <1>7, <1>8, <1>9, <1>10, <1>12, <1>13, <1>14, <1>15, <1>16, <1>17, <1>18
     DEF ModelOpsNext, modelOpsVars

(* Each step keeps the three.                                              *)
LEMMA ModelOpsStep ==
    ASSUME OpsInv, ServingInv, UndoInv, [ModelOpsNext]_modelOpsVars
    PROVE  OpsInv' /\ ServingInv' /\ UndoInv'
<1>1. UndoInv'
  BY UndoStep
<1>2. CASE UNCHANGED modelOpsVars
  <2>1. OpsInv'
    BY <1>2 DEF modelOpsVars, OpsInv, MoveIsOfKind, TransitionIsOfKind
  <2>2. ASSUME NEW k \in Kinds PROVE LeavesAlone(k)
    <3>1. KeepsHistory(k) /\ KeepsVersions(k)
      BY <1>2, SameHistory DEF modelOpsVars, KeepsVersions
    <3>2. BusyWith(k)' = BusyWith(k) /\ \A t \in BusyWith(k) : moving'[t] = moving[t]
      BY <1>2 DEF modelOpsVars, BusyWith
    <3> QED
      BY <3>1, <3>2 DEF LeavesAlone
  <2>3. ASSUME NEW k \in Kinds \ opsOverlapped' PROVE KindInv(k)'
    BY <1>2, <2>2, <2>3, KindStays DEF modelOpsVars, ServingInv
  <2> QED
    BY <1>1, <2>1, <2>3 DEF ServingInv
<1>3. CASE ModelOpsNext
  BY <1>1, <1>3, RegisterOneStep, EvaluationReadStep, EvaluationWriteStep, PromoteReadStep,
     RollbackReadStep, RetireIncumbentStep, ActivateStep, RecordTransitionStep,
     StepDownStep, ReactivateStep, MarkReversedStep, MarkMissingStep DEF ModelOpsNext
<1> QED
  BY <1>1, <1>2, <1>3

(* They hold before anything is registered.                                *)
LEMMA ModelOpsBegin ==
    ASSUME ModelOpsInit
    PROVE  OpsInv /\ ServingInv /\ UndoInv
<1>1. /\ versions = [v \in Versions |-> [status |-> "absent", metrics |-> FALSE]]
      /\ history = <<>> /\ registered = {} /\ seeded = [k \in Kinds |-> NoVersion]
      /\ moving = [t \in Admins |-> Still]
  BY DEF ModelOpsInit
<1>2. [status |-> "absent", metrics |-> FALSE] \in VersionRecord
  BY DEF VersionRecord, Status
<1>3. Len(history) = 0 /\ history \in Seq(Transition) /\ 1..Len(history) = {}
  BY <1>1
<1>4. \A t \in Admins : moving[t] = Still /\ MoveIsOfKind(t) /\ MarksItsOwn(moving[t])
  BY <1>1 DEF MoveIsOfKind, MarksItsOwn, Still
<1>5. OpsInv
  BY <1>1, <1>2, <1>3, <1>4 DEF OpsInv, Moves
<1>6. ASSUME NEW k \in Kinds PROVE KindInv(k)
  <2>1. BusyWith(k) = {}
    BY <1>4 DEF BusyWith
  <2>2. Unreversed(k) = {} /\ TransitionsOf(k) = {}
    BY <1>3 DEF Unreversed, TransitionsOf
  <2>3. LeftBy(k, Unreversed(k)) = NoVersion
    BY <1>1, <2>2 DEF LeftBy
  <2>4. ActiveOf(k) = {}
    BY <1>1 DEF ActiveOf
  <2> QED
    BY <2>1, <2>2, <2>3, <2>4 DEF KindInv, Displaces, Serves, RetiredBut
<1> QED
  BY <1>4, <1>5, <1>6 DEF ServingInv, UndoInv
-----------------------------------------------------------------------------
(* What a thread of the webhook routes is in the middle of.  A delivery    *)
(* that goes on has attempts left, and its next one begins within as many  *)
(* of the longest waits and timeouts as it has made.                       *)
Making == {None} \cup [at : {"id"}, url : Urls, floor : Floors]
                 \cup [at : {"add"}, id : Nat \ {0}, url : Urls, floor : Floors]

GoesOnInTime(s) ==
    /\ s.report.delivery <= deliveries
    /\ s.at = "attempt" => /\ s.report.attempts < MaxAttempts
                           /\ s.waited + AttemptBound(s.report.attempts + 1)
                                 <= s.report.attempts * (MaxSeconds + Timeout)
    /\ s.at # "attempt" => s.report.attempts > 0 /\ s.report.outcome \in Outcomes

WebhooksInv ==
    /\ WebhooksTypeOK
    /\ making \in [Threads -> Making] /\ sending \in [Threads -> {None} \cup Sending]
    /\ \A t \in Threads : sending[t] # None => GoesOnInTime(sending[t])

(* The log and the set of deliveries it has seen: the log is a part of it. *)
LogInv ==
    /\ EachDeliveryCountedOnce
    /\ \A k \in DOMAIN log : log[k].delivery \in seen

LEMMA WebhookFacts ==
    /\ MaxAttempts \in Nat \ {0} /\ MaxRecords \in Nat \ {0} /\ MaxDeliveries \in Nat
    /\ MaxSeconds \in Nat /\ Timeout \in Nat /\ ReplayWindow \in Nat /\ Floors \subseteq Nat
BY WebhooksAssumption

(* A wait is a number up to the longest, whatever the policy makes of the  *)
(* attempts before.                                                        *)
LEMMA WaitIsBounded == \A n : AttemptBound(n) \in 0..MaxSeconds
BY WebhookFacts DEF AttemptBound

LEMMA OutcomeType ==
    ASSUME NEW u, NEW answer \in Answers, NEW reply \in Replies
    PROVE  Outcome(u, answer, reply) \in Outcomes
<1>1. Refusal(u, answer) \in {"malformed", "host_not_allowlisted", "unresolvable_host",
                              "forbidden_address", "ok"}
  BY DEF Refusal, Answers
<1> QED
  BY <1>1 DEF Outcome, Replies, Outcomes

(* The lowest id that is free: some id among one more than the targets is. *)
LEMMA NewIdType ==
    ASSUME targets \in Seq(Target)
    PROVE  NewId \in Nat \ {0}
<1> DEFINE n == Len(targets)
           free == {i \in 1..(n + 1) : i \notin IdsIn(targets)}
<1>1. n \in Nat /\ DOMAIN targets = 1..n
  BY LenProperties
<1>2. free # {}
  <2>1. Cardinality(1..(n + 1)) = n + 1 /\ Cardinality(1..n) = n
        /\ IsFiniteSet(1..(n + 1)) /\ IsFiniteSet(1..n)
    BY <1>1, FS_Interval
  <2>2. IsFiniteSet(IdsIn(targets)) /\ Cardinality(IdsIn(targets)) <= n
    <3> DEFINE f == [k \in 1..n |-> targets[k].id]
    <3>1. f \in Surjection(1..n, IdsIn(targets))
      BY <1>1 DEF IdsIn, Surjection
    <3> QED
      BY <2>1, <3>1, FS_Surjection
  <2>3. SUFFICES ASSUME 1..(n + 1) \subseteq IdsIn(targets) PROVE FALSE
    OBVIOUS
  <2>4. Cardinality(1..(n + 1)) <= Cardinality(IdsIn(targets))
    BY <2>2, <2>3, FS_Subset
  <2>5. Cardinality(IdsIn(targets)) \in Nat
    BY <2>2, FS_CardinalityType
  <2> QED
    BY <1>1, <2>1, <2>2, <2>4, <2>5
<1>3. free \in SUBSET Nat /\ IsFiniteSet(free)
  <2>1. IsFiniteSet(1..(n + 1)) /\ free \subseteq 1..(n + 1)
    BY <1>1, FS_Interval
  <2>2. 1..(n + 1) \subseteq Nat
    BY <1>1
  <2> HIDE DEF free
  <2> QED
    BY <2>1, <2>2, FS_Subset
<1>4. PICK i \in free : \A y \in free : i <= y
  <2> HIDE DEF free
  <2> QED
    BY <1>2, <1>3, MinOfSet
<1>5. i \in 1..(n + 1) /\ i \notin IdsIn(targets) /\ \A j \in 1..(i - 1) : j \in IdsIn(targets)
  <2>1. i \in 1..(n + 1) /\ i \notin IdsIn(targets)
    BY <1>4
  <2>2. ASSUME NEW j \in 1..(i - 1), j \notin IdsIn(targets) PROVE FALSE
    <3>1. j \in 1..(n + 1) /\ ~(i <= j)
      BY <1>1, <2>1, <2>2
    <3> QED
      BY <1>4, <2>2, <3>1
  <2> QED
    BY <2>1, <2>2
<1>6. NewId \in 1..(n + 1)
  <2> HIDE DEF n
  <2> QED
    BY <1>5 DEF NewId, n
<1> QED
  BY <1>1, <1>6

(* One more record: counted and put first unless the delivery was seen.    *)
LEMMA RecordStep ==
    ASSUME WebhooksTypeOK, LogInv, NEW report \in DeliveryRecord, report.delivery <= deliveries,
           RecordOf(report)
    PROVE  /\ log' \in Seq(DeliveryRecord) /\ Len(log') <= MaxRecords
           /\ seen' \subseteq 1..deliveries /\ recorded' \in Nat
           /\ LogInv'
<1> DEFINE d == report.delivery
           longer == <<report>> \o log
           n == IF Len(log) < MaxRecords THEN Len(log) + 1 ELSE MaxRecords
<1>1. /\ log \in Seq(DeliveryRecord) /\ Len(log) \in Nat /\ Len(log) <= MaxRecords
      /\ MaxRecords \in Nat \ {0} /\ deliveries \in Nat /\ d \in 1..deliveries
      /\ DOMAIN log = 1..Len(log) /\ recorded \in Nat
  BY WebhookFacts, LenProperties DEF WebhooksTypeOK, DeliveryRecord
<1>2. IsFiniteSet(seen) /\ seen \subseteq 1..deliveries /\ recorded = Cardinality(seen)
  <2>1. IsFiniteSet(1..deliveries)
    BY <1>1, FS_Interval
  <2> QED
    BY <2>1, FS_Subset DEF WebhooksTypeOK, LogInv, EachDeliveryCountedOnce
<1>3. seen' = seen \cup {d}
  BY DEF RecordOf
<1>4. CASE d \in seen
  <2>1. log' = log /\ recorded' = recorded /\ seen' = seen
    BY <1>3, <1>4 DEF RecordOf
  <2> QED
    BY <1>1, <1>2, <2>1 DEF LogInv, EachDeliveryCountedOnce
<1>5. CASE d \notin seen
  <2>1. longer \in Seq(DeliveryRecord) /\ Len(longer) = Len(log) + 1 /\ longer[1] = report
        /\ \A k \in 2..(Len(log) + 1) : longer[k] = log[k - 1]
    BY <1>1, ConcatProperties, LenProperties
  <2> HIDE DEF longer
  <2>2. log' = SubSeq(longer, 1, n) /\ recorded' = recorded + 1
    BY <1>5 DEF RecordOf, longer
  <2>3. n \in 1..(Len(log) + 1) /\ n <= MaxRecords
    BY <1>1
  <2> HIDE DEF n
  <2>4. log' \in Seq(DeliveryRecord) /\ Len(log') = n /\ \A k \in 1..n : log'[k] = longer[k]
    BY <1>1, <2>1, <2>2, <2>3, SubSeqProperties
  <2>5. Cardinality(seen') = recorded + 1
    BY <1>2, <1>3, <1>5, FS_AddElement
  <2>6. Len(log) = IF recorded < MaxRecords THEN recorded ELSE MaxRecords
    BY DEF LogInv, EachDeliveryCountedOnce
  <2>7. Len(log') = IF recorded' < MaxRecords THEN recorded' ELSE MaxRecords
    BY <1>1, <2>2, <2>4, <2>6 DEF n
  <2>8. DOMAIN log' = 1..n
    BY <2>4, LenProperties
  <2>9. \A k \in 1..n : log'[k] = IF k = 1 THEN report ELSE log[k - 1]
    <3> TAKE k \in 1..n
    <3>1. CASE k = 1
      BY <2>1, <2>4, <3>1
    <3>2. CASE k # 1
      <4>1. k \in 2..(Len(log) + 1)
        BY <1>1, <2>3, <3>2
      <4> QED
        BY <2>1, <2>4, <3>2, <4>1
    <3> QED
      BY <3>1, <3>2
  <2>10. \A k \in 1..n : k # 1 => k - 1 \in DOMAIN log
    BY <1>1, <2>3
  <2>11. \A k \in 1..n : log'[k].delivery \in seen'
    BY <1>3, <2>9, <2>10 DEF LogInv
  <2>12. ASSUME NEW j \in 1..n, NEW k \in 1..n, log'[j].delivery = log'[k].delivery
         PROVE  j = k
    <3>1. CASE j = 1 \/ k = 1
      BY <1>5, <2>9, <2>10, <2>12, <3>1 DEF LogInv
    <3>2. CASE j # 1 /\ k # 1
      <4>1. j - 1 = k - 1
        BY <2>9, <2>10, <2>12, <3>2 DEF LogInv, EachDeliveryCountedOnce
      <4> QED
        BY <2>3, <4>1
    <3> QED
      BY <3>1, <3>2
  <2>13. seen' \subseteq 1..deliveries /\ recorded' \in Nat
    <3>1. recorded' \in Nat
      BY <1>1, <2>2
    <3> HIDE DEF d
    <3> QED
      BY <1>1, <1>2, <1>3, <3>1
  <2>14. recorded' = Cardinality(seen')
    BY <2>2, <2>5
  <2>15. EachDeliveryCountedOnce'
    BY <2>7, <2>8, <2>12, <2>14 DEF EachDeliveryCountedOnce
  <2>16. LogInv'
    BY <2>8, <2>11, <2>15 DEF LogInv
  <2> QED
    BY <2>3, <2>4, <2>13, <2>16
<1> QED
  BY <1>4, <1>5

LEMMA WebhooksBegin == WebhooksInit => WebhooksInv /\ LogInv
<1> SUFFICES ASSUME WebhooksInit PROVE WebhooksInv /\ LogInv
  OBVIOUS
<1>1. WebhooksTypeOK
  BY WebhookFacts, LenProperties, EmptySeq DEF WebhooksInit, WebhooksTypeOK
<1>2. making \in [Threads -> Making] /\ sending \in [Threads -> {None} \cup Sending]
  BY DEF WebhooksInit, Making
<1>3. LogInv
  BY FS_EmptySet, WebhookFacts DEF WebhooksInit, LogInv, EachDeliveryCountedOnce
<1> QED
  BY <1>1, <1>2, <1>3 DEF WebhooksInv, WebhooksInit
-----------------------------------------------------------------------------
(* A step that registers or deletes a target.                              *)
LEMMA TargetsStep ==
    ASSUME WebhooksInv,
           \/ \E t \in Threads, u \in Urls, f \in Floors : CreateCheck(t, u, f)
           \/ \E t \in Threads : TakeId(t) \/ AddTarget(t)
           \/ \E i \in IdsIn(targets) : DeleteWebhook(i)
    PROVE  WebhooksInv' /\ UNCHANGED <<log, seen, recorded, deliveries>>
<1>1. UNCHANGED <<sending, log, seen, recorded, deliveries>>
  BY DEF CreateCheck, TakeId, AddTarget, DeleteWebhook
<1>2. targets' \in Seq(Target) /\ making' \in [Threads -> Making]
  <2> USE DEF WebhooksInv
  <2>1. targets \in Seq(Target) /\ making \in [Threads -> Making]
    BY DEF WebhooksTypeOK
  <2>2. ASSUME NEW t \in Threads, NEW u \in Urls, NEW f \in Floors, CreateCheck(t, u, f)
        PROVE  targets' \in Seq(Target) /\ making' \in [Threads -> Making]
    BY <2>1, <2>2 DEF CreateCheck, Making
  <2>3. ASSUME NEW t \in Threads, TakeId(t)
        PROVE  targets' \in Seq(Target) /\ making' \in [Threads -> Making]
    <3>1. making[t] \in Making /\ making[t].at = "id" /\ NewId \in Nat \ {0}
      BY <2>1, <2>3, NewIdType DEF TakeId
    <3>2. making[t] \in [at : {"id"}, url : Urls, floor : Floors]
      BY <3>1 DEF Making, None
    <3> DEFINE new == [at |-> "add", id |-> NewId, url |-> making[t].url, floor |-> making[t].floor]
    <3>3. new \in Making
      BY <3>1, <3>2 DEF Making
    <3>4. making' = [making EXCEPT ![t] = new] /\ targets' = targets
      BY <2>3 DEF TakeId
    <3> HIDE DEF new
    <3> QED
      BY <2>1, <3>3, <3>4
  <2>4. ASSUME NEW t \in Threads, AddTarget(t)
        PROVE  targets' \in Seq(Target) /\ making' \in [Threads -> Making]
    <3> DEFINE new == [id |-> making[t].id, url |-> making[t].url, floor |-> making[t].floor]
    <3>1. making[t] \in Making /\ making[t].at = "add"
      BY <2>1, <2>4 DEF AddTarget
    <3>2. new \in Target
      BY <3>1 DEF Making, None, Target
    <3>3. making' = [making EXCEPT ![t] = None]
      BY <2>4 DEF AddTarget
    <3>4. \/ targets' = Append(targets, new)
          \/ targets' = [k \in DOMAIN targets |-> IF targets[k].id = new.id THEN new ELSE targets[k]]
      BY <2>4 DEF AddTarget
    <3> HIDE DEF new
    <3>5. Append(targets, new) \in Seq(Target)
      BY <2>1, <3>2, AppendProperties
    <3>6. [k \in DOMAIN targets |-> IF targets[k].id = new.id THEN new ELSE targets[k]] \in Seq(Target)
      <4>1. Len(targets) \in Nat /\ DOMAIN targets = 1..Len(targets)
            /\ \A k \in 1..Len(targets) : targets[k] \in Target
        BY <2>1, LenProperties, ElementOfSeq
      <4> QED
        BY <3>2, <4>1, IsASeq
    <3> QED
      BY <2>1, <3>3, <3>4, <3>5, <3>6 DEF Making
  <2>5. ASSUME NEW i \in IdsIn(targets), DeleteWebhook(i)
        PROVE  targets' \in Seq(Target) /\ making' \in [Threads -> Making]
    <3>1. PICK k \in DOMAIN targets : targets' = RemoveAt(targets, k)
      BY <2>5 DEF DeleteWebhook
    <3>2. Len(targets) \in Nat /\ k \in 1..Len(targets)
      BY <2>1, LenProperties
    <3>3. SubSeq(targets, 1, k - 1) \in Seq(Target)
          /\ SubSeq(targets, k + 1, Len(targets)) \in Seq(Target)
      BY <2>1, <3>2, SubSeqProperties
    <3>4. targets' \in Seq(Target)
      BY <3>1, <3>3, ConcatProperties DEF RemoveAt
    <3> QED
      BY <2>1, <2>5, <3>4 DEF DeleteWebhook
  <2> QED
    BY <2>2, <2>3, <2>4, <2>5
<1>3. \A t \in Threads : making'[t] # None => making'[t].url \in Urls /\ making'[t].floor \in Floors
  BY <1>2 DEF Making
<1> QED
  BY <1>1, <1>2, <1>3 DEF WebhooksInv, WebhooksTypeOK, GoesOnInTime

(* A thread whose delivery is now `next`, the others' unchanged.           *)
LEMMA SendingSet ==
    ASSUME WebhooksInv, NEW t \in Threads, NEW next, sending' = [sending EXCEPT ![t] = next],
           next = None \/ (next \in Sending /\ GoesOnInTime(next)'),
           deliveries' \in deliveries..MaxDeliveries
    PROVE  /\ sending' \in [Threads -> {None} \cup Sending]
           /\ \A u \in Threads : sending'[u] # None => sending'[u] \in Sending
           /\ \A u \in Threads : sending'[u] # None => GoesOnInTime(sending[u])'
<1>1. sending \in [Threads -> {None} \cup Sending] /\ deliveries \in Nat
  BY DEF WebhooksInv, WebhooksTypeOK
<1>2. sending' \in [Threads -> {None} \cup Sending]
  BY <1>1
<1>3. ASSUME NEW u \in Threads, sending'[u] # None PROVE GoesOnInTime(sending[u])'
  <2>1. CASE u = t
    BY <1>1, <1>3, <2>1 DEF GoesOnInTime
  <2>2. CASE u # t
    <3>1. sending'[u] = sending[u] /\ sending[u] \in Sending /\ GoesOnInTime(sending[u])
      BY <1>1, <1>3, <2>2 DEF WebhooksInv
    <3>2. sending[u].report.delivery \in Nat
      BY <3>1, WebhookFacts DEF Sending
    <3>3. sending[u].report.delivery <= deliveries'
      BY <1>1, <3>1, <3>2 DEF GoesOnInTime
    <3> QED
      BY <3>1, <3>3 DEF GoesOnInTime
  <2> QED
    BY <2>1, <2>2
<1> QED
  BY <1>2, <1>3

(* A delivery that begins is the newest, with its attempts to come.        *)
LEMMA StartStep ==
    ASSUME WebhooksInv, LogInv, NEW t \in Threads, NEW k \in DOMAIN targets, NEW probe \in BOOLEAN,
           Start(t, targets[k], probe)
    PROVE  WebhooksInv' /\ LogInv'
<1>0. PICK next : next = [at |-> "attempt", probe |-> probe, url |-> targets[k].url, waited |-> 0,
                         report |-> [delivery |-> deliveries + 1, target |-> targets[k].id,
                                     attempts |-> 0, outcome |-> "none"]]
  OBVIOUS
<1>1. /\ deliveries \in 0..MaxDeliveries /\ deliveries < MaxDeliveries
      /\ deliveries' = deliveries + 1
      /\ sending' = [sending EXCEPT ![t] = next]
      /\ UNCHANGED <<targets, making, log, seen, recorded>>
  BY <1>0 DEF Start, WebhooksInv, WebhooksTypeOK
<1>2. targets[k] \in Target
  BY ElementOfSeq, LenProperties DEF WebhooksInv, WebhooksTypeOK
<1>3. deliveries + 1 \in 1..MaxDeliveries /\ deliveries' \in deliveries..MaxDeliveries
  BY <1>1, WebhookFacts
<1>4. next \in Sending
  BY <1>0, <1>2, <1>3, WebhookFacts DEF Sending, Target
<1>5. AttemptBound(0 + 1) = 0 /\ 0 * (MaxSeconds + Timeout) = 0 /\ 0 < MaxAttempts
  BY WebhookFacts DEF AttemptBound
<1>6. GoesOnInTime(next)'
  BY <1>0, <1>1, <1>3, <1>5, WebhookFacts DEF GoesOnInTime
<1>7. /\ sending' \in [Threads -> {None} \cup Sending]
      /\ \A u \in Threads : sending'[u] # None => sending'[u] \in Sending
      /\ \A u \in Threads : sending'[u] # None => GoesOnInTime(sending[u])'
  BY <1>1, <1>3, <1>4, <1>6, SendingSet
<1>8. seen \subseteq 1..deliveries' /\ deliveries' \in 0..MaxDeliveries
  BY <1>1, <1>3 DEF WebhooksInv, WebhooksTypeOK
<1> QED
  BY <1>1, <1>7, <1>8 DEF WebhooksInv, WebhooksTypeOK, LogInv, EachDeliveryCountedOnce

(* An attempt: of the attempts that are left, one; of the time, one wait   *)
(* and one timeout at the most.                                            *)
LEMMA AttemptStep ==
    ASSUME WebhooksInv, LogInv, NEW t \in Threads, NEW answer \in Answers, NEW reply \in Replies,
           Attempt(t, answer, reply)
    PROVE  WebhooksInv' /\ LogInv'
<1> DEFINE s == sending[t]
           a == s.report.attempts
           n == a + 1
           outcome == Outcome(s.url, answer, reply)
           at == IF Final(outcome, n, s.probe) THEN "report" ELSE "attempt"
           waited == s.waited + AttemptBound(n) + Timeout
<1>0. PICK next : next = [s EXCEPT !.at = at, !.waited = waited, !.report.attempts = n,
                                  !.report.outcome = outcome]
  OBVIOUS
<1>1. /\ s.at = "attempt" /\ sending' = [sending EXCEPT ![t] = next]
      /\ UNCHANGED <<targets, making, log, seen, recorded, deliveries>>
  BY <1>0 DEF Attempt
<1>2. s \in Sending /\ GoesOnInTime(s)
  BY <1>1 DEF WebhooksInv, None
<1>3. outcome \in Outcomes
  BY OutcomeType
<1>4. /\ a \in Nat /\ n \in 1..MaxAttempts /\ n \in Nat
      /\ s.waited \in Nat /\ s.waited + AttemptBound(n) <= a * (MaxSeconds + Timeout)
      /\ s.report.delivery <= deliveries
  BY <1>1, <1>2, WebhookFacts DEF GoesOnInTime, Sending
<1>5. AttemptBound(n) \in 0..MaxSeconds /\ AttemptBound(n + 1) \in 0..MaxSeconds
  BY WaitIsBounded
<1>6. waited \in Nat /\ waited + AttemptBound(n + 1) <= n * (MaxSeconds + Timeout)
  <2> DEFINE w == MaxSeconds + Timeout
             p == a * w
             q == n * w
             b == AttemptBound(n)
             c == AttemptBound(n + 1)
             e == s.waited
  <2>1. w \in Nat
    BY WebhookFacts
  <2>2. p \in Nat /\ q \in Nat /\ q = p + w
    <3> HIDE DEF w
    <3> QED
      BY <1>4, <2>1
  <2>3. b \in 0..MaxSeconds /\ c \in 0..MaxSeconds /\ e \in Nat /\ e + b <= p
    BY <1>4, <1>5
  <2>4. w = MaxSeconds + Timeout
    OBVIOUS
  <2> HIDE DEF p, q, w, b, c, e
  <2>5. e + b + Timeout \in Nat /\ e + b + Timeout + c <= q
    BY <2>1, <2>2, <2>3, <2>4, WebhookFacts
  <2> QED
    BY <2>5 DEF b, c, e, q, w
<1>7. at \in {"attempt", "report"} /\ (at = "attempt" => n # MaxAttempts)
  BY DEF Final
<1> HIDE DEF at, waited, outcome
<1>8. next \in Sending
  <2> DEFINE ReportSet == [delivery : 1..MaxDeliveries, target : Nat, attempts : 0..MaxAttempts,
                         outcome : Outcomes \cup {"none"}]
             report == [s.report EXCEPT !.attempts = n, !.outcome = outcome]
  <2>1. s.report \in ReportSet /\ s.probe \in BOOLEAN /\ s.url \in Urls
    BY <1>2 DEF Sending
  <2>2. n \in 0..MaxAttempts
    BY <1>4
  <2>3. report \in ReportSet
    BY <1>3, <2>1, <2>2
  <2>4. next = [at |-> at, probe |-> s.probe, url |-> s.url, waited |-> waited, report |-> report]
    BY <1>0, <1>2 DEF Sending
  <2>5. waited \in Nat /\ at \in {"attempt", "report", "route"}
    BY <1>6, <1>7
  <2> HIDE DEF report, n, s
  <2> QED
    BY <2>1, <2>3, <2>4, <2>5 DEF Sending
<1>9. /\ next.at = at /\ next.waited = waited /\ next.report.attempts = n
      /\ next.report.outcome = outcome /\ next.report.delivery = s.report.delivery
  BY <1>0, <1>2 DEF Sending
<1>10. at = "attempt" => n < MaxAttempts
  BY <1>4, <1>7, WebhookFacts
<1>11. GoesOnInTime(next)'
  <2> HIDE DEF n, s, a
  <2> QED
    BY <1>1, <1>3, <1>4, <1>6, <1>7, <1>9, <1>10 DEF GoesOnInTime
<1>12. deliveries' \in deliveries..MaxDeliveries
  BY <1>1, WebhookFacts DEF WebhooksInv, WebhooksTypeOK
<1>13. /\ sending' \in [Threads -> {None} \cup Sending]
       /\ \A u \in Threads : sending'[u] # None => sending'[u] \in Sending
       /\ \A u \in Threads : sending'[u] # None => GoesOnInTime(sending[u])'
  BY <1>1, <1>8, <1>11, <1>12, SendingSet
<1> QED
  BY <1>1, <1>13 DEF WebhooksInv, WebhooksTypeOK, LogInv, EachDeliveryCountedOnce

(* The report is recorded, by the sink and once more by the test route.    *)
LEMMA ReportsStep ==
    ASSUME WebhooksInv, LogInv, NEW t \in Threads, Report(t) \/ RouteRecords(t)
    PROVE  WebhooksInv' /\ LogInv'
<1> DEFINE s == sending[t]
<1>1. /\ s.at \in {"report", "route"} /\ RecordOf(s.report)
      /\ UNCHANGED <<targets, making, deliveries>>
  BY DEF Report, RouteRecords
<1>2. s \in Sending /\ GoesOnInTime(s)
  BY <1>1 DEF WebhooksInv, None
<1>3. s.report \in DeliveryRecord /\ s.report.delivery <= deliveries
  BY <1>1, <1>2, WebhookFacts DEF GoesOnInTime, Sending, DeliveryRecord
<1>4. /\ log' \in Seq(DeliveryRecord) /\ Len(log') <= MaxRecords
      /\ seen' \subseteq 1..deliveries /\ recorded' \in Nat
      /\ LogInv'
  BY <1>1, <1>3, RecordStep DEF WebhooksInv
<1>5. PICK next : /\ sending' = [sending EXCEPT ![t] = next]
                  /\ next = None \/ next = [s EXCEPT !.at = "route"]
  BY DEF Report, RouteRecords
<1>6. next = None \/ (next \in Sending /\ GoesOnInTime(next)')
  <2>1. CASE next = [s EXCEPT !.at = "route"]
    <3>1. next \in Sending /\ next.at = "route" /\ next.report = s.report
      BY <1>2, <2>1 DEF Sending
    <3>2. s.report.attempts > 0 /\ s.report.outcome \in Outcomes /\ s.report.delivery <= deliveries
      BY <1>1, <1>2 DEF GoesOnInTime
    <3> QED
      BY <1>1, <3>1, <3>2 DEF GoesOnInTime
  <2> QED
    BY <1>5, <2>1
<1>7. deliveries' \in deliveries..MaxDeliveries
  BY <1>1, WebhookFacts DEF WebhooksInv, WebhooksTypeOK
<1>8. /\ sending' \in [Threads -> {None} \cup Sending]
      /\ \A u \in Threads : sending'[u] # None => sending'[u] \in Sending
      /\ \A u \in Threads : sending'[u] # None => GoesOnInTime(sending[u])'
  BY <1>5, <1>6, <1>7, SendingSet
<1> QED
  BY <1>1, <1>4, <1>8 DEF WebhooksInv, WebhooksTypeOK

LEMMA WebhooksStep ==
    ASSUME WebhooksInv, LogInv, [WebhooksNext]_webhooksVars
    PROVE  WebhooksInv' /\ LogInv'
<1>1. CASE UNCHANGED webhooksVars
  BY <1>1 DEF webhooksVars, WebhooksInv, WebhooksTypeOK, GoesOnInTime, LogInv,
              EachDeliveryCountedOnce
<1>2. CASE WebhooksInv' /\ UNCHANGED <<log, seen, recorded, deliveries>>
  BY <1>2 DEF LogInv, EachDeliveryCountedOnce
<1>3. ASSUME NEW t \in Threads, NEW k \in DOMAIN targets, NEW severity \in Floors,
             TestWebhook(t, k) \/ DeliverCase(t, k, severity)
      PROVE  WebhooksInv' /\ LogInv'
  BY <1>3, StartStep DEF TestWebhook, DeliverCase
<1>4. ASSUME NEW t \in Threads, NEW k \in DOMAIN targets, TestWebhook(t, k)
      PROVE  WebhooksInv' /\ LogInv'
  BY <1>4, StartStep DEF TestWebhook
<1> QED
  BY <1>1, <1>2, <1>3, <1>4, TargetsStep, AttemptStep, ReportsStep DEF WebhooksNext

(* With the attempts the policy has, the longest waits and timeouts of all *)
(* but the last fit the window: every attempt begins inside it.            *)
LEMMA AttemptsFit ==
    ASSUME WebhooksInv, (MaxAttempts - 1) * (MaxSeconds + Timeout) <= ReplayWindow
    PROVE  RetriesStillVerify
<1> SUFFICES ASSUME NEW t \in Threads, sending[t] # None, sending[t].at = "attempt"
             PROVE  sending[t].waited + AttemptBound(sending[t].report.attempts + 1) <= ReplayWindow
  BY DEF RetriesStillVerify
<1> DEFINE a == sending[t].report.attempts
           w == MaxSeconds + Timeout
           p == a * w
           q == (MaxAttempts - 1) * w
           b == AttemptBound(a + 1)
           e == sending[t].waited
<1>1. /\ a \in Nat /\ a < MaxAttempts /\ e \in Nat /\ e + b <= p
  BY DEF WebhooksInv, GoesOnInTime, Sending
<1>2. w \in Nat /\ b \in 0..MaxSeconds
  BY WebhookFacts, WaitIsBounded
<1>3. p <= q /\ p \in Nat /\ q \in Nat
  <2>1. PICK r \in Nat : MaxAttempts - 1 = a + r
    <3>1. MaxAttempts - 1 - a \in Nat /\ MaxAttempts - 1 = a + (MaxAttempts - 1 - a)
      BY <1>1, WebhookFacts
    <3> QED
      BY <3>1
  <2> HIDE DEF w, a
  <2>2. (a + r) * w = a * w + r * w /\ r * w \in Nat /\ a * w \in Nat
    BY <1>1, <1>2, <2>1
  <2> QED
    BY <2>1, <2>2
<1> HIDE DEF p, q, b, e
<1>4. q <= ReplayWindow
  BY DEF q
<1>5. e + b <= ReplayWindow
  BY <1>1, <1>2, <1>3, <1>4, WebhookFacts
<1> QED
  BY <1>5 DEF e, b
-----------------------------------------------------------------------------
(* The order a query walks in.                                             *)
Ahead(i, k, q) == IF q.desc THEN Before(Key(k), Key(i)) ELSE Before(Key(i), Key(k))

InOrder(s, q) == \A m, n \in DOMAIN s : m < n => Ahead(s[m], s[n], q)
Holds(s, i) == \E n \in DOMAIN s : s[n] = i

Walk == [query : Queries, cursor : {<<>>} \cup ((0..MaxTime) \X Ids), seen : Seq(Ids), over : BOOLEAN]

DeskInv ==
    /\ AlertDeskTypeOK
    /\ walk = NoWalk => fetched = <<>>
    /\ walk # NoWalk => walk \in Walk

(* A page fetched: in order, after the cursor, and of the rows after the   *)
(* cursor the first ones, up to one over the limit.                        *)
Leads(f, q, cursor) ==
    /\ InOrder(f, q) /\ Len(f) <= PageLimit + 1
    /\ \A n \in DOMAIN f : AfterCursor(f[n], q, cursor)
    /\ \A i \in steady : AfterCursor(i, q, cursor) =>
           Holds(f, i) \/ (Len(f) = PageLimit + 1 /\ Ahead(f[PageLimit + 1], i, q))

(* What a walk still has to show is after its cursor, at the last row shown. *)
WalkInv ==
    walk # NoWalk =>
        /\ InOrder(walk.seen, walk.query)
        /\ walk.over => fetched = <<>>
        /\ ~walk.over => IF walk.seen = <<>> THEN walk.cursor = <<>>
                         ELSE walk.cursor = Key(walk.seen[Len(walk.seen)])
        /\ \A i \in steady : /\ Matches(i, walk.query)
                             /\ Holds(walk.seen, i)
                                \/ (~walk.over /\ AfterCursor(i, walk.query, walk.cursor))
        /\ fetched # <<>> => Leads(fetched, walk.query, walk.cursor)

LEMMA DeskFacts ==
    /\ CaseBands \subseteq Nat /\ PageLimit \in Nat \ {0} /\ MaxTime \in Nat
    /\ \A q \in Queries : q.bands \subseteq CaseBands
BY AlertDeskAssumption

LEMMA RowType ==
    ASSUME DeskInv, NEW i \in Ids
    PROVE  /\ rows[i] \in Row /\ i \in Nat /\ rows[i].at \in 0..MaxTime /\ rows[i].at \in Nat
           /\ Key(i) = <<rows[i].at, i>> /\ Key(i)[1] = rows[i].at /\ Key(i)[2] = i
           /\ Key(i) \in (0..MaxTime) \X Ids /\ Key(i) # <<>>
<1>1. rows \in Seq(Row) /\ DOMAIN rows = 1..Len(rows) /\ Len(rows) \in Nat
  BY LenProperties DEF DeskInv, AlertDeskTypeOK
<1>2. rows[i] \in Row /\ i \in Nat
  BY <1>1, ElementOfSeq DEF Ids
<1> QED
  BY <1>2, DeskFacts DEF Row, Key

(* It is a strict total order.                                             *)
LEMMA OrderOfRows ==
    ASSUME DeskInv, NEW q
    PROVE  /\ \A i, j, k \in Ids : Ahead(i, j, q) /\ Ahead(j, k, q) => Ahead(i, k, q)
           /\ \A i \in Ids : ~Ahead(i, i, q)
           /\ \A i, k \in Ids : i # k => Ahead(i, k, q) \/ Ahead(k, i, q)
<1>1. \A i \in Ids : i \in Nat /\ rows[i].at \in Nat /\ Key(i)[1] = rows[i].at /\ Key(i)[2] = i
  BY RowType
<1> QED
  BY <1>1 DEF Ahead, Before

LEMMA AfterIsAhead ==
    ASSUME NEW q, NEW i, NEW k, Key(k) # <<>>
    PROVE  AfterCursor(i, q, Key(k)) <=> Ahead(k, i, q)
BY DEF AfterCursor, Ahead

(* The page InMemoryAlertStore.fetch returns, of at most one over the limit. *)
LEMMA FetchLeads ==
    ASSUME DeskInv, WalkInv, walk # NoWalk, ~walk.over
    PROVE  LET f == Fetch(walk.query, walk.cursor) IN
           f \in Seq(Ids) /\ Leads(f, walk.query, walk.cursor)
<1> DEFINE q == walk.query
           c == walk.cursor
           found == {i \in Ids : Matches(i, q) /\ AfterCursor(i, q, c)}
           R == {p \in found \X found : Ahead(p[1], p[2], q)}
           rank == [i \in found |-> Cardinality({j \in found : <<j, i>> \in R})]
           First(n) == {i \in found : Cardinality({j \in found :
                            IF q.desc THEN Before(Key(i), Key(j)) ELSE Before(Key(j), Key(i))}) = n - 1}
           many == IF Cardinality(found) > PageLimit THEN PageLimit + 1 ELSE Cardinality(found)
           f == Fetch(q, c)
<1>1. f = [n \in 1..many |-> CHOOSE i \in First(n) : TRUE]
  BY DEF Fetch
<1>2. IsFiniteSet(found) /\ found \subseteq Ids
  <2>1. Ids = 1..Len(rows) /\ Len(rows) \in Nat
    BY LenProperties DEF DeskInv, AlertDeskTypeOK, Ids
  <2>2. IsFiniteSet(Ids)
    BY <2>1, FS_Interval
  <2> QED
    BY <2>2, FS_Subset
<1>3. \A i, j \in found : <<j, i>> \in R <=> Ahead(j, i, q)
  OBVIOUS
<1>4. \A n : First(n) = {i \in found : rank[i] = n - 1}
  <2>1. \A i \in found : {j \in found : <<j, i>> \in R} = {j \in found :
                            IF q.desc THEN Before(Key(i), Key(j)) ELSE Before(Key(j), Key(i))}
    BY <1>3 DEF Ahead
  <2> HIDE DEF R, found
  <2> QED
    BY <2>1
<1> HIDE DEF R, First
<1>5. /\ \A x, y, z \in found : <<x, y>> \in R /\ <<y, z>> \in R => <<x, z>> \in R
      /\ \A x \in found : <<x, x>> \notin R
      /\ \A x, y \in found : x # y => <<x, y>> \in R \/ <<y, x>> \in R
  <2> HIDE DEF found
  <2>1. \A x \in found : x \in Ids
    BY <1>2
  <2> QED
    BY <1>3, <2>1, OrderOfRows
<1> DEFINE card == Cardinality(found)
<1>6. /\ card \in Nat
      /\ \A x \in found : rank[x] \in 0..(card - 1)
      /\ \A x, y \in found : rank[x] < rank[y] <=> <<x, y>> \in R
      /\ \A n \in 1..card : \E x \in found : rank[x] = n - 1
  <2> HIDE DEF found, R
  <2> QED
    BY <1>2, <1>5, Ranks
<1> HIDE DEF rank, card, f
<1>7. many \in Nat /\ many <= card /\ many <= PageLimit + 1 /\ (many < card => many = PageLimit + 1)
  BY <1>6, DeskFacts DEF card
<1> HIDE DEF many
<1>8. ASSUME NEW n \in 1..many PROVE f[n] \in found /\ rank[f[n]] = n - 1
  <2>1. First(n) # {}
    <3>1. n \in 1..card
      BY <1>6, <1>7
    <3> QED
      BY <1>4, <1>6, <3>1
  <2>2. f[n] \in First(n)
    BY <1>1, <2>1
  <2> QED
    BY <1>4, <2>2
<1>9. f \in Seq(Ids) /\ Len(f) = many /\ DOMAIN f = 1..many
  <2>1. \A n \in 1..many : f[n] \in Ids
    BY <1>2, <1>8
  <2> HIDE DEF found
  <2>2. f = [n \in 1..many |-> f[n]]
    BY <1>1
  <2>3. f \in Seq(Ids)
    BY <1>7, <2>1, <2>2, IsASeq
  <2>4. DOMAIN f = 1..many
    BY <1>1
  <2> QED
    BY <1>7, <2>3, <2>4, LenProperties
<1>10. InOrder(f, q)
  <2> SUFFICES ASSUME NEW m \in 1..many, NEW n \in 1..many, m < n PROVE Ahead(f[m], f[n], q)
    BY <1>9 DEF InOrder
  <2>1. rank[f[m]] < rank[f[n]]
    BY <1>7, <1>8
  <2> HIDE DEF found
  <2> QED
    BY <1>3, <1>6, <1>8, <2>1
<1>11. \A n \in DOMAIN f : AfterCursor(f[n], q, c)
  BY <1>8, <1>9
<1>12. ASSUME NEW i \in steady, AfterCursor(i, q, c)
       PROVE  Holds(f, i) \/ (Len(f) = PageLimit + 1 /\ Ahead(f[PageLimit + 1], i, q))
  <2>1. i \in found
    BY <1>12 DEF DeskInv, AlertDeskTypeOK, WalkInv
  <2>2. rank[i] \in 0..(card - 1) /\ rank[i] + 1 \in 1..card
    <3> HIDE DEF found
    <3> QED
      BY <1>6, <2>1
  <2>3. CASE rank[i] + 1 \in 1..many
    <3>1. PICK n \in 1..many : n = rank[i] + 1
      BY <2>3
    <3>2. f[n] \in found /\ rank[f[n]] = n - 1
      BY <1>8
    <3>3. n - 1 = rank[i] /\ ~(rank[i] < rank[i])
      BY <1>6, <2>2, <3>1
    <3>4. f[n] = i
      <4> HIDE DEF found
      <4> QED
        BY <1>5, <1>6, <2>1, <3>2, <3>3
    <3> QED
      BY <1>9, <3>4 DEF Holds
  <2>4. CASE rank[i] + 1 \notin 1..many
    <3>1. many = PageLimit + 1 /\ many - 1 < rank[i] /\ many \in 1..many
      BY <1>6, <1>7, <2>2, <2>4, DeskFacts
    <3>2. rank[f[many]] < rank[i] /\ f[many] \in found
      BY <1>8, <3>1
    <3>3. Ahead(f[many], i, q)
      <4> HIDE DEF found
      <4> QED
        BY <1>3, <1>6, <2>1, <3>2
    <3> QED
      BY <1>9, <3>1, <3>3
  <2> QED
    BY <2>3, <2>4
<1> HIDE DEF q, c
<1>13. Leads(f, q, c)
  BY <1>7, <1>9, <1>10, <1>11, <1>12 DEF Leads
<1> QED
  BY <1>9, <1>13 DEF f, q, c

(* Rows keep their identity and their time: an order between two holds on. *)
LEMMA OrderGoesOn ==
    ASSUME DeskInv, Ids \subseteq Ids', \A i \in Ids : rows'[i].at = rows[i].at
    PROVE  /\ \A i \in Ids : Key(i)' = Key(i)
           /\ \A i, k \in Ids : \A q : Ahead(i, k, q)' <=> Ahead(i, k, q)
           /\ \A i \in Ids : \A q, c : AfterCursor(i, q, c)' <=> AfterCursor(i, q, c)
<1>1. \A i \in Ids : Key(i)' = Key(i)
  BY DEF Key
<1>2. \A i, k \in Ids : \A q : Ahead(i, k, q)' <=> Ahead(i, k, q)
  BY <1>1 DEF Ahead, Before
<1>3. \A i \in Ids : \A q, c : AfterCursor(i, q, c)' <=> AfterCursor(i, q, c)
  BY <1>1 DEF AfterCursor, Before
<1> QED
  BY <1>1, <1>2, <1>3

LEMMA WrittenStep ==
    ASSUME DeskInv, WalkInv, NEW c \in Cases, NEW b \in CaseBands, WriteCase(c, b)
    PROVE  DeskInv' /\ WalkInv'
<1> DEFINE new == [case |-> c, at |-> instant, severity |-> b]
<1>1. /\ rows \in Seq(Row) /\ Ids = 1..Len(rows) /\ Len(rows) \in Nat /\ new \in Row
      /\ \A i, j \in Ids : rows[i].case = rows[j].case => i = j
      /\ \A i \in Ids : rows[i] \in Row
  <2>1. rows \in Seq(Row) /\ instant \in 0..MaxTime
        /\ \A i, j \in Ids : rows[i].case = rows[j].case => i = j
    BY DEF DeskInv, AlertDeskTypeOK
  <2>2. new \in Row
    BY <2>1 DEF Row
  <2>3. Ids = 1..Len(rows) /\ Len(rows) \in Nat /\ \A i \in 1..Len(rows) : rows[i] \in Row
    BY <2>1, LenProperties, ElementOfSeq DEF Ids
  <2> QED
    BY <2>1, <2>2, <2>3
<1>2. UNCHANGED <<instant, walk, fetched>> /\ SaveRow(c, b)
  BY DEF WriteCase
<1>3. /\ rows' \in Seq(Row) /\ Ids \subseteq Ids'
      /\ \A i \in Ids : rows'[i].at = rows[i].at /\ rows'[i].case = rows[i].case
      /\ \A i \in Ids : rows'[i].severity = IF i \in RowOf(c) THEN b ELSE rows[i].severity
      /\ \A i, j \in Ids' : rows'[i].case = rows'[j].case => i = j
  <2>1. CASE RowOf(c) = {}
    <3> HIDE DEF new
    <3>1. rows' = Append(rows, new)
      BY <1>2, <2>1 DEF SaveRow, new
    <3>2. rows' \in Seq(Row) /\ Len(rows') = Len(rows) + 1 /\ rows'[Len(rows) + 1] = new
          /\ \A i \in 1..Len(rows) : rows'[i] = rows[i]
      BY <1>1, <3>1, AppendProperties
    <3>3. Ids' = 1..(Len(rows) + 1)
      BY <3>2, LenProperties DEF Ids
    <3>4. \A i \in Ids : rows[i].case # c
      BY <2>1 DEF RowOf
    <3>5. \A i, j \in Ids' : rows'[i].case = rows'[j].case => i = j
      <4> TAKE i, j \in Ids'
      <4>1. i \in Ids \/ i = Len(rows) + 1
        BY <1>1, <3>3
      <4>2. j \in Ids \/ j = Len(rows) + 1
        BY <1>1, <3>3
      <4>3. new.case = c
        BY DEF new
      <4> QED
        BY <1>1, <3>2, <3>4, <4>1, <4>2, <4>3
    <3> QED
      BY <1>1, <2>1, <3>2, <3>3, <3>5
  <2>2. CASE RowOf(c) # {}
    <3> DEFINE s == [i \in Ids |-> IF i \in RowOf(c) THEN [rows[i] EXCEPT !.severity = b]
                                   ELSE rows[i]]
    <3>1. rows' = s
      BY <1>2, <2>2 DEF SaveRow
    <3>2. \A i \in Ids : /\ s[i] \in Row /\ s[i].at = rows[i].at /\ s[i].case = rows[i].case
                         /\ s[i].severity = IF i \in RowOf(c) THEN b ELSE rows[i].severity
      BY <1>1 DEF Row
    <3>3. s \in Seq(Row)
      BY <1>1, <3>2, IsASeq
    <3>4. Ids' = Ids
      BY <3>1 DEF Ids
    <3> HIDE DEF s
    <3> QED
      BY <1>1, <3>1, <3>2, <3>3, <3>4
  <2> QED
    BY <2>1, <2>2
<1>4. steady' = {i \in steady : i \in RowOf(c) => b \in walk.query.bands}
  BY DEF WriteCase
<1>5. DeskInv'
  <2>1. \A S : S \in Seq(Ids) => S \in Seq(Ids')
    <3> TAKE S
    <3> HAVE S \in Seq(Ids)
    <3>1. S = [n \in 1..Len(S) |-> S[n]] /\ Len(S) \in Nat /\ \A n \in 1..Len(S) : S[n] \in Ids
      BY LenProperties, ElementOfSeq
    <3>2. \A n \in 1..Len(S) : S[n] \in Ids'
      BY <1>3, <3>1
    <3> QED
      BY <3>1, <3>2, IsASeq
  <2>2. walk # NoWalk => walk \in Walk'
    BY <1>3, <2>1 DEF DeskInv, Walk
  <2>3. AlertDeskTypeOK'
    BY <1>2, <1>3, <1>4, <2>1 DEF DeskInv, AlertDeskTypeOK
  <2> QED
    BY <1>2, <2>2, <2>3 DEF DeskInv
<1>6. ASSUME walk # NoWalk PROVE WalkInv'
  <2> DEFINE q == walk.query
  <2>1. /\ walk.seen \in Seq(Ids) /\ fetched \in Seq(Ids) /\ steady \subseteq Ids
        /\ \A n \in DOMAIN walk.seen : walk.seen[n] \in Ids
        /\ \A n \in DOMAIN fetched : fetched[n] \in Ids
    BY <1>6, ElementOfSeq, LenProperties DEF DeskInv, AlertDeskTypeOK, Walk
  <2>2. /\ \A i \in Ids : Key(i)' = Key(i)
        /\ \A i, k \in Ids : \A r : Ahead(i, k, r)' <=> Ahead(i, k, r)
        /\ \A i \in Ids : \A r, d : AfterCursor(i, r, d)' <=> AfterCursor(i, r, d)
    BY <1>3, OrderGoesOn
  <2>3. ASSUME NEW i \in steady' PROVE Matches(i, q)'
    <3>1. i \in steady /\ Matches(i, q) /\ (i \in RowOf(c) => b \in q.bands)
      BY <1>4, <1>6 DEF WalkInv
    <3> QED
      BY <1>2, <1>3, <2>1, <3>1 DEF Matches
  <2>4. InOrder(walk.seen, q)'
    BY <1>2, <1>6, <2>1, <2>2 DEF InOrder, WalkInv
  <2>5. ~walk.over => IF walk.seen = <<>> THEN walk.cursor = <<>>
                      ELSE walk.cursor = Key(walk.seen[Len(walk.seen)])'
    <3>1. walk.seen # <<>> => Len(walk.seen) \in DOMAIN walk.seen
      BY <2>1, EmptySeq, LenProperties
    <3>2. walk.seen # <<>> => Key(walk.seen[Len(walk.seen)])' = Key(walk.seen[Len(walk.seen)])
      BY <1>2, <2>1, <2>2, <3>1
    <3> QED
      BY <1>6, <3>2 DEF WalkInv
  <2>6. ASSUME fetched # <<>> PROVE Leads(fetched, q, walk.cursor)'
    <3>1. Leads(fetched, q, walk.cursor)
      BY <1>6, <2>6 DEF WalkInv
    <3>2. Len(fetched) = PageLimit + 1 => PageLimit + 1 \in DOMAIN fetched
      BY <2>1, LenProperties, DeskFacts
    <3>3. ASSUME NEW i \in steady', AfterCursor(i, q, walk.cursor)'
          PROVE  Holds(fetched, i)'
                 \/ (Len(fetched) = PageLimit + 1 /\ Ahead(fetched[PageLimit + 1], i, q))'
      <4>1. i \in steady /\ i \in Ids
        BY <1>4, <2>1
      <4>2. AfterCursor(i, q, walk.cursor)
        BY <1>2, <2>2, <3>3, <4>1
      <4> QED
        BY <1>2, <2>1, <2>2, <3>1, <3>2, <4>1, <4>2 DEF Leads, Holds
    <3> QED
      BY <1>2, <2>1, <2>2, <3>1, <3>3 DEF Leads, InOrder
  <2>7. \A i \in steady' : Holds(walk.seen, i)'
                           \/ (~walk.over /\ AfterCursor(i, q, walk.cursor))'
    <3> TAKE i \in steady'
    <3>1. i \in steady /\ i \in Ids
      BY <1>4, <2>1
    <3> QED
      BY <1>2, <1>6, <2>2, <3>1 DEF WalkInv, Holds
  <2> QED
    BY <1>2, <1>6, <2>3, <2>4, <2>5, <2>6, <2>7 DEF WalkInv
<1> QED
  BY <1>2, <1>5, <1>6 DEF WalkInv

(* A walk begins before the first row, and owes every row that matches.    *)
LEMMA WalkBegins ==
    ASSUME DeskInv, WalkInv, NEW q \in Queries, StartWalk(q)
    PROVE  DeskInv' /\ WalkInv'
<1> DEFINE w == [query |-> q, cursor |-> <<>>, seen |-> <<>>, over |-> FALSE]
<1>1. /\ walk' = w /\ fetched = <<>> /\ steady' = {i \in Ids : Matches(i, q)}
      /\ UNCHANGED <<rows, instant, fetched>>
  BY DEF StartWalk, DeskInv
<1>2. w \in Walk /\ w # NoWalk
  BY EmptySeq DEF Walk, NoWalk
<1>3. DeskInv'
  BY <1>1, <1>2 DEF DeskInv, AlertDeskTypeOK, Ids, Row, Walk
<1>4. InOrder(<<>>, q)' /\ \A i \in steady' : Matches(i, q)' /\ AfterCursor(i, q, <<>>)'
  BY <1>1, EmptySeq DEF InOrder, AfterCursor, Matches
<1> QED
  BY <1>1, <1>3, <1>4 DEF WalkInv

(* A page is fetched; a walk whose page is empty is over.                  *)
LEMMA PageFetched ==
    ASSUME DeskInv, WalkInv, FetchPage
    PROVE  DeskInv' /\ WalkInv'
<1>0. PICK q, c, f, sofar : q = walk.query /\ c = walk.cursor /\ f = Fetch(q, c) /\ sofar = walk.seen
  OBVIOUS
<1>1. /\ walk # NoWalk /\ ~walk.over /\ fetched = <<>> /\ fetched' = f
      /\ walk' = [walk EXCEPT !.over = (f = <<>>)]
      /\ UNCHANGED <<rows, instant, steady>>
  BY <1>0 DEF FetchPage
<1>2. f \in Seq(Ids) /\ Leads(f, q, c)
  BY <1>0, <1>1, FetchLeads
<1>3. walk \in Walk
  BY <1>1 DEF DeskInv
<1>4. /\ walk' \in Walk /\ walk'.query = q /\ walk'.cursor = c /\ walk'.seen = sofar
      /\ walk'.over = (f = <<>>) /\ walk' # NoWalk
  BY <1>0, <1>1, <1>3 DEF Walk, NoWalk
<1>5. Ids' = Ids /\ Walk' = Walk
  BY <1>1 DEF Ids, Walk
<1>6. DeskInv'
  BY <1>1, <1>2, <1>4, <1>5 DEF DeskInv, AlertDeskTypeOK, Walk
<1>7. /\ InOrder(sofar, q)
      /\ IF sofar = <<>> THEN c = <<>> ELSE c = Key(sofar[Len(sofar)])
      /\ \A i \in steady : Matches(i, q) /\ (Holds(sofar, i) \/ AfterCursor(i, q, c))
  BY <1>0, <1>1 DEF WalkInv
<1>8. \A i, k : /\ Key(i)' = Key(i) /\ Ahead(i, k, q)' = Ahead(i, k, q)
                /\ AfterCursor(i, q, c)' = AfterCursor(i, q, c) /\ Matches(i, q)' = Matches(i, q)
  BY <1>1 DEF Key, Ahead, Before, AfterCursor, Matches
<1>9. Leads(f, q, c)'
  BY <1>1, <1>2, <1>8 DEF Leads, InOrder, Holds
<1>10. InOrder(sofar, q)'
  BY <1>7, <1>8 DEF InOrder
<1>11. /\ IF sofar = <<>> THEN c = <<>> ELSE c = Key(sofar[Len(sofar)])'
       /\ \A i \in steady' : Matches(i, q)' /\ (Holds(sofar, i)' \/ AfterCursor(i, q, c)')
  BY <1>1, <1>7, <1>8 DEF Holds
<1>12. f = <<>> => \A i \in steady' : Holds(sofar, i)'
  <2> SUFFICES ASSUME f = <<>>, NEW i \in steady PROVE Holds(sofar, i)
    BY <1>1 DEF Holds
  <2>1. ~Holds(f, i) /\ Len(f) # PageLimit + 1
    BY EmptySeq, DeskFacts DEF Holds
  <2> QED
    BY <1>2, <1>7, <2>1 DEF Leads
<1> QED
  BY <1>1, <1>4, <1>6, <1>9, <1>10, <1>11, <1>12 DEF WalkInv

(* Rows that stay as they are keep what is said of them.                   *)
LEMMA SameRows ==
    ASSUME UNCHANGED rows
    PROVE  /\ Ids' = Ids /\ \A i : Key(i)' = Key(i)
           /\ \A i, k, q : Ahead(i, k, q)' = Ahead(i, k, q)
           /\ \A i, q, c : AfterCursor(i, q, c)' = AfterCursor(i, q, c)
           /\ \A i, q : Matches(i, q)' = Matches(i, q)
BY DEF Ids, Key, Ahead, Before, AfterCursor, Matches

(* The page is shown: the walk goes on after its last row, or is over.     *)
LEMMA PageShown ==
    ASSUME DeskInv, WalkInv, Paginate
    PROVE  DeskInv' /\ WalkInv'
<1>0. PICK q, c, f, sofar : q = walk.query /\ c = walk.cursor /\ f = fetched /\ sofar = walk.seen
  OBVIOUS
<1> DEFINE more == Len(f) > PageLimit
           n == IF more THEN PageLimit ELSE Len(f)
<1>1. PICK page : page = SubSeq(f, 1, n)
  OBVIOUS
<1>2. PICK next : next = IF more THEN Key(page[Len(page)]) ELSE <<>>
  OBVIOUS
<1>3. PICK shown : shown = sofar \o page
  OBVIOUS
<1>4. /\ fetched # <<>> /\ fetched' = <<>> /\ UNCHANGED <<rows, instant, steady>>
      /\ walk' = [walk EXCEPT !.seen = shown, !.over = ~more, !.cursor = next]
  BY <1>0, <1>1, <1>2, <1>3 DEF Paginate
<1>5. walk # NoWalk /\ walk \in Walk /\ ~walk.over
  BY <1>4 DEF DeskInv, WalkInv
<1>6. /\ Leads(f, q, c) /\ InOrder(sofar, q)
      /\ IF sofar = <<>> THEN c = <<>> ELSE c = Key(sofar[Len(sofar)])
      /\ \A i \in steady : Matches(i, q) /\ (Holds(sofar, i) \/ AfterCursor(i, q, c))
      /\ f \in Seq(Ids) /\ sofar \in Seq(Ids) /\ f # <<>> /\ steady \subseteq Ids
  BY <1>0, <1>4, <1>5 DEF DeskInv, AlertDeskTypeOK, Walk, WalkInv
<1>7. Len(f) \in Nat \ {0} /\ DOMAIN f = 1..Len(f) /\ \A k \in 1..Len(f) : f[k] \in Ids
  BY <1>6, EmptySeq, LenProperties, ElementOfSeq
<1>8. Len(sofar) \in Nat /\ DOMAIN sofar = 1..Len(sofar) /\ \A k \in 1..Len(sofar) : sofar[k] \in Ids
  BY <1>6, LenProperties, ElementOfSeq
<1>9. /\ n \in 1..Len(f) /\ n \in Nat /\ (more => n = PageLimit /\ n < Len(f))
      /\ (~more => n = Len(f))
  <2>1. PageLimit \in Nat /\ PageLimit >= 1 /\ Len(f) \in Nat /\ Len(f) >= 1
    BY <1>7, DeskFacts
  <2>2. CASE Len(f) > PageLimit
    <3>1. more /\ n = PageLimit
      BY <2>2
    <3> HIDE DEF more, n
    <3> QED
      BY <2>1, <2>2, <3>1
  <2>3. CASE ~(Len(f) > PageLimit)
    <3>1. ~more /\ n = Len(f)
      BY <2>3
    <3> HIDE DEF more, n
    <3> QED
      BY <2>1, <2>3, <3>1
  <2> QED
    BY <2>2, <2>3
<1>10. Len(f) <= PageLimit + 1 /\ (more => Len(f) = PageLimit + 1)
  <2>1. PageLimit \in Nat /\ Len(f) \in Nat /\ Len(f) <= PageLimit + 1
    BY <1>6, <1>7, DeskFacts DEF Leads
  <2>2. CASE Len(f) > PageLimit
    BY <2>1, <2>2
  <2> QED
    BY <2>1, <2>2
<1> HIDE DEF more, n
<1>11. page \in Seq(Ids) /\ Len(page) = n /\ DOMAIN page = 1..n /\ \A k \in 1..n : page[k] = f[k]
  <2>1. \A k \in 1..n : f[k] \in Ids
    <3>1. 1..n \subseteq 1..Len(f)
      <4>1. n \in 1..Len(f) /\ n \in Nat /\ Len(f) \in Nat
        BY <1>7, <1>9
      <4> QED
        BY <4>1
    <3> QED
      BY <1>7, <3>1
  <2>2. page \in Seq(Ids) /\ Len(page) = n /\ \A k \in 1..n : page[k] = f[1 + k - 1]
    BY <1>1, <1>9, <2>1, SubSeqProperties
  <2> QED
    BY <1>9, <2>2, LenProperties
<1>12. /\ shown \in Seq(Ids) /\ Len(shown) = Len(sofar) + n /\ DOMAIN shown = 1..(Len(sofar) + n)
       /\ \A k \in 1..(Len(sofar) + n) :
             shown[k] = IF k <= Len(sofar) THEN sofar[k] ELSE page[k - Len(sofar)]
  BY <1>3, <1>6, <1>11, ConcatProperties, LenProperties
<1>22. Len(f) \in Nat /\ Len(sofar) \in Nat /\ n \in 1..Len(f) /\ n \in Nat
  BY <1>7, <1>8, <1>9
<1>13. InOrder(shown, q)
  <2> SUFFICES ASSUME NEW j \in 1..(Len(sofar) + n), NEW k \in 1..(Len(sofar) + n), j < k
               PROVE  Ahead(shown[j], shown[k], q)
    BY <1>12 DEF InOrder
  <2>1. CASE k <= Len(sofar)
    <3>1. j \in DOMAIN sofar /\ k \in DOMAIN sofar /\ j <= Len(sofar)
      BY <1>8, <1>9, <2>1
    <3> QED
      BY <1>6, <1>12, <2>1, <3>1 DEF InOrder
  <2>2. CASE ~(j <= Len(sofar))
    <3>1. j - Len(sofar) \in 1..n /\ k - Len(sofar) \in 1..n /\ j - Len(sofar) < k - Len(sofar)
          /\ ~(k <= Len(sofar)) /\ 1..n \subseteq DOMAIN f
      BY <1>7, <1>22, <2>2
    <3>2. shown[j] = f[j - Len(sofar)] /\ shown[k] = f[k - Len(sofar)]
      BY <1>11, <1>12, <2>2, <3>1
    <3> QED
      BY <1>6, <3>1, <3>2 DEF InOrder, Leads
  <2>3. CASE j <= Len(sofar) /\ ~(k <= Len(sofar))
    <3>1. /\ k - Len(sofar) \in 1..n /\ j \in DOMAIN sofar /\ Len(sofar) \in DOMAIN sofar
          /\ 1..n \subseteq DOMAIN f /\ Len(sofar) # 0
      BY <1>7, <1>8, <1>9, <2>3
    <3>2. shown[j] = sofar[j] /\ shown[k] = f[k - Len(sofar)]
      BY <1>11, <1>12, <2>3, <3>1
    <3>3. c = Key(sofar[Len(sofar)])
      BY <1>6, <3>1, EmptySeq
    <3>4. PICK l : l = sofar[Len(sofar)]
      OBVIOUS
    <3>5. l \in Ids /\ sofar[j] \in Ids /\ f[k - Len(sofar)] \in Ids
      BY <1>7, <1>8, <3>1, <3>4
    <3>6. Ahead(l, f[k - Len(sofar)], q)
      <4>1. AfterCursor(f[k - Len(sofar)], q, c)
        BY <1>6, <3>1 DEF Leads
      <4> QED
        BY <3>3, <3>4, <3>5, <4>1, RowType, AfterIsAhead
    <3>7. sofar[j] = l \/ Ahead(sofar[j], l, q)
      <4>1. j = Len(sofar) \/ j < Len(sofar)
        BY <1>22, <2>3
      <4> QED
        BY <1>6, <3>1, <3>4, <4>1 DEF InOrder
    <3> QED
      BY <3>2, <3>5, <3>6, <3>7, OrderOfRows
  <2> QED
    BY <2>1, <2>2, <2>3
<1>14. next \in {<<>>} \cup ((0..MaxTime) \X Ids) /\ (more => next = Key(f[n]) /\ f[n] \in Ids)
  <2>1. n \in 1..n
    BY <1>22
  <2>2. f[n] \in Ids
    BY <1>7, <1>22
  <2>3. page[Len(page)] = f[n]
    BY <1>11, <2>1
  <2> QED
    BY <1>2, <2>2, <2>3, RowType
<1>15. ASSUME NEW i \in steady
       PROVE  Holds(shown, i) \/ (more /\ AfterCursor(i, q, next))
  <2>1. CASE Holds(sofar, i)
    <3>1. PICK k \in DOMAIN sofar : sofar[k] = i
      BY <2>1 DEF Holds
    <3>2. k \in 1..(Len(sofar) + n) /\ k <= Len(sofar)
      BY <1>8, <1>9, <3>1
    <3>3. shown[k] = i
      BY <1>12, <3>1, <3>2
    <3> QED
      BY <1>12, <3>2, <3>3 DEF Holds
  <2>2. CASE \E k \in 1..n : f[k] = i
    <3>1. PICK k \in 1..n : f[k] = i
      BY <2>2
    <3>2. PICK m : m = Len(sofar) + k
      OBVIOUS
    <3>3. m \in 1..(Len(sofar) + n) /\ ~(m <= Len(sofar)) /\ m - Len(sofar) = k
      BY <1>8, <1>9, <3>1, <3>2
    <3>4. shown[m] = i
      BY <1>11, <1>12, <3>1, <3>3
    <3> QED
      BY <1>12, <3>3, <3>4 DEF Holds
  <2>3. CASE Holds(f, i) /\ ~\E k \in 1..n : f[k] = i
    <3>1. PICK k \in 1..Len(f) : f[k] = i
      BY <1>7, <2>3 DEF Holds
    <3>2. more /\ n \in DOMAIN f /\ k \in DOMAIN f /\ n < k
      <4>1. k \notin 1..n
        BY <2>3, <3>1
      <4>2. n < k
        BY <1>22, <3>1, <4>1
      <4>3. n # Len(f)
        BY <1>22, <3>1, <4>2
      <4> QED
        BY <1>7, <1>9, <3>1, <4>2, <4>3
    <3>3. Ahead(f[n], i, q)
      BY <1>6, <3>1, <3>2 DEF Leads, InOrder
    <3> QED
      BY <1>14, <3>2, <3>3, AfterIsAhead, RowType
  <2>4. CASE Len(f) = PageLimit + 1 /\ Ahead(f[PageLimit + 1], i, q)
    <3>1. more /\ n = PageLimit /\ n \in DOMAIN f /\ PageLimit + 1 \in DOMAIN f /\ n < PageLimit + 1
      BY <1>7, <1>9, <1>10, <2>4, DeskFacts DEF more
    <3>2. Ahead(f[n], f[PageLimit + 1], q)
      BY <1>6, <3>1 DEF Leads, InOrder
    <3>3. f[n] \in Ids /\ f[PageLimit + 1] \in Ids /\ i \in Ids
      BY <1>6, <1>7, <3>1
    <3>4. Ahead(f[n], i, q)
      BY <2>4, <3>2, <3>3, OrderOfRows
    <3> QED
      BY <1>14, <3>1, <3>4, AfterIsAhead, RowType
  <2> QED
    BY <1>6, <2>1, <2>2, <2>3, <2>4 DEF Leads
<1>16. /\ walk' \in Walk /\ walk'.query = q /\ walk'.cursor = next /\ walk'.seen = shown
       /\ walk'.over = ~more /\ walk' # NoWalk
  BY <1>0, <1>4, <1>5, <1>12, <1>14 DEF Walk, NoWalk, more
<1>17. /\ Ids' = Ids /\ \A i : Key(i)' = Key(i)
       /\ \A i, k : Ahead(i, k, q)' = Ahead(i, k, q)
       /\ \A i : AfterCursor(i, q, next)' = AfterCursor(i, q, next)
       /\ \A i : Matches(i, q)' = Matches(i, q)
  BY <1>4, SameRows
<1>18. DeskInv'
  <2>1. Walk' = Walk
    BY <1>17 DEF Walk
  <2> QED
    BY <1>4, <1>16, <1>17, <2>1, EmptySeq DEF DeskInv, AlertDeskTypeOK, Walk
<1>19. InOrder(shown, q)' /\ \A i \in steady' : Matches(i, q)'
  BY <1>4, <1>6, <1>13, <1>17 DEF InOrder
<1>20. ~walk'.over => shown # <<>> /\ next = Key(shown[Len(shown)])'
  <2>1. Len(shown) = Len(sofar) + n /\ Len(shown) \in 1..(Len(sofar) + n) /\ ~(Len(shown) <= Len(sofar))
        /\ Len(shown) - Len(sofar) = n
    BY <1>8, <1>9, <1>12
  <2>2. shown[Len(shown)] = f[n] /\ shown # <<>>
    BY <1>9, <1>11, <1>12, <2>1, EmptySeq
  <2> QED
    BY <1>14, <1>16, <1>17, <2>2
<1>21. \A i \in steady' : Holds(shown, i)' \/ (more /\ AfterCursor(i, q, next)')
  BY <1>4, <1>15, <1>17 DEF Holds
<1> QED
  BY <1>4, <1>16, <1>18, <1>19, <1>20, <1>21 DEF WalkInv

LEMMA DeskStep ==
    ASSUME DeskInv, WalkInv, [AlertDeskNext]_alertDeskVars
    PROVE  DeskInv' /\ WalkInv'
<1>1. CASE Tick \/ UNCHANGED alertDeskVars
  <2>1. UNCHANGED <<rows, walk, fetched, steady>> /\ instant' \in 0..MaxTime
    BY <1>1, DeskFacts DEF Tick, alertDeskVars, DeskInv, AlertDeskTypeOK
  <2>2. /\ Ids' = Ids /\ \A i : Key(i)' = Key(i)
        /\ \A i, k, q : Ahead(i, k, q)' = Ahead(i, k, q)
        /\ \A i, q, c : AfterCursor(i, q, c)' = AfterCursor(i, q, c)
        /\ \A i, q : Matches(i, q)' = Matches(i, q)
    BY <2>1, SameRows
  <2>3. DeskInv'
    BY <2>1, <2>2 DEF DeskInv, AlertDeskTypeOK, Walk
  <2>4. WalkInv'
    BY <2>1, <2>2 DEF WalkInv, Leads, InOrder, Holds
  <2> QED
    BY <2>3, <2>4
<1> QED
  BY <1>1, WrittenStep, WalkBegins, PageFetched, PageShown DEF AlertDeskNext

LEMMA DeskBegins == AlertDeskInit => DeskInv /\ WalkInv
<1> SUFFICES ASSUME AlertDeskInit PROVE DeskInv /\ WalkInv
  OBVIOUS
<1>1. rows = <<>> /\ instant = 0 /\ walk = NoWalk /\ fetched = <<>> /\ steady = {}
  BY DEF AlertDeskInit
<1>2. Ids = {}
  BY <1>1, EmptySeq DEF Ids
<1> QED
  BY <1>1, <1>2, EmptySeq, DeskFacts DEF DeskInv, AlertDeskTypeOK, WalkInv

LEMMA WalksAreComplete == DeskInv /\ WalkInv => WalkIsComplete
BY DEF WalkInv, WalkIsComplete, InOrder, Ahead, Holds, DeskInv

(* Counts per value add up to the count of what has one of the values.     *)
LEMMA CountsAddUp ==
    ASSUME NEW S, IsFiniteSet(S), NEW D, NEW of, NEW f,
           f = [d \in D |-> Cardinality({i \in S : of[i] = d})]
    PROVE  SumOver(f) = Cardinality({i \in S : of[i] \in D})
<1> DEFINE T == {i \in S : of[i] \in D}
           F(d) == {i \in S : of[i] = d}
           U == UNION {{d} \X (1..f[d]) : d \in D}
           g == [d \in D |-> CHOOSE h : h \in Bijection(1..f[d], F(d))]
           m == [u \in U |-> g[u[1]][u[2]]]
<1>1. SumOver(f) = Cardinality(U)
  BY DEF SumOver
<1>2. ASSUME NEW d \in D PROVE g[d] \in Bijection(1..f[d], F(d))
  <2>1. IsFiniteSet(F(d))
    BY FS_Subset
  <2> HIDE DEF F
  <2>2. ExistsBijection(1..Cardinality(F(d)), F(d))
    BY <2>1, FS_CardinalityType
  <2>3. f[d] = Cardinality(F(d))
    BY DEF F
  <2> QED
    BY <2>2, <2>3 DEF ExistsBijection
<1> HIDE DEF g
<1>3. ASSUME NEW d \in D
      PROVE  /\ g[d] \in [1..f[d] -> F(d)]
             /\ \A j, k \in 1..f[d] : g[d][j] = g[d][k] => j = k
             /\ \A i \in F(d) : \E k \in 1..f[d] : g[d][k] = i
  <2> HIDE DEF F
  <2>1. PICK h, N, R : h = g[d] /\ N = 1..f[d] /\ R = F(d)
    OBVIOUS
  <2>2. h \in Bijection(N, R)
    BY <1>2, <2>1
  <2>3. /\ h \in [N -> R]
        /\ \A j, k \in N : h[j] = h[k] => j = k
        /\ \A i \in R : \E k \in N : h[k] = i
    BY <2>2 DEF Bijection, Injection, Surjection, IsInjective
  <2> QED
    BY <2>1, <2>3
<1>4. \A u \in U : u[1] \in D /\ u[2] \in 1..f[u[1]] /\ u = <<u[1], u[2]>>
  <2> TAKE u \in U
  <2>1. PICK d \in D : u \in {d} \X (1..f[d])
    OBVIOUS
  <2> QED
    BY <2>1
<1>5. \A d \in D : \A k \in 1..f[d] : <<d, k>> \in U
  OBVIOUS
<1> HIDE DEF U
<1>6. ASSUME NEW u \in U PROVE m[u] \in T /\ of[m[u]] = u[1]
  <2>1. u[1] \in D /\ u[2] \in 1..f[u[1]] /\ m[u] = g[u[1]][u[2]]
    BY <1>4
  <2>2. m[u] \in F(u[1])
    <3> HIDE DEF F, m
    <3>1. PICK d, k : d = u[1] /\ k = u[2]
      OBVIOUS
    <3>2. d \in D /\ k \in 1..f[d] /\ m[u] = g[d][k]
      BY <2>1, <3>1
    <3>3. g[d] \in [1..f[d] -> F(d)]
      BY <1>3, <3>2
    <3>4. g[d][k] \in F(d)
      BY <3>2, <3>3
    <3> QED
      BY <3>1, <3>2, <3>4
  <2> QED
    BY <2>1, <2>2
<1>7. m \in [U -> T]
  <2> HIDE DEF T
  <2> QED
    BY <1>6
<1>8. ASSUME NEW u \in U, NEW v \in U, m[u] = m[v] PROVE u = v
  <2>1. u[1] = v[1] /\ u[1] \in D
    BY <1>4, <1>6, <1>8
  <2>2. u[2] \in 1..f[u[1]] /\ v[2] \in 1..f[u[1]] /\ m[u] = g[u[1]][u[2]] /\ m[v] = g[u[1]][v[2]]
    BY <1>4, <2>1
  <2>3. u[2] = v[2]
    BY <1>3, <1>8, <2>1, <2>2
  <2> QED
    BY <1>4, <2>1, <2>3
<1>9. ASSUME NEW i \in T PROVE \E u \in U : m[u] = i
  <2>1. of[i] \in D /\ i \in F(of[i])
    OBVIOUS
  <2>2. PICK k \in 1..f[of[i]] : g[of[i]][k] = i
    BY <1>3, <2>1
  <2>3. <<of[i], k>> \in U
    BY <1>5, <2>1
  <2> QED
    BY <2>2, <2>3
<1> HIDE DEF m
<1>10. IsFiniteSet(T)
  BY FS_Subset
<1> HIDE DEF T
<1>11. m \in Injection(U, T) /\ m \in Surjection(U, T)
  BY <1>7, <1>8, <1>9 DEF Injection, Surjection, IsInjective
<1>12. Cardinality(U) = Cardinality(T)
  BY <1>10, <1>11, FS_Injection
<1> QED
  BY <1>1, <1>12 DEF T

LEMMA OverviewFacts ==
    ASSUME DeskInv, NEW start, NEW end
    PROVE  /\ IsFiniteSet(InWindow(start, end)) /\ InWindow(start, end) \subseteq Ids
           /\ Cardinality(InWindow(start, end)) \in Nat
<1>1. Ids = 1..Len(rows) /\ Len(rows) \in Nat
  BY LenProperties DEF DeskInv, AlertDeskTypeOK, Ids
<1>2. IsFiniteSet(Ids) /\ InWindow(start, end) \subseteq Ids
  <2>1. InWindow(start, end) \subseteq Ids
    BY DEF InWindow
  <2>2. PICK n : n = Len(rows)
    OBVIOUS
  <2>3. IsFiniteSet(1..n)
    BY <1>1, <2>2, FS_Interval
  <2> QED
    BY <1>1, <2>1, <2>2, <2>3
<1> HIDE DEF InWindow
<1>3. IsFiniteSet(InWindow(start, end))
  BY <1>2, FS_Subset
<1> QED
  BY <1>2, <1>3, FS_CardinalityType

(* The bands and the unrecognised add up to the total.                     *)
LEMMA BandsAddUp ==
    ASSUME DeskInv, NEW start, NEW end
    PROVE  LET a == Aggregate(start, end) IN SumOver(a.known) + a.unrecognised = a.total
<1> DEFINE all == InWindow(start, end)
           known == {i \in all : rows[i].severity \in KnownBands}
           other == {i \in all : rows[i].severity \notin KnownBands}
           of == [i \in all |-> rows[i].severity]
           f == [b \in KnownBands |-> Cardinality({i \in all : rows[i].severity = b})]
<1>1. IsFiniteSet(all)
  BY OverviewFacts
<1>2. Aggregate(start, end).known = f /\ Aggregate(start, end).unrecognised = Cardinality(other)
      /\ Aggregate(start, end).total = Cardinality(all)
  BY DEF Aggregate
<1> HIDE DEF all
<1>3. SumOver(f) = Cardinality(known)
  <2>1. f = [b \in KnownBands |-> Cardinality({i \in all : of[i] = b})]
    <3>1. \A b : {i \in all : of[i] = b} = {i \in all : rows[i].severity = b}
      OBVIOUS
    <3> QED
      BY <3>1
  <2>2. known = {i \in all : of[i] \in KnownBands}
    OBVIOUS
  <2> HIDE DEF f, of, known
  <2> QED
    BY <1>1, <2>1, <2>2, CountsAddUp
<1>4. Cardinality(known) + Cardinality(other) = Cardinality(all)
  <2>1. known \cup other = all /\ known \cap other = {} /\ known \in SUBSET all /\ other \in SUBSET all
    OBVIOUS
  <2> HIDE DEF known, other
  <2>2. IsFiniteSet(known) /\ IsFiniteSet(other)
    BY <1>1, <2>1, FS_Subset
  <2>3. Cardinality(known) \in Nat /\ Cardinality(other) \in Nat /\ Cardinality({}) = 0
    BY <2>2, FS_CardinalityType, FS_EmptySet
  <2>4. Cardinality(known \cup other)
        = Cardinality(known) + Cardinality(other) - Cardinality(known \cap other)
    BY <2>2, FS_Union
  <2>5. Cardinality(all) = Cardinality(known) + Cardinality(other) - Cardinality({})
    BY <2>1, <2>4
  <2> QED
    BY <2>3, <2>5
<1> QED
  BY <1>2, <1>3, <1>4

(* Every bucket counts the rows of its span: none is clamped into it.      *)
LEMMA BucketsCountTheirSpan ==
    ASSUME DeskInv, NEW start \in Nat, NEW end \in Nat, start < end
    PROVE  LET a == Aggregate(start, end) IN
           \A n \in DOMAIN a.series :
               a.series[n] = Cardinality({i \in InWindow(start, end) :
                   /\ rows[i].at >= start + n * BucketWidth
                   /\ rows[i].at < start + (n + 1) * BucketWidth})
<1> DEFINE w == BucketWidth
           all == InWindow(start, end)
           top == BucketCount(start, end) - 1
           last == (end - start - 1) \div w
           s == [n \in 0..top |-> Cardinality({i \in all : BucketIndex(rows[i].at, start, end) = n})]
<1>1. w \in Nat \ {0}
  BY AlertDeskAssumption
<1>2. PICK d \in Nat : d = end - start - 1
  OBVIOUS
<1>3. d \div w \in Nat /\ w * (d \div w) <= d /\ d < w * (d \div w) + w
  <2> HIDE DEF w
  <2> QED
    BY <1>1
<1>4. (end - start + w - 1) \div w = d \div w + 1
  <2> DEFINE x == d \div w
  <2>1. end - start + w - 1 = d + w /\ d + w \in Nat
    BY <1>1, <1>2
  <2>2. w * x \in Nat /\ w * (x + 1) = w * x + w
    BY <1>1, <1>3
  <2>3. w * (x + 1) <= d + w /\ d + w < w * (x + 1) + w
    <3> DEFINE p == w * x
    <3>1. p \in Nat /\ p <= d /\ d < p + w
      BY <1>3, <2>2
    <3> HIDE DEF p, w
    <3>2. p + w <= d + w /\ d + w < p + w + w
      BY <1>1, <3>1
    <3> QED
      BY <2>2, <3>2 DEF p
  <2> HIDE DEF w, x
  <2>4. x + 1 \in Nat
    BY <1>3 DEF x
  <2>5. (d + w) \div w = x + 1
    BY <1>1, <2>1, <2>3, <2>4
  <2> QED
    BY <2>1, <2>5 DEF x
<1>5. top = d \div w
  <2>1. BucketCount(start, end) = Max({1, d \div w + 1})
    BY <1>4 DEF BucketCount
  <2>2. Max({1, d \div w + 1}) = d \div w + 1
    <3> DEFINE y == d \div w
    <3>1. y \in Nat
      BY <1>3
    <3> HIDE DEF y
    <3>2. Max({1, y + 1}) = IF 1 >= y + 1 THEN 1 ELSE y + 1
      BY <3>1, MaxOfTwo
    <3>3. (1 >= y + 1) => y + 1 = 1
      BY <3>1
    <3> QED
      BY <3>2, <3>3 DEF y
  <2> QED
    BY <1>3, <2>1, <2>2
<1> HIDE DEF top
<1>6. ASSUME NEW i \in all
      PROVE  \E t \in Nat : /\ t = rows[i].at - start /\ t <= d
                            /\ BucketIndex(rows[i].at, start, end) = t \div w
  <2>1. rows[i].at \in Nat /\ rows[i].at >= start /\ rows[i].at < end
    <3>1. i \in Ids /\ rows[i].at >= start /\ rows[i].at < end
      BY DEF InWindow
    <3> QED
      BY <3>1, RowType
  <2>2. PICK t \in Nat : t = rows[i].at - start /\ t <= d
    <3>1. PICK at : at = rows[i].at
      OBVIOUS
    <3>2. at - start \in Nat /\ at - start <= d
      BY <1>2, <2>1, <3>1
    <3> QED
      BY <3>1, <3>2
  <2> DEFINE x == t \div w
             y == d \div w
  <2>3. x \in Nat /\ y \in Nat /\ x <= y
    <3>1. x \in Nat /\ w * x <= t /\ t < w * x + w
      <4> HIDE DEF w
      <4> QED
        BY <1>1
    <3>2. y \in Nat /\ d < w * y + w
      BY <1>3
    <3>3. w * x < w * (y + 1)
      <4> HIDE DEF x, y, w
      <4>1. w * x \in Nat /\ w * y \in Nat /\ w * (y + 1) = w * y + w
        BY <1>1, <3>1, <3>2
      <4> QED
        BY <1>1, <2>2, <3>1, <3>2, <4>1
    <3> HIDE DEF x, y, w
    <3>4. x < y + 1
      BY <1>1, <3>1, <3>2, <3>3
    <3> QED
      BY <3>1, <3>2, <3>4
  <2>4. Max({x, 0}) = x /\ Min({x, y}) = x
    <3> HIDE DEF x, y
    <3>1. Max({x, 0}) = IF x >= 0 THEN x ELSE 0
      BY <2>3, MaxOfTwo
    <3>2. Min({x, y}) = IF x <= y THEN x ELSE y
      BY <2>3, MinOfTwo
    <3> QED
      BY <2>3, <3>1, <3>2
  <2>5. BucketIndex(rows[i].at, start, end) = x
    BY <1>5, <2>2, <2>4 DEF BucketIndex, top
  <2> QED
    BY <2>2, <2>5
<1>7. ASSUME NEW n \in 0..top
      PROVE  {i \in all : BucketIndex(rows[i].at, start, end) = n}
             = {i \in all : /\ rows[i].at >= start + n * w
                            /\ rows[i].at < start + (n + 1) * w}
  <2>1. n \in Nat
    BY <1>3, <1>5
  <2> SUFFICES ASSUME NEW i \in all
               PROVE  BucketIndex(rows[i].at, start, end) = n
                      <=> rows[i].at >= start + n * w /\ rows[i].at < start + (n + 1) * w
    OBVIOUS
  <2>2. PICK t \in Nat : /\ t = rows[i].at - start /\ t <= d
                         /\ BucketIndex(rows[i].at, start, end) = t \div w
    BY <1>6
  <2>3. rows[i].at \in Nat
    BY RowType DEF InWindow
  <2>4. PICK at \in Nat : at = rows[i].at
    BY <2>3
  <2> HIDE DEF w
  <2>5. n * w \in Nat /\ (n + 1) * w = w * n + w /\ n * w = w * n
    BY <1>1, <2>1
  <2>6. t \div w = n <=> w * n <= t /\ t < w * n + w
    <3>1. t \div w = n => w * n <= t /\ t < w * n + w
      BY <1>1
    <3>2. w * n <= t /\ t < w * n + w => t \div w = n
      BY <1>1, <2>1
    <3> QED
      BY <3>1, <3>2
  <2>7. (w * n <= t /\ t < w * n + w) <=> (at >= start + n * w /\ at < start + (n + 1) * w)
    <3> DEFINE p == n * w
    <3>1. p \in Nat /\ w * n = p /\ (n + 1) * w = p + w
      BY <2>5
    <3>2. t = at - start
      BY <2>2, <2>4
    <3> HIDE DEF p
    <3>3. (p <= t /\ t < p + w) <=> (at >= start + p /\ at < start + (p + w))
      BY <1>1, <3>1, <3>2
    <3> QED
      BY <3>1, <3>3 DEF p
  <2> QED
    BY <2>2, <2>4, <2>6, <2>7
<1>8. Aggregate(start, end).series = s
  BY DEF Aggregate, top
<1> HIDE DEF all
<1>9. DOMAIN s = 0..top
  OBVIOUS
<1> QED
  BY <1>7, <1>8, <1>9 DEF all

(* The entities listed count no row twice, and all of them if none is left *)
(* off.                                                                    *)
LEMMA EntitiesAddUp ==
    ASSUME DeskInv, NEW start, NEW end
    PROVE  LET a == Aggregate(start, end) IN
           SumOver(a.entities) <= a.total /\ (a.capped \/ SumOver(a.entities) = a.total)
<1> DEFINE all == InWindow(start, end)
           of == [i \in all |-> EntityOf[rows[i].case]]
           Tally(e) == Cardinality({i \in all : EntityOf[rows[i].case] = e})
           found == {EntityOf[rows[i].case] : i \in all}
           Leading(e) == {f \in found : Tally(f) > Tally(e) \/ (Tally(f) = Tally(e) /\ f < e)}
           listed == {e \in found : Cardinality(Leading(e)) < ListLimit}
           f == [e \in listed |-> Tally(e)]
           held == {i \in all : of[i] \in listed}
<1>1. IsFiniteSet(all) /\ all \subseteq Ids
  BY OverviewFacts
<1>2. /\ Aggregate(start, end).entities = f /\ Aggregate(start, end).total = Cardinality(all)
      /\ Aggregate(start, end).capped = (Cardinality(found) > ListLimit)
  BY DEF Aggregate
<1>3. \A e \in found : e \in Nat /\ Tally(e) \in Nat
  <2> SUFFICES ASSUME NEW i \in all, NEW e, e = EntityOf[rows[i].case] PROVE e \in Nat /\ Tally(e) \in Nat
    OBVIOUS
  <2>1. rows[i] \in Row
    BY <1>1, RowType
  <2>2. e \in Nat
    BY <2>1, AlertDeskAssumption DEF Row
  <2>3. IsFiniteSet({j \in all : EntityOf[rows[j].case] = e})
    BY <1>1, FS_Subset
  <2> HIDE DEF all
  <2> QED
    BY <2>2, <2>3, FS_CardinalityType
<1>4. IsFiniteSet(found)
  <2>1. of \in Surjection(all, found)
    BY DEF Surjection
  <2> HIDE DEF of, found
  <2> QED
    BY <1>1, <2>1, FS_Surjection
<1> HIDE DEF all
<1>5. SumOver(f) = Cardinality(held)
  <2>1. \A e : {i \in all : of[i] = e} = {i \in all : EntityOf[rows[i].case] = e}
    OBVIOUS
  <2>2. f = [e \in listed |-> Cardinality({i \in all : of[i] = e})]
    BY <2>1
  <2> HIDE DEF f, of, listed
  <2> QED
    BY <1>1, <2>2, CountsAddUp
<1>6. Cardinality(held) <= Cardinality(all)
  BY <1>1, FS_Subset
<1>7. ASSUME ~(Cardinality(found) > ListLimit) PROVE held = all
  <2>1. ASSUME NEW e \in found PROVE Cardinality(Leading(e)) < ListLimit
    <3>1. Leading(e) \in SUBSET found /\ e \notin Leading(e)
      <4> HIDE DEF Tally
      <4> QED
        BY <1>3, <2>1
    <3> HIDE DEF Leading, found
    <3>2. IsFiniteSet(Leading(e)) /\ Cardinality(Leading(e)) <= Cardinality(found)
          /\ Cardinality(Leading(e)) # Cardinality(found)
      BY <1>4, <2>1, <3>1, FS_Subset
    <3>3. Cardinality(Leading(e)) \in Nat /\ Cardinality(found) \in Nat /\ ListLimit \in Nat
      BY <1>4, <3>2, FS_CardinalityType, AlertDeskAssumption
    <3> QED
      BY <1>7, <3>2, <3>3
  <2> HIDE DEF Leading
  <2>2. listed = found
    BY <2>1
  <2> HIDE DEF listed
  <2> QED
    BY <2>2
<1> HIDE DEF f, held, found
<1> QED
  BY <1>2, <1>5, <1>6, <1>7

LEMMA OverviewsAddUp == DeskInv => OverviewAddsUp
<1> SUFFICES ASSUME DeskInv, NEW start \in 0..MaxTime, NEW end \in 0..(MaxTime + 1), start < end
             PROVE  LET a == Aggregate(start, end) IN
                    /\ SumOver(a.known) + a.unrecognised = a.total
                    /\ \A n \in DOMAIN a.series :
                           a.series[n] = Cardinality({i \in InWindow(start, end) :
                               /\ rows[i].at >= start + n * BucketWidth
                               /\ rows[i].at < start + (n + 1) * BucketWidth})
                    /\ SumOver(a.entities) <= a.total
                    /\ a.capped \/ SumOver(a.entities) = a.total
  BY DEF OverviewAddsUp
<1>1. start \in Nat /\ end \in Nat
  BY DeskFacts
<1> QED
  BY <1>1, BandsAddUp, BucketsCountTheirSpan, EntitiesAddUp
-----------------------------------------------------------------------------
(* The pages of the ledger: entries numbered once, and what a cursor leaves. *)
Numbered(s) == \A j, k \in DOMAIN s : s[j].sequence = s[k].sequence => j = k
Below(e, before) == before = 0 \/ e.sequence < before

Listing == [at : {"page", "end", "error"}, limit : 1..MaxLedgerLimit, before : Nat,
            shown : SUBSET LedgerEntry, began : SUBSET LedgerEntry]

(* While numbers are taken once, what a listing still owes is below its    *)
(* cursor.                                                                 *)
LedgerInv ==
    /\ listing \in {NotListing} \cup Listing
    /\ listing # NotListing => \A e \in listing.began : \E k \in DOMAIN erasures : erasures[k] = e
    /\ Numbered(erasures) /\ listing.at \in {"page", "end"} =>
           \A e \in listing.began :
               e \in listing.shown \/ (listing.at = "page" /\ Below(e, listing.before))

LEMMA LedgerFacts ==
    ASSUME ErasuresInv
    PROVE  /\ DOMAIN erasures = 1..Len(erasures) /\ Len(erasures) \in Nat
           /\ \A k \in DOMAIN erasures : /\ erasures[k] \in LedgerEntry /\ k \in Nat
                                         /\ erasures[k].sequence \in Nat \ {0}
<1>1. erasures \in Seq(LedgerEntry)
  BY DEF ErasuresInv
<1>2. DOMAIN erasures = 1..Len(erasures) /\ Len(erasures) \in Nat
  BY <1>1, LenProperties
<1>3. \A k \in DOMAIN erasures : erasures[k] \in LedgerEntry /\ k \in Nat
  BY <1>1, <1>2, ElementOfSeq
<1> QED
  BY <1>2, <1>3 DEF LedgerEntry

(* What InMemoryErasureLedger.entries returns: entries below `before`, and *)
(* of them all, or as many as the limit, those left out below the last.    *)
LEMMA EntriesLead ==
    ASSUME ErasuresInv, NEW limit \in Nat \ {0}, NEW before \in Nat
    PROVE  LET f == Entries(limit, before) IN
           /\ f \in Seq(LedgerEntry) /\ Len(f) <= limit
           /\ \A n \in DOMAIN f : Below(f[n], before)
           /\ Numbered(erasures) =>
                 /\ \A m, n \in DOMAIN f : m < n => f[n].sequence < f[m].sequence
                 /\ \A k \in DOMAIN erasures : Below(erasures[k], before) =>
                        \/ \E n \in DOMAIN f : f[n] = erasures[k]
                        \/ Len(f) = limit /\ erasures[k].sequence < f[limit].sequence
<1> DEFINE kept == {k \in DOMAIN erasures : before = 0 \/ erasures[k].sequence < before}
           R == {p \in kept \X kept : Newer(p[1], p[2])}
           rank == [k \in kept |-> Cardinality({j \in kept : <<j, k>> \in R})]
           Nth(n) == {k \in kept : Cardinality({j \in kept : Newer(j, k)}) = n - 1}
           card == Cardinality(kept)
           many == IF limit < Cardinality(kept) THEN limit ELSE Cardinality(kept)
           f == Entries(limit, before)
<1>1. f = [n \in 1..many |-> erasures[CHOOSE k \in Nth(n) : TRUE]]
  BY DEF Entries
<1>2. /\ DOMAIN erasures = 1..Len(erasures) /\ Len(erasures) \in Nat
      /\ \A k \in DOMAIN erasures : /\ erasures[k] \in LedgerEntry /\ k \in Nat
                                    /\ erasures[k].sequence \in Nat
  BY LedgerFacts
<1>3. IsFiniteSet(kept) /\ kept \subseteq DOMAIN erasures
  <2>1. IsFiniteSet(DOMAIN erasures)
    BY <1>2, FS_Interval
  <2> QED
    BY <2>1, FS_Subset
<1>4. \A j, k \in kept : <<j, k>> \in R <=> Newer(j, k)
  OBVIOUS
<1>5. \A n : Nth(n) = {k \in kept : rank[k] = n - 1}
  <2>1. \A k \in kept : {j \in kept : <<j, k>> \in R} = {j \in kept : Newer(j, k)}
    OBVIOUS
  <2> HIDE DEF R, kept
  <2> QED
    BY <2>1
<1> HIDE DEF R, Nth
<1>6. /\ \A x, y, z \in kept : <<x, y>> \in R /\ <<y, z>> \in R => <<x, z>> \in R
      /\ \A x \in kept : <<x, x>> \notin R
      /\ \A x, y \in kept : x # y => <<x, y>> \in R \/ <<y, x>> \in R
  <2>1. \A x \in kept : erasures[x].sequence \in Nat /\ x \in Nat
    BY <1>2
  <2> HIDE DEF kept
  <2> QED
    BY <1>4, <2>1 DEF Newer
<1>15. Numbered(erasures) =>
       \A j, k \in kept : <<j, k>> \in R => erasures[j].sequence > erasures[k].sequence
  <2> SUFFICES ASSUME Numbered(erasures), NEW j \in kept, NEW k \in kept, <<j, k>> \in R
               PROVE  erasures[j].sequence > erasures[k].sequence
    OBVIOUS
  <2>1. j \in DOMAIN erasures /\ k \in DOMAIN erasures /\ j \in Nat /\ k \in Nat
    BY <1>2
  <2>2. erasures[j].sequence = erasures[k].sequence => j = k
    BY <2>1 DEF Numbered
  <2> HIDE DEF kept
  <2>3. Newer(j, k)
    BY <1>4
  <2> QED
    BY <2>1, <2>2, <2>3 DEF Newer
<1>7. /\ card \in Nat
      /\ \A x \in kept : rank[x] \in 0..(card - 1)
      /\ \A x, y \in kept : rank[x] < rank[y] <=> <<x, y>> \in R
      /\ \A n \in 1..card : \E x \in kept : rank[x] = n - 1
  <2> HIDE DEF kept
  <2> QED
    BY <1>3, <1>6, Ranks
<1> HIDE DEF rank, card, f
<1>8. /\ many \in Nat /\ many <= card /\ many <= limit /\ (many < card => many = limit)
      /\ 1..many \subseteq 1..card
  <2>1. card \in Nat /\ limit \in Nat /\ many = IF limit < card THEN limit ELSE card
    BY <1>7 DEF card
  <2> HIDE DEF many
  <2> QED
    BY <2>1
<1> HIDE DEF many
<1>9. \A n \in 1..many : \E k \in kept : f[n] = erasures[k] /\ rank[k] = n - 1
  <2> TAKE n \in 1..many
  <2>1. PICK k : k = CHOOSE j \in Nth(n) : TRUE
    OBVIOUS
  <2>2. \E j \in kept : rank[j] = n - 1
    BY <1>7, <1>8
  <2>3. k \in Nth(n)
    BY <1>5, <2>1, <2>2
  <2> HIDE DEF kept
  <2> QED
    BY <1>1, <1>5, <2>1, <2>3
<1>10. f \in Seq(LedgerEntry) /\ Len(f) = many /\ DOMAIN f = 1..many
  <2>1. \A n \in 1..many : f[n] \in LedgerEntry
    BY <1>2, <1>3, <1>9
  <2> HIDE DEF kept
  <2>2. f = [n \in 1..many |-> f[n]] /\ DOMAIN f = 1..many
    BY <1>1
  <2>3. f \in Seq(LedgerEntry)
    BY <1>8, <2>1, <2>2, IsASeq
  <2> QED
    BY <1>8, <2>2, <2>3, LenProperties
<1>11. \A n \in DOMAIN f : Below(f[n], before)
  BY <1>9, <1>10 DEF Below
<1>12. Numbered(erasures) => \A m, n \in DOMAIN f : m < n => f[n].sequence < f[m].sequence
  <2> SUFFICES ASSUME Numbered(erasures), NEW m \in 1..many, NEW n \in 1..many, m < n
               PROVE  f[n].sequence < f[m].sequence
    BY <1>10
  <2>1. PICK j \in kept : f[m] = erasures[j] /\ rank[j] = m - 1
    BY <1>9
  <2>2. PICK k \in kept : f[n] = erasures[k] /\ rank[k] = n - 1
    BY <1>9
  <2>3. rank[j] < rank[k]
    BY <1>8, <2>1, <2>2
  <2>4. erasures[j].sequence > erasures[k].sequence
    <3> HIDE DEF kept
    <3> QED
      BY <1>7, <1>15, <2>3
  <2>5. erasures[j].sequence \in Nat /\ erasures[k].sequence \in Nat
    BY <1>2, <1>3
  <2> QED
    BY <2>1, <2>2, <2>4, <2>5
<1>13. ASSUME Numbered(erasures), NEW k \in DOMAIN erasures, Below(erasures[k], before)
       PROVE  \/ \E n \in DOMAIN f : f[n] = erasures[k]
              \/ Len(f) = limit /\ erasures[k].sequence < f[limit].sequence
  <2>1. k \in kept
    BY <1>13 DEF Below
  <2> HIDE DEF kept
  <2>2. rank[k] \in 0..(card - 1) /\ rank[k] + 1 \in 1..card
    BY <1>7, <2>1
  <2>3. CASE rank[k] + 1 \in 1..many
    <3>1. PICK n \in 1..many : n = rank[k] + 1
      BY <2>3
    <3>2. PICK j \in kept : f[n] = erasures[j] /\ rank[j] = n - 1
      BY <1>9
    <3>3. rank[j] = rank[k] /\ ~(rank[j] < rank[k]) /\ ~(rank[k] < rank[j])
      BY <1>7, <2>2, <3>1, <3>2
    <3>4. j = k
      BY <1>6, <1>7, <2>1, <3>3
    <3> QED
      BY <1>10, <3>2, <3>4
  <2>4. CASE rank[k] + 1 \notin 1..many
    <3>1. many < card /\ many - 1 < rank[k]
      BY <1>7, <1>8, <2>2, <2>4
    <3>2. many = limit /\ limit \in 1..many
      BY <1>8, <3>1
    <3>3. PICK j \in kept : f[limit] = erasures[j] /\ rank[j] = limit - 1
      BY <1>9, <3>2
    <3>4. <<j, k>> \in R
      BY <1>7, <2>1, <3>1, <3>2, <3>3
    <3>5. erasures[j].sequence > erasures[k].sequence
      BY <1>13, <1>15, <2>1, <3>4
    <3>6. erasures[j].sequence \in Nat /\ erasures[k].sequence \in Nat
      BY <1>2, <1>3
    <3> QED
      BY <1>10, <3>2, <3>3, <3>5, <3>6
  <2> QED
    BY <2>3, <2>4
<1>14. Len(f) <= limit
  BY <1>8, <1>10
<1> QED
  BY <1>10, <1>11, <1>12, <1>13, <1>14 DEF f

LEMMA EntriesGoOn ==
    ASSUME ErasuresInv, ErasuresInv', LedgerInv, UNCHANGED listing,
           \/ UNCHANGED erasures
           \/ \E e \in LedgerEntry : erasures' = Append(erasures, e)
    PROVE  LedgerInv'
<1>1. \A k \in DOMAIN erasures : k \in DOMAIN erasures' /\ erasures'[k] = erasures[k]
  <2>1. CASE UNCHANGED erasures
    BY <2>1
  <2>2. CASE \E e \in LedgerEntry : erasures' = Append(erasures, e)
    <3>1. PICK e \in LedgerEntry : erasures' = Append(erasures, e)
      BY <2>2
    <3>2. erasures \in Seq(LedgerEntry) /\ DOMAIN erasures = 1..Len(erasures) /\ Len(erasures) \in Nat
          /\ DOMAIN erasures' = 1..Len(erasures')
      BY LenProperties DEF ErasuresInv
    <3>3. Len(erasures') = Len(erasures) + 1
          /\ \A k \in 1..Len(erasures) : erasures'[k] = erasures[k]
      <4>1. erasures \in Seq(LedgerEntry)
        BY <3>2
      <4> QED
        BY <3>1, <4>1, AppendProperties
    <3>4. 1..Len(erasures) \subseteq 1..Len(erasures')
      <4>1. Len(erasures) \in Nat /\ Len(erasures') = Len(erasures) + 1
        BY <3>2, <3>3
      <4> QED
        BY <4>1
    <3> QED
      BY <3>2, <3>3, <3>4
  <2> QED
    BY <2>1, <2>2
<1>2. Numbered(erasures)' => Numbered(erasures)
  BY <1>1 DEF Numbered
<1>3. \A e \in listing.began : (\E k \in DOMAIN erasures : erasures[k] = e)
                               => \E k \in DOMAIN erasures' : erasures'[k] = e
  BY <1>1
<1> QED
  BY <1>2, <1>3 DEF LedgerInv, Below

(* A listing begins with every entry there is to show.                     *)
LEMMA ListingBegins ==
    ASSUME ErasuresInv, LedgerInv, NEW limit \in 1..MaxLedgerLimit, StartListing(limit)
    PROVE  LedgerInv'
<1>1. ToSet(erasures) \subseteq LedgerEntry /\ \A e \in ToSet(erasures) : \E k \in DOMAIN erasures : erasures[k] = e
  BY LedgerFacts DEF ToSet
<1>2. UNCHANGED erasures
      /\ listing' = [at |-> "page", limit |-> limit, before |-> 0, shown |-> {}, began |-> ToSet(erasures)]
  BY DEF StartListing
<1>3. listing' \in Listing
  BY <1>1, <1>2 DEF Listing
<1> QED
  BY <1>1, <1>2, <1>3 DEF LedgerInv, Below

(* One more page: what was owed is on it, or below its last entry.         *)
LEMMA LedgerPageFetched ==
    ASSUME ErasuresInv, LedgerInv, NEW limit \in 1..MaxLedgerLimit, FetchLedgerPage(limit)
    PROVE  LedgerInv'
<1>1. /\ listing.at = "page" /\ listing \in Listing /\ UNCHANGED erasures
      /\ MaxLedgerLimit \in Nat /\ limit \in Nat \ {0}
  BY ErasureAssumption DEF FetchLedgerPage, LedgerInv, NotListing
<1>2. CASE ~Accepted(limit + 1)
  <2>1. listing' = [listing EXCEPT !.at = "error"]
    BY <1>2 DEF FetchLedgerPage
  <2>2. listing' \in Listing /\ listing'.at = "error" /\ listing'.began = listing.began
    BY <1>1, <2>1 DEF Listing
  <2> QED
    BY <1>1, <2>2 DEF LedgerInv, Listing, NotListing
<1>3. CASE Accepted(limit + 1)
  <2>1. PICK before, found : before = listing.before /\ found = Entries(limit + 1, before)
    OBVIOUS
  <2>2. PICK n : n = IF limit < Len(found) THEN limit ELSE Len(found)
    OBVIOUS
  <2>3. PICK page, next : page = SubSeq(found, 1, n) /\ next = NextBefore(found, limit)
    OBVIOUS
  <2>4. listing' = [listing EXCEPT !.at = IF next = 0 THEN "end" ELSE "page",
                                   !.before = next, !.shown = @ \cup ToSet(page)]
    BY <1>3, <2>1, <2>2, <2>3 DEF FetchLedgerPage
  <2>5. before \in Nat
    BY <1>1, <2>1 DEF Listing
  <2>6. found \in Seq(LedgerEntry) /\ DOMAIN found = 1..Len(found) /\ Len(found) \in Nat
        /\ \A k \in 1..Len(found) : found[k] \in LedgerEntry /\ found[k].sequence \in Nat \ {0}
    <3>1. found \in Seq(LedgerEntry)
      <4>1. limit + 1 \in Nat \ {0}
        BY <1>1
      <4> QED
        BY <2>1, <2>5, <4>1, EntriesLead
    <3>2. DOMAIN found = 1..Len(found) /\ Len(found) \in Nat
      BY <3>1, LenProperties
    <3>3. \A k \in 1..Len(found) : found[k] \in LedgerEntry
      BY <3>1, ElementOfSeq
    <3> QED
      BY <3>1, <3>2, <3>3 DEF LedgerEntry
  <2>7. n \in Nat /\ n <= Len(found) /\ n <= limit /\ (n < limit => n = Len(found)) /\ 1..n \subseteq 1..Len(found)
    <3>1. limit \in Nat /\ Len(found) \in Nat
      BY <1>1, <2>6
    <3> QED
      BY <2>2, <3>1
  <2>8. page \in Seq(LedgerEntry) /\ DOMAIN page = 1..n /\ \A k \in 1..n : page[k] = found[k]
    <3>1. \A k \in 1..n : found[k] \in LedgerEntry
      BY <2>6, <2>7
    <3>2. page \in Seq(LedgerEntry) /\ Len(page) = n /\ \A k \in 1..n : page[k] = found[1 + k - 1]
      <4>1. Len(page) = IF 1 <= n THEN n - 1 + 1 ELSE 0
        BY <2>3, <2>7, <3>1, SubSeqProperties
      <4>2. Len(page) = n
        BY <2>7, <4>1
      <4> QED
        BY <2>3, <2>7, <3>1, <4>2, SubSeqProperties
    <3> QED
      BY <2>7, <3>2, LenProperties
  <2>9. ToSet(page) = {found[k] : k \in 1..n} /\ ToSet(page) \subseteq LedgerEntry
    BY <2>6, <2>7, <2>8 DEF ToSet
  <2>10. next \in Nat /\ (limit < Len(found) => next = found[limit].sequence /\ next # 0)
         /\ (~(limit < Len(found)) => next = 0)
    <3>1. limit \in Nat \ {0} /\ Len(found) \in Nat
      BY <1>1, <2>6
    <3>2. limit < Len(found) => limit \in 1..Len(found)
      BY <3>1
    <3>3. limit < Len(found) <=> Len(found) > limit
      BY <3>1
    <3> QED
      BY <2>3, <2>6, <3>2, <3>3 DEF NextBefore
  <2>11. /\ listing' \in Listing /\ listing'.began = listing.began /\ listing'.before = next
         /\ listing'.shown = listing.shown \cup ToSet(page) /\ listing' # NotListing
         /\ listing'.at = IF next = 0 THEN "end" ELSE "page"
    BY <1>1, <2>4, <2>9, <2>10 DEF Listing, NotListing
  <2>12. ASSUME Numbered(erasures), NEW e \in listing.began, e \notin listing'.shown
         PROVE  next # 0 /\ e.sequence < next
    <3>1. e \notin listing.shown /\ Below(e, before) /\ e \in LedgerEntry
      BY <1>1, <2>1, <2>11, <2>12 DEF LedgerInv, Listing
    <3>2. PICK j \in DOMAIN erasures : erasures[j] = e
      BY <1>1, <2>12 DEF LedgerInv, NotListing, Listing
    <3>3. limit + 1 \in Nat \ {0}
      BY <1>1
    <3>4. /\ Len(found) <= limit + 1
          /\ \A k, m \in DOMAIN found : k < m => found[m].sequence < found[k].sequence
          /\ \/ \E k \in DOMAIN found : found[k] = e
             \/ Len(found) = limit + 1 /\ e.sequence < found[limit + 1].sequence
      BY <2>1, <2>5, <2>12, <3>1, <3>2, <3>3, EntriesLead
    <3>5. e.sequence \in Nat
      BY <3>1 DEF LedgerEntry
    <3>6. CASE \E k \in DOMAIN found : found[k] = e
      <4>1. PICK k \in DOMAIN found : found[k] = e
        BY <3>6
      <4>2. k \notin 1..n
        BY <2>9, <2>11, <2>12, <4>1
      <4>3. limit < k /\ limit < Len(found) /\ limit \in 1..Len(found)
        <5>1. k \in 1..Len(found) /\ Len(found) \in Nat /\ limit \in Nat \ {0} /\ n \in Nat
              /\ n <= limit /\ (n < limit => n = Len(found))
          BY <1>1, <2>6, <2>7, <4>1
        <5> QED
          BY <4>2, <5>1
      <4> QED
        BY <2>6, <2>10, <3>4, <4>1, <4>3
    <3>7. CASE Len(found) = limit + 1 /\ e.sequence < found[limit + 1].sequence
      <4>1. limit < Len(found) /\ limit < limit + 1 /\ limit \in 1..Len(found) /\ limit + 1 \in 1..Len(found)
        <5>1. limit \in Nat \ {0} /\ Len(found) = limit + 1
          BY <1>1, <3>7
        <5> QED
          BY <5>1
      <4>2. found[limit + 1].sequence < found[limit].sequence
        BY <2>6, <3>4, <4>1
      <4>3. found[limit + 1].sequence \in Nat /\ found[limit].sequence \in Nat
        BY <2>6, <4>1
      <4>4. e.sequence < found[limit].sequence
        BY <3>5, <3>7, <4>2, <4>3
      <4> QED
        BY <2>10, <4>1, <4>4
    <3> QED
      BY <3>4, <3>6, <3>7
  <2> QED
    BY <1>1, <2>11, <2>12 DEF LedgerInv, Below, NotListing, Listing
<1> QED
  BY <1>2, <1>3

LEMMA LedgerStep ==
    ASSUME ErasuresInv, ErasuresInv', LedgerInv, [ErasureNext]_erasureVars
    PROVE  LedgerInv'
<1>1. CASE UNCHANGED <<erasures, listing>>
  BY <1>1, EntriesGoOn
<1>2. ASSUME NEW t \in Threads, AppendEntry(t) PROVE LedgerInv'
  <2>1. erasing[t] \in Erasings /\ erasing[t].at = "append"
    BY <1>2 DEF AppendEntry, ErasuresInv
  <2>2. [sequence |-> erasing[t].sequence, tombstone |-> erasing[t].subject] \in LedgerEntry
    BY <2>1 DEF Erasings, Deciding, Appending, NotErasing, LedgerEntry
  <2> QED
    BY <1>2, <2>2, EntriesGoOn DEF AppendEntry
<1>3. ASSUME NEW t \in Threads,
             CascadeStore(t) \/ CascadeKeys(t) \/ CascadeFails(t) \/ TakeSequence(t)
      PROVE  UNCHANGED <<erasures, listing>>
  BY <1>3 DEF CascadeStore, CascadeKeys, CascadeFails, TakeSequence
<1>4. ASSUME NEW s \in Subjects, NEW t \in Threads, BeginErasure(t, s)
      PROVE  UNCHANGED <<erasures, listing>>
  BY <1>4 DEF BeginErasure
<1>5. ASSUME NEW store \in Stores, NEW s \in Subjects, Register(store, s)
      PROVE  UNCHANGED <<erasures, listing>>
  BY <1>5 DEF Register
<1>6. CASE UNCHANGED erasureVars
  BY <1>1, <1>6 DEF erasureVars
<1> QED
  BY <1>1, <1>2, <1>3, <1>4, <1>5, <1>6, ListingBegins, LedgerPageFetched DEF ErasureNext
-----------------------------------------------------------------------------
InAppend(t) == writing[t].pc \in {"store", "load", "bump"}

(* Appends that have not overlapped number the entries by their positions. *)
NumberedOn ==
    /\ \A t, u \in Threads : InAppend(t) /\ InAppend(u) => t = u
    /\ \A i \in DOMAIN entries : entries[i].sequence = i
    /\ \A t \in Threads : /\ writing[t].pc = "store" => writing[t].entry.sequence = Len(entries) + 1
                          /\ writing[t].pc \in {"load", "bump"} => nextSequence = Len(entries)
                          /\ writing[t].pc = "bump" => writing[t].loaded = nextSequence
    /\ (\A t \in Threads : writing[t].pc \notin {"load", "bump"}) => nextSequence = Len(entries) + 1

(* What a walk still owes is older than the last row it has shown.         *)
Older(i, before) == before = 0 \/ i < before
Shows(s, i) == \E n \in DOMAIN s : s[n] = i
Falling(s) == \A m, n \in DOMAIN s : m < n => s[n] < s[m]

Walked(w) ==
    /\ w \in [query : AuditQueries, before : Nat, shown : Seq(DOMAIN entries), ended : BOOLEAN]
    /\ Falling(w.shown)
    /\ w.before = IF w.shown = <<>> THEN 0 ELSE w.shown[Len(w.shown)]
    /\ \A i \in owed : /\ i \in Matching(w.query)
                       /\ Shows(w.shown, i) \/ (~w.ended /\ Older(i, w.before))

AuditInv ==
    /\ AuditTypeOK
    /\ ~auditOverlapped => NumberedOn /\ (auditWalk # NoAuditWalk => Walked(auditWalk))

LEMMA AuditFacts ==
    ASSUME AuditTypeOK
    PROVE  /\ entries \in Seq(AuditEntry) /\ DOMAIN entries = 1..Len(entries) /\ Len(entries) \in Nat
           /\ \A i \in DOMAIN entries : entries[i] \in AuditEntry /\ i \in Nat
<1>1. entries \in Seq(AuditEntry)
  BY DEF AuditTypeOK
<1> QED
  BY <1>1, LenProperties, ElementOfSeq

(* The page the trail returns: the newest rows before the cursor.          *)
LEMMA PageLeads ==
    ASSUME AuditTypeOK, \A i \in DOMAIN entries : entries[i].sequence = i,
           NEW q, NEW before \in Nat
    PROVE  LET f == Page(q, before) IN
           /\ f \in Seq(DOMAIN entries) /\ Falling(f)
           /\ \A n \in DOMAIN f : Older(f[n], before)
           /\ \A i \in Matching(q) : Older(i, before) =>
                  Shows(f, i) \/ (f # <<>> /\ i < f[Len(f)])
<1> DEFINE selected == {i \in Matching(q) : BeforeCursor(i, before)}
           R == {p \in selected \X selected : p[1] > p[2]}
           rank == [i \in selected |-> Cardinality({j \in selected : <<j, i>> \in R})]
           Nth(n) == {i \in selected : Cardinality({j \in selected : j > i}) = n - 1}
           card == Cardinality(selected)
           many == IF Cardinality(selected) > AuditLimit THEN AuditLimit ELSE Cardinality(selected)
           f == Page(q, before)
<1>1. f = [n \in 1..many |-> CHOOSE i \in Nth(n) : TRUE]
  BY DEF Page
<1>2. DOMAIN entries = 1..Len(entries) /\ Len(entries) \in Nat /\ \A i \in DOMAIN entries : i \in Nat
  BY AuditFacts
<1>3. IsFiniteSet(selected) /\ selected \subseteq DOMAIN entries
  <2>1. IsFiniteSet(DOMAIN entries)
    BY <1>2, FS_Interval
  <2>2. selected \subseteq DOMAIN entries
    BY DEF Matching
  <2> QED
    BY <2>1, <2>2, FS_Subset
<1>4. \A i \in Matching(q) : i \in selected <=> Older(i, before)
  BY DEF Matching, BeforeCursor, Older
<1>5. \A i \in selected : i \in Nat /\ i \in DOMAIN entries
  BY <1>2, <1>3
<1>6. \A i, j \in selected : <<j, i>> \in R <=> j > i
  OBVIOUS
<1>7. \A n : Nth(n) = {i \in selected : rank[i] = n - 1}
  <2>1. \A i \in selected : {j \in selected : <<j, i>> \in R} = {j \in selected : j > i}
    OBVIOUS
  <2> HIDE DEF R, selected
  <2> QED
    BY <2>1
<1> HIDE DEF R, Nth, selected
<1>8. /\ \A x, y, z \in selected : <<x, y>> \in R /\ <<y, z>> \in R => <<x, z>> \in R
      /\ \A x \in selected : <<x, x>> \notin R
      /\ \A x, y \in selected : x # y => <<x, y>> \in R \/ <<y, x>> \in R
  BY <1>5, <1>6
<1>9. /\ card \in Nat
      /\ \A x \in selected : rank[x] \in 0..(card - 1)
      /\ \A x, y \in selected : rank[x] < rank[y] <=> <<x, y>> \in R
      /\ \A n \in 1..card : \E x \in selected : rank[x] = n - 1
  <2>1. IsFiniteSet(selected)
    BY <1>3
  <2> HIDE DEF f, many
  <2> QED
    BY <1>8, <2>1, Ranks
<1> HIDE DEF rank, card, f
<1>10. /\ many \in Nat /\ many <= card /\ 1..many \subseteq 1..card
       /\ card > 0 => many > 0 /\ many \in 1..many
  <2>1. card \in Nat /\ AuditLimit \in Nat \ {0}
        /\ many = IF card > AuditLimit THEN AuditLimit ELSE card
    BY <1>9, AuditTrailAssumption DEF card
  <2> HIDE DEF many
  <2> QED
    BY <2>1
<1> HIDE DEF many
<1>11. \A n \in 1..many : f[n] \in selected /\ rank[f[n]] = n - 1
  <2> TAKE n \in 1..many
  <2>1. \E j \in selected : rank[j] = n - 1
    BY <1>9, <1>10
  <2>2. f[n] \in Nth(n)
    BY <1>1, <1>7, <2>1
  <2> QED
    BY <1>7, <2>2
<1>12. f \in Seq(DOMAIN entries) /\ Len(f) = many /\ DOMAIN f = 1..many
  <2>1. \A n \in 1..many : f[n] \in DOMAIN entries
    BY <1>3, <1>11
  <2>2. f = [n \in 1..many |-> f[n]] /\ DOMAIN f = 1..many
    BY <1>1
  <2>3. f \in Seq(DOMAIN entries)
    BY <1>10, <2>1, <2>2, IsASeq
  <2> QED
    BY <1>10, <2>2, <2>3, LenProperties
<1>13. Falling(f)
  <2> SUFFICES ASSUME NEW m \in 1..many, NEW n \in 1..many, m < n PROVE f[n] < f[m]
    BY <1>12 DEF Falling
  <2>1. rank[f[m]] < rank[f[n]]
    BY <1>10, <1>11
  <2>2. <<f[m], f[n]>> \in R
    BY <1>9, <1>11, <2>1
  <2>3. f[m] > f[n]
    BY <1>6, <1>11, <2>2
  <2> QED
    BY <1>5, <1>11, <2>3
<1>14. \A n \in DOMAIN f : Older(f[n], before)
  BY <1>4, <1>11, <1>12 DEF selected
<1>15. ASSUME NEW i \in Matching(q), Older(i, before)
       PROVE  Shows(f, i) \/ (f # <<>> /\ i < f[Len(f)])
  <2>1. i \in selected
    BY <1>4, <1>15
  <2>2. rank[i] \in 0..(card - 1) /\ rank[i] + 1 \in 1..card /\ card > 0
    BY <1>9, <2>1
  <2>3. CASE rank[i] + 1 \in 1..many
    <3>1. PICK n \in 1..many : n = rank[i] + 1
      BY <2>3
    <3>2. f[n] \in selected /\ rank[f[n]] = n - 1
      BY <1>11
    <3>3. rank[f[n]] = rank[i] /\ ~(rank[f[n]] < rank[i]) /\ ~(rank[i] < rank[f[n]])
      BY <1>9, <2>2, <3>1, <3>2
    <3>4. f[n] = i
      BY <1>8, <1>9, <2>1, <3>2, <3>3
    <3> QED
      BY <1>12, <3>4 DEF Shows
  <2>4. CASE rank[i] + 1 \notin 1..many
    <3>1. many \in 1..many /\ many - 1 < rank[i]
      BY <1>9, <1>10, <2>2, <2>4
    <3>2. f[many] \in selected /\ rank[f[many]] < rank[i]
      BY <1>11, <3>1
    <3>3. <<f[many], i>> \in R
      BY <1>9, <2>1, <3>2
    <3>4. i < f[many]
      BY <1>5, <1>6, <2>1, <3>2, <3>3
    <3>5. f # <<>>
      BY <1>10, <1>12, <2>2, EmptySeq
    <3> QED
      BY <1>12, <3>4, <3>5
  <2> QED
    BY <2>3, <2>4
<1> QED
  BY <1>12, <1>13, <1>14, <1>15 DEF f

(* A row is added or nothing is, no thread of another's doing: the walk    *)
(* owes what it owed.                                                      *)
LEMMA WalkGoesOn ==
    ASSUME AuditTypeOK, NEW w, Walked(w), UNCHANGED owed,
           \/ UNCHANGED entries
           \/ \E e \in AuditEntry : entries' = Append(entries, e)
    PROVE  /\ DOMAIN entries \subseteq DOMAIN entries'
           /\ \A i \in DOMAIN entries : entries'[i] = entries[i]
           /\ Walked(w)'
<1>1. DOMAIN entries \subseteq DOMAIN entries' /\ \A i \in DOMAIN entries : entries'[i] = entries[i]
  <2>1. CASE \E e \in AuditEntry : entries' = Append(entries, e)
    <3>1. PICK e \in AuditEntry : entries' = Append(entries, e)
      BY <2>1
    <3>2. entries \in Seq(AuditEntry) /\ DOMAIN entries = 1..Len(entries) /\ Len(entries) \in Nat
      BY AuditFacts
    <3>3. /\ entries' \in Seq(AuditEntry) /\ Len(entries') = Len(entries) + 1
          /\ \A i \in 1..Len(entries) : entries'[i] = entries[i]
      <4>1. entries \in Seq(AuditEntry)
        BY <3>2
      <4> QED
        BY <3>1, <4>1, AppendProperties
    <3>4. DOMAIN entries' = 1..(Len(entries) + 1)
      BY <3>3, LenProperties
    <3> QED
      BY <3>2, <3>3, <3>4
  <2> QED
    BY <2>1
<1>2. \A S : S \in Seq(DOMAIN entries) => S \in Seq(DOMAIN entries')
  <2> TAKE S
  <2> HAVE S \in Seq(DOMAIN entries)
  <2>1. S = [n \in 1..Len(S) |-> S[n]] /\ Len(S) \in Nat /\ \A n \in 1..Len(S) : S[n] \in DOMAIN entries
    BY LenProperties, ElementOfSeq
  <2>2. \A n \in 1..Len(S) : S[n] \in DOMAIN entries'
    BY <1>1, <2>1
  <2> QED
    BY <2>1, <2>2, IsASeq
<1>3. \A q, i : i \in Matching(q) => i \in Matching(q)'
  BY <1>1 DEF Matching
<1> QED
  BY <1>1, <1>2, <1>3 DEF Walked, Falling, Shows, Older

LEMMA RecordActionStep ==
    ASSUME AuditInv, NEW t \in Threads, NEW actor \in Actors, RecordAction(t, actor)
    PROVE  AuditInv'
<1> DEFINE w == [pc |-> "entry", actor |-> actor, at |-> audited]
<1>1. /\ writing[t] = NotWriting /\ writing' = [writing EXCEPT ![t] = w]
      /\ writing \in [Threads -> Appends] /\ audited \in 0..MaxInstant
      /\ UNCHANGED <<entries, nextSequence, audited, auditWalk, owed, auditOverlapped>>
  BY DEF RecordAction, AuditInv, AuditTypeOK
<1>2. w \in Appends /\ w.pc = "entry" /\ NotWriting.pc = "idle"
  BY <1>1 DEF Appends, NotWriting
<1> HIDE DEF w
<1>3. AuditTypeOK'
  BY <1>1, <1>2 DEF AuditInv, AuditTypeOK
<1>4. \A u \in Threads : \/ writing'[u] = writing[u]
                         \/ u = t /\ writing[u].pc = "idle" /\ writing'[u].pc = "entry"
  BY <1>1, <1>2
<1>5. ~auditOverlapped => NumberedOn'
  BY <1>1, <1>4 DEF AuditInv, NumberedOn, InAppend
<1>6. ~auditOverlapped => (auditWalk # NoAuditWalk => Walked(auditWalk)')
  BY <1>1 DEF AuditInv, Walked, Matching, Falling, Shows, Older
<1> QED
  BY <1>1, <1>3, <1>5, <1>6 DEF AuditInv

(* An entry built while no other append is past this point takes the number *)
(* of its position.                                                        *)
LEMMA BuildEntryStep ==
    ASSUME AuditInv, NEW t \in Threads, BuildEntry(t)
    PROVE  AuditInv'
<1> DEFINE e == [sequence |-> nextSequence, actor |-> writing[t].actor, at |-> writing[t].at]
           w == [pc |-> "store", entry |-> e]
<1>1. /\ writing[t].pc = "entry" /\ writing' = [writing EXCEPT ![t] = w]
      /\ writing \in [Threads -> Appends] /\ nextSequence \in Nat \ {0}
      /\ auditOverlapped \in BOOLEAN
      /\ UNCHANGED <<entries, nextSequence, audited, auditWalk, owed>>
  BY DEF BuildEntry, AuditInv, AuditTypeOK
<1>2. e \in AuditEntry
  <2>1. writing[t] \in [pc : {"entry"}, actor : Actors, at : 0..MaxInstant]
    BY <1>1 DEF Appends, NotWriting
  <2> QED
    BY <1>1, <2>1 DEF AuditEntry
<1> HIDE DEF e
<1>3. w \in Appends /\ w.pc = "store" /\ w.entry = e
  BY <1>2 DEF Appends
<1> HIDE DEF w
<1>4. auditOverlapped' = (auditOverlapped \/ \E u \in Writing : u # t /\ writing[u].pc # "entry")
  BY DEF BuildEntry
<1>5. AuditTypeOK'
  BY <1>1, <1>3, <1>4 DEF AuditInv, AuditTypeOK
<1>6. ASSUME ~auditOverlapped' PROVE ~auditOverlapped /\ NumberedOn'
  <2>1. ~auditOverlapped /\ \A u \in Threads : u # t /\ writing[u] # NotWriting => writing[u].pc = "entry"
    BY <1>4, <1>6 DEF Writing
  <2>2. \A u \in Threads : ~InAppend(u)
    BY <1>1, <2>1 DEF InAppend, NotWriting
  <2>3. NumberedOn /\ nextSequence = Len(entries) + 1
    BY <2>1, <2>2 DEF AuditInv, NumberedOn, InAppend
  <2>4. \A u \in Threads : u # t => writing'[u] = writing[u]
    BY <1>1
  <2>5. writing'[t].pc = "store" /\ writing'[t].entry.sequence = Len(entries) + 1
    BY <1>1, <1>3, <2>3 DEF e
  <2> QED
    BY <1>1, <2>1, <2>2, <2>3, <2>4, <2>5 DEF NumberedOn, InAppend
<1>7. ~auditOverlapped => (auditWalk # NoAuditWalk => Walked(auditWalk)')
  BY <1>1 DEF AuditInv, Walked, Matching, Falling, Shows, Older
<1> QED
  BY <1>1, <1>5, <1>6, <1>7 DEF AuditInv

(* It is stored at that position.                                          *)
LEMMA StoreEntryStep ==
    ASSUME AuditInv, NEW t \in Threads, StoreEntry(t)
    PROVE  AuditInv'
<1> DEFINE w == [pc |-> "load"]
<1>0. PICK e : e = writing[t].entry
  OBVIOUS
<1>1. /\ writing[t].pc = "store" /\ entries' = Append(entries, e)
      /\ writing' = [writing EXCEPT ![t] = w]
      /\ writing \in [Threads -> Appends]
      /\ UNCHANGED <<nextSequence, audited, auditWalk, owed, auditOverlapped>>
  BY <1>0 DEF StoreEntry, AuditInv, AuditTypeOK
<1>2. e \in AuditEntry /\ w \in Appends /\ w.pc = "load"
  BY <1>0, <1>1 DEF Appends, NotWriting
<1> HIDE DEF w
<1>3. /\ entries' \in Seq(AuditEntry) /\ Len(entries') = Len(entries) + 1
      /\ entries'[Len(entries) + 1] = e /\ DOMAIN entries = 1..Len(entries) /\ Len(entries) \in Nat
      /\ DOMAIN entries' = 1..(Len(entries) + 1)
      /\ \A i \in DOMAIN entries : entries'[i] = entries[i]
  <2>1. entries \in Seq(AuditEntry) /\ DOMAIN entries = 1..Len(entries) /\ Len(entries) \in Nat
    BY AuditFacts DEF AuditInv
  <2>2. /\ entries' \in Seq(AuditEntry) /\ Len(entries') = Len(entries) + 1
        /\ entries'[Len(entries) + 1] = e /\ \A i \in 1..Len(entries) : entries'[i] = entries[i]
    <3>1. entries \in Seq(AuditEntry)
      BY <2>1
    <3> QED
      BY <1>1, <1>2, <3>1, AppendProperties
  <2>3. DOMAIN entries' = 1..Len(entries')
    BY <2>2, LenProperties
  <2> QED
    BY <2>1, <2>2, <2>3
<1>4. DOMAIN entries \subseteq DOMAIN entries'
  BY <1>3
<1>5. AuditTypeOK'
  BY <1>1, <1>2, <1>3, <1>4 DEF AuditInv, AuditTypeOK
<1>6. ASSUME ~auditOverlapped PROVE NumberedOn'
  <2>1. NumberedOn /\ \A u \in Threads : u # t => ~InAppend(u)
    BY <1>1, <1>6 DEF AuditInv, NumberedOn, InAppend
  <2>2. \A u \in Threads : u # t => writing'[u] = writing[u] /\ ~InAppend(u)'
    BY <1>1, <2>1 DEF InAppend
  <2>3. writing'[t].pc = "load"
    BY <1>1, <1>2
  <2>4. e.sequence = Len(entries) + 1 /\ nextSequence = Len(entries) + 1
    BY <1>0, <1>1, <2>1 DEF NumberedOn, InAppend
  <2>5. \A i \in DOMAIN entries' : entries'[i].sequence = i
    <3> TAKE i \in DOMAIN entries'
    <3>1. i \in DOMAIN entries \/ i = Len(entries) + 1
      BY <1>3
    <3> QED
      BY <1>3, <2>1, <2>4, <3>1 DEF NumberedOn
  <2>6. nextSequence' = Len(entries')
    BY <1>1, <1>3, <2>4
  <2> QED
    BY <2>2, <2>3, <2>5, <2>6 DEF NumberedOn, InAppend
<1>7. ~auditOverlapped => (auditWalk # NoAuditWalk => Walked(auditWalk)')
  <2> SUFFICES ASSUME ~auditOverlapped, auditWalk # NoAuditWalk PROVE Walked(auditWalk)'
    OBVIOUS
  <2>1. PICK v : v = auditWalk
    OBVIOUS
  <2>2. Walked(v)'
    BY <1>1, <1>2, <2>1, WalkGoesOn DEF AuditInv
  <2> QED
    BY <1>1, <2>1, <2>2 DEF Walked
<1> QED
  BY <1>1, <1>5, <1>6, <1>7 DEF AuditInv

(* `_next_sequence += 1`, a load and a store.                              *)
LEMMA CountStep ==
    ASSUME AuditInv, NEW t \in Threads, LoadNext(t) \/ BumpNext(t)
    PROVE  AuditInv'
<1>1. PICK w : writing' = [writing EXCEPT ![t] = w] /\ w = writing'[t]
  BY DEF LoadNext, BumpNext, AuditInv, AuditTypeOK
<1>2. UNCHANGED <<entries, audited, auditWalk, owed, auditOverlapped>>
      /\ writing \in [Threads -> Appends] /\ nextSequence \in Nat \ {0}
  BY DEF LoadNext, BumpNext, AuditInv, AuditTypeOK
<1>3. \/ /\ writing[t].pc = "load" /\ w = [pc |-> "bump", loaded |-> nextSequence]
         /\ nextSequence' = nextSequence
      \/ /\ writing[t].pc = "bump" /\ w = NotWriting /\ nextSequence' = writing[t].loaded + 1
  BY <1>1, <1>2 DEF LoadNext, BumpNext
<1>4. w \in Appends /\ nextSequence' \in Nat \ {0}
  <2>1. CASE writing[t].pc = "load"
    BY <1>2, <1>3, <2>1 DEF Appends
  <2>2. CASE writing[t].pc = "bump"
    <3>1. writing[t] \in [pc : {"bump"}, loaded : Nat \ {0}]
      BY <1>2, <2>2 DEF Appends, NotWriting
    <3>2. nextSequence' = writing[t].loaded + 1 /\ writing[t].loaded \in Nat /\ w = NotWriting
      BY <1>3, <2>2, <3>1
    <3> QED
      BY <3>2 DEF Appends
  <2> QED
    BY <1>3, <2>1, <2>2
<1>5. AuditTypeOK'
  BY <1>1, <1>2, <1>4 DEF AuditInv, AuditTypeOK
<1>6. ASSUME ~auditOverlapped PROVE NumberedOn'
  <2>1. NumberedOn /\ \A u \in Threads : u # t => ~InAppend(u)
    BY <1>3, <1>6 DEF AuditInv, NumberedOn, InAppend
  <2>2. \A u \in Threads : u # t => writing'[u] = writing[u] /\ ~InAppend(u)'
    BY <1>1, <2>1 DEF InAppend
  <2>3. nextSequence = Len(entries)
    BY <1>3, <2>1 DEF NumberedOn
  <2>4. CASE writing[t].pc = "load"
    <3>1. writing'[t].pc = "bump" /\ writing'[t].loaded = nextSequence /\ nextSequence' = nextSequence
      BY <1>1, <1>2, <1>3, <2>4
    <3> QED
      BY <1>2, <2>1, <2>2, <2>3, <3>1 DEF NumberedOn, InAppend
  <2>5. CASE writing[t].pc = "bump"
    <3>1. writing'[t].pc = "idle" /\ nextSequence' = Len(entries) + 1
      BY <1>1, <1>2, <1>3, <2>1, <2>3, <2>5 DEF NumberedOn, NotWriting
    <3> QED
      BY <1>2, <2>1, <2>2, <3>1 DEF NumberedOn, InAppend
  <2> QED
    BY <1>3, <2>4, <2>5
<1>7. ~auditOverlapped => (auditWalk # NoAuditWalk => Walked(auditWalk)')
  BY <1>2 DEF AuditInv, Walked, Matching, Falling, Shows, Older
<1> QED
  BY <1>2, <1>5, <1>6, <1>7 DEF AuditInv

LEMMA StartAuditWalkStep ==
    ASSUME AuditInv, NEW q \in AuditQueries, StartAuditWalk(q)
    PROVE  AuditInv'
<1> DEFINE w == [query |-> q, before |-> 0, shown |-> <<>>, ended |-> FALSE]
<1>1. /\ auditWalk' = w /\ owed' = Matching(q)
      /\ UNCHANGED <<entries, nextSequence, writing, audited, auditOverlapped>>
  BY DEF StartAuditWalk
<1>2. AuditTypeOK'
  BY <1>1 DEF AuditInv, AuditTypeOK, Matching
<1>3. Matching(q)' = Matching(q)
  BY <1>1 DEF Matching
<1>4. w \in [query : AuditQueries, before : Nat, shown : Seq(DOMAIN entries), ended : BOOLEAN]
  BY EmptySeq
<1>5. Walked(auditWalk)'
  BY <1>1, <1>3, <1>4, EmptySeq DEF Walked, Falling, Shows, Older
<1> QED
  BY <1>1, <1>2, <1>5 DEF AuditInv, NumberedOn, InAppend

(* A page more: rows older than those shown, none left out between.        *)
LEMMA NextPageStep ==
    ASSUME AuditInv, NextPage
    PROVE  AuditInv'
<1>1. /\ auditWalk # NoAuditWalk /\ ~auditWalk.ended
      /\ UNCHANGED <<entries, nextSequence, writing, audited, owed, auditOverlapped>>
  BY DEF NextPage
<1>2. AuditTypeOK'
  BY <1>1 DEF AuditInv, AuditTypeOK
<1>3. ASSUME ~auditOverlapped PROVE Walked(auditWalk)'
  <2>1. PICK w, page, s : w = auditWalk /\ page = Page(w.query, w.before) /\ s = w.shown
    OBVIOUS
  <2>2. PICK v : v = IF page = <<>> THEN [w EXCEPT !.ended = TRUE]
                     ELSE [w EXCEPT !.shown = @ \o page, !.before = entries[Last(page)].sequence]
    OBVIOUS
  <2>3. auditWalk' = v
    BY <2>1, <2>2 DEF NextPage
  <2>4. Walked(w) /\ NumberedOn
    BY <1>1, <1>3, <2>1 DEF AuditInv
  <2>5. /\ w \in [query : AuditQueries, before : Nat, shown : Seq(DOMAIN entries), ended : BOOLEAN]
        /\ Falling(s) /\ w.before = IF s = <<>> THEN 0 ELSE s[Len(s)]
        /\ ~w.ended /\ s \in Seq(DOMAIN entries) /\ w.before \in Nat
    BY <1>1, <2>1, <2>4 DEF Walked
  <2>6. /\ page \in Seq(DOMAIN entries) /\ Falling(page)
        /\ \A n \in DOMAIN page : Older(page[n], w.before)
        /\ \A i \in Matching(w.query) : Older(i, w.before) =>
               Shows(page, i) \/ (page # <<>> /\ i < page[Len(page)])
    BY <2>1, <2>4, <2>5, PageLeads DEF AuditInv, NumberedOn
  <2>7. \A i \in owed : /\ i \in Matching(w.query) /\ i \in DOMAIN entries
                        /\ Shows(s, i) \/ Older(i, w.before)
    BY <2>1, <2>4 DEF Walked, AuditInv, AuditTypeOK
  <2>8. CASE page = <<>>
    <3>1. /\ v = [w EXCEPT !.ended = TRUE] /\ v.shown = s /\ v.before = w.before /\ v.query = w.query
          /\ v.ended
          /\ v \in [query : AuditQueries, before : Nat, shown : Seq(DOMAIN entries), ended : BOOLEAN]
      BY <2>1, <2>2, <2>5, <2>8
    <3>2. \A i : ~Shows(page, i)
      BY <2>8, EmptySeq DEF Shows
    <3>3. \A i \in owed : Shows(s, i)
      BY <2>6, <2>7, <2>8, <3>2
    <3>4. Walked(v)
      BY <2>5, <2>7, <3>1, <3>3 DEF Walked
    <3> QED
      BY <1>1, <2>3, <3>4 DEF Walked, Matching, Falling, Shows, Older
  <2>9. CASE page # <<>>
    <3>1. PICK ls, lp : ls = Len(s) /\ lp = Len(page)
      OBVIOUS
    <3>2. /\ DOMAIN s = 1..ls /\ ls \in Nat /\ \A n \in 1..ls : s[n] \in DOMAIN entries
          /\ DOMAIN page = 1..lp /\ lp \in Nat \ {0} /\ \A n \in 1..lp : page[n] \in DOMAIN entries
      BY <2>5, <2>6, <2>9, <3>1, LenProperties, ElementOfSeq, EmptySeq
    <3>3. lp \in 1..lp /\ lp \in Nat /\ ls \in Nat /\ ls + lp \in 1..(ls + lp) /\ lp # 0
      <4>1. lp \in Nat \ {0} /\ ls \in Nat
        BY <3>2
      <4> QED
        BY <4>1
    <3>4. PICK t : t = s \o page
      OBVIOUS
    <3>5. /\ t \in Seq(DOMAIN entries) /\ Len(t) = ls + lp /\ DOMAIN t = 1..(ls + lp)
          /\ \A n \in 1..(ls + lp) : t[n] = IF n <= ls THEN s[n] ELSE page[n - ls]
      BY <2>5, <2>6, <3>1, <3>4, ConcatProperties, LenProperties
    <3>6. \A i \in DOMAIN entries : i \in Nat /\ entries[i].sequence = i
      BY <2>4, AuditFacts DEF NumberedOn, AuditInv
    <3>7. Last(page) = page[lp] /\ page[lp] \in DOMAIN entries /\ entries[Last(page)].sequence = page[lp]
      BY <3>1, <3>2, <3>3, <3>6 DEF Last
    <3>8. /\ v.shown = t /\ v.before = page[lp] /\ v.query = w.query /\ ~v.ended
          /\ v \in [query : AuditQueries, before : Nat, shown : Seq(DOMAIN entries), ended : BOOLEAN]
      <4>1. v = [w EXCEPT !.shown = t, !.before = page[lp]]
        BY <2>1, <2>2, <2>9, <3>4, <3>7
      <4>2. page[lp] \in Nat
        BY <3>6, <3>7
      <4> QED
        BY <2>5, <3>5, <4>1, <4>2
    <3>9. t # <<>> /\ t[Len(t)] = page[lp]
      <4>1. ~(ls + lp <= ls) /\ ls + lp - ls = lp /\ ls + lp # 0
        BY <3>3
      <4> QED
        BY <3>3, <3>5, <4>1, EmptySeq
    <3>10. Falling(t)
      <4> SUFFICES ASSUME NEW m \in 1..(ls + lp), NEW n \in 1..(ls + lp), m < n PROVE t[n] < t[m]
        BY <3>5 DEF Falling
      <4>1. CASE n <= ls
        <5>1. m \in 1..ls /\ n \in 1..ls /\ m <= ls
          BY <3>3, <4>1
        <5> QED
          BY <2>5, <3>2, <3>5, <4>1, <5>1 DEF Falling
      <4>2. CASE ~(m <= ls)
        <5>1. m - ls \in 1..lp /\ n - ls \in 1..lp /\ m - ls < n - ls /\ ~(n <= ls)
          BY <3>3, <4>2
        <5>2. t[m] = page[m - ls] /\ t[n] = page[n - ls]
          BY <3>5, <4>2, <5>1
        <5> QED
          BY <2>6, <3>2, <5>1, <5>2 DEF Falling
      <4>3. CASE m <= ls /\ ~(n <= ls)
        <5>1. m \in 1..ls /\ n - ls \in 1..lp /\ ls \in 1..ls /\ ls # 0 /\ (m < ls \/ m = ls)
          BY <3>3, <4>3
        <5>2. t[m] = s[m] /\ t[n] = page[n - ls]
          BY <3>5, <4>3
        <5>3. s # <<>> /\ w.before = s[ls]
          BY <2>5, <3>1, <5>1, EmptySeq
        <5>4. s[ls] \in Nat /\ s[m] \in Nat /\ page[n - ls] \in Nat /\ s[ls] # 0
          <6>1. \A i \in DOMAIN entries : i \in Nat /\ i # 0
            BY AuditFacts DEF AuditInv
          <6> QED
            BY <3>2, <5>1, <6>1
        <5>5. page[n - ls] < s[ls]
          BY <2>6, <3>2, <5>1, <5>3, <5>4 DEF Older
        <5>6. s[ls] = s[m] \/ s[ls] < s[m]
          BY <2>5, <3>2, <5>1 DEF Falling
        <5> QED
          BY <5>2, <5>4, <5>5, <5>6
      <4> QED
        BY <4>1, <4>2, <4>3
    <3>11. ASSUME NEW i \in owed PROVE Shows(t, i) \/ Older(i, page[lp])
      <4>1. CASE Shows(s, i)
        <5>1. PICK n \in 1..ls : s[n] = i
          BY <3>2, <4>1 DEF Shows
        <5>2. n \in 1..(ls + lp) /\ n <= ls
          BY <3>3, <5>1
        <5> QED
          BY <3>5, <5>1, <5>2 DEF Shows
      <4>2. CASE Shows(page, i)
        <5>1. PICK k \in 1..lp : page[k] = i
          BY <3>2, <4>2 DEF Shows
        <5>2. PICK n : n = ls + k
          OBVIOUS
        <5>3. n \in 1..(ls + lp) /\ ~(n <= ls) /\ n - ls = k
          BY <3>3, <5>1, <5>2
        <5> QED
          BY <3>5, <5>1, <5>3 DEF Shows
      <4>3. CASE i < page[Len(page)]
        BY <3>1, <4>3 DEF Older
      <4> QED
        BY <2>6, <2>7, <4>1, <4>2, <4>3
    <3>12. Walked(v)
      BY <2>7, <3>8, <3>9, <3>10, <3>11 DEF Walked
    <3> QED
      BY <1>1, <2>3, <3>12 DEF Walked, Matching, Falling, Shows, Older
  <2> QED
    BY <2>8, <2>9
<1> QED
  BY <1>1, <1>2, <1>3 DEF AuditInv, NumberedOn, InAppend

LEMMA AuditStep ==
    ASSUME AuditInv, [AuditNext]_auditVars
    PROVE  AuditInv'
<1>1. CASE AuditClock \/ UNCHANGED auditVars
  <2>1. UNCHANGED <<entries, nextSequence, writing, auditWalk, owed, auditOverlapped>>
        /\ audited' \in 0..MaxInstant
    BY <1>1, AuditTrailAssumption DEF AuditClock, auditVars, AuditInv, AuditTypeOK
  <2> QED
    BY <2>1 DEF AuditInv, AuditTypeOK, NumberedOn, InAppend, Walked, Matching, Falling, Shows, Older
<1> QED
  BY <1>1, RecordActionStep, BuildEntryStep, StoreEntryStep, CountStep, StartAuditWalkStep,
     NextPageStep DEF AuditNext

LEMMA AuditBegins == AuditInit => AuditInv
<1> SUFFICES ASSUME AuditInit PROVE AuditInv
  OBVIOUS
<1>1. /\ entries = <<>> /\ nextSequence = 1 /\ audited = 0 /\ auditWalk = NoAuditWalk /\ owed = {}
      /\ writing = [t \in Threads |-> NotWriting] /\ auditOverlapped = FALSE
  BY DEF AuditInit
<1>2. entries \in Seq(AuditEntry) /\ DOMAIN entries = {} /\ Len(entries) = 0
  BY <1>1, EmptySeq
<1>3. AuditTypeOK
  <2>1. NotWriting \in Appends /\ audited \in 0..MaxInstant /\ nextSequence \in Nat \ {0}
    BY <1>1, AuditTrailAssumption DEF Appends
  <2>2. writing \in [Threads -> Appends]
    BY <1>1, <2>1
  <2> QED
    BY <1>1, <1>2, <2>1, <2>2 DEF AuditTypeOK
<1>4. \A t \in Threads : writing[t].pc = "idle"
  BY <1>1 DEF NotWriting
<1> QED
  BY <1>1, <1>2, <1>3, <1>4 DEF AuditInv, NumberedOn, InAppend

LEMMA AuditPagesAreCited == AuditInv => PagesCanBeCited
<1> SUFFICES ASSUME AuditInv, auditWalk # NoAuditWalk, ~auditOverlapped
             PROVE  /\ IsInjective(auditWalk.shown)
                    /\ auditWalk.ended => owed \subseteq ToSet(auditWalk.shown)
  BY DEF PagesCanBeCited
<1> DEFINE s == auditWalk.shown
<1>1. s \in Seq(DOMAIN entries) /\ Falling(s)
      /\ \A i \in owed : Shows(s, i) \/ ~auditWalk.ended
  BY DEF AuditInv, Walked
<1>2. DOMAIN s = 1..Len(s) /\ Len(s) \in Nat /\ \A n \in 1..Len(s) : s[n] \in DOMAIN entries
  BY <1>1, LenProperties, ElementOfSeq
<1>3. \A i \in DOMAIN entries : i \in Nat
  BY AuditFacts DEF AuditInv
<1>4. \A n \in DOMAIN s : n \in Nat /\ s[n] \in Nat
  BY <1>2, <1>3
<1> HIDE DEF s
<1>5. IsInjective(s)
  <2> SUFFICES ASSUME NEW m \in DOMAIN s, NEW n \in DOMAIN s, s[m] = s[n], m # n PROVE FALSE
    BY DEF IsInjective
  <2>1. m < n \/ n < m
    BY <1>4
  <2>2. s[n] < s[m] \/ s[m] < s[n]
    BY <1>1, <2>1 DEF Falling
  <2> QED
    BY <1>4, <2>2
<1> QED
  BY <1>1, <1>5 DEF s, Shows, ToSet
-----------------------------------------------------------------------------
(* A run sweeps within its batches, on a day that is past or today, and   *)
(* drops months that were over at the cutoff of that day.                  *)
RetentionInv ==
    /\ RetentionTypeOK /\ run \in [Runners -> {NoRun} \cup Run]
    /\ \A r \in Runners : run[r] # NoRun =>
          /\ run[r].day <= today /\ run[r].batches < MaxBatches
          /\ run[r].at = "existed" => run[r].todo # {}
          /\ \A p \in run[r].todo : MonthStarts[p[2] + 1] <= Cutoff(p[1], run[r].day)

(* The first and the last day are days, the tables have their windows.     *)
LEMMA RetentionFacts ==
    /\ LastDay \in Nat /\ MaxBatches \in Nat \ {0} /\ BatchRows \in Nat \ {0}
    /\ Len(MonthStarts) \in Nat /\ Months \subseteq Nat \ {0}
    /\ \A m \in Months : MonthStarts[m] \in Nat /\ MonthStarts[m + 1] \in Nat
    /\ \A table \in PartitionedTables \cup RawTables \cup {"entities", Promotions} :
          DaysFor(table) \in Nat \ {0}
    /\ Promotions \notin PartitionedTables /\ PartitionedTables \subseteq {"alerts", "ingest_stats"}
<1>1. /\ MonthStarts \in Seq(Nat) /\ Len(MonthStarts) \in Nat /\ Len(MonthStarts) > 1
      /\ DOMAIN MonthStarts = 1..Len(MonthStarts)
  BY RetentionAssumption, LenProperties
<1>2. \A k \in 1..Len(MonthStarts) : MonthStarts[k] \in Nat
  BY <1>1, ElementOfSeq
<1>3. PICK n \in Nat : n = Len(MonthStarts) /\ n > 1
  BY <1>1
<1>4. Months = 1..(n - 1) /\ 1 \in 1..n /\ n \in 1..n /\ 1 < n
  BY <1>3 DEF Months
<1>5. MonthStarts[1] \in Nat /\ MonthStarts[n] \in Nat /\ MonthStarts[1] < MonthStarts[n]
  BY <1>1, <1>2, <1>3, <1>4, RetentionAssumption
<1>6. LastDay \in Nat
  BY <1>3, <1>5 DEF LastDay
<1>7. \A m \in Months : m \in 1..n /\ m + 1 \in 1..n
  BY <1>4
<1>8. \A m \in Months : MonthStarts[m] \in Nat /\ MonthStarts[m + 1] \in Nat
  BY <1>2, <1>3, <1>7
<1>9. \A table \in PartitionedTables \cup RawTables \cup {"entities", Promotions} :
          DaysFor(table) \in Nat \ {0}
  <2> TAKE table \in PartitionedTables \cup RawTables \cup {"entities", Promotions}
  <2>1. {RawDays, AlertsDays, StatsDays} \subseteq Nat \ {0}
    BY RetentionAssumption
  <2>2. PartitionedTables \subseteq {"alerts", "ingest_stats"} /\ RawTables \subseteq {"flow_events", "log_events"}
    BY RetentionAssumption
  <2>3. CASE table \in RawTables
    <3>1. table # "ingest_stats" /\ table \notin {"alerts", "entities", Promotions}
      BY <2>2, <2>3 DEF Promotions
    <3> QED
      BY <2>1, <2>3, <3>1 DEF DaysFor
  <2>4. CASE table = "ingest_stats"
    <3>1. table \notin RawTables /\ table \notin {"alerts", "entities", Promotions}
      BY <2>2, <2>4 DEF Promotions
    <3> QED
      BY <2>1, <2>4, <3>1 DEF DaysFor
  <2>5. CASE table \in {"alerts", "entities", Promotions}
    <3>1. table \notin RawTables /\ table # "ingest_stats"
      BY <2>2, <2>5 DEF Promotions
    <3> QED
      BY <2>1, <2>5, <3>1 DEF DaysFor
  <2> QED
    BY <2>2, <2>3, <2>4, <2>5
<1>10. Promotions \notin PartitionedTables /\ PartitionedTables \subseteq {"alerts", "ingest_stats"}
  BY RetentionAssumption DEF Promotions
<1> QED
  BY <1>1, <1>4, <1>6, <1>8, <1>9, <1>10, RetentionAssumption

(* What a runner is in the middle of.                                     *)
LEMMA RunFacts ==
    ASSUME RetentionInv, NEW r \in Runners
    PROVE  /\ run[r] = NoRun => run[r].at = "idle"
           /\ run[r] # NoRun => run[r] \in Run
<1>1. run[r] \in {NoRun} \cup Run
  BY DEF RetentionInv
<1> QED
  BY <1>1 DEF NoRun

(* The months of a plan are numbers: one of them is the next to be dropped. *)
LEMMA NextIsPlanned ==
    ASSUME NEW todo \in SUBSET Partitions, todo # {}
    PROVE  NextDrop(todo) \in todo
<1> DEFINE Of(table) == {m \in Months : <<table, m>> \in todo}
<1>0. PartitionedTables \subseteq {"alerts", "ingest_stats"} /\ Months \subseteq Nat
  BY RetentionFacts
<1>1. \A p \in todo : p[1] \in {"alerts", "ingest_stats"} /\ p[2] \in Months /\ p = <<p[1], p[2]>>
  <2> HIDE DEF Months
  <2> TAKE p \in todo
  <2>1. p \in PartitionedTables \X Months
    BY DEF Partitions
  <2>2. p[1] \in PartitionedTables /\ p[2] \in Months /\ p = <<p[1], p[2]>>
    BY <2>1
  <2> QED
    BY <1>0, <2>2
<1>2. ASSUME NEW table, Of(table) # {}
      PROVE  \E m \in Of(table) : \A l \in Of(table) : m <= l
  <2>1. IsFiniteSet(Of(table)) /\ Of(table) \in SUBSET Nat
    <3>1. IsFiniteSet(Months)
      <4>1. Len(MonthStarts) - 1 \in Int
        BY RetentionFacts
      <4> QED
        BY <4>1, FS_Interval DEF Months
    <3>2. Of(table) \subseteq Months
      OBVIOUS
    <3> HIDE DEF Of
    <3> QED
      BY <1>0, <3>1, <3>2, FS_Subset
  <2> HIDE DEF Of
  <2> QED
    BY <1>2, <2>1, MinOfSet
<1>3. \E p \in todo : \A q \in todo :
        p = q \/ (p[1] = "alerts" /\ q[1] # "alerts") \/ (p[1] = q[1] /\ p[2] < q[2])
  <2>1. PICK table : /\ Of(table) # {}
                     /\ table = "alerts" \/ (table = "ingest_stats" /\ Of("alerts") = {})
    <3>1. CASE Of("alerts") # {}
      BY <3>1
    <3>2. CASE Of("alerts") = {}
      BY <1>1, <3>2
    <3> QED
      BY <3>1, <3>2
  <2>2. PICK m \in Of(table) : \A l \in Of(table) : m <= l
    BY <1>2, <2>1
  <2>3. <<table, m>> \in todo /\ m \in Nat
    BY <2>2, RetentionFacts
  <2>4. ASSUME NEW q \in todo
        PROVE  \/ <<table, m>> = q \/ (table = "alerts" /\ q[1] # "alerts")
               \/ (table = q[1] /\ m < q[2])
    <3>1. CASE q[1] = table
      <4>1. q[2] \in Of(table) /\ q = <<table, q[2]>> /\ q[2] \in Nat
        BY <1>1, <3>1, RetentionFacts
      <4>2. m <= q[2]
        BY <2>2, <4>1
      <4>3. m = q[2] \/ m < q[2]
        BY <2>3, <4>1, <4>2
      <4> QED
        BY <3>1, <4>1, <4>3
    <3>2. CASE q[1] # table
      BY <1>1, <2>1, <3>2
    <3> QED
      BY <3>1, <3>2
  <2>5. PICK p : p = <<table, m>>
    OBVIOUS
  <2>6. p \in todo /\ p[1] = table /\ p[2] = m
    BY <2>3, <2>5
  <2> QED
    BY <2>4, <2>5, <2>6
<1> QED
  BY <1>3 DEF NextDrop

(* One runner moves on to m, and today stays.                              *)
LEMMA RunMoves ==
    ASSUME RetentionInv, NEW r \in Runners, NEW m \in {NoRun} \cup Run,
           run' = [run EXCEPT ![r] = m], today' = today,
           catalog' \subseteq catalog, tableRows' \subseteq tableRows, trail' \subseteq Partitions,
           entities' \in [Entities -> 0..LastDay \cup {-1}],
           m # NoRun => /\ m.day <= today /\ m.batches < MaxBatches
                        /\ m.at = "existed" => m.todo # {}
                        /\ \A p \in m.todo : MonthStarts[p[2] + 1] <= Cutoff(p[1], m.day)
    PROVE  RetentionInv'
<1>1. run' \in [Runners -> {NoRun} \cup Run] /\ run'[r] = m /\ \A s \in Runners : s # r => run'[s] = run[s]
  BY DEF RetentionInv
<1>2. RetentionTypeOK'
  BY <1>1 DEF RetentionInv, RetentionTypeOK
<1>3. \A s \in Runners : run'[s] # NoRun =>
          /\ run'[s].day <= today /\ run'[s].batches < MaxBatches
          /\ run'[s].at = "existed" => run'[s].todo # {}
          /\ \A p \in run'[s].todo : MonthStarts[p[2] + 1] <= Cutoff(p[1], run'[s].day)
  BY <1>1 DEF RetentionInv
<1> QED
  BY <1>1, <1>2, <1>3 DEF RetentionInv

LEMMA StartRunStep ==
    ASSUME RetentionInv, NEW r \in Runners, StartRun(r)
    PROVE  RetentionInv'
<1>1. PICK m : m = [at |-> "drop", day |-> today, todo |-> Droppable(catalog, today),
                    dropped |-> {}, sweeps |-> SweptTables, batches |-> 0]
  OBVIOUS
<1>2. MaxBatches \in Nat \ {0} /\ today \in 0..LastDay /\ LastDay \in Nat
  BY RetentionFacts DEF RetentionInv, RetentionTypeOK
<1>3. Droppable(catalog, today) \subseteq Partitions
  BY DEF Droppable, RetentionInv, RetentionTypeOK
<1>4. m \in Run /\ m.day <= today /\ m.batches < MaxBatches /\ m.at = "drop"
  BY <1>1, <1>2, <1>3 DEF Run
<1>5. \A p \in m.todo : MonthStarts[p[2] + 1] <= Cutoff(p[1], m.day)
  BY <1>1 DEF Droppable
<1> QED
  BY <1>1, <1>4, <1>5, RunMoves DEF StartRun, RetentionInv, RetentionTypeOK

LEMMA LookUpStep ==
    ASSUME RetentionInv, NEW r \in Runners, LookUp(r)
    PROVE  RetentionInv'
<1>1. run[r] \in Run
  BY RunFacts DEF LookUp
<1>2. PICK m : m = [run[r] EXCEPT !.at = "existed",
                        !.dropped = IF NextDrop(run[r].todo) \in catalog
                                    THEN @ \cup {NextDrop(run[r].todo)} ELSE @]
  OBVIOUS
<1>3. run' = [run EXCEPT ![r] = m]
  BY <1>1, <1>2 DEF LookUp, RetentionInv
<1>4. /\ m \in Run /\ m.day = run[r].day /\ m.batches = run[r].batches /\ m.todo = run[r].todo
  BY <1>1, <1>2 DEF Run, RetentionInv, RetentionTypeOK
<1>5. run[r] # NoRun
  BY RunFacts DEF LookUp
<1> QED
  BY <1>3, <1>4, <1>5, RunMoves DEF LookUp, RetentionInv, RetentionTypeOK

LEMMA DropStep ==
    ASSUME RetentionInv, NEW r \in Runners, Drop(r)
    PROVE  RetentionInv'
<1>1. run[r] \in Run /\ run[r] # NoRun
  BY RunFacts DEF Drop
<1>2. PICK m : m = [run[r] EXCEPT !.at = "drop", !.todo = @ \ {NextDrop(run[r].todo)}]
  OBVIOUS
<1>3. run' = [run EXCEPT ![r] = m]
  BY <1>1, <1>2 DEF Drop, RetentionInv
<1>4. m \in Run /\ m.day = run[r].day /\ m.batches = run[r].batches /\ m.todo \subseteq run[r].todo
      /\ m.at = "drop"
  BY <1>1, <1>2 DEF Run
<1>5. catalog' \subseteq catalog /\ tableRows' \subseteq tableRows
  BY DEF Drop
<1> QED
  BY <1>1, <1>3, <1>4, <1>5, RunMoves DEF Drop, RetentionInv, RetentionTypeOK

LEMMA SweepBatchStep ==
    ASSUME RetentionInv, NEW r \in Runners, SweepBatch(r)
    PROVE  RetentionInv'
<1>1. run[r] \in Run /\ run[r] # NoRun
  BY RunFacts DEF SweepBatch, Sweeping
<1>2. tableRows' \subseteq tableRows /\ entities' \in [Entities -> 0..LastDay \cup {-1}]
  <2>1. CASE NextSweep(run[r].sweeps) = "entities"
    <3>1. PICK gone : entities' = [e \in Entities |-> IF e \in gone THEN -1 ELSE entities[e]]
                      /\ UNCHANGED tableRows
      BY <2>1 DEF SweepBatch, SweepEntities
    <3> QED
      BY <3>1 DEF RetentionInv, RetentionTypeOK
  <2>2. CASE NextSweep(run[r].sweeps) # "entities"
    <3>1. PICK gone : tableRows' = tableRows \ gone /\ UNCHANGED entities
      BY <2>2 DEF SweepBatch, SweepRows
    <3> QED
      BY <3>1 DEF RetentionInv, RetentionTypeOK
  <2> QED
    BY <2>1, <2>2
<1>3. PICK gone : SweepEnds(r, gone)
  BY DEF SweepBatch, SweepEntities, SweepRows
<1>4. PICK over : over \in BOOLEAN /\ (run[r].batches + 1 = MaxBatches => over)
                  /\ run' = [run EXCEPT ![r].sweeps = IF over THEN @ \ {NextSweep(@)} ELSE @,
                                        ![r].batches = IF over THEN 0 ELSE @ + 1]
  BY <1>3 DEF SweepEnds
<1>5. PICK m : m = [run[r] EXCEPT !.sweeps = IF over THEN @ \ {NextSweep(@)} ELSE @,
                                  !.batches = IF over THEN 0 ELSE @ + 1]
  OBVIOUS
<1>6. run' = [run EXCEPT ![r] = m]
  BY <1>1, <1>4, <1>5 DEF RetentionInv
<1>7. /\ MaxBatches \in Nat \ {0} /\ run[r].batches \in Nat /\ run[r].batches < MaxBatches
  BY <1>1, RetentionFacts DEF Run, RetentionInv
<1>8. PICK b : b = IF over THEN 0 ELSE run[r].batches + 1
  OBVIOUS
<1>9. b \in 0..MaxBatches /\ b < MaxBatches
  BY <1>4, <1>7, <1>8
<1>10. m \in Run /\ m.day = run[r].day /\ m.batches = b /\ m.todo = run[r].todo /\ m.at = "drop"
  BY <1>1, <1>5, <1>8, <1>9 DEF Run, SweepBatch, Sweeping
<1> QED
  BY <1>1, <1>2, <1>6, <1>9, <1>10, RunMoves DEF SweepBatch, RetentionInv, RetentionTypeOK

LEMMA RunEndsStep ==
    ASSUME RetentionInv, NEW r \in Runners, FinishRun(r) \/ FailRun(r)
    PROVE  RetentionInv'
<1>1. run[r] \in Run
  BY RunFacts DEF FinishRun, FailRun, Sweeping
<1>2. run' = [run EXCEPT ![r] = NoRun] /\ trail' \subseteq Partitions
  BY <1>1 DEF FinishRun, FailRun, Run, RetentionInv, RetentionTypeOK
<1> QED
  BY <1>2, RunMoves DEF FinishRun, FailRun, RetentionInv, RetentionTypeOK

LEMMA WrittenMeanwhileStep ==
    ASSUME RetentionInv,
           \/ \E table \in PartitionedTables \cup RawTables \cup {Promotions}, e \in Entities :
                 WriteRow(table, e)
           \/ \E x \in tableRows : ReverseMove(x)
           \/ NewDay
    PROVE  RetentionInv'
<1>1. today \in 0..LastDay /\ LastDay \in Nat
  BY RetentionFacts DEF RetentionInv, RetentionTypeOK
<1>2. ASSUME NEW table \in PartitionedTables \cup RawTables \cup {Promotions}, NEW e \in Entities,
             WriteRow(table, e)
      PROVE  RetentionInv'
  <2>1. [table |-> table, day |-> today, entity |-> e, live |-> TRUE] \in TableRow
    BY <1>1 DEF TableRow
  <2>2. tableRows' \subseteq TableRow
    BY <1>2, <2>1 DEF WriteRow, RetentionInv, RetentionTypeOK
  <2>3. entities' \in [Entities -> 0..LastDay \cup {-1}]
    BY <1>1, <1>2 DEF WriteRow, RetentionInv, RetentionTypeOK
  <2> QED
    BY <1>2, <2>2, <2>3 DEF WriteRow, RetentionInv, RetentionTypeOK, Cutoff, DaysFor
<1>3. ASSUME NEW x \in tableRows, ReverseMove(x) PROVE RetentionInv'
  <2>1. x \in TableRow
    BY DEF RetentionInv, RetentionTypeOK
  <2>2. [x EXCEPT !.live = FALSE, !.day = today] \in TableRow
    BY <1>1, <2>1 DEF TableRow
  <2>3. tableRows' \subseteq TableRow
    BY <1>3, <2>2 DEF ReverseMove, RetentionInv, RetentionTypeOK
  <2> QED
    BY <1>3, <2>3 DEF ReverseMove, RetentionInv, RetentionTypeOK
<1>4. ASSUME NewDay PROVE RetentionInv'
  <2>1. today' \in 0..LastDay /\ today' = today + 1
    BY <1>1, <1>4 DEF NewDay
  <2>2. RetentionTypeOK'
    BY <1>4, <2>1 DEF NewDay, RetentionInv, RetentionTypeOK
  <2>3. ASSUME NEW r \in Runners, run[r] # NoRun PROVE run[r].day <= today'
    <3>1. run[r].day \in Nat /\ run[r].day <= today
      BY <1>1, <2>3, RunFacts DEF Run, RetentionInv
    <3> QED
      BY <1>1, <2>1, <3>1
  <2> QED
    BY <1>4, <2>2, <2>3 DEF NewDay, RetentionInv
<1> QED
  BY <1>2, <1>3, <1>4

LEMMA RetentionStep ==
    ASSUME RetentionInv, [RetentionNext]_retentionVars
    PROVE  RetentionInv'
<1>1. CASE UNCHANGED retentionVars
  BY <1>1 DEF retentionVars, RetentionInv, RetentionTypeOK
<1>2. CASE RetentionNext
  BY <1>2, StartRunStep, LookUpStep, DropStep, SweepBatchStep, RunEndsStep, WrittenMeanwhileStep
     DEF RetentionNext
<1> QED
  BY <1>1, <1>2

LEMMA RetentionBegins == RetentionInit => RetentionInv
<1> SUFFICES ASSUME RetentionInit PROVE RetentionInv
  OBVIOUS
<1>1. LastDay \in Nat
  BY RetentionFacts
<1> QED
  BY <1>1 DEF RetentionInit, RetentionInv, RetentionTypeOK

(* What a sweep or a drop may take.                                        *)
MayGo(x) == x.day < Cutoff(x.table, today) /\ ~(x.table = Promotions /\ x.live)
KeepsPromise ==
    \/ \E x \in tableRows : ReverseMove(x)
    \/ /\ \A x \in tableRows \ tableRows' : MayGo(x)
       /\ \A e \in Entities : entities'[e] = -1 => entities[e] = -1 \/ ~Referenced(e)

(* A cutoff does not move back.                                            *)
LEMMA CutoffRises ==
    ASSUME RetentionInv, NEW r \in Runners, run[r] # NoRun,
           NEW table \in PartitionedTables \cup RawTables \cup {"entities", Promotions}
    PROVE  /\ Cutoff(table, run[r].day) \in Int /\ Cutoff(table, today) \in Int
           /\ Cutoff(table, run[r].day) <= Cutoff(table, today)
<1>1. run[r].day \in Int /\ today \in Int /\ run[r].day <= today
  <2>1. LastDay \in Nat
    BY RetentionFacts
  <2> QED
    BY <2>1, RunFacts DEF Run, RetentionInv, RetentionTypeOK
<1>2. PICK d \in Int : d = DaysFor(table)
  BY RetentionFacts
<1> QED
  BY <1>1, <1>2 DEF Cutoff

LEMMA DropKeeps ==
    ASSUME RetentionInv, NEW r \in Runners, Drop(r)
    PROVE  KeepsPromise
<1>1. run[r] \in Run /\ run[r] # NoRun /\ run[r].todo # {}
  BY RunFacts DEF Drop, RetentionInv
<1>2. PICK p : p = NextDrop(run[r].todo) /\ p \in run[r].todo
  BY <1>1, NextIsPlanned DEF Run
<1>3. p \in Partitions /\ MonthStarts[p[2] + 1] <= Cutoff(p[1], run[r].day)
  BY <1>1, <1>2 DEF Run, RetentionInv
<1>4. p[1] \in PartitionedTables /\ p[2] \in Months
  BY <1>3 DEF Partitions
<1>5. PICK k, c, d : k = MonthStarts[p[2] + 1] /\ c = Cutoff(p[1], run[r].day) /\ d = Cutoff(p[1], today)
  OBVIOUS
<1>6. k \in Int /\ c \in Int /\ d \in Int /\ k <= c /\ c <= d
  <2>1. k \in Int
    <3>1. \A m \in Months : MonthStarts[m + 1] \in Nat
      BY RetentionFacts
    <3> HIDE DEF Months
    <3> QED
      BY <1>4, <1>5, <3>1
  <2>2. c \in Int /\ d \in Int /\ c <= d
    BY <1>1, <1>4, <1>5, CutoffRises
  <2> QED
    BY <1>3, <1>5, <2>1, <2>2
<1>7. ASSUME NEW x \in tableRows, x \notin tableRows' PROVE MayGo(x)
  <2>1. x.table = p[1] /\ x.day < k /\ x.day \in Int
    <3>1. x \in TableRow /\ LastDay \in Nat
      BY RetentionFacts DEF RetentionInv, RetentionTypeOK
    <3>2. x.table = p[1] /\ Covers(p[2], x.day)
      BY <1>2, <1>7 DEF Drop
    <3> QED
      BY <1>5, <3>1, <3>2 DEF Covers, TableRow
  <2>2. x.day < d
    BY <1>6, <2>1
  <2> QED
    BY <1>4, <1>5, <2>1, <2>2, RetentionFacts DEF MayGo
<1>8. entities' = entities
  BY DEF Drop
<1> QED
  BY <1>7, <1>8 DEF KeepsPromise

LEMMA SweepKeeps ==
    ASSUME RetentionInv, NEW r \in Runners, SweepBatch(r)
    PROVE  KeepsPromise
<1>1. run[r] \in Run /\ run[r] # NoRun
  BY RunFacts DEF SweepBatch, Sweeping
<1>2. CASE NextSweep(run[r].sweeps) = "entities"
  <2>1. PICK gone \in SUBSET ExpiredEntities(Cutoff("entities", run[r].day)) :
            entities' = [e \in Entities |-> IF e \in gone THEN -1 ELSE entities[e]]
            /\ UNCHANGED tableRows
    BY <1>2 DEF SweepBatch, SweepEntities
  <2> QED
    BY <2>1 DEF KeepsPromise, ExpiredEntities
<1>3. CASE NextSweep(run[r].sweeps) # "entities"
  <2>1. PICK table : table = NextSweep(run[r].sweeps)
    OBVIOUS
  <2>2. PICK gone \in SUBSET ExpiredRows(table, Cutoff(table, run[r].day)) :
            tableRows' = tableRows \ gone /\ UNCHANGED entities
    BY <1>3, <2>1 DEF SweepBatch, SweepRows
  <2>3. ASSUME NEW x \in tableRows, x \notin tableRows' PROVE MayGo(x)
    <3>1. /\ x.table = table /\ x.day < Cutoff(table, run[r].day)
          /\ ~(table = Promotions /\ x.live)
      BY <2>2, <2>3 DEF ExpiredRows
    <3>2. x \in TableRow /\ LastDay \in Nat
      BY RetentionFacts DEF RetentionInv, RetentionTypeOK
    <3>3. table \in PartitionedTables \cup RawTables \cup {Promotions} /\ x.day \in Int
      BY <3>1, <3>2 DEF TableRow
    <3>4. PICK c, d : c = Cutoff(table, run[r].day) /\ d = Cutoff(table, today)
      OBVIOUS
    <3>5. c \in Int /\ d \in Int /\ c <= d
      BY <1>1, <3>3, <3>4, CutoffRises
    <3>6. x.day < d
      BY <3>1, <3>3, <3>4, <3>5
    <3> QED
      BY <3>1, <3>4, <3>6 DEF MayGo
  <2> QED
    BY <2>2, <2>3 DEF KeepsPromise
<1> QED
  BY <1>2, <1>3

(* What is written, planned or recorded meanwhile takes nothing.           *)
LEMMA RetentionKeeps ==
    ASSUME RetentionInv, [RetentionNext]_retentionVars
    PROVE  KeepsPromise \/ UNCHANGED retentionVars
<1> SUFFICES ASSUME RetentionNext PROVE KeepsPromise
  OBVIOUS
<1>1. ASSUME NEW r \in Runners, StartRun(r) \/ LookUp(r) \/ FinishRun(r) \/ FailRun(r)
      PROVE  KeepsPromise
  BY <1>1 DEF KeepsPromise, StartRun, LookUp, FinishRun, FailRun
<1>2. ASSUME NEW table \in PartitionedTables \cup RawTables \cup {Promotions}, NEW e \in Entities,
             WriteRow(table, e)
      PROVE  KeepsPromise
  <2>1. today # -1
    <3>1. today \in 0..LastDay /\ LastDay \in Nat
      BY RetentionFacts DEF RetentionInv, RetentionTypeOK
    <3> QED
      BY <3>1
  <2>2. entities \in [Entities -> 0..LastDay \cup {-1}]
    BY DEF RetentionInv, RetentionTypeOK
  <2>3. \A f \in Entities : entities'[f] = -1 => entities[f] = -1
    BY <1>2, <2>1, <2>2 DEF WriteRow
  <2>4. tableRows \ tableRows' = {}
    BY <1>2 DEF WriteRow
  <2> QED
    BY <2>3, <2>4 DEF KeepsPromise
<1>3. ASSUME NewDay PROVE KeepsPromise
  BY <1>3 DEF NewDay, KeepsPromise
<1>4. ASSUME \E x \in tableRows : ReverseMove(x) PROVE KeepsPromise
  BY <1>4 DEF KeepsPromise
<1> QED
  BY <1>1, <1>2, <1>3, <1>4, DropKeeps, SweepKeeps DEF RetentionNext

-----------------------------------------------------------------------------
(* The counters of the erasures stay within their bound.                   *)
AddsInv ==
    /\ adds <= MaxAdds
    /\ \A store \in Stores, s \in Subjects : stored[store][s] <= MaxAdds
    /\ \A store \in Stores, s \in Subjects : -1 <= trailed[store][s]

LEMMA AddsStep ==
    ASSUME ErasuresInv, DatedInv, AddsInv, [ErasureNext]_erasureVars
    PROVE  AddsInv'
<1>1. /\ MaxAdds \in Nat /\ adds \in Nat /\ stored \in [Stores -> [Subjects -> Nat]]
      /\ trailed \in [Stores -> [Subjects -> Int]]
  BY ErasureAssumption DEF ErasuresInv
<1>2. CASE UNCHANGED erasureVars
  BY <1>2 DEF erasureVars, AddsInv
<1>3. ASSUME NEW store \in Stores, NEW s \in Subjects, Register(store, s) PROVE AddsInv'
  <2>1. adds' <= MaxAdds
    BY <1>1, <1>3 DEF Register
  <2>2. \A st \in Stores, r \in Subjects : stored'[st][r] \in {stored[st][r], adds'}
    BY <1>1, <1>3 DEF Register
  <2> QED
    BY <1>1, <1>3, <2>1, <2>2 DEF Register, AddsInv
<1>4. ASSUME NEW t \in Threads, CascadeStore(t) \/ CascadeKeys(t) PROVE AddsInv'
  <2>1. \A st \in Stores, r \in Subjects : stored'[st][r] \in {stored[st][r], 0}
    <3>1. PICK at, s : stored' = [stored EXCEPT ![at][s] = 0]
      BY <1>4 DEF CascadeStore, CascadeKeys
    <3> QED
      BY <1>1, <3>1
  <2> QED
    BY <1>1, <1>4, <2>1 DEF CascadeStore, CascadeKeys, AddsInv
<1>5. ASSUME NEW t \in Threads, AppendEntry(t) PROVE AddsInv'
  <2>1. erasing[t].subject \in Subjects /\ erasing[t].since \in Nat
    BY <1>5, ErasingType DEF AppendEntry, NotErasing
  <2>2. PICK s, y : s = erasing[t].subject /\ y = erasing[t].since
    OBVIOUS
  <2>3. ASSUME NEW store \in Stores, NEW r \in Subjects PROVE -1 <= trailed'[store][r]
    <3>1. PICK x : x = trailed[store][s]
      OBVIOUS
    <3>2. x \in Int /\ y \in Nat /\ -1 <= x /\ s \in Subjects
      BY <1>1, <2>1, <2>2, <3>1 DEF AddsInv
    <3>3. -1 <= Max({x, y})
      BY <3>2, LaterOfTwo
    <3>4. trailed'[store] = [trailed[store] EXCEPT ![s] = Max({x, y})] \/ trailed'[store] = trailed[store]
      BY <1>5, <2>2, <3>1 DEF AppendEntry
    <3>5. trailed'[store][r] \in {trailed[store][r], Max({x, y})}
      BY <1>1, <3>2, <3>4
    <3> QED
      BY <3>3, <3>5 DEF AddsInv
  <2> QED
    BY <1>5, <2>3 DEF AppendEntry, AddsInv
<1>6. CASE UNCHANGED <<stored, trailed, adds>>
  BY <1>6 DEF AddsInv
<1> QED
  BY <1>2, <1>3, <1>4, <1>5, <1>6
     DEF ErasureNext, BeginErasure, CascadeFails, TakeSequence, StartListing, FetchLedgerPage

LEMMA ErasureTypes ==
    ErasuresInv /\ DatedInv /\ AddsInv /\ LedgerInv => ErasureTypeOK
<1> SUFFICES ASSUME ErasuresInv, DatedInv, AddsInv, LedgerInv PROVE ErasureTypeOK
  OBVIOUS
<1>1. /\ MaxAdds \in Nat /\ adds \in Nat /\ stored \in [Stores -> [Subjects -> Nat]]
      /\ trailed \in [Stores -> [Subjects -> Int]] /\ erasures \in Seq(LedgerEntry)
  BY ErasureAssumption DEF ErasuresInv
<1>2. \A store \in Stores, s \in Subjects : stored[store][s] \in 0..MaxAdds
  BY <1>1 DEF AddsInv
<1>3. stored \in [Stores -> [Subjects -> 0..MaxAdds]]
  BY <1>1, <1>2
<1>4. \A store \in Stores, s \in Subjects : trailed[store][s] \in -1..MaxAdds
  BY <1>1 DEF AddsInv, DatedInv
<1>5. trailed \in [Stores -> [Subjects -> -1..MaxAdds]] /\ adds \in 0..MaxAdds
  BY <1>1, <1>4 DEF AddsInv
<1>6. \A t \in Threads : erasing[t] # NotErasing => erasing[t].subject \in Subjects
  BY ErasingType
<1> QED
  BY <1>1, <1>3, <1>5, <1>6 DEF ErasureTypeOK, LedgerInv, Listing
-----------------------------------------------------------------------------
(* The counts of the lifecycle: the rest of its types follows from OpsInv.  *)
OpsCounts ==
    /\ Len(history) <= MaxHistory /\ evaluated \subseteq registered /\ registered \subseteq Addressed
    /\ opsOverlapped \subseteq Kinds

LEMMA OpsCountsStep ==
    ASSUME OpsInv, OpsCounts, [ModelOpsNext]_modelOpsVars
    PROVE  OpsCounts'
<1>1. /\ KindOf \in [Versions -> Kinds] /\ MaxHistory \in Nat /\ history \in Seq(Transition)
      /\ Len(history) \in Nat
  BY ModelOpsAssumption, LenProperties DEF OpsInv
<1>2. CASE UNCHANGED modelOpsVars
  BY <1>2 DEF modelOpsVars, OpsCounts
<1>3. ASSUME NEW v \in Versions, RegisterOne(v) PROVE OpsCounts'
  BY <1>1, <1>3 DEF RegisterOne, OpsCounts
<1>4. ASSUME NEW v \in Versions, EvaluationRead(v) PROVE OpsCounts'
  BY <1>1, <1>4 DEF EvaluationRead, OpsCounts, Begin
<1>5. ASSUME EvaluationWrite PROVE OpsCounts'
  <2>1. Registrar \in Admins /\ moving[Registrar].op = "evaluate" /\ moving[Registrar] # Still
    BY <1>5 DEF EvaluationWrite, Admins, Still
  <2>2. moving[Registrar].of \in registered
    BY <2>1 DEF OpsInv, MoveIsOfKind
  <2> QED
    BY <1>5, <2>2 DEF EvaluationWrite, OpsCounts
<1>6. ASSUME NEW t \in Threads, NEW v \in Versions, PromoteRead(t, v) PROVE OpsCounts'
  BY <1>1, <1>6 DEF PromoteRead, OpsCounts, Begin
<1>7. ASSUME NEW t \in Threads, NEW k \in Kinds, RollbackRead(t, k) PROVE OpsCounts'
  BY <1>1, <1>7 DEF RollbackRead, OpsCounts, Begin
<1>8. ASSUME NEW t \in Threads, RecordTransition(t) PROVE OpsCounts'
  <2>1. Len(history') <= MaxHistory
    <3>1. PICK x : history' = Append(history, x) /\ Len(history) < MaxHistory
      BY <1>8 DEF RecordTransition
    <3>2. Len(history') = Len(history) + 1
      BY <1>1, <3>1
    <3> QED
      BY <1>1, <3>1, <3>2
  <2> QED
    BY <1>8, <2>1 DEF RecordTransition, OpsCounts
<1>9. ASSUME NEW t \in Threads, MarkReversed(t) PROVE OpsCounts'
  <2>1. Len(history') = Len(history)
    BY <1>1, <1>9 DEF MarkReversed
  <2> QED
    BY <1>9, <2>1 DEF MarkReversed, OpsCounts
<1>10. ASSUME NEW t \in Threads,
              RetireIncumbent(t) \/ Activate(t) \/ StepDown(t) \/ Reactivate(t) \/ MarkMissing(t)
       PROVE  OpsCounts'
  BY <1>10 DEF RetireIncumbent, Activate, StepDown, Reactivate, MarkMissing, OpsCounts
<1> QED
  BY <1>2, <1>3, <1>4, <1>5, <1>6, <1>7, <1>8, <1>9, <1>10 DEF ModelOpsNext
-----------------------------------------------------------------------------
(* What the thresholds hold: rows of bounds out of Scale.                  *)
RowsInv ==
    /\ ThresholdsTypeOK
    /\ setting \in [Threads -> {NotSetting} \cup [band : BandIds, row : BandRow, alone : BOOLEAN]]

(* The earlier of two.                                                     *)
LEMMA EarlierOfTwo ==
    ASSUME NEW x \in Int, NEW y \in Int
    PROVE  Min({x, y}) = IF x <= y THEN x ELSE y
<1>1. \E m \in {x, y} : \A z \in {x, y} : m <= z
  OBVIOUS
<1> QED
  BY <1>1 DEF Min

LEMMA InForceType ==
    ASSUME RowsInv, NEW b \in BandIds
    PROVE  InForce(b) \in 0..Scale
<1>1. bounds[b] \in BandRow \cup {DefaultRow} /\ BandDefaults[b] \in 0..Scale /\ Scale \in Nat
  <2>1. BandDefaults[b] \in 1..(Scale - 1) /\ Scale \in Nat
    BY ThresholdsAssumption DEF BandIds
  <2> QED
    BY <2>1 DEF RowsInv, ThresholdsTypeOK
<1> QED
  BY <1>1 DEF InForce, BandRow

LEMMA ClampType ==
    ASSUME NEW x \in Int, NEW y \in Int
    PROVE  Clamp(x, y) \in 0..Scale
<1>1. Scale \in Nat /\ Guardrail \in Nat
  BY ThresholdsAssumption
<1>2. PICK a \in Int : a = Max({x, y - Guardrail})
  BY <1>1, LaterOfTwo
<1>3. PICK b \in Int : b = Min({a, y + Guardrail})
  BY <1>1, EarlierOfTwo
<1>4. PICK c \in Nat : c = Max({b, 0})
  BY LaterOfTwo
<1>5. Min({c, Scale}) \in 0..Scale
  BY <1>1, EarlierOfTwo
<1> QED
  BY <1>2, <1>3, <1>4, <1>5 DEF Clamp

(* A fit lies between two scores of alerts.                                *)
LEMMA FitType ==
    ASSUME Cardinality(BenignScores) >= MinFeedback, NEW fit \in Fits
    PROVE  fit \in Int
<1> DEFINE scores == {AlertScore[a] : a \in BenignScores}
<1>1. Scale \in Nat /\ MinFeedback \in Nat \ {0} /\ AlertScore \in [AlertIds -> 0..Scale]
  BY ThresholdsAssumption
<1>2. BenignScores # {}
  BY <1>1, FS_EmptySet
<1>3. scores \subseteq 0..Scale /\ scores # {}
  BY <1>1, <1>2 DEF BenignScores
<1>4. IsFiniteSet(0..Scale)
  BY <1>1, FS_Interval
<1> HIDE DEF scores
<1>5. IsFiniteSet(scores) /\ scores \in SUBSET Nat /\ scores # {}
  <2>1. IsFiniteSet(scores)
    BY <1>3, <1>4, FS_Subset
  <2>2. scores \in SUBSET Nat
    BY <1>1, <1>3
  <2> QED
    BY <1>3, <2>1, <2>2
<1>6. Min(scores) \in Int /\ Max(scores) \in Int
  <2>1. Min(scores) \in scores
    BY <1>5, MinOfSet
  <2>2. Max(scores) \in scores
    BY <1>5, MaxOfSet
  <2>3. \A x \in scores : x \in Int
    BY <1>5
  <2> QED
    BY <2>1, <2>2, <2>3
<1>7. fit \in Min(scores)..Max(scores)
  BY DEF Fits, scores
<1> QED
  BY <1>6, <1>7

LEMMA RowsStep ==
    ASSUME RowsInv, [ThresholdsNext]_thresholdsVars
    PROVE  RowsInv'
<1>1. CASE UNCHANGED thresholdsVars
  BY <1>1 DEF thresholdsVars, RowsInv, ThresholdsTypeOK
<1>2. ASSUME NEW t \in Threads, NEW b \in BandIds, NEW row \in BandRow,
             Decide(t, b, row), UNCHANGED <<bounds, unchecked>>
      PROVE  RowsInv'
  <2>1. \A u \in Threads : setting[u] # NotSetting =>
           [setting[u] EXCEPT !.alone = FALSE] \in [band : BandIds, row : BandRow, alone : BOOLEAN]
    BY DEF RowsInv
  <2>2. [band |-> b, row |-> row, alone |-> ~Overlapping(t)] \in [band : BandIds, row : BandRow, alone : BOOLEAN]
    BY DEF Overlapping
  <2>3. setting' \in [Threads -> {NotSetting} \cup [band : BandIds, row : BandRow, alone : BOOLEAN]]
    BY <1>2, <2>1, <2>2 DEF Decide
  <2> QED
    BY <1>2, <2>3 DEF RowsInv, ThresholdsTypeOK
<1>3. ASSUME NEW t \in Threads, NEW b \in BandIds, NEW v \in Proposals, SetManual(t, b, v)
      PROVE  RowsInv'
  <2>1. v \in Int /\ v > 0 /\ v < Scale /\ Scale \in Nat
    BY <1>3, ThresholdsAssumption DEF SetManual, Accepts
  <2>2. [source |-> "manual", value |-> v] \in BandRow
    BY <2>1 DEF BandRow
  <2> QED
    BY <1>2, <1>3, <2>2 DEF SetManual
<1>4. ASSUME NEW t \in Threads, NEW b \in BandIds, Recalibrate(t, b)
      PROVE  RowsInv'
  <2>1. PICK fit \in Fits :
            Decide(t, b, [source |-> "recalibration", value |-> Clamp(fit, InForce(b))])
    BY <1>4 DEF Recalibrate
  <2>2. fit \in Int
    BY <1>4, FitType DEF Recalibrate
  <2>3. InForce(b) \in Int
    BY InForceType
  <2>4. PICK v : v = Clamp(fit, InForce(b))
    OBVIOUS
  <2>5. [source |-> "recalibration", value |-> v] \in BandRow
    BY <2>2, <2>3, <2>4, ClampType DEF BandRow
  <2> QED
    BY <1>2, <1>4, <2>1, <2>4, <2>5 DEF Recalibrate
<1>5. ASSUME NEW t \in Threads, PutBound(t)
      PROVE  RowsInv'
  <2>1. setting[t] \in [band : BandIds, row : BandRow, alone : BOOLEAN]
    BY <1>5 DEF PutBound, RowsInv
  <2> QED
    BY <1>5, <2>1 DEF PutBound, RowsInv, ThresholdsTypeOK
<1> QED
  BY <1>1, <1>3, <1>4, <1>5 DEF ThresholdsNext
-----------------------------------------------------------------------------
(* A step of the backend is a step of each service, or leaves it alone.    *)
LEMMA ServicesStep ==
    ASSUME [BackendNext]_backendVars
    PROVE  /\ [VerdictsNext]_verdictsVars /\ [ThresholdsNext]_thresholdsVars
           /\ [ErasureNext]_erasureVars /\ [ModelOpsNext]_modelOpsVars
           /\ [WebhooksNext]_webhooksVars /\ [AlertDeskNext]_alertDeskVars
           /\ [AuditNext]_auditVars /\ [RetentionNext]_retentionVars
<1>1. CASE UNCHANGED backendVars
  BY <1>1 DEF backendVars
<1>2. CASE BackendNext
  <2>1. [ModelOpsNext]_modelOpsVars
    BY <1>2 DEF BackendNext, Rests
  <2>2. [ErasureNext]_erasureVars
    BY <1>2 DEF BackendNext, Rests
  <2>3. [VerdictsNext]_verdictsVars
    BY <1>2 DEF BackendNext
  <2>4. [ThresholdsNext]_thresholdsVars
    BY <1>2 DEF BackendNext
  <2>5. [WebhooksNext]_webhooksVars
    BY <1>2 DEF BackendNext, Rests
  <2>6. [AlertDeskNext]_alertDeskVars
    BY <1>2 DEF BackendNext, Rests
  <2>7. [AuditNext]_auditVars
    BY <1>2 DEF BackendNext, Rests
  <2>8. [RetentionNext]_retentionVars
    BY <1>2 DEF BackendNext, Rests
  <2> QED
    BY <2>1, <2>2, <2>3, <2>4, <2>5, <2>6, <2>7, <2>8
<1> QED
  BY <1>1, <1>2

(* HistoryIsAChain: as long as no two threads judged an alert at once, its *)
(* verdicts are numbered on, each supersedes the one before it and differs *)
(* from it in the verdict or in who gave it (Verdicts).                    *)
THEOREM BackendHistoryIsAChain == BackendSpec => []HistoryIsAChain
<1>1. BackendInit => VerdictsInv /\ ChainInv
  BY VerdictsBegin DEF BackendInit
<1>2. VerdictsInv /\ ChainInv /\ [BackendNext]_backendVars => (VerdictsInv /\ ChainInv)'
  BY ServicesStep, VerdictsStep
<1>3. VerdictsInv /\ ChainInv => HistoryIsAChain
  BY DEF ChainInv, IsChain, HistoryIsAChain
<1> QED
  BY <1>1, <1>2, <1>3, PTL DEF BackendSpec

(* EditsKeepBandOrder: an edit of a severity band that no other write      *)
(* overlapped leaves the bounds in force in descending order, whatever     *)
(* recalibrations had made of them (Thresholds).                           *)
THEOREM BackendEditsKeepBandOrder == BackendSpec => []EditsKeepBandOrder
<1>1. BackendInit => SettingInv /\ EditInv
  BY ThresholdsBegin DEF BackendInit
<1>2. SettingInv /\ EditInv /\ [BackendNext]_backendVars => (SettingInv /\ EditInv)'
  BY ServicesStep, ThresholdsStep
<1>3. EditInv => EditsKeepBandOrder
  BY DEF EditInv, EditsKeepBandOrder
<1> QED
  BY <1>1, <1>2, <1>3, PTL DEF BackendSpec

(* RecordedMeansErased: what the trail says was erased has its entry in    *)
(* the ledger and is in neither store, unless it was registered again      *)
(* since; targets fail half way and requests for one subject overlap.      *)
THEOREM BackendRecordedMeansErased == BackendSpec => []RecordedMeansErased
<1> DEFINE I == ErasuresInv /\ DatedInv /\ CascadedInv /\ RecordedMeansErased
<1>1. BackendInit => I
  BY ErasureBegin DEF BackendInit
<1>2. I /\ [BackendNext]_backendVars => I'
  BY ServicesStep, ErasureStep
<1> QED
  BY <1>1, <1>2, PTL DEF BackendSpec

(* ServingFollowsHistory: as long as no operations on a kind overlapped,   *)
(* what serves between them is what the history of promotions says.        *)
THEOREM BackendServingFollowsHistory == BackendSpec => []ServingFollowsHistory
<1> DEFINE I == OpsInv /\ ServingInv /\ UndoInv
<1>1. BackendInit => I
  BY ModelOpsBegin DEF BackendInit
<1>2. I /\ [BackendNext]_backendVars => I'
  BY ServicesStep, ModelOpsStep
<1>3. I => ServingFollowsHistory
  BY QuietServes
<1> QED
  BY <1>1, <1>2, <1>3, PTL DEF BackendSpec

(* DeliveriesAreHonest: a delivery recorded by its sink and by the test    *)
(* route is counted once, whichever records the log has dropped; and its   *)
(* retries go out inside the window of the one signature they carry, given *)
(* a policy whose longest waits and timeouts fit it, as the default's do   *)
(* (webhook_delivery.py: 4 times 60 + 10 seconds, of 300).                 *)
THEOREM BackendDeliveriesAreHonest ==
    ASSUME (MaxAttempts - 1) * (MaxSeconds + Timeout) <= ReplayWindow
    PROVE  BackendSpec => []DeliveriesAreHonest
<1>1. BackendInit => WebhooksInv /\ LogInv
  BY WebhooksBegin DEF BackendInit
<1>2. WebhooksInv /\ LogInv /\ [BackendNext]_backendVars => (WebhooksInv /\ LogInv)'
  BY ServicesStep, WebhooksStep
<1>3. WebhooksInv /\ LogInv => DeliveriesAreHonest
  BY AttemptsFit DEF LogInv, DeliveriesAreHonest
<1> QED
  BY <1>1, <1>2, <1>3, PTL DEF BackendSpec

(* ReadsAreExact: a walk through the pages of the alert queue, the erasure *)
(* ledger or the audit trail shows every row it found when it began, none  *)
(* twice, whatever is written between two pages, in the numbers the pages  *)
(* are cut by; and the panels of an overview add up, for any bucket width, *)
(* list limit and window.                                                  *)
THEOREM BackendReadsAreExact == BackendSpec => []ReadsAreExact
<1> DEFINE I == /\ DeskInv /\ WalkInv /\ AuditInv /\ LedgerInv
                /\ ErasuresInv /\ DatedInv /\ CascadedInv /\ RecordedMeansErased
<1>1. BackendInit => I
  <2>1. ErasureInit => LedgerInv
    BY DEF ErasureInit, LedgerInv, NotListing
  <2> QED
    BY <2>1, DeskBegins, AuditBegins, ErasureBegin DEF BackendInit
<1>2. I /\ [BackendNext]_backendVars => I'
  <2> SUFFICES ASSUME I, [BackendNext]_backendVars PROVE I'
    OBVIOUS
  <2>1. ErasuresInv' /\ DatedInv' /\ CascadedInv' /\ RecordedMeansErased'
    BY ServicesStep, ErasureStep
  <2>2. LedgerInv'
    BY <2>1, ServicesStep, LedgerStep
  <2>3. DeskInv' /\ WalkInv' /\ AuditInv'
    BY ServicesStep, DeskStep, AuditStep
  <2> QED
    BY <2>1, <2>2, <2>3
<1>3. I => ReadsAreExact
  <2>1. LedgerInv => LedgerWalkIsComplete
    BY DEF LedgerInv, LedgerWalkIsComplete, Numbered, NotListing
  <2> QED
    BY <2>1, WalksAreComplete, OverviewsAddUp, AuditPagesAreCited DEF ReadsAreExact
<1> QED
  BY <1>1, <1>2, <1>3, PTL DEF BackendSpec

(* KeepsItsPromise: no drop and no sweep takes a row the policy still      *)
(* keeps, nor a promotion that can be rolled back, nor an entity an alert  *)
(* names, whatever the day a run was planned on and whoever runs beside it *)
(* (Retention).                                                            *)
THEOREM BackendKeepsItsPromise == BackendSpec => KeepsItsPromise
<1>1. BackendInit => RetentionInv
  BY RetentionBegins DEF BackendInit
<1>2. [BackendNext]_backendVars => [RetentionNext]_retentionVars
  BY ServicesStep
<1>3. RetentionInv /\ [RetentionNext]_retentionVars => RetentionInv'
  BY RetentionStep
<1>4. RetentionInv /\ [RetentionNext]_retentionVars => [KeepsPromise]_retentionVars
  BY RetentionKeeps
<1> QED
  BY <1>1, <1>2, <1>3, <1>4, PTL DEF BackendSpec, KeepsItsPromise, KeepsPromise, MayGo

(* BackendTypeOK: the state of every service keeps its type, with the      *)
(* counters, the ledger's numbers, the row bounds and the trail inside     *)
(* their bounds, for any constants.                                        *)
THEOREM BackendTypes == BackendSpec => []BackendTypeOK
<1> DEFINE I == /\ focus \in Services
                /\ VerdictsInv /\ ChainInv /\ RowsInv /\ RetentionInv
                /\ OpsInv /\ ServingInv /\ UndoInv /\ OpsCounts
                /\ WebhooksInv /\ LogInv /\ DeskInv /\ WalkInv /\ AuditInv /\ LedgerInv
                /\ ErasuresInv /\ DatedInv /\ CascadedInv /\ RecordedMeansErased /\ AddsInv
<1>1. BackendInit => I
  <2> SUFFICES ASSUME BackendInit PROVE I
    OBVIOUS
  <2>1. VerdictsInv /\ ChainInv /\ RetentionInv /\ WebhooksInv /\ LogInv /\ DeskInv /\ WalkInv /\ AuditInv
    BY VerdictsBegin, RetentionBegins, WebhooksBegin, DeskBegins, AuditBegins DEF BackendInit
  <2>2. ErasuresInv /\ DatedInv /\ CascadedInv /\ RecordedMeansErased /\ LedgerInv /\ AddsInv
    <3>1. LedgerInv
      BY DEF BackendInit, ErasureInit, LedgerInv, NotListing
    <3>2. AddsInv
      BY ErasureAssumption DEF BackendInit, ErasureInit, AddsInv
    <3> QED
      BY <3>1, <3>2, ErasureBegin DEF BackendInit
  <2>3. OpsInv /\ ServingInv /\ UndoInv /\ OpsCounts
    BY ModelOpsBegin, ModelOpsAssumption DEF BackendInit, ModelOpsInit, OpsCounts
  <2>4. RowsInv
    BY DEF BackendInit, ThresholdsInit, RowsInv, ThresholdsTypeOK
  <2> QED
    BY <2>1, <2>2, <2>3, <2>4 DEF BackendInit
<1>2. I /\ [BackendNext]_backendVars => I'
  <2> SUFFICES ASSUME I, [BackendNext]_backendVars PROVE I'
    OBVIOUS
  <2>1. VerdictsInv' /\ ChainInv' /\ RowsInv' /\ WebhooksInv' /\ LogInv'
    BY ServicesStep, VerdictsStep, RowsStep, WebhooksStep
  <2>2. DeskInv' /\ WalkInv' /\ AuditInv' /\ RetentionInv'
    BY ServicesStep, DeskStep, AuditStep, RetentionStep
  <2>3. ErasuresInv' /\ DatedInv' /\ CascadedInv' /\ RecordedMeansErased' /\ AddsInv'
    BY ServicesStep, ErasureStep, AddsStep
  <2>4. LedgerInv'
    BY <2>3, ServicesStep, LedgerStep
  <2>5. OpsInv' /\ ServingInv' /\ UndoInv' /\ OpsCounts'
    BY ServicesStep, ModelOpsStep, OpsCountsStep
  <2>6. focus' \in Services
    BY DEF BackendNext, backendVars
  <2> QED
    BY <2>1, <2>2, <2>3, <2>4, <2>5, <2>6
<1>3. I /\ TypeOK => BackendTypeOK
  <2>1. OpsInv /\ OpsCounts => ModelOpsTypeOK
    BY DEF OpsInv, OpsCounts, ModelOpsTypeOK
  <2> QED
    BY <2>1, ErasureTypes DEF BackendTypeOK, VerdictsInv, RowsInv, RetentionInv, WebhooksInv, DeskInv, AuditInv
<1>4. BackendSpec => []TypeOK
  BY BackendCorrelates, TypeCorrect
<1> QED
  BY <1>1, <1>2, <1>3, <1>4, PTL DEF BackendSpec
=============================================================================
