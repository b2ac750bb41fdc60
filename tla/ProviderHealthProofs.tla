------------------------ MODULE ProviderHealthProofs ------------------------
(***************************************************************************)
(* Theorems about ProviderHealth, for any number of providers and of       *)
(* overlapping scans, every threshold and every mode an operator forces.   *)
(***************************************************************************)
EXTENDS ProviderHealth, TLAPS

HealthRecord ==
  [status : Statuses, failures : 0..MaxFailures, quarantined : BOOLEAN,
   until : BOOLEAN, cooldown : BOOLEAN, fresh : BOOLEAN]

(* What checkAvailability asks of a record.                                *)
Usable(h) == ~Shut(h) /\ ~h.cooldown /\ h.status # "unhealthy" /\ h.fresh

AtThreshold(h) == h.failures >= MaxFailures => h.quarantined

(* A scan that waits for an answer waits for that of a provider.           *)
ScansStandAtProviders ==
  \A s \in Scans : scan[s].waits # "next" => scan[s].at \in DOMAIN Order

HealthInv == TypeOK /\ ScansStandAtProviders /\ ThresholdQuarantines
-----------------------------------------------------------------------------
(* What becomes of the record of a provider                                *)

(* A healthy answer leaves a record without failures.                      *)
LEMMA Successes ==
  ASSUME NEW h \in HealthRecord
  PROVE  /\ RecordSuccess(h) \in HealthRecord /\ RecordSuccess(h).failures = 0
         /\ Recover(h) \in HealthRecord /\ Recover(h).failures = 0
<1>1. 0 \in 0..MaxFailures /\ "healthy" \in Statuses
  BY HealthAssumption DEF Statuses
<1>2. LeavesQuarantine(h) \in HealthRecord
  BY DEF LeavesQuarantine, HealthRecord
<1>3. ASSUME NEW g \in HealthRecord
      PROVE  LET found == [g EXCEPT !.failures = 0, !.status = "healthy", !.cooldown = FALSE, !.fresh = TRUE]
                 back == [g EXCEPT !.status = "healthy", !.failures = 0]
             IN  found \in HealthRecord /\ found.failures = 0 /\ back \in HealthRecord /\ back.failures = 0
  <2> DEFINE found == [g EXCEPT !.failures = 0, !.status = "healthy", !.cooldown = FALSE, !.fresh = TRUE]
             back == [g EXCEPT !.status = "healthy", !.failures = 0]
  <2>1. found \in HealthRecord
    BY <1>1, Zenon DEF HealthRecord
  <2>2. found.failures = 0
    BY Zenon DEF HealthRecord
  <2>3. back \in HealthRecord
    BY <1>1, Zenon DEF HealthRecord
  <2>4. back.failures = 0
    BY Zenon DEF HealthRecord
  <2> QED
    BY <2>1, <2>2, <2>3, <2>4
<1>4. RecordSuccess(h) \in HealthRecord /\ RecordSuccess(h).failures = 0
  <2>1. CASE h.quarantined
    BY <1>2, <1>3, <2>1, Zenon DEF RecordSuccess
  <2>2. CASE ~h.quarantined
    BY <1>3, <2>2, Zenon DEF RecordSuccess
  <2> QED
    BY <2>1, <2>2
<1>5. Recover(h) \in HealthRecord /\ Recover(h).failures = 0
  BY <1>2, <1>3, Zenon DEF Recover
<1> QED
  BY <1>4, <1>5

(* A failed answer leaves a record that may not be used: one in quarantine *)
(* when it reaches the threshold, one that rests before.                   *)
LEMMA Failures ==
  ASSUME NEW h \in HealthRecord
  PROVE  /\ RecordFailure(h) \in HealthRecord
         /\ AtThreshold(RecordFailure(h))
         /\ ~Usable(RecordFailure(h))
<1>1. MaxFailures \in Nat \ {0}
  BY HealthAssumption
<1>2. Counted(h) \in HealthRecord
  <2>1. h.failures \in 0..MaxFailures
    BY DEF HealthRecord
  <2> DEFINE n == IF h.failures = MaxFailures THEN h.failures ELSE h.failures + 1
  <2>2. n \in 0..MaxFailures
    BY <1>1, <2>1
  <2>3. Counted(h) = [h EXCEPT !.failures = n, !.fresh = TRUE]
    BY Zenon DEF Counted
  <2> HIDE DEF n
  <2> QED
    BY <2>2, <2>3, Zenon DEF HealthRecord
<1>3. CASE Counted(h).failures >= MaxFailures
  <2>1. RecordFailure(h) = Quarantine(Counted(h))
    BY <1>3 DEF RecordFailure
  <2>2. /\ Quarantine(Counted(h)) \in HealthRecord
        /\ Quarantine(Counted(h)).quarantined
        /\ Quarantine(Counted(h)).until
    BY <1>2 DEF Quarantine, HealthRecord, Statuses
  <2> QED
    BY <2>1, <2>2 DEF AtThreshold, Usable, Shut
<1>4. CASE ~(Counted(h).failures >= MaxFailures)
  <2>1. RecordFailure(h) = Degrade(Counted(h))
    BY <1>4 DEF RecordFailure
  <2>2. /\ Degrade(Counted(h)) \in HealthRecord
        /\ Degrade(Counted(h)).failures = Counted(h).failures
        /\ Degrade(Counted(h)).cooldown
    BY <1>2 DEF Degrade, HealthRecord, Statuses
  <2> QED
    BY <1>4, <2>1, <2>2 DEF AtThreshold, Usable
<1> QED
  BY <1>3, <1>4

(* What a refused recovery and the deadlines do to a record.               *)
LEMMA Extensions ==
  ASSUME NEW h \in HealthRecord
  PROVE  /\ Extend(h) \in HealthRecord
         /\ AtThreshold(h) => AtThreshold(Extend(h))
         /\ Usable(Extend(h)) => Usable(h)
<1>1. /\ Extend(h) \in HealthRecord
      /\ Extend(h).failures = h.failures /\ Extend(h).quarantined = h.quarantined
      /\ Extend(h).cooldown = h.cooldown /\ Extend(h).status = h.status
      /\ Extend(h).fresh = h.fresh /\ Extend(h).until
  BY DEF Extend, HealthRecord
<1> QED
  BY <1>1 DEF AtThreshold, Usable, Shut

(* reconcileStateGraph resets a count or leaves it, and after an answer    *)
(* that is not healthy the provider may not be used.                       *)
LEMMA Reconciliations ==
  ASSUME NEW h \in HealthRecord
  PROVE  LET asked == [h EXCEPT !.status = "unhealthy"]
             well == [asked EXCEPT !.status = "healthy", !.failures = 0, !.fresh = TRUE]
             sick == [asked EXCEPT !.fresh = TRUE]
         IN /\ well \in HealthRecord /\ well.failures = 0
            /\ sick \in HealthRecord /\ ~Usable(sick) /\ (AtThreshold(h) => AtThreshold(sick))
            /\ asked \in HealthRecord /\ ~Usable(asked) /\ (AtThreshold(h) => AtThreshold(asked))
<1> DEFINE asked == [h EXCEPT !.status = "unhealthy"]
           well == [asked EXCEPT !.status = "healthy", !.failures = 0, !.fresh = TRUE]
           sick == [asked EXCEPT !.fresh = TRUE]
<1>1. MaxFailures \in Nat \ {0}
  BY HealthAssumption
<1>2. /\ asked \in HealthRecord /\ asked.status = "unhealthy"
      /\ asked.failures = h.failures /\ asked.quarantined = h.quarantined
  BY DEF HealthRecord, Statuses
<1>3. well \in HealthRecord /\ well.failures = 0
  <2>1. 0 \in 0..MaxFailures /\ "healthy" \in Statuses
    BY <1>1 DEF Statuses
  <2> HIDE DEF asked
  <2> QED
    <3>1. well \in HealthRecord
      BY <1>2, <2>1, Zenon DEF HealthRecord
    <3>2. well.failures = 0
      BY <1>2, Zenon DEF HealthRecord
    <3> QED
      BY <3>1, <3>2
<1>4. /\ sick \in HealthRecord /\ sick.status = "unhealthy"
      /\ sick.failures = h.failures /\ sick.quarantined = h.quarantined
  <2> HIDE DEF asked
  <2> QED
    BY <1>2 DEF HealthRecord, Statuses
<1> HIDE DEF asked, well, sick
<1>5. /\ ~Usable(sick) /\ (AtThreshold(h) => AtThreshold(sick))
      /\ ~Usable(asked) /\ (AtThreshold(h) => AtThreshold(asked))
  BY <1>2, <1>4 DEF Usable, AtThreshold
<1> QED
  BY <1>2, <1>3, <1>4, <1>5 DEF asked, well, sick

(* As time passes a record keeps its count, and only the end of its        *)
(* quarantine or of its rest makes it usable.                              *)
LEMMA Deadlines ==
  ASSUME NEW h \in HealthRecord
  PROVE  /\ [h EXCEPT !.until = FALSE] \in HealthRecord
         /\ [h EXCEPT !.cooldown = FALSE] \in HealthRecord
         /\ [h EXCEPT !.fresh = FALSE] \in HealthRecord
         /\ ~Usable([h EXCEPT !.fresh = FALSE])
         /\ AtThreshold(h) => /\ AtThreshold([h EXCEPT !.until = FALSE])
                              /\ AtThreshold([h EXCEPT !.cooldown = FALSE])
                              /\ AtThreshold([h EXCEPT !.fresh = FALSE])
<1>1. /\ [h EXCEPT !.until = FALSE] \in HealthRecord
      /\ [h EXCEPT !.until = FALSE].failures = h.failures
      /\ [h EXCEPT !.until = FALSE].quarantined = h.quarantined
  BY DEF HealthRecord
<1>2. /\ [h EXCEPT !.cooldown = FALSE] \in HealthRecord
      /\ [h EXCEPT !.cooldown = FALSE].failures = h.failures
      /\ [h EXCEPT !.cooldown = FALSE].quarantined = h.quarantined
  BY DEF HealthRecord
<1>3. /\ [h EXCEPT !.fresh = FALSE] \in HealthRecord
      /\ [h EXCEPT !.fresh = FALSE].failures = h.failures
      /\ [h EXCEPT !.fresh = FALSE].quarantined = h.quarantined
      /\ ~[h EXCEPT !.fresh = FALSE].fresh
  BY DEF HealthRecord
<1> QED
  BY <1>1, <1>2, <1>3 DEF AtThreshold, Usable
-----------------------------------------------------------------------------
(* The steps                                                               *)

(* A step gives one provider a record that is typed, in quarantine at the  *)
(* threshold, and usable only if it was, has just been found well, or has  *)
(* come to the end of a deadline; or it leaves all records alone.          *)
Kept(p, h) ==
  /\ h \in HealthRecord
  /\ AtThreshold(h)
  /\ Usable(h) => \/ Usable(health[p])
                  \/ h.failures = 0
                  \/ QuarantineRunsOut(p)
                  \/ CooldownRunsOut(p)

Effect ==
  \/ UNCHANGED health
  \/ \E p \in Providers, h \in HealthRecord : Becomes(p, h) /\ Kept(p, h)

LEMMA Typed ==
  ASSUME HealthInv
  PROVE  /\ health \in [Providers -> HealthRecord]
         /\ \A p \in Providers : health[p] \in HealthRecord /\ AtThreshold(health[p])
         /\ \A s \in Scans : /\ scan[s].at \in 0..Len(Order)
                             /\ scan[s].waits # "next" => Order[scan[s].at] \in Providers
<1>1. health \in [Providers -> HealthRecord]
  BY DEF HealthInv, TypeOK, HealthRecord
<1>2. \A p \in Providers : AtThreshold(health[p])
  BY DEF HealthInv, ThresholdQuarantines, AtThreshold
<1>3. \A s \in Scans : scan[s].at \in 0..Len(Order)
  BY DEF HealthInv, TypeOK
<1>4. \A s \in Scans : scan[s].waits # "next" => Order[scan[s].at] \in Providers
  BY DEF HealthInv, ScansStandAtProviders, Providers
<1> QED
  BY <1>1, <1>2, <1>3, <1>4

(* A healthy answer and a failed one, of a probe or of a request.          *)
LEMMA AnswersKeep ==
  ASSUME HealthInv, NEW p \in Providers, NEW well \in BOOLEAN
  PROVE  Kept(p, IF well THEN RecordSuccess(health[p]) ELSE RecordFailure(health[p]))
<1>1. health[p] \in HealthRecord
  BY Typed
<1>2. MaxFailures \in Nat \ {0}
  BY HealthAssumption
<1>3. CASE well
  <2>1. RecordSuccess(health[p]) \in HealthRecord /\ RecordSuccess(health[p]).failures = 0
    BY <1>1, Successes
  <2> QED
    BY <1>2, <1>3, <2>1 DEF Kept, AtThreshold
<1>4. CASE ~well
  BY <1>1, <1>4, Failures DEF Kept
<1> QED
  BY <1>3, <1>4

LEMMA RecoveriesKeep ==
  ASSUME HealthInv, NEW p \in Providers, NEW well \in BOOLEAN
  PROVE  Kept(p, IF well THEN Recover(health[p]) ELSE Extend(health[p]))
<1>1. health[p] \in HealthRecord /\ AtThreshold(health[p])
  BY Typed
<1>2. MaxFailures \in Nat \ {0}
  BY HealthAssumption
<1>3. CASE well
  <2>1. Recover(health[p]) \in HealthRecord /\ Recover(health[p]).failures = 0
    BY <1>1, Successes
  <2> QED
    BY <1>2, <1>3, <2>1 DEF Kept, AtThreshold
<1>4. CASE ~well
  BY <1>1, <1>4, Extensions DEF Kept
<1> QED
  BY <1>3, <1>4

LEMMA ReconciliationKeeps ==
  ASSUME HealthInv, NEW s \in Scans, NEW answer \in {"well", "sick", "throw"},
         ReconcileAnswered(s, answer)
  PROVE  Effect
<1> DEFINE p == Order[scan[s].at]
           asked == [health[p] EXCEPT !.status = "unhealthy"]
           well == [asked EXCEPT !.status = "healthy", !.failures = 0, !.fresh = TRUE]
           sick == [asked EXCEPT !.fresh = TRUE]
<1>1. p \in Providers /\ health[p] \in HealthRecord /\ AtThreshold(health[p])
  BY Typed DEF ReconcileAnswered
<1>2. MaxFailures \in Nat \ {0}
  BY HealthAssumption
<1>3. Becomes(p, well) \/ Becomes(p, sick) \/ Becomes(p, asked)
  <2>1. CASE answer = "well"
    BY <2>1 DEF ReconcileAnswered
  <2>2. CASE answer = "sick"
    BY <2>2 DEF ReconcileAnswered
  <2>3. CASE answer = "throw"
    BY <2>3 DEF ReconcileAnswered
  <2> QED
    BY <2>1, <2>2, <2>3
<1>4. /\ well \in HealthRecord /\ well.failures = 0
      /\ sick \in HealthRecord /\ ~Usable(sick) /\ AtThreshold(sick)
      /\ asked \in HealthRecord /\ ~Usable(asked) /\ AtThreshold(asked)
  BY <1>1, Reconciliations
<1> HIDE DEF p, asked, well, sick
<1>5. Kept(p, well) /\ Kept(p, sick) /\ Kept(p, asked)
  BY <1>2, <1>4 DEF Kept, AtThreshold
<1> QED
  BY <1>1, <1>3, <1>4, <1>5 DEF Effect

LEMMA TimeKeeps ==
  ASSUME HealthInv, NEW p \in Providers,
         QuarantineRunsOut(p) \/ CooldownRunsOut(p) \/ TelemetryGrowsStale(p)
  PROVE  Effect
<1>1. health[p] \in HealthRecord /\ AtThreshold(health[p])
  BY Typed
<1>2. CASE QuarantineRunsOut(p)
  <2>1. Kept(p, [health[p] EXCEPT !.until = FALSE])
    BY <1>1, <1>2, Deadlines DEF Kept
  <2> QED
    BY <1>2, <2>1 DEF QuarantineRunsOut, Effect, Kept
<1>3. CASE CooldownRunsOut(p)
  <2>1. Kept(p, [health[p] EXCEPT !.cooldown = FALSE])
    BY <1>1, <1>3, Deadlines DEF Kept
  <2> QED
    BY <1>3, <2>1 DEF CooldownRunsOut, Effect, Kept
<1>4. CASE TelemetryGrowsStale(p)
  <2>1. Kept(p, [health[p] EXCEPT !.fresh = FALSE])
    BY <1>1, Deadlines DEF Kept
  <2> QED
    BY <1>4, <2>1 DEF TelemetryGrowsStale, Effect, Kept
<1> QED
  BY <1>2, <1>3, <1>4

LEMMA StepsHaveEffect ==
  ASSUME HealthInv, [Next]_vars
  PROVE  Effect
<1>1. ASSUME NEW s \in Scans, ScanStep(s)
      PROVE  Effect
  <2>1. CASE Advance(s) \/ ProbeAfterRecovery(s)
    BY <2>1 DEF Advance, ProbeAfterRecovery, Effect
  <2>2. ASSUME NEW well \in BOOLEAN, RecoveryAnswered(s, well)
        PROVE  Effect
    <3>1. Order[scan[s].at] \in Providers
      BY <2>2, Typed DEF RecoveryAnswered
    <3> QED
      BY <2>2, <3>1, RecoveriesKeep DEF RecoveryAnswered, Effect, Kept
  <2>3. ASSUME NEW well \in BOOLEAN, ProbeAnswered(s, well)
        PROVE  Effect
    <3>1. Order[scan[s].at] \in Providers
      BY <2>3, Typed DEF ProbeAnswered
    <3> QED
      BY <2>3, <3>1, AnswersKeep DEF ProbeAnswered, Effect, Kept
  <2> QED
    BY <1>1, <2>1, <2>2, <2>3, ReconciliationKeeps DEF ScanStep
<1>2. ASSUME NEW p \in Providers, NEW well \in BOOLEAN, Report(p, well)
      PROVE  Effect
  BY <1>2, AnswersKeep DEF Report, Effect, Kept
<1>3. CASE UpdateMode \/ (\E connected \in BOOLEAN : CheckGateway(connected))
           \/ (\E m \in Forced : ForceMode(m)) \/ GrowsCalm \/ UNCHANGED vars
  BY <1>3 DEF UpdateMode, CheckGateway, ForceMode, GrowsCalm, vars, Effect
<1> QED
  BY <1>1, <1>2, <1>3, TimeKeeps DEF Next
-----------------------------------------------------------------------------
(* The invariant                                                           *)

LEMMA Initially == Init => HealthInv
<1> SUFFICES ASSUME Init PROVE HealthInv
  OBVIOUS
<1>1. MaxFailures \in Nat \ {0} /\ Order \in Seq(Providers) /\ Order # <<>>
  BY HealthAssumption
<1>2. Len(Order) \in Nat \ {0} /\ DOMAIN Order = 1..Len(Order)
  BY <1>1
<1>3. Registered \in HealthRecord /\ Registered.failures = 0
  BY <1>1 DEF Registered, HealthRecord, Statuses
<1>4. \A s \in Scans : scan[s] = Idle \/ scan[s] = Starting
  BY DEF Init
<1>5. /\ health \in [Providers -> HealthRecord]
      /\ \A p \in Providers : health[p].failures = 0
  BY <1>3 DEF Init
<1>6. scan \in [Scans -> [at : 0..Len(Order), waits : {"next", "recovering", "recovered", "probing", "reconciling"}]]
  BY <1>2, <1>4 DEF Init, Idle, Starting
<1>7. ScansStandAtProviders
  BY <1>2, <1>4 DEF ScansStandAtProviders, Idle, Starting
<1>8. TypeOK
  BY <1>5, <1>6 DEF TypeOK, HealthRecord, Init, Modes
<1>9. ThresholdQuarantines
  BY <1>1, <1>5 DEF ThresholdQuarantines
<1> QED
  BY <1>7, <1>8, <1>9 DEF HealthInv

(* Scans, modes and the rest of the state keep their types, and a scan     *)
(* that begins to wait does so at a provider.                              *)
ScanType == [at : 0..Len(Order), waits : {"next", "recovering", "recovered", "probing", "reconciling"}]

Stands(r) == r \in ScanType /\ (r.waits # "next" => r.at \in DOMAIN Order)

Moved ==
  \/ UNCHANGED scan
  \/ \E s \in Scans, r \in ScanType : Stands(r) /\ scan' = [scan EXCEPT ![s] = r]

LEMMA ScanSteps ==
  ASSUME HealthInv, [Next]_vars
  PROVE  Moved
<1>1. Len(Order) \in Nat \ {0} /\ DOMAIN Order = 1..Len(Order)
  BY HealthAssumption
<1>2. Idle \in ScanType /\ Stands(Idle)
  BY <1>1 DEF Idle, ScanType, Stands
<1>3. ASSUME NEW k \in DOMAIN Order,
             NEW w \in {"next", "recovering", "recovered", "probing", "reconciling"}
      PROVE  [at |-> k, waits |-> w] \in ScanType /\ Stands([at |-> k, waits |-> w])
  BY <1>1 DEF ScanType, Stands
<1>4. ASSUME NEW s \in Scans, ScanStep(s)
      PROVE  Moved
  <2>1. CASE Advance(s)
    <3>1. CASE scan' = [scan EXCEPT ![s] = Idle]
      BY <1>2, <3>1 DEF Moved
    <3>2. ASSUME NEW k \in DOMAIN Order, Goes(s, k, Turn(health[Order[k]]))
          PROVE  Moved
      <4>1. Turn(health[Order[k]]) \in {"recovering", "probing"}
        BY DEF Turn
      <4> QED
        BY <1>3, <3>2, <4>1 DEF Goes, Moved
    <3> QED
      BY <2>1, <3>1, <3>2 DEF Advance
  <2>2. CASE scan[s].waits # "next" /\ (\E w \in {"next", "recovered", "probing"} : Goes(s, scan[s].at, w))
    <3>1. scan[s].at \in DOMAIN Order
      BY <2>2 DEF HealthInv, ScansStandAtProviders
    <3> QED
      BY <1>3, <2>2, <3>1 DEF Goes, Moved
  <2>3. ASSUME NEW answer \in {"well", "sick", "throw"}, ReconcileAnswered(s, answer)
        PROVE  Moved
    <3>1. scan[s].at \in DOMAIN Order
      BY <2>3 DEF HealthInv, ScansStandAtProviders, ReconcileAnswered
    <3>2. CASE TheLast(scan[s].at)
      BY <1>2, <2>3, <3>2 DEF ReconcileAnswered, Moved
    <3>3. CASE ~TheLast(scan[s].at)
      <4>1. scan[s].at + 1 \in DOMAIN Order
        BY <1>1, <3>1, <3>3 DEF TheLast
      <4> QED
        BY <1>3, <2>3, <3>3, <4>1 DEF ReconcileAnswered, Goes, Moved
    <3> QED
      BY <3>2, <3>3
  <2> QED
    BY <1>4, <2>1, <2>2, <2>3 DEF ScanStep, ProbeAfterRecovery, RecoveryAnswered, ProbeAnswered
<1>5. CASE UNCHANGED scan
  BY <1>5 DEF Moved
<1> QED
  BY <1>4, <1>5 DEF Next, Report, UpdateMode, CheckGateway, ForceMode, QuarantineRunsOut,
       CooldownRunsOut, TelemetryGrowsStale, GrowsCalm, vars

LEMMA Inductive == HealthInv /\ [Next]_vars => HealthInv'
<1> SUFFICES ASSUME HealthInv, [Next]_vars PROVE HealthInv'
  OBVIOUS
<1>1. health' \in [Providers -> HealthRecord] /\ ThresholdQuarantines'
  <2>1. health \in [Providers -> HealthRecord] /\ ThresholdQuarantines
    BY Typed DEF HealthInv
  <2>2. CASE UNCHANGED health
    BY <2>1, <2>2 DEF ThresholdQuarantines
  <2>3. ASSUME NEW p \in Providers, NEW h \in HealthRecord, Becomes(p, h), Kept(p, h)
        PROVE  health' \in [Providers -> HealthRecord] /\ ThresholdQuarantines'
    <3>1. health' = [health EXCEPT ![p] = h] /\ AtThreshold(h)
      BY <2>3 DEF Becomes, Kept
    <3> QED
      BY <2>1, <3>1 DEF ThresholdQuarantines, AtThreshold
  <2> QED
    BY <2>2, <2>3, StepsHaveEffect DEF Effect
<1>2. scan' \in [Scans -> ScanType] /\ ScansStandAtProviders'
  <2>1. scan \in [Scans -> ScanType] /\ ScansStandAtProviders
    BY DEF HealthInv, TypeOK, ScanType
  <2>2. CASE UNCHANGED scan
    BY <2>1, <2>2 DEF ScansStandAtProviders
  <2>3. ASSUME NEW s \in Scans, NEW r \in ScanType, Stands(r), scan' = [scan EXCEPT ![s] = r]
        PROVE  scan' \in [Scans -> ScanType] /\ ScansStandAtProviders'
    BY <2>1, <2>3 DEF ScansStandAtProviders, Stands
  <2> QED
    BY <2>2, <2>3, ScanSteps DEF Moved
<1>3. mode' \in Modes /\ gateway' \in BOOLEAN /\ calm' \in BOOLEAN
  <2>1. mode \in Modes /\ gateway \in BOOLEAN /\ calm \in BOOLEAN
    BY DEF HealthInv, TypeOK
  <2>2. \A connected : RuntimeMode(connected) \in Modes
    BY DEF RuntimeMode, Modes
  <2>3. Forced \subseteq Modes
    BY HealthAssumption DEF Modes
  <2>4. CASE UpdateMode \/ (\E connected \in BOOLEAN : CheckGateway(connected))
    BY <2>1, <2>2, <2>4 DEF UpdateMode, CheckGateway
  <2>5. CASE (\E m \in Forced : ForceMode(m)) \/ GrowsCalm \/ UNCHANGED vars
    BY <2>1, <2>3, <2>5 DEF ForceMode, GrowsCalm, vars
  <2>6. ASSUME NEW s \in Scans, ScanStep(s)
        PROVE  UNCHANGED <<mode, gateway, calm>>
    BY <2>6 DEF ScanStep, Advance, ProbeAfterRecovery, RecoveryAnswered, ProbeAnswered,
         ReconcileAnswered
  <2>7. CASE (\E p \in Providers, well \in BOOLEAN : Report(p, well))
             \/ (\E p \in Providers :
                   QuarantineRunsOut(p) \/ CooldownRunsOut(p) \/ TelemetryGrowsStale(p))
    BY <2>1, <2>7 DEF Report, QuarantineRunsOut, CooldownRunsOut, TelemetryGrowsStale
  <2> QED
    BY <2>1, <2>4, <2>5, <2>6, <2>7 DEF Next
<1> QED
  BY <1>1, <1>2, <1>3 DEF HealthInv, TypeOK, HealthRecord, ScanType

(* The records, the scans and the mode keep their types, and no scan runs  *)
(* past the last provider, however many scans overlap.                     *)
THEOREM Types == Spec => []TypeOK
<1>1. HealthInv => TypeOK
  BY DEF HealthInv
<1> QED
  BY <1>1, Initially, Inductive, PTL DEF Spec

(* A provider that has failed as often as is allowed is in quarantine, for *)
(* every threshold and every interleaving of scans and reports.            *)
THEOREM Quarantines == Spec => []ThresholdQuarantines
<1>1. HealthInv => ThresholdQuarantines
  BY DEF HealthInv
<1> QED
  BY <1>1, Initially, Inductive, PTL DEF Spec

(* A provider that may not be used becomes usable only by a healthy answer *)
(* or at the end of its quarantine or of its rest.                         *)
THEOREM Opens == Spec => OpensWhenDue
<1> DEFINE Due(p) ==
      ~Available(p) /\ Available(p)' =>
        QuarantineRunsOut(p) \/ CooldownRunsOut(p) \/ health'[p].failures = 0
<1>1. ASSUME HealthInv, [Next]_vars, NEW p \in Providers
      PROVE  Due(p)
  <2>1. Available(p) <=> Usable(health[p])
    BY DEF Available, Usable
  <2>2. Available(p)' <=> Usable(health'[p])
    BY DEF Available, Usable
  <2>3. CASE UNCHANGED health
    BY <2>1, <2>2, <2>3
  <2>4. ASSUME NEW q \in Providers, NEW h \in HealthRecord, Becomes(q, h), Kept(q, h)
        PROVE  Due(p)
    <3>1. health'[q] = h /\ (q # p => health'[p] = health[p])
      BY <2>4, <1>1, Typed DEF Becomes
    <3>2. CASE q = p
      BY <2>1, <2>2, <2>4, <3>1, <3>2 DEF Kept
    <3>3. CASE q # p
      BY <2>1, <2>2, <3>1, <3>3
    <3> QED
      BY <3>2, <3>3
  <2> QED
    BY <1>1, <2>3, <2>4, StepsHaveEffect DEF Effect
<1>2. HealthInv /\ [Next]_vars => [\A p \in Providers : Due(p)]_vars
  BY <1>1
<1> QED
  BY <1>2, Initially, Inductive, PTL DEF Spec, OpensWhenDue
=============================================================================
