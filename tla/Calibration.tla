----------------------------- MODULE Calibration -----------------------------
(***************************************************************************)
(* The calibration freeze (calibration.rs) racing with the checkpoints of  *)
(* module Recorder.  A freezer is a thread inside try_freeze_calibration:  *)
(* it loads the state, scans the calibration cells one relaxed load at a   *)
(* time, claims Collecting -> Freezing with a compare-exchange, scans      *)
(* again, and either gives the claim back or publishes the thresholds of   *)
(* every stage, one OnceLock after the other, before it stores Frozen.     *)
(***************************************************************************)
EXTENDS Recorder, FiniteSetsExt

CONSTANTS
    Freezers,       \* threads that call try_freeze_calibration
    Minimums,       \* values of minimum_samples they pass
    QuantileNum,    \* the tail quantile is QuantileNum / QuantileDen
    QuantileDen,
    MaxCalls        \* bound: calls each freezer makes

ASSUME MinimumsAssumption == Minimums \subseteq Nat
ASSUME QuantileAssumption ==
    /\ QuantileNum \in Nat \ {0} /\ QuantileDen \in Nat \ {0}
    /\ QuantileNum =< QuantileDen
ASSUME MaxCallsAssumption == MaxCalls \in Nat

VARIABLES
    fpc,        \* where each freezer is in the call
    minimum,    \* the call's minimum_samples
    seen,       \* cells loaded by the scan in progress
    position,   \* next cell to load, or next stage to publish
    report,     \* stage reports derived from the second scan
    result,     \* what the last call returned
    calls       \* calls made, for the bound

freezerVars == <<fpc, minimum, seen, position, report, result, calls>>
vars == <<recorderVars, markerVars, freezerVars>>

\* The scan visits stages, then populations, then buckets in storage order.
PopulationOrder == <<"Local", "CumulativeAfter", "PreviousCumulative">>
ClassOrder == <<"Lower", "Finite", "Upper">>
ScanLength == 9 * NumStages
ScanCell(i) ==
    <<"calibration", i \div 9,
      PopulationOrder[((i \div 3) % 3) + 1], ClassOrder[(i % 3) + 1]>>

NothingSeen == [c \in CalibrationCells |-> 0]
NoReport == [s \in Stages |-> None]

Init ==
    /\ RecorderInit
    /\ fpc = [f \in Freezers |-> "idle"]
    /\ minimum = [f \in Freezers |-> 0]
    /\ seen = [f \in Freezers |-> NothingSeen]
    /\ position = [f \in Freezers |-> 0]
    /\ report = [f \in Freezers |-> NoReport]
    /\ result = [f \in Freezers |-> None]
    /\ calls = [f \in Freezers |-> 0]

-----------------------------------------------------------------------------
(* What a freeze derives from a scan.                                      *)

ClassCount(scan, s, p, class) == scan[<<"calibration", s, p, class>>]
Samples(scan, s, p) ==
    ClassCount(scan, s, p, "Lower") + ClassCount(scan, s, p, "Finite")
    + ClassCount(scan, s, p, "Upper")

\* Only the previous-cumulative population may be empty.
PopulationReady(scan, s, p, min) ==
    IF Samples(scan, s, p) = 0
    THEN p = "PreviousCumulative"
    ELSE Samples(scan, s, p) >= min

\* first_unready finds none.
Ready(scan, min) ==
    \A s \in Stages, p \in Populations : PopulationReady(scan, s, p, min)

\* The one-based nearest rank of the tail quantile among n samples.
QuantileRank(n) ==
    (n * QuantileNum + QuantileDen - 1) \div QuantileDen

\* The class of the bucket that holds the nearest-rank sample.
Terminal(scan, s, p) ==
    LET rank == QuantileRank(Samples(scan, s, p))
        lower == ClassCount(scan, s, p, "Lower")
    IN  IF Samples(scan, s, p) = 0 THEN None
        ELSE IF rank <= lower THEN "Lower"
        ELSE IF rank <= lower + ClassCount(scan, s, p, "Finite") THEN "Finite"
        ELSE "Upper"

DeriveReports(scan) ==
    [s \in Stages |->
        [p \in Populations |->
            [samples |-> Samples(scan, s, p),
             terminal |-> Terminal(scan, s, p)]]]

\* first_terminal finds none: every estimate that exists is finite.
AllFinite(reports) ==
    \A s \in Stages, p \in Populations :
        reports[s][p].terminal \in {None, "Finite"}

-----------------------------------------------------------------------------
(* The steps of a freezer.                                                 *)

Return(f, answer) ==
    /\ fpc' = [fpc EXCEPT ![f] = "idle"]
    /\ result' = [result EXCEPT ![f] = answer]
    /\ seen' = [seen EXCEPT ![f] = NothingSeen]
    /\ position' = [position EXCEPT ![f] = 0]
    /\ report' = [report EXCEPT ![f] = NoReport]

BeginScan(f, label) ==
    /\ fpc' = [fpc EXCEPT ![f] = label]
    /\ seen' = [seen EXCEPT ![f] = NothingSeen]
    /\ position' = [position EXCEPT ![f] = 0]
    /\ UNCHANGED <<report, result>>

Call(f, min) ==
    /\ fpc[f] = "idle"
    /\ calls[f] < MaxCalls
    /\ calls' = [calls EXCEPT ![f] = @ + 1]
    /\ fpc' = [fpc EXCEPT ![f] = "load"]
    /\ minimum' = [minimum EXCEPT ![f] = min]
    /\ result' = [result EXCEPT ![f] = None]
    /\ UNCHANGED <<recorderVars, seen, position, report>>

\* Mutant: the two refusals are swapped.
AlreadyAnswerSwapped ==
    IF calibration_state = "Freezing" THEN "AlreadyFrozen" ELSE "AlreadyFreezing"

AlreadyAnswer ==
    IF calibration_state = "Freezing" THEN "AlreadyFreezing" ELSE "AlreadyFrozen"

\* The load that answers a call early unless calibration is collecting.
LoadEntry(f) ==
    /\ fpc[f] = "load"
    /\ IF calibration_state = "Collecting"
       THEN BeginScan(f, "scan")
       ELSE Return(f, AlreadyAnswer)
    /\ UNCHANGED <<recorderVars, minimum, calls>>

\* One relaxed load of either scan.
ScanStep(f) ==
    /\ fpc[f] \in {"scan", "rescan"}
    /\ position[f] < ScanLength
    /\ seen' = [seen EXCEPT ![f][ScanCell(position[f])] =
                  counters[ScanCell(position[f])]]
    /\ position' = [position EXCEPT ![f] = @ + 1]
    /\ UNCHANGED <<recorderVars, fpc, minimum, report, result, calls>>

\* Readiness before the claim.
Judge(f) ==
    /\ fpc[f] = "scan"
    /\ position[f] = ScanLength
    /\ IF Ready(seen[f], minimum[f])
       THEN /\ fpc' = [fpc EXCEPT ![f] = "claim"]
            /\ UNCHANGED <<seen, position, report, result>>
       ELSE Return(f, "NotReady")
    /\ UNCHANGED <<recorderVars, minimum, calls>>

\* Mutant: the exchange stores Freezing whatever state it observed.
ClaimBlindly(f) ==
    /\ fpc[f] = "claim"
    /\ calibration_state' = "Freezing"
    /\ BeginScan(f, "rescan")
    /\ UNCHANGED <<counters, frozen_calibration, minimum, calls>>

\* Mutant: a caller that lost the exchange takes the restoring error path.
ClaimLoserRestores(f) ==
    /\ fpc[f] = "claim"
    /\ IF calibration_state = "Collecting"
       THEN /\ calibration_state' = "Freezing"
            /\ BeginScan(f, "rescan")
       ELSE /\ BeginScan(f, "unready")
            /\ UNCHANGED calibration_state
    /\ UNCHANGED <<counters, frozen_calibration, minimum, calls>>

\* Mutant: the scan made before the claim is used after it.
ClaimReusesScan(f) ==
    /\ fpc[f] = "claim"
    /\ IF calibration_state = "Collecting"
       THEN /\ calibration_state' = "Freezing"
            /\ fpc' = [fpc EXCEPT ![f] = "rescan"]
            /\ UNCHANGED <<seen, position, report, result>>
       ELSE /\ Return(f, AlreadyAnswer)
            /\ UNCHANGED calibration_state
    /\ UNCHANGED <<counters, frozen_calibration, minimum, calls>>

\* The compare-exchange Collecting -> Freezing.
Claim(f) ==
    /\ fpc[f] = "claim"
    /\ IF calibration_state = "Collecting"
       THEN /\ calibration_state' = "Freezing"
            /\ BeginScan(f, "rescan")
       ELSE /\ Return(f, AlreadyAnswer)
            /\ UNCHANGED calibration_state
    /\ UNCHANGED <<counters, frozen_calibration, minimum, calls>>

\* Mutant: readiness judged before the claim is trusted after it.
DecideRangeOnly(f) ==
    LET reports == DeriveReports(seen[f])
    IN  /\ fpc[f] = "rescan"
        /\ position[f] = ScanLength
        /\ \/ /\ ~AllFinite(reports)
              /\ BeginScan(f, "terminal")
           \/ /\ AllFinite(reports)
              /\ fpc' = [fpc EXCEPT ![f] = "publish"]
              /\ report' = [report EXCEPT ![f] = reports]
              /\ seen' = [seen EXCEPT ![f] = NothingSeen]
              /\ position' = [position EXCEPT ![f] = 0]
              /\ UNCHANGED result
        /\ UNCHANGED <<recorderVars, minimum, calls>>

\* Readiness and range after the claim, from the second scan only.
Decide(f) ==
    LET reports == DeriveReports(seen[f])
    IN  /\ fpc[f] = "rescan"
        /\ position[f] = ScanLength
        /\ \/ /\ ~Ready(seen[f], minimum[f])
              /\ BeginScan(f, "unready")
           \/ /\ Ready(seen[f], minimum[f])
              /\ ~AllFinite(reports)
              /\ BeginScan(f, "terminal")
           \/ /\ Ready(seen[f], minimum[f])
              /\ AllFinite(reports)
              /\ fpc' = [fpc EXCEPT ![f] = "publish"]
              /\ report' = [report EXCEPT ![f] = reports]
              /\ seen' = [seen EXCEPT ![f] = NothingSeen]
              /\ position' = [position EXCEPT ![f] = 0]
              /\ UNCHANGED result
        /\ UNCHANGED <<recorderVars, minimum, calls>>

\* Mutant: a failed claim is reported but not given back.
RestoreForgotten(f) ==
    /\ fpc[f] \in {"unready", "terminal"}
    /\ Return(f, IF fpc[f] = "unready"
                 THEN "NotReady" ELSE "CalibrationRangeInsufficient")
    /\ UNCHANGED <<recorderVars, minimum, calls>>

\* restore_collecting, then the error that made the claim fail.
Restore(f) ==
    /\ fpc[f] \in {"unready", "terminal"}
    /\ calibration_state' = "Collecting"
    /\ Return(f, IF fpc[f] = "unready"
                 THEN "NotReady" ELSE "CalibrationRangeInsufficient")
    /\ UNCHANGED <<counters, frozen_calibration, minimum, calls>>

\* OnceLock::set fails when the stage is already published, and expect panics.
PublishStage(f) ==
    LET s == position[f]
    IN  /\ fpc[f] = "publish"
        /\ s < NumStages
        /\ IF frozen_calibration[s] = None
           THEN /\ frozen_calibration' =
                     [frozen_calibration EXCEPT ![s] = report[f][s]]
                /\ position' = [position EXCEPT ![f] = s + 1]
                /\ UNCHANGED fpc
           ELSE /\ fpc' = [fpc EXCEPT ![f] = "panicked"]
                /\ UNCHANGED <<frozen_calibration, position>>
        /\ UNCHANGED <<counters, calibration_state,
                       minimum, seen, report, result, calls>>

\* Mutant: the publishing loop stops one stage short.
ReleaseEarly(f) ==
    /\ fpc[f] = "publish"
    /\ position[f] = NumStages - 1
    /\ calibration_state' = "Frozen"
    /\ Return(f, "Ok")
    /\ UNCHANGED <<counters, frozen_calibration, minimum, calls>>

\* Mutant: publication ends by storing the wrong state.
ReleaseCollecting(f) ==
    /\ fpc[f] = "publish"
    /\ position[f] = NumStages
    /\ calibration_state' = "Collecting"
    /\ Return(f, "Ok")
    /\ UNCHANGED <<counters, frozen_calibration, minimum, calls>>

\* The release store that makes the bundle visible.
Release(f) ==
    /\ fpc[f] = "publish"
    /\ position[f] = NumStages
    /\ calibration_state' = "Frozen"
    /\ Return(f, "Ok")
    /\ UNCHANGED <<counters, frozen_calibration, minimum, calls>>

Proceed(f) ==
    \/ LoadEntry(f)
    \/ ScanStep(f)
    \/ Judge(f)
    \/ Claim(f)
    \/ Decide(f)
    \/ Restore(f)
    \/ PublishStage(f)
    \/ Release(f)

FreezerStep(f) == Proceed(f) \/ \E min \in Minimums : Call(f, min)

Next ==
    \/ \E m \in Markers : MarkerStep(m) /\ UNCHANGED freezerVars
    \/ \E f \in Freezers : FreezerStep(f) /\ UNCHANGED markerVars

Spec == Init /\ [][Next]_vars

\* A call in progress is never descheduled for ever.  Nothing is assumed of
\* markers: a checkpoint may stop half-way, and no call need be made.
FreezerFairSpec ==
    Spec /\ \A f \in Freezers :
                WF_vars(Proceed(f) /\ UNCHANGED markerVars)

-----------------------------------------------------------------------------
(* Properties.                                                             *)

Labels == {"idle", "load", "scan", "claim", "rescan", "unready", "terminal",
           "publish", "panicked"}
Answers == {"Ok", "NotReady", "CalibrationRangeInsufficient",
            "AlreadyFreezing", "AlreadyFrozen"}
StageReports ==
    [Populations -> [samples : Nat, terminal : Classes \cup {None}]]
Contexts == [startedFrozen : BOOLEAN, previous : Stages \cup {None},
             cumulative : Nat]
Marks == [stage : Stages, local : Nat, cumulative : Nat,
          outcome : Outcomes \cup {None}]

\* Every variable ranges over the values its Rust type and the program points
\* of try_freeze_calibration and record_valid_mark allow.
TypeOK ==
    /\ counters \in [Cells -> Nat]
    /\ calibration_state \in {"Collecting", "Freezing", "Frozen"}
    /\ frozen_calibration \in [Stages -> StageReports \cup {None}]
    /\ ctx \in [Markers -> Contexts \cup {None}]
    /\ mpc \in [Markers -> {"idle", "counting", "online", "classified"}]
    /\ mark \in [Markers -> Marks]
    /\ todo \in [Markers -> Seq(Cells)]
    /\ requests \in [Markers -> 0 .. MaxRequests]
    /\ fed \in [Markers -> SUBSET {"calibration", "online", "diagnostics"}]
    /\ fpc \in [Freezers -> Labels]
    /\ minimum \in [Freezers -> Nat]
    /\ seen \in [Freezers -> [CalibrationCells -> Nat]]
    /\ position \in [Freezers -> 0 .. ScanLength]
    /\ report \in [Freezers ->
                     [Stages -> StageReports] \cup {NoReport}]
    /\ result \in [Freezers -> Answers \cup {None}]
    /\ calls \in [Freezers -> 0 .. MaxCalls]

\* No field of the model that may be absent can be mistaken for a value.
ASSUME NoneAssumption ==
    /\ None \notin Classes /\ None \notin StageReports
    /\ None \notin Answers \cup {"Pending"}
    /\ None \notin Freezers

\* Required populations hold at least one sample and min, the previous
\* population may instead be absent, and every estimate is finite.
ReadyBundle(bundle, min) ==
    \A s \in Stages, p \in Populations :
        \/ /\ bundle[s][p].samples = 0
           /\ bundle[s][p].terminal = None
           /\ p = "PreviousCumulative"
        \/ /\ bundle[s][p].samples > 0
           /\ bundle[s][p].samples >= min
           /\ bundle[s][p].terminal = "Finite"

Claimants ==
    {f \in Freezers : fpc[f] \in {"rescan", "unready", "terminal", "publish"}}

\* However freezers race for the compare-exchange, at most one of them is
\* between claim and publication, and the state is Freezing exactly then.
SingleClaim ==
    /\ \A f, g \in Claimants : f = g
    /\ calibration_state = "Freezing" <=> Claimants # {}

\* OnceLock::set never finds a stage already published, so the expect in
\* freeze_after_claim cannot panic, also after claims that were given back.
PublicationNeverPanics == \A f \in Freezers : fpc[f] # "panicked"

\* Frozen is visible only with every stage's thresholds in place, and a freeze
\* that failed leaves no stage published.
NoPartialBundle ==
    /\ calibration_state = "Frozen" =>
          \A s \in Stages : frozen_calibration[s] # None
    /\ calibration_state = "Collecting" =>
          \A s \in Stages : frozen_calibration[s] = None

\* The answer Ok is backed by the published bundle: each stage has its
\* required populations, all of them meet the call's own minimum, and every
\* threshold is finite, so the unwraps of FrozenStageCalibration succeed.
AcceptedBundleIsReady ==
    \A f \in Freezers :
        result[f] = "Ok" => ReadyBundle(frozen_calibration, minimum[f])

\* A context that started in the frozen state finds the thresholds of every
\* stage: the early return of record_frozen_online is never taken.
StartedFrozenFindsThresholds ==
    \A m \in Markers :
        ctx[m] # None /\ ctx[m].startedFrozen =>
            \A s \in Stages : frozen_calibration[s] # None

\* "Online cells are written only in the frozen state, so they are still zero"
\* when the thresholds are published: no checkpoint classifies with a bundle
\* that is only partly there, however the publication interleaves with it.
OnlineNeedsFrozen ==
    calibration_state # "Frozen" =>
        \A s \in Stages, k \in {"First", "Predecessor"} :
            counters[<<"online", s, k>>] = 0

\* One request never contributes to the calibration populations and to the
\* online counters those populations' thresholds classify.
PopulationsNeverMix ==
    \A m \in Markers : ~({"calibration", "online"} \subseteq fed[m])

\* Samples the counters hold beyond the published report were left by
\* checkpoints that loaded Collecting before the claim: at most one for each
\* marker in each population, over all stages, and the report is never ahead.
LateSamplesBounded ==
    calibration_state = "Frozen" =>
        \A p \in Populations :
            LET late == [s \in Stages |-> Samples(counters, s, p)
                                            - frozen_calibration[s][p].samples]
            IN  /\ \A s \in Stages : late[s] >= 0
                /\ SumFunction(late) =< Cardinality(Markers)

\* The published populations of the stages agree up to the checkpoints that
\* interleaved with the second scan: one for each marker, over all stages.
ReportCoherent ==
    calibration_state = "Frozen" =>
        LET samples(s, p) == frozen_calibration[s][p].samples
            excess(p, q) ==
                SumFunction([s \in Stages |->
                                Max({samples(s, p) - samples(s, q), 0})])
            slack == Cardinality(Markers)
        IN  /\ excess("Local", "CumulativeAfter")
                 + excess("CumulativeAfter", "Local") =< slack
            /\ excess("PreviousCumulative", "Local") =< slack

\* Between checkpoints every recorded interval is accounted for once: the
\* matrices agree stage by stage, and an interval is a calibration sample, a
\* sample skipped while freezing, an online sample, a predecessor without a
\* threshold or, once frozen, an interval of a context that started earlier.
\* The code counts the last nowhere, hence the inequality; that no sample is
\* dropped for want of a threshold is FrozenMeansPublished of Orderings.
Accounting ==
    LET recorded == [s \in Stages |-> counters[<<"local", s>>]]
        classified == [s \in Stages |->
                          Samples(counters, s, "Local")
                            + counters[<<"online", s, "First">>]
                            + counters[<<"online", s, "Predecessor">>]]
        total == SumFunction(recorded)
        accounted == SumFunction(classified)
                       + counters[<<"diagnostics", "SkippedWhileFreezing">>]
                       + counters[<<"diagnostics", "MissingPreviousThreshold">>]
    IN  (\A m \in Markers : mpc[m] = "idle") =>
          /\ \A s \in Stages :
                /\ counters[<<"cumulative", s>>] = recorded[s]
                /\ Samples(counters, s, "CumulativeAfter")
                      = Samples(counters, s, "Local")
                /\ Samples(counters, s, "PreviousCumulative")
                      + counters[<<"online", s, "Predecessor">>]
                      =< counters[<<"cause", s>>]
                /\ s > 0 => counters[<<"incoming", s>>] = counters[<<"cause", s>>]
          /\ accounted =< total
          /\ calibration_state # "Frozen" => accounted = total

\* Calibration never leaves Frozen and a published threshold never changes.
ThresholdsFinal ==
    [][/\ calibration_state = "Frozen" => calibration_state' = "Frozen"
       /\ \A s \in Stages :
             frozen_calibration[s] # None =>
                frozen_calibration'[s] = frozen_calibration[s]]_vars

\* A claim is always resolved, into Frozen or back to Collecting, even when
\* checkpoints that loaded Collecting never complete: nobody is left skipping
\* samples for ever.
ClaimResolved == calibration_state = "Freezing" ~> calibration_state # "Freezing"

-----------------------------------------------------------------------------
(* The inductive invariant behind the safety properties.                   *)

\* A checkpoint in progress has a context to advance.
LiveContext == \A m \in Markers : mpc[m] # "idle" => ctx[m] # None

\* A publisher's derived bundle is acceptable, and the stages below its
\* position, and no others, hold that bundle.
PublisherInv ==
    \A f \in Freezers :
        /\ fpc[f] # "panicked"
        /\ fpc[f] = "publish" =>
              /\ position[f] =< NumStages
              /\ report[f] \in [Stages -> StageReports]
              /\ ReadyBundle(report[f], minimum[f])
              /\ \A s \in Stages :
                    frozen_calibration[s] =
                        IF s < position[f] THEN report[f][s] ELSE None

\* Without a publisher, nothing is published before Frozen and all after it.
BundleInv ==
    /\ (/\ calibration_state # "Frozen"
        /\ \A f \in Freezers : fpc[f] # "publish") =>
          \A s \in Stages : frozen_calibration[s] = None
    /\ calibration_state = "Frozen" =>
          \A s \in Stages : frozen_calibration[s] # None

\* Ok is only remembered once the bundle is frozen.
AnswerInv ==
    \A f \in Freezers : result[f] = "Ok" =>
        /\ calibration_state = "Frozen"
        /\ ReadyBundle(frozen_calibration, minimum[f])

\* The frozen flag of a context is true of the state ever after, and decides
\* which of the two populations the context can contribute to.
ContextInv ==
    \A m \in Markers :
        /\ ctx[m] # None =>
              /\ ctx[m].startedFrozen => calibration_state = "Frozen"
              /\ mpc[m] = "online" => ctx[m].startedFrozen
              /\ "calibration" \in fed[m] => ~ctx[m].startedFrozen
              /\ "online" \in fed[m] => ctx[m].startedFrozen
        /\ ~({"calibration", "online"} \subseteq fed[m])

\* No checkpoint has an online counter to increment, and none has incremented
\* one, before Frozen is visible.
OnlineInv ==
    calibration_state # "Frozen" =>
        /\ \A m \in Markers : \A i \in 1 .. Len(todo[m]) :
              todo[m][i][1] # "online"
        /\ \A s \in Stages, k \in {"First", "Predecessor"} :
              counters[<<"online", s, k>>] = 0

IInv ==
    /\ LiveContext /\ SingleClaim /\ PublisherInv /\ BundleInv /\ AnswerInv /\ ContextInv

-----------------------------------------------------------------------------
(* What callers observe.                                                   *)

Owner == IF Claimants = {} THEN None ELSE CHOOSE f \in Claimants : TRUE
VisibleBundle ==
    IF calibration_state = "Frozen" THEN frozen_calibration ELSE None
VisibleAnswer ==
    [f \in Freezers |-> IF fpc[f] = "idle" THEN result[f] ELSE "Pending"]

Contract == INSTANCE FreezeContract WITH
    Bundles <- [Stages -> StageReports],
    phase <- calibration_state,
    owner <- Owner,
    bundle <- VisibleBundle,
    answer <- VisibleAnswer

\* Callers of try_freeze_calibration see the atomic contract: the bundle of
\* all stages appears in one step, with the state and the answer Ok, and each
\* refusal is true of the state at a moment during the call.
ImplementsContract == Contract!Spec
=============================================================================
