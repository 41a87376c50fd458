------------------------------- MODULE Readers -------------------------------
(***************************************************************************)
(* The pure readers of snapshots: the window between two of them           *)
(* (Snapshot::delta, snapshot.rs) and the answer diagnose (diagnose.rs)    *)
(* gives for one stage of a snapshot or window.  Scores are the business   *)
(* of module Diagnosis; here is what is refused, and what is answered with *)
(* whose thresholds.                                                       *)
(***************************************************************************)
EXTENDS Snapshot

\* The None of an optional stage index is no index.
ASSUME NoStageAssumption == None \notin Stages

-----------------------------------------------------------------------------
(* Windows.                                                                *)

\* A snapshot of another registry, of as many stages: every stage reached
\* once, by a first mark, and then frozen.
OtherPopulations == {"Local", "CumulativeAfter"}
CellsReachedOnce ==
    ({"local", "cumulative"} \X Stages)
    \cup ({"calibration"} \X Stages \X OtherPopulations \X {"Finite"})
OtherSnapshot ==
    [registry |-> "other",
     counters |-> [cell \in Cells |->
                     IF cell \in CellsReachedOnce THEN 1 ELSE 0],
     state |-> "Frozen",
     report |-> [s \in Stages |->
        [p \in Populations |->
            IF p \in OtherPopulations
            THEN [samples |-> 1, terminal |-> "Finite"]
            ELSE [samples |-> 0, terminal |-> None]]],
     spansFreeze |-> FALSE]

Refused(error) == [result |-> error]

\* Each counter of the later snapshot less that of the earlier one; the state
\* and the report are those of the later scan.
Subtract(later, earlier, spans) ==
    IF \E cell \in Cells : later.counters[cell] < earlier.counters[cell]
    THEN Refused("CounterUnderflow")
    ELSE [result |-> "Ok",
          registry |-> later.registry,
          counters |-> [cell \in Cells |->
                          later.counters[cell] - earlier.counters[cell]],
          state |-> later.state,
          report |-> later.report,
          spansFreeze |-> spans]

\* Mutant: the operands of the subtraction are swapped.
DeltaSwapped(later, earlier) ==
    IF later.registry # earlier.registry THEN Refused("RegistryMismatch")
    ELSE Subtract(earlier, later,
                  (later.state = "Frozen") # (earlier.state = "Frozen"))

\* Mutant: only a window that started before any claim spans the freeze.
DeltaIgnoresFreezing(later, earlier) ==
    IF later.registry # earlier.registry THEN Refused("RegistryMismatch")
    ELSE Subtract(later, earlier,
                  (later.state = "Collecting") # (earlier.state = "Collecting"))

\* Snapshot::delta.
Delta(later, earlier) ==
    IF later.registry # earlier.registry THEN Refused("RegistryMismatch")
    ELSE Subtract(later, earlier,
                  (later.state = "Frozen") # (earlier.state = "Frozen"))

-----------------------------------------------------------------------------
(* Diagnosis.                                                              *)

\* A StageId is branded with the registry that issued it.
StageIds == [registry : {"this", "other"}, index : Stages]

StageIndex(view, stage) ==
    IF stage.registry = view.registry THEN stage.index ELSE None

\* CalibratedThresholds::from_report unwraps the required thresholds.
ThresholdsUnwrap(stage_report) ==
    \A p \in {"Local", "CumulativeAfter"} : stage_report[p].terminal = "Finite"

\* What diagnose answers for a stage of a snapshot or window.
Diagnose(view, stage) ==
    LET s == StageIndex(view, stage)
    IN  CASE s = None -> "ForeignStage"
          [] s # None /\ view.spansFreeze -> "WindowSpansFreeze"
          [] s # None /\ ~view.spansFreeze ->
                IF view.report = None \/ s \notin DOMAIN view.report
                THEN "NotCalibrated"
                ELSE IF ThresholdsUnwrap(view.report[s]) THEN "Ok"
                ELSE "Panicked"

-----------------------------------------------------------------------------
(* Properties.                                                             *)

\* Whatever interleaved with its scan, a snapshot that observed Frozen can be
\* diagnosed for every stage of its registry, one that did not is answered
\* NotCalibrated, and no answer unwraps a threshold that is not there.  Only
\* counts of one registry meet its thresholds, also by way of a window.
DiagnosisAnswered ==
    /\ \A snapshot \in Taken, stage \in StageIds :
         Diagnose(snapshot, stage) =
             CASE stage.registry = "other" -> "ForeignStage"
               [] stage.registry = "this" /\ snapshot.state = "Frozen" -> "Ok"
               [] OTHER -> "NotCalibrated"
    /\ \A later, earlier \in Taken \cup {OtherSnapshot}, stage \in StageIds :
         LET window == Delta(later, earlier)
         IN  (window.result = "Ok" /\ Diagnose(window, stage) = "Ok") =>
                 {later.registry, earlier.registry} = {stage.registry}
=============================================================================
