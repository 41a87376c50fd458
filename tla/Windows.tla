------------------------------- MODULE Windows -------------------------------
(***************************************************************************)
(* Windows: the difference of two snapshots (Snapshot::delta), taken while *)
(* markers write and a freezer may freeze between, or during, the scans.   *)
(* History variables remember the counters at the moments a window is      *)
(* measured against.                                                       *)
(***************************************************************************)
EXTENDS Readers

\* None stands for no counters.
ASSUME NoCountersAssumption == None \notin [Cells -> Nat]

VARIABLES
    before,     \* history: the counters when each scan of an observer began
    after,      \* history: the counters when it completed
    atFreeze    \* history: the counters when Frozen was stored

historyVars == <<before, after, atFreeze>>
windowVars == <<snapshotVars, historyVars>>

WindowInit ==
    /\ SnapshotInit
    /\ before = [o \in Observers |-> <<>>]
    /\ after = [o \in Observers |-> <<>>]
    /\ atFreeze = None

Begins(o) == opc[o] = "idle" /\ opc'[o] # "idle"
Completes(o) == opc[o] # "idle" /\ opc'[o] = "idle"

WindowNext ==
    /\ SnapshotNext
    /\ before' = [o \in Observers |->
                    IF Begins(o) THEN Append(before[o], counters) ELSE before[o]]
    /\ after' = [o \in Observers |->
                   IF Completes(o) THEN Append(after[o], counters) ELSE after[o]]
    /\ atFreeze' = IF atFreeze = None /\ calibration_state' = "Frozen"
                   THEN counters ELSE atFreeze

WindowSpec == WindowInit /\ [][WindowNext]_windowVars

-----------------------------------------------------------------------------
(* Properties.                                                             *)

Window(o, i, j) == Delta(snapshots[o][j], snapshots[o][i])

\* Two snapshots one thread took in turn always form a window, and it counts
\* every increment made between the two scans and none from outside them,
\* however the scans are torn: delta never reports an underflow that is only
\* an artefact of the relaxed scans.
WindowBounded ==
    \A o \in Observers : \A i, j \in DOMAIN snapshots[o] :
        i < j =>
            /\ Window(o, i, j).result = "Ok"
            /\ \A cell \in Scanned :
                 LET counted == Window(o, i, j).counters[cell]
                 IN  /\ counted =< after[o][j][cell] - before[o][i][cell]
                     /\ counted >= before[o][j][cell] - after[o][i][cell]

Accepted(view) ==
    view.result = "Ok" /\ \E stage \in StageIds : Diagnose(view, stage) = "Ok"

\* Online diagnosis accepts a window only when its earlier scan completed
\* after the freeze.
AcceptedWindowEndsFrozen ==
    \A o \in Observers : \A i, j \in DOMAIN snapshots[o] :
        (i < j /\ Accepted(Window(o, i, j))) =>
            /\ atFreeze # None
            /\ \A cell \in Cells : after[o][i][cell] >= atFreeze[cell]

\* spans_freeze "returns whether this window spans the calibration freeze": a
\* window online diagnosis accepts counts no increment made before the freeze.
AcceptedWindowStartsFrozen ==
    \A o \in Observers : \A i, j \in DOMAIN snapshots[o] :
        (i < j /\ Accepted(Window(o, i, j))) =>
            \A cell \in Scanned : snapshots[o][i].counters[cell] >= atFreeze[cell]
=============================================================================
