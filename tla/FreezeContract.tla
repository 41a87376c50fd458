--------------------------- MODULE FreezeContract ---------------------------
(***************************************************************************)
(* What try_freeze_calibration promises its callers, without scans, cells  *)
(* or per-stage publication: calibration is collecting, owned by the one   *)
(* caller that is freezing it, or frozen for ever with a complete bundle   *)
(* of thresholds; every answer is true of the moment it is decided.        *)
(***************************************************************************)
CONSTANTS Freezers, Bundles, None

VARIABLES
    phase,      \* the lifecycle state that is_frozen and snapshots observe
    owner,      \* the caller that has claimed the transition, or None
    bundle,     \* the published thresholds of all stages, or None
    answer      \* per caller: its last answer, or "Pending" during a call

vars == <<phase, owner, bundle, answer>>

Init ==
    /\ phase = "Collecting"
    /\ owner = None
    /\ bundle = None
    /\ answer = [f \in Freezers |-> None]

Pending(f) == answer[f] = "Pending"

Answer(f, a) == answer' = [answer EXCEPT ![f] = a]

Call(f) ==
    /\ ~Pending(f)
    /\ Answer(f, "Pending")
    /\ UNCHANGED <<phase, owner, bundle>>

\* Refusals tell the phase they observed.
Refuse(f) ==
    /\ Pending(f) /\ owner # f
    /\ \/ phase = "Freezing" /\ Answer(f, "AlreadyFreezing")
       \/ phase = "Frozen" /\ Answer(f, "AlreadyFrozen")
    /\ UNCHANGED <<phase, owner, bundle>>

\* Samples were missing before any claim was made.
Unready(f) ==
    /\ Pending(f) /\ owner # f
    /\ Answer(f, "NotReady")
    /\ UNCHANGED <<phase, owner, bundle>>

Claim(f) ==
    /\ Pending(f)
    /\ phase = "Collecting" /\ phase' = "Freezing"
    /\ owner' = f
    /\ UNCHANGED <<bundle, answer>>

\* The owner fails and collection goes on as if it had never claimed.
GiveBack(f) ==
    /\ owner = f
    /\ phase' = "Collecting"
    /\ owner' = None
    /\ \E a \in {"NotReady", "CalibrationRangeInsufficient"} : Answer(f, a)
    /\ UNCHANGED bundle

Publish(f) ==
    /\ owner = f
    /\ phase' = "Frozen"
    /\ owner' = None
    /\ bundle' \in Bundles
    /\ Answer(f, "Ok")

Next ==
    \E f \in Freezers :
        \/ Call(f) \/ Refuse(f) \/ Unready(f)
        \/ Claim(f) \/ GiveBack(f) \/ Publish(f)

Spec == Init /\ [][Next]_vars
=============================================================================
