------------------------------- MODULE Context -------------------------------
(***************************************************************************)
(* Request contexts (context.rs): which marks are accepted, how a context  *)
(* advances, and which cells of the distributions and of the transition    *)
(* matrices a mark increments.  Clock-reading contexts pack their identity *)
(* and their previous mark into one word, modelled as the set of its bits; *)
(* manual contexts keep fields.  Contexts and stages may belong to any of  *)
(* the process's recorders, which are named by their cookies.              *)
(*                                                                         *)
(* A context has one owner and the counters only grow, so a mark is one    *)
(* step here; module Recorder interleaves its increments and models what   *)
(* the calibration state adds to them.                                     *)
(***************************************************************************)
EXTENDS Integers, Sequences, FiniteSets, FiniteSetsExt, Bags

CONSTANTS
    Contexts,       \* slots that hold one live context each
    Recorders,      \* cookies of the recorders in the process
    FrozenRecorders,\* those whose calibration is frozen
    NumStages,      \* stages of every recorder
    MaxNs,          \* the largest u64
    Bounds,         \* latencies at which a new bucket begins
    Outcomes,       \* of finish; None is a mark
    MaxCalls,       \* bound: calls that record; nothing starts after them
    None

ASSUME ContextsAssumption == IsFiniteSet(Contexts)
ASSUME StagesAssumption == NumStages \in 1 .. 64
ASSUME LatencyAssumption == MaxNs \in Nat
ASSUME BoundsAssumption == Bounds \subseteq 1 .. MaxNs /\ Cardinality(Bounds) < 64

Stages == 0 .. NumStages - 1
StageIds == [cookie : Recorders, index : Stages]
Buckets == 0 .. Cardinality(Bounds)
Rejections == {"InvalidContextMarks", "InvalidStageMarks",
               "NonMonotonicMarks", "ClockRegressions"}
Diagnostics == Rejections \cup {"LatencyOverflows", "CumulativeOverflows"}

Cells ==
    ({"local", "cumulative"} \X Stages \X Buckets)
    \cup ({"cause"} \X Stages \X Buckets \X Buckets)
    \cup ({"incoming"} \X (Stages \ {0}) \X Buckets \X Buckets)
    \cup ({"completion"} \X Stages \X Outcomes)
    \cup ({"diagnostics"} \X Diagnostics)

\* No outcome of a check and no previous mark is mistaken for none.
ASSUME NoneAssumption ==
    None \notin Rejections /\ None \notin [stage : Stages, bucket : Buckets]

VARIABLES
    counters,   \* per recorder, the bag of cells incremented
    ctx,        \* the live context in each slot, or None
    path,       \* history: the marks the live context had accepted
    started,    \* history: what the last context of each slot started with
    calls,      \* history: recording calls made on each recorder
    accepted    \* history: marks accepted from contexts of each recorder

vars == <<counters, ctx, path, started, calls, accepted>>

Init ==
    /\ counters = [r \in Recorders |-> EmptyBag]
    /\ ctx = [c \in Contexts |-> None]
    /\ path = [c \in Contexts |-> <<>>]
    /\ started = [c \in Contexts |-> [ns |-> 0, cookie |-> None, frozen |-> FALSE]]
    /\ calls = [r \in Recorders |-> 0]
    /\ accepted = [r \in Recorders |-> 0]

\* The bucket of a latency: the number of bounds it has reached.
Bucketize(ns) == Cardinality({bound \in Bounds : bound =< ns})

-----------------------------------------------------------------------------
(* The packed word of Ctx: the positions of its one bits.                  *)

STARTED_FROZEN_BIT == 32
PREVIOUS_STAGE_SHIFT == 48
PREVIOUS_BUCKET_SHIFT == 54
HAS_PREVIOUS_BIT == 60

\* Mutant: the mask keeps the cookie and loses the bit above it.
IDENTITY_MASK_COOKIE == 0 .. STARTED_FROZEN_BIT - 1
IDENTITY_MASK == 0 .. PREVIOUS_STAGE_SHIFT - 1

\* What bit j is worth, and what is left of a value above its bits below k.
Weight[j \in Nat] == IF j = 0 THEN 1 ELSE 2 * Weight[j - 1]
ShiftRight(value) ==
    LET shifted[k \in Nat] == IF k = 0 THEN value ELSE shifted[k - 1] \div 2
    IN  shifted

\* A cookie is a u32.
ASSUME RecordersAssumption ==
    \A r \in Recorders : r \in Nat /\ ShiftRight(r)[32] = 0

Field(value, shift, width) ==
    {shift + j : j \in {k \in 0 .. width - 1 : ShiftRight(value)[k] % 2 = 1}}
Value(word, shift, width) ==
    SumFunction([k \in word \cap (shift .. shift + width - 1) |-> Weight[k - shift]])

PackPrevious(previous) ==
    Field(previous.stage, PREVIOUS_STAGE_SHIFT, 6)
    \cup Field(previous.bucket, PREVIOUS_BUCKET_SHIFT, 6)
    \cup {HAS_PREVIOUS_BIT}

NewClocked(r, timestamp, frozen) ==
    [kind |-> "clock", last |-> timestamp, cumulative |-> 0,
     metadata |-> Field(r, 0, 32)
                    \cup (IF frozen THEN {STARTED_FROZEN_BIT} ELSE {})]

NewManual(r, frozen) ==
    [kind |-> "manual", cumulative |-> 0, cookie |-> r,
     frozen |-> frozen, previous |-> None]

RegistryCookie(context) ==
    IF context.kind = "clock" THEN Value(context.metadata, 0, 32)
    ELSE context.cookie

StartedFrozen(context) ==
    IF context.kind = "clock" THEN STARTED_FROZEN_BIT \in context.metadata
    ELSE context.frozen

Previous(context) ==
    IF context.kind = "manual" THEN context.previous
    ELSE IF HAS_PREVIOUS_BIT \notin context.metadata THEN None
    ELSE [stage |-> Value(context.metadata, PREVIOUS_STAGE_SHIFT, 6),
          bucket |-> Value(context.metadata, PREVIOUS_BUCKET_SHIFT, 6)]

\* Mutant: the bits of the mark before are not cleared.
SetPreviousUnmasked(context, previous) ==
    IF context.kind = "manual"
    THEN [context EXCEPT !.previous = previous]
    ELSE [context EXCEPT !.metadata = @ \cup PackPrevious(previous)]

SetPrevious(context, previous) ==
    IF context.kind = "manual"
    THEN [context EXCEPT !.previous = previous]
    ELSE [context EXCEPT !.metadata =
            (@ \cap IDENTITY_MASK) \cup PackPrevious(previous)]

-----------------------------------------------------------------------------
(* validate_mark and the clock.                                            *)

\* Mutant: any context may mark on any recorder.
RejectionAnyContext(r, context, id, reading) ==
    LET previous == Previous(context)
    IN  IF id.cookie # r THEN "InvalidStageMarks"
        ELSE IF previous # None /\ ~(id.index # 0 /\ id.index > previous.stage)
        THEN "NonMonotonicMarks"
        ELSE IF context.kind = "clock" /\ reading.ns < context.last
        THEN "ClockRegressions"
        ELSE None

\* Why recorder r rejects a mark, or None: the first check that fails counts.
Rejection(r, context, id, reading) ==
    LET previous == Previous(context)
    IN  IF RegistryCookie(context) # r THEN "InvalidContextMarks"
        ELSE IF id.cookie # r THEN "InvalidStageMarks"
        ELSE IF previous # None /\ ~(id.index # 0 /\ id.index > previous.stage)
        THEN "NonMonotonicMarks"
        ELSE IF context.kind = "clock" /\ reading.ns < context.last
        THEN "ClockRegressions"
        ELSE None

\* A reading of the clock, or the elapsed time of a manual mark; both saturate
\* when they do not fit a u64.
Readings ==
    [ns : 0 .. MaxNs, overflowed : {FALSE}]
    \cup {[ns |-> MaxNs, overflowed |-> TRUE]}

\* The interval the mark measures.
LocalNs(context, reading) ==
    IF reading.overflowed THEN MaxNs
    ELSE IF context.kind = "clock" THEN reading.ns - context.last
    ELSE reading.ns

Overflows(context, local) == context.cumulative + local > MaxNs
CumulativeNs(context, local) ==
    IF Overflows(context, local) THEN MaxNs ELSE context.cumulative + local

-----------------------------------------------------------------------------
(* record_valid_mark.                                                      *)

\* A first mark's cumulative latency is its local latency.
CumulativeBucket(context, local) ==
    IF Previous(context) = None
    THEN Bucketize(local)
    ELSE Bucketize(CumulativeNs(context, local))

\* Mutant: the incoming matrix is indexed by the context already advanced.
TransitionCellsAdvanced(context, s, local) ==
    LET previous == Previous(context)
        after == CumulativeBucket(context, local)
    IN  IF previous = None THEN {}
        ELSE {<<"cause", s, previous.bucket, Bucketize(local)>>,
              <<"incoming", s, after, after>>}

TransitionCells(context, s, local) ==
    LET previous == Previous(context)
        after == CumulativeBucket(context, local)
    IN  IF previous = None THEN {}
        ELSE {<<"cause", s, previous.bucket, Bucketize(local)>>,
              <<"incoming", s, previous.bucket, after>>}

OverflowCells(context, reading, local) ==
    (IF reading.overflowed THEN {<<"diagnostics", "LatencyOverflows">>} ELSE {})
    \cup (IF Overflows(context, local)
          THEN {<<"diagnostics", "CumulativeOverflows">>} ELSE {})

MarkCells(context, s, reading, outcome) ==
    LET local == LocalNs(context, reading)
    IN  {<<"local", s, Bucketize(local)>>,
         <<"cumulative", s, CumulativeBucket(context, local)>>}
        \cup TransitionCells(context, s, local)
        \cup OverflowCells(context, reading, local)
        \cup (IF outcome = None THEN {} ELSE {<<"completion", s, outcome>>})

Increment(r, cells) ==
    counters' = [counters EXCEPT ![r] = @ (+) SetToBag(cells)]

\* The context after an accepted mark.
Advance(context, s, reading) ==
    LET local == LocalNs(context, reading)
        counted == [context EXCEPT !.cumulative = CumulativeNs(context, local)]
        timed == IF context.kind = "clock"
                 THEN [counted EXCEPT !.last = reading.ns] ELSE counted
    IN  SetPrevious(timed, [stage |-> s,
                            bucket |-> CumulativeBucket(context, local)])

-----------------------------------------------------------------------------
(* Calls.                                                                  *)

\* start, start_manual: whatever context the slot held is dropped.
Start(c, r, reading) ==
    /\ ctx' = [ctx EXCEPT ![c] = NewClocked(r, reading.ns, r \in FrozenRecorders)]
    /\ started' = [started EXCEPT ![c] =
                     [ns |-> reading.ns, cookie |-> r, frozen |-> r \in FrozenRecorders]]
    /\ path' = [path EXCEPT ![c] = <<>>]
    /\ UNCHANGED <<counters, calls, accepted>>

StartManual(c, r) ==
    /\ ctx' = [ctx EXCEPT ![c] = NewManual(r, r \in FrozenRecorders)]
    /\ started' = [started EXCEPT ![c] =
                     [ns |-> 0, cookie |-> r, frozen |-> r \in FrozenRecorders]]
    /\ path' = [path EXCEPT ![c] = <<>>]
    /\ UNCHANGED <<counters, calls, accepted>>

Called(c, r) ==
    /\ ctx[c] # None
    /\ calls' = [calls EXCEPT ![r] = @ + 1]

\* Mutant: a mark behind the clock moves the context to that earlier reading.
MarkRejectedRewinding(c, r, id, reading, outcome) ==
    LET reason == Rejection(r, ctx[c], id, reading)
    IN  /\ Called(c, r)
        /\ reason # None
        /\ Increment(r, {<<"diagnostics", reason>>})
        /\ ctx' = [ctx EXCEPT ![c] =
                     IF outcome # None THEN None
                     ELSE IF reason = "ClockRegressions"
                     THEN [@ EXCEPT !.last = reading.ns] ELSE @]
        /\ path' = [path EXCEPT ![c] = IF outcome = None THEN @ ELSE <<>>]
        /\ UNCHANGED <<started, accepted>>

\* A rejected mark leaves its context as it was; finish consumes it anyway.
MarkRejected(c, r, id, reading, outcome) ==
    LET reason == Rejection(r, ctx[c], id, reading)
    IN  /\ Called(c, r)
        /\ reason # None
        /\ Increment(r, {<<"diagnostics", reason>>})
        /\ ctx' = [ctx EXCEPT ![c] = IF outcome = None THEN @ ELSE None]
        /\ path' = [path EXCEPT ![c] = IF outcome = None THEN @ ELSE <<>>]
        /\ UNCHANGED <<started, accepted>>

MarkAccepted(c, r, id, reading, outcome) ==
    LET mark == [stage |-> id.index, local |-> LocalNs(ctx[c], reading)]
    IN  /\ Called(c, r)
        /\ Rejection(r, ctx[c], id, reading) = None
        /\ Increment(r, MarkCells(ctx[c], id.index, reading, outcome))
        /\ ctx' = [ctx EXCEPT ![c] =
                     IF outcome = None THEN Advance(@, id.index, reading)
                     ELSE None]
        /\ path' = [path EXCEPT ![c] =
                      IF outcome = None THEN Append(@, mark) ELSE <<>>]
        /\ accepted' = [accepted EXCEPT ![RegistryCookie(ctx[c])] = @ + 1]
        /\ UNCHANGED started

TotalCalls == SumFunction(calls)

Next ==
    /\ TotalCalls < MaxCalls
    /\ \E c \in Contexts, r \in Recorders :
        \/ \E reading \in Readings : Start(c, r, reading)
        \/ StartManual(c, r)
        \/ \E id \in StageIds, reading \in Readings, outcome \in Outcomes \cup {None} :
              \/ MarkRejected(c, r, id, reading, outcome)
              \/ MarkAccepted(c, r, id, reading, outcome)

Spec == Init /\ [][Next]_vars

-----------------------------------------------------------------------------
(* Properties.                                                             *)

TypeOK ==
    /\ \A r \in Recorders : IsABag(counters[r]) /\ BagToSet(counters[r]) \subseteq Cells
    /\ \A c \in Contexts : ctx[c] # None =>
        /\ RegistryCookie(ctx[c]) \in Recorders
        /\ ctx[c].cumulative \in 0 .. MaxNs
        /\ Previous(ctx[c]) \in [stage : Stages, bucket : Buckets] \cup {None}

Count(r, cell) == IF BagIn(cell, counters[r]) THEN counters[r][cell] ELSE 0

Row(r, matrix, s, p) ==
    SumFunction([b \in Buckets |-> Count(r, <<matrix, s, p, b>>)])
Column(r, matrix, s, b) ==
    SumFunction([p \in Buckets |-> Count(r, <<matrix, s, p, b>>)])

\* Flow through the matrices is conserved, whatever was rejected or has
\* saturated.  The two matrices of a stage agree on where requests came from;
\* what local and cumulative distributions hold beyond the matrix columns are
\* the first marks, in the same bucket of both; and no bucket of cumulative
\* latency is left by more requests than entered it.
FlowConserved ==
    \A r \in Recorders, b \in Buckets :
        /\ \A s \in Stages \ {0} :
            LET first == Count(r, <<"local", s, b>>) - Column(r, "cause", s, b)
            IN  /\ Row(r, "cause", s, b) = Row(r, "incoming", s, b)
                /\ first = Count(r, <<"cumulative", s, b>>)
                              - Column(r, "incoming", s, b)
                /\ first >= 0
        /\ Count(r, <<"local", 0, b>>) = Count(r, <<"cumulative", 0, b>>)
        /\ \A p \in Buckets : Count(r, <<"cause", 0, p, b>>) = 0
        /\ SumFunction([s \in Stages |-> Row(r, "cause", s, b)])
              =< SumFunction([s \in Stages |-> Count(r, <<"cumulative", s, b>>)])

Least(a, b) == IF a < b THEN a ELSE b
PathNs(c) == SumFunction([i \in DOMAIN path[c] |-> path[c][i].local])

\* A context is a function of how it started and of the marks it had accepted:
\* its cumulative latency is their saturating sum, the bucket it carries to the
\* next mark is the bucket of that sum, and it still belongs to the recorder and
\* has the started-frozen bit it began with, through every packing of the word.
ContextFollowsPath ==
    \A c \in Contexts : ctx[c] # None =>
        /\ ctx[c].cumulative = Least(PathNs(c), MaxNs)
        /\ Previous(ctx[c]) =
             IF path[c] = <<>> THEN None
             ELSE [stage |-> path[c][Len(path[c])].stage,
                   bucket |-> Bucketize(ctx[c].cumulative)]
        /\ RegistryCookie(ctx[c]) = started[c].cookie
        /\ StartedFrozen(ctx[c]) <=> started[c].frozen

\* Without an overflow the latencies of a clocked request add up to the time
\* since its start: an interval lost to a rejected mark is part of the next.
ElapsedTelescopes ==
    \A c \in Contexts : ctx[c] # None /\ ctx[c].kind = "clock" =>
        \/ ctx[c].cumulative = ctx[c].last - started[c].ns
        \/ ctx[c].cumulative = MaxNs
           /\ \E i \in DOMAIN path[c] : path[c][i].local = MaxNs

\* Every recording call on a recorder is either one interval in its
\* distributions or one rejection in its diagnostics, and the intervals are
\* those of its own contexts.
EveryCallAccounted ==
    \A r \in Recorders :
        LET intervals(segment) ==
                SumFunction([cell \in {segment} \X Stages \X Buckets |-> Count(r, cell)])
            rejected == SumFunction([d \in Rejections |-> Count(r, <<"diagnostics", d>>)])
        IN  /\ intervals("local") = accepted[r]
            /\ intervals("cumulative") = accepted[r]
            /\ accepted[r] + rejected = calls[r]
=============================================================================
