------------------------------ MODULE Diagnosis ------------------------------
(***************************************************************************)
(* The two score paths of a diagnosis (diagnose.rs) for one stage.  Marks  *)
(* of contexts that started after the freeze increment the stage's cause   *)
(* and incoming matrices and one cell of its online truth table; a relaxed *)
(* scan sees each of those segments with or without the marks that race    *)
(* with it; scores are derived from what the scan saw.                     *)
(***************************************************************************)
EXTENDS Ranks

CONSTANTS
    Bounds,             \* ordinary bucket bounds
    Previouses,         \* cumulative latencies before a mark
    LocalThreshold,     \* the stage's frozen thresholds
    PreviousThreshold,
    AfterThreshold,
    PolicyThresholds    \* rationals <<n, d>>, and None for NaN

ASSUME PreviousesAssumption == Previouses \subseteq Nat /\ None \notin Previouses
ASSUME BoundsAssumption == Bounds \in Seq(Nat)
ASSUME PolicyAssumption == PolicyThresholds \subseteq (Int \X (Nat \ {0})) \cup {None}

Buckets == 0 .. Len(Bounds)
MatrixCells == Buckets \X Buckets
OnlineCells == 0 .. 11
ONLINE_FIRST_COUNTERS == 4

VARIABLES
    isFirst,    \* the first registered stage has no incoming matrix
    counters,   \* the cause and incoming matrices and the online cells
    seen,       \* the same segments in a relaxed scan, once there is one
    marks       \* history: the marks of the stage

diagnosisVars == <<isFirst, counters, seen, marks>>

NothingCounted ==
    [cause |-> [c \in MatrixCells |-> 0],
     incoming |-> [c \in MatrixCells |-> 0],
     online |-> [c \in OnlineCells |-> 0]]

DiagnosisInit ==
    /\ isFirst \in BOOLEAN
    /\ counters = NothingCounted
    /\ seen = None
    /\ marks = <<>>

-----------------------------------------------------------------------------
(* Recording.                                                              *)

Bit(predicate) == IF predicate THEN 1 ELSE 0
After(mark) == IF mark.previous = None THEN mark.local ELSE mark.previous + mark.local
LocalTail(mark) == mark.local >= LocalThreshold
AfterTail(mark) == After(mark) >= AfterThreshold
PreviousTail(mark) == mark.previous # None /\ mark.previous >= PreviousThreshold

\* Mutant: a predecessor's cells overlap those of first marks.
OnlineCellOverlapping(mark) ==
    4 * Bit(PreviousTail(mark)) + 2 * Bit(LocalTail(mark)) + Bit(AfterTail(mark))

\* first_online_counter and predecessor_online_counter.
OnlineCell(mark) ==
    (IF mark.previous = None THEN 0 ELSE ONLINE_FIRST_COUNTERS)
    + 4 * Bit(PreviousTail(mark)) + 2 * Bit(LocalTail(mark)) + Bit(AfterTail(mark))

CauseCell(mark) ==
    <<Bucketize(mark.previous, Bounds), Bucketize(mark.local, Bounds)>>
IncomingCell(mark) ==
    <<Bucketize(mark.previous, Bounds), Bucketize(After(mark), Bounds)>>

RecordMark(mark) ==
    /\ seen = None /\ Len(marks) < MaxSamples
    /\ isFirst => mark.previous = None
    /\ marks' = Append(marks, mark)
    /\ counters' =
         [cause |-> IF mark.previous = None THEN counters.cause
                    ELSE [counters.cause EXCEPT ![CauseCell(mark)] = @ + 1],
          incoming |-> IF mark.previous = None THEN counters.incoming
                       ELSE [counters.incoming EXCEPT ![IncomingCell(mark)] = @ + 1],
          online |-> [counters.online EXCEPT ![OnlineCell(mark)] = @ + 1]]
    /\ UNCHANGED <<isFirst, seen>>

\* How many of the given marks have incremented a cell.
Hits(late, Cell(_), cell) ==
    Cardinality({i \in late : Cell(marks[i]) = cell})

Predecessors(indices) == {i \in indices : marks[i].previous # None}

\* Marks that race with the scan are missing from some of the segments.  One
\* scan is enough: scores depend on nothing but the scan they are made from.
Scan(lateCause, lateIncoming, lateOnline) ==
    /\ seen = None
    /\ seen' =
         [cause |-> [c \in MatrixCells |-> counters.cause[c]
                       - Hits(Predecessors(lateCause), CauseCell, c)],
          incoming |-> [c \in MatrixCells |-> counters.incoming[c]
                          - Hits(Predecessors(lateIncoming), IncomingCell, c)],
          online |-> [c \in OnlineCells |-> counters.online[c]
                        - Hits(lateOnline, OnlineCell, c)]]
    /\ UNCHANGED <<isFirst, counters, marks>>

DiagnosisNext ==
    \/ \E previous \in Previouses \cup {None}, local \in Latencies :
          RecordMark([previous |-> previous, local |-> local])
    \/ \E lateCause, lateIncoming, lateOnline \in SUBSET DOMAIN marks :
          Scan(lateCause, lateIncoming, lateOnline)

DiagnosisSpec == DiagnosisInit /\ [][DiagnosisNext]_diagnosisVars

-----------------------------------------------------------------------------
(* Scores.                                                                 *)

Available == "Available"
NoPredecessorPopulation == "NoPredecessorPopulation"

Ratio(numerator, denominator) ==
    [numerator |-> numerator, denominator |-> denominator,
     status |-> IF denominator = 0 THEN "ZeroDenominator" ELSE Available]

Unavailable ==
    [numerator |-> 0, denominator |-> 0, status |-> NoPredecessorPopulation]

Lift(tailLocalTail, previousTail, cleanLocalTail, previousClean) ==
    Ratio(tailLocalTail * previousClean, previousTail * cleanLocalTail)

Total(counts, cells) == SumFunctionOnSet(counts, cells)
Rows(matrix) ==
    [p \in Buckets |-> Total(matrix, {c \in MatrixCells : c[1] = p})]
Columns(matrix) ==
    [b \in Buckets |-> Total(matrix, {c \in MatrixCells : c[2] = b})]

\* The five scores over predecessor-bearing marks, from their four totals.
RateScores(tailLocalTail, previousTail, cleanLocalTail, previousClean, localTail) ==
    [local_tail_origin_tail |-> Ratio(tailLocalTail, localTail),
     local_tail_rate_given_prev_tail |-> Ratio(tailLocalTail, previousTail),
     local_tail_rate_given_prev_not_tail |-> Ratio(cleanLocalTail, previousClean),
     amplification_lift |->
        Lift(tailLocalTail, previousTail, cleanLocalTail, previousClean),
     carry_through |-> Ratio(previousTail - tailLocalTail, previousTail)]

NoRateScores ==
    [score \in {"local_tail_origin_tail", "local_tail_rate_given_prev_tail",
                "local_tail_rate_given_prev_not_tail", "amplification_lift",
                "carry_through"} |-> Unavailable]

CleanScores(tailOnset, originClean) ==
    [tail_onset |-> tailOnset, local_tail_origin_clean |-> originClean]

Joined(scores, more) ==
    [score \in DOMAIN scores \cup DOMAIN more |->
        IF score \in DOMAIN scores THEN scores[score] ELSE more[score]]

\* Mutant: the denominator is taken from the columns of the cause matrix.
TailOnsetMixed(counts, previousBucket, afterBucket) ==
    Ratio(Total(counts.incoming, {c \in MatrixCells :
                  c[2] >= afterBucket /\ c[1] < previousBucket}),
          Total(counts.cause, {c \in MatrixCells : c[2] >= afterBucket}))

\* Both terms come from one pass over the incoming matrix.
TailOnset(counts, previousBucket, afterBucket) ==
    Ratio(Total(counts.incoming, {c \in MatrixCells :
                  c[2] >= afterBucket /\ c[1] < previousBucket}),
          Total(counts.incoming, {c \in MatrixCells : c[2] >= afterBucket}))

\* derive_matrix_scores: tails begin at the nearest-rank buckets of the
\* matrices' own marginals.
MatrixScores(counts, q) ==
    LET previous == NearestRank(Rows(counts.cause), q)
        local == NearestRank(Columns(counts.cause), q)
        after == IF isFirst THEN None ELSE NearestRank(Columns(counts.incoming), q)
        onset == IF previous = None \/ after = None THEN Unavailable
                 ELSE TailOnset(counts, previous.bucket, after.bucket)
        cause(cells) == Total(counts.cause, cells)
        rows == {c \in MatrixCells : c[1] >= previous.bucket}
        columns == {c \in MatrixCells : c[2] >= local.bucket}
        clean == cause(columns \ rows)
    IN  IF previous = None
        THEN Joined(CleanScores(Unavailable, Unavailable), NoRateScores)
        ELSE Joined(CleanScores(onset, Ratio(clean, cause(columns))),
                    RateScores(cause(rows \cap columns), cause(rows), clean,
                               cause(MatrixCells \ rows), cause(columns)))

HasBit(cell, bit) == (cell \div bit) % 2 = 1

\* derive_calibrated_online_scores: first marks count as clean.
OnlineScores(counts) ==
    LET online(cells) == Total(counts.online, cells)
        first == 0 .. ONLINE_FIRST_COUNTERS - 1
        predecessor == OnlineCells \ first
        localTail == {c \in OnlineCells : HasBit(c, 2)}
        afterTail == {c \in OnlineCells : HasBit(c, 1)}
        previousTail == {c \in predecessor : HasBit(c - ONLINE_FIRST_COUNTERS, 4)}
        clean == CleanScores(Ratio(online(afterTail \ previousTail), online(afterTail)),
                             Ratio(online(localTail \ previousTail), online(localTail)))
    IN  IF online(predecessor) = 0 THEN Joined(clean, NoRateScores)
        ELSE Joined(clean,
                    RateScores(online(localTail \cap previousTail), online(previousTail),
                               online((localTail \cap predecessor) \ previousTail),
                               online(predecessor \ previousTail), online(localTail)))

-----------------------------------------------------------------------------
(* Classification.                                                         *)

DiagnoseConfig ==
    [onset_threshold : PolicyThresholds,
     amplification_lift_threshold : PolicyThresholds,
     carry_through_threshold : PolicyThresholds]

\* Mutant: an unavailable score counts as zero.
MeetsUnavailable(score, threshold) ==
    LET denominator == Max({score.denominator, 1})
    IN  /\ threshold # None
        /\ score.numerator * threshold[2] >= threshold[1] * denominator

Meets(score, threshold) ==
    /\ threshold # None
    /\ score.status = Available
    /\ score.numerator * threshold[2] >= threshold[1] * score.denominator

\* Scores::classification: the first score that meets its threshold wins.
Classification(scores, config) ==
    IF Meets(scores["tail_onset"], config.onset_threshold) THEN "Onset"
    ELSE IF Meets(scores["amplification_lift"], config.amplification_lift_threshold)
    THEN "Amplifier"
    ELSE IF Meets(scores["carry_through"], config.carry_through_threshold)
    THEN "CarryThrough"
    ELSE "Inconclusive"

-----------------------------------------------------------------------------
(* Properties.                                                             *)

BothPaths(counts) ==
    {OnlineScores(counts)} \cup {MatrixScores(counts, q) : q \in Quantiles}

\* Every probability is at most one and every complement adds up, although a
\* torn scan may see a mark in one segment and not in another; without a
\* predecessor in sight no score claims one.
TornScoresCoherent ==
    seen # None => \A scores \in BothPaths(seen) :
        /\ \A score \in DOMAIN scores \ {"amplification_lift"} :
              scores[score].numerator =< scores[score].denominator
        /\ scores["carry_through"].status = Available =>
              scores["carry_through"].numerator
                + scores["local_tail_rate_given_prev_tail"].numerator
                = scores["carry_through"].denominator
        /\ scores["local_tail_origin_tail"].status = Available =>
              scores["local_tail_origin_tail"].numerator
                + scores["local_tail_origin_clean"].numerator
                = scores["local_tail_origin_tail"].denominator
        /\ scores["amplification_lift"].status = Available =>
              \A rate \in {"local_tail_rate_given_prev_tail",
                           "local_tail_rate_given_prev_not_tail"} :
                  scores[rate].status = Available

\* The share of the marks with property A among those with property B.
Share(A(_), B(_)) ==
    Ratio(Cardinality({i \in DOMAIN marks : A(marks[i]) /\ B(marks[i])}),
          Cardinality({i \in DOMAIN marks : B(marks[i])}))

Quotient(score, other) ==
    Ratio(score.numerator * other.denominator, score.denominator * other.numerator)

\* The online scores of a stage are the conditional frequencies of its marks
\* under the frozen thresholds, with first marks as marks whose past was
\* clean, and lift is the quotient of the two that it compares: no mark is
\* lost or counted twice by the truth table.
OnlineScoresExact ==
    LET scores == OnlineScores(counters)
        clean(mark) == ~PreviousTail(mark)
        hasPrevious(mark) == mark.previous # None
        cleanPrevious(mark) == hasPrevious(mark) /\ ~PreviousTail(mark)
        localClean(mark) == ~LocalTail(mark)
    IN  /\ scores["tail_onset"] = Share(clean, AfterTail)
        /\ scores["local_tail_origin_clean"] = Share(clean, LocalTail)
        /\ (\E i \in DOMAIN marks : hasPrevious(marks[i])) =>
              /\ scores["local_tail_origin_tail"] = Share(PreviousTail, LocalTail)
              /\ scores["local_tail_rate_given_prev_tail"]
                   = Share(LocalTail, PreviousTail)
              /\ scores["local_tail_rate_given_prev_not_tail"]
                   = Share(LocalTail, cleanPrevious)
              /\ scores["amplification_lift"] =
                   Quotient(Share(LocalTail, PreviousTail), Share(LocalTail, cleanPrevious))
              /\ scores["carry_through"] = Share(localClean, PreviousTail)

\* A label speaks of marks that were made, under every policy, one that any
\* score meets included, and however the scan is torn: onset of a mark with a
\* cumulative tail, amplification of marks after tails and of local tails
\* after clean marks, which lift compares, carry-through of a mark after a
\* tail.  The matrix path never labels a stage nothing has arrived at from
\* another.
LabelNeedsEvidence ==
    seen # None =>
        LET some(P(_)) == \E i \in DOMAIN marks : P(marks[i])
            hasPrevious(mark) == mark.previous # None
            newTail(mark) ==
                hasPrevious(mark) /\ ~PreviousTail(mark) /\ LocalTail(mark)
            online == OnlineScores(seen)
            matrices == {MatrixScores(seen, q) : q \in Quantiles}
        IN  \A config \in DiagnoseConfig :
            LET label == Classification(online, config)
            IN  /\ label = "Onset" => some(AfterTail)
                /\ label = "Amplifier" => some(PreviousTail) /\ some(newTail)
                /\ label = "CarryThrough" => some(PreviousTail)
                /\ \A scores \in matrices :
                      Classification(scores, config) # "Inconclusive" =>
                          some(hasPrevious)
=============================================================================
