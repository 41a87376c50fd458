# tracegrams: verification project

`tracegrams` is a Rust crate that records request checkpoints into a fixed
slice of atomic counters and derives latency diagnoses from them. Hot threads
(*markers* below) only add to counters; a control thread (*freezer*) turns the
calibration counters into thresholds once; reader threads (*observers*) copy the
counters while both go on. These modules model the code of `src/src/`, check it
with TLC on small instances, and prove with TLAPS, for instances of any size,
the safety of the freeze, of its accounting and of its memory orderings, of the
readers, of request contexts, of the registry and of the storage layout, and what
quantile estimates and diagnosis scores say of the samples behind them.

    tlc -config Race.cfg MCCalibration        one run (PROJECT.json lists all)
    tlapm Calibration_proofs.tla              the freeze, what its counters add up to
    tlapm Windows_proofs.tla                  snapshots, diagnosis of them, windows
    tlapm Orderings_proofs.tla                the freeze under weak orderings
    tlapm Context_proofs.tla                  request contexts and their matrices
    tlapm Registry_proofs.tla                 cookies, identifiers, what is built
    tlapm Layout_proofs.tla                   indices and the memory estimate
    tlapm Estimates_proofs.tla                quantile estimates, diagnosis scores
    tlapm Induction.tla                       lemmas about numbers and sums

## 1. The system

| component | state it keeps | operations | interacts with |
|---|---|---|---|
| registry (`init.rs`) | process-wide next cookie; per builder: cookie, stage names, quantile | `builder`, `stage`, `tail_quantile`, `build` | brands every `StageId`, context and snapshot with a cookie |
| recorder storage (`recorder.rs`) | one flat slice of `AtomicU64`, the calibration state, one `OnceLock` per stage | index functions, relaxed increments | shared by markers, freezers, observers |
| request contexts (`context.rs`) | per request: cumulative latency, last timestamp, previous stage and bucket, started-frozen bit, cookie | `start`, `mark`, `finish` and the manual variants | increment counters, load the state, read thresholds |
| calibration freeze (`calibration.rs`) | Collecting / Freezing / Frozen, the published thresholds | `try_freeze_calibration`, `is_frozen`, the report | scans counters while markers write them |
| snapshots (`snapshot.rs`) | an owned copy of counters, state and report | `snapshot_relaxed`, accessors | scan counters while markers and freezers run |
| windows (`snapshot.rs`, `diagnose.rs`) | none; a difference of two snapshots | `delta`, what `diagnose` refuses and answers | read snapshots of one registry or several |
| buckets and quantiles (`bucket.rs`) | pinned tables | the two searches, nearest rank, estimate, representative | used by markers, the freeze and the diagnosis |
| diagnosis (`diagnose.rs`) | none | matrix and online scores, classification | read snapshots and windows |
| memory estimate (`init.rs`, `recorder.rs`) | none | `estimate_memory`, `StorageLayout::new` | lets a build go ahead |
| reports and formatting | none | `Display`, `Debug`, `Error`, accessors | not modelled |
| test hooks, tests, benches, example | - | - | not modelled; read as evidence of what is promised |

What is hard in it, and what makes each part correct:

- **Freeze.** Scans and increments are relaxed and interleave freely. A marker
  loads the state once and acts on it later; a freezer decides on one scan,
  claims, and must decide again on another; publication is one `OnceLock` at a
  time. Correct means: one claim at a time; a claim always ends; `Frozen` is
  visible only with all thresholds, which then never change; a published
  threshold has a ready population behind it; nothing is
  classified before `Frozen`; no interval is in two populations, and none is lost
  without a diagnostic; callers are answered as if the attempt were atomic.
- **Memory orderings.** Counters are relaxed, the state is acquired and released,
  thresholds go through `OnceLock`. Contexts may change threads. Correct means:
  whoever has read `Frozen` finds the thresholds and, beside them, the samples they
  were derived from; a retry never finds fewer samples than the claim before it.
- **Contexts.** A packed word survives many rewrites; latencies saturate in the
  middle of a path; marks are rejected for four reasons in a fixed order, and a
  foreign recorder or stage is a legal argument. Correct means: the context is a
  function of its accepted marks; flow through the matrices is conserved; every
  call is one interval or one diagnostic.
- **Registry.** A weak compare-exchange loop shared by all threads, the end of
  the cookie space, and indices that are trusted later without a bounds check.
- **Snapshots and windows.** Torn scans. Correct means: what a scan shows
  never contradicts the order in which things were written, a difference
  never underflows, counts of one registry never meet the thresholds of another,
  and diagnosis never unwraps what is not there.
- **Memory estimate.** Every sum may overflow on the target. Correct means: the
  estimate is what the counters and stages take, and only what does not fit is
  refused.
- **Buckets, layout, diagnosis.** Sequential arithmetic with boundaries: ranks
  at exact multiples, rounding in narrow buckets, offsets of segments of which
  one is missing for the first stage, bit decoding, zero denominators.

The hazards, each at its line and with the properties that watch it, are listed
in `PROJECT.json`.

## 2. The modules

    Recorder ── Calibration ── Snapshot ── Readers ── Windows    (EXTENDS)
                     │
                     └─ implements FreezeContract                 (INSTANCE ... WITH)
    Orderings     Registry     Context     Layout ── Memory
    Ranks ─┬─ Buckets
           └─ Diagnosis

`MC*` modules instantiate them for TLC; `*_proofs` hold the TLAPS proofs:

    Induction ─┬─ Calibration_proofs ── Windows_proofs    (readers leave the freeze alone)
               ├─ Orderings_proofs
               ├─ Context_proofs
               ├─ Layout_proofs
               └─ Estimates_proofs
    Registry_proofs

Operators whose comment begins with *Mutant* are plausible bugs: each property
of a passing run is violated when one of them replaces the definition it follows.

**Recorder** (`recorder.rs`, `context.rs`). The writer side. A marker drives one
context after another. `BeginMark` is the validated mark with its latencies,
`Increment` one relaxed `fetch_add` of the list `todo`, `LoadState` the load of
the calibration state (three disjuncts, one per state), `ReadThresholds` the
`OnceLock` read, `EndMark` the advancement of the context after every shared
update. Markers may stop between any two of these. Abstractions: a matrix is one
cell per stage, the 250 calibration buckets are the three classes a freeze tells
apart (lower terminal, finite, upper terminal), the tail bits of an online
counter are left out, and only valid marks are made: a rejected one touches one
diagnostic and nothing else. `Context` has the detail that is left out here.

**Calibration** (`calibration.rs`). A freezer inside `try_freeze_calibration`:
`Call`, `LoadEntry`, one `ScanStep` per counter, `Judge` (the first readiness
check), `Claim` (the compare-exchange, whose failure value decides the answer),
a second scan, `Decide`, then `Restore` or one `PublishStage` per stage and
`Release`. `fpc` is the place in the call. "panicked" stands for the `expect` on
`OnceLock::set`.

**FreezeContract**. What a caller may assume: a phase and an owner of the
transition; one step claims, one gives back, one publishes a complete bundle
and opens the frozen phase; an answer is consistent with the phase at the moment
it is decided. `Calibration!ImplementsContract` maps the detailed state to it:
the bundle is visible to the contract only once the state is `Frozen`.

**Snapshot** (`snapshot.rs`). An observer loads every counter in storage order,
one load per step, then the state, then the report. `reached` is the place of the
last load, `Left` the places still to come, and `copy` what has been loaded.
`Scanned` says which of these loads are steps: an instance names the cells its
properties look at, because a load of any other cell changes nothing that they can
see; the proofs hold for every such choice. `began` is a history variable, the
state when a scan began.

**Readers** (`snapshot.rs`, `diagnose.rs`). Pure functions of snapshots: `Delta`
with its two refusals, `StageIndex` for identifiers of this registry and of
another, and `Diagnose`, which says whether a stage of a snapshot or window is
answered and with whose thresholds. `OtherSnapshot` is a snapshot of a second
registry with as many stages, frozen on its own. **Windows** adds history
variables for the counters when each scan began and completed and when `Frozen`
was stored.

**Orderings** (`calibration.rs`, `context.rs`, `snapshot.rs`). The freeze once more,
with the orderings its accesses ask for. The modules above interleave steps that
see the latest value of everything; here a load returns any value that is not
older than what its thread knows. A thread's `view` is how far it has followed the
state, how many increments of each counter it has seen and which stages it has
seen published; a release store attaches the view to the value, an acquire load
takes it over, a relaxed access does neither, a read-modify-write acts on the
latest value. This is the usual view semantics without promises: a load never
returns a value that is written later, which is enough for this code because no
thread decides what to write on a counter value of its own writing. A run of
relaxed loads is one step (`Scans`): every reordering and interleaving of its
loads is a choice of what they return. There is one counter per stage. Every
thread may record, freeze and look; `HandOver` moves a context to another thread,
which knows from then on what its former owner knew, since safe Rust moves no
value between threads without synchronising them.

**Registry** (`init.rs`). `LoadCookie`, then `ClaimExhausted`, `ClaimSucceeds` or
`ClaimFails` for the loop of `claim_registry_cookie` (a weak exchange may fail
although the value matches), `StageAccepted`/`StageRefused`, `TailQuantile`,
`Build`. `stage`, `tail_quantile` and `build` act on memory of one builder, so one
step each. `MaxCookie` is `u32::MAX`; `AsU32` truncates as the cast does.

**Context** (`context.rs`). One call is one step here, because a context has one
owner and its increments commute. The packed word is the set of its one bits,
written by halving a value (`ShiftRight`) and read by adding what its bits are worth
(`Weight`); a cookie is any `u32`;
`Rejection` keeps the order of the checks; `MarkCells` are the cells of
distributions, matrices and diagnostics; counters are bags of cells. Contexts
and stages of several recorders meet.

**Ranks, Buckets** (`bucket.rs`). Searches, exact nearest ranks, estimates and
representatives. `DEFAULT_BOUNDS` and `CALIBRATION_BOUNDS` are the pinned tables up
to the last ordinary bound below 2^31 (57 of 63 and 225 of 249 bounds; TLC's
integers have 32 bits), and `GridAssumption`, evaluated on them by the run
`pinned`, says that the tables are ascending and nest four to one.

**Diagnosis** (`diagnose.rs`). Marks fill the two matrices and the online truth
table of one stage, a torn scan copies them, and both score paths are derived as
in the code. `Classification` compares scores with a policy exactly; the code
compares `f64` quotients.

**Layout** (`recorder.rs`). The offsets, strides and lengths of the segments and
the index of every increment. **Memory** (`init.rs`, `recorder.rs`) adds what
happens before a slice of that layout is allocated: the results of every checked
operation of `StorageLayout::new` and `estimate_memory` on a target whose
`usize::MAX` is a parameter, as are the sizes of the types. `Build` is refused when
one of them does not fit; otherwise `Record` counts as in Layout.

## 3. The runs

| run | what it asks | instance |
|---|---|---|
| `race` | one claim, no panic, final thresholds, the contract, every claim ends | 2 freezers, 1 marker, 1 stage, 2 requests, samples below and in range |
| `bundle` | readiness of an accepted bundle, no partial bundle, nothing classified before it, populations, accounting | 2 stages, 4 requests, minimums 1 and 2 |
| `scan` | what the report may miss of marks in flight, what a snapshot may show, what diagnosis answers | 1 observer of the online counters, 2 markers, 1 freezer, 2 registries |
| `windows` | the difference of two torn scans | 2 scans by one observer, 1 completing marker, 1 freezer |
| `freeze` | finding: a window that starts before the freeze | as `windows`, marks only |
| `orderings` | what `Frozen`, a report and a retry promise under weak orderings | 3 threads, 2 stages, 2 contexts, 2 calls, 1 snapshot |
| `register` | cookies, identifiers, what is built, termination of claims | 3 builders, 2 cookies, 2 stages, 2 names |
| `contexts` | packed word, matrices, elapsed time, accounting of calls | 3 calls, 3 stages of 2 recorders, `u64::MAX` = 2 |
| `quantile` | nested search, exact rank, enclosing bounds | populations of up to 4 of 9 latencies, 11 quantiles |
| `pinned` | finding: the reported error of a rounded threshold | the pinned tables, samples in their first interval |
| `scores` | coherence of torn scores, exact online scores, labels | 3 marks of a first or later stage, 27 policies |
| `layout` | distinct indices, exact slice, exact estimate | 1 to 3 stages, real widths of the small segments, 4 values of `usize::MAX` |

The properties, with what they say of the code, are commented where they are
defined. The ones a reader should look at first: `AcceptedBundleIsReady`,
`PopulationsNeverMix`, `Accounting`, `LateSamplesBounded`, `ReportCoherent` and
`ImplementsContract` in Calibration; `FrozenMeansPublished` and `ReportNeverAhead` in
Orderings; `OnlineImpliesThresholds` in Snapshot; `DiagnosisAnswered` in Readers;
`WindowBounded` in Windows; `FlowConserved` and `ContextFollowsPath` in Context;
`IdentifiersResolve` in Registry.

**Why the bounds are enough to reach the interesting cases.**

- `race`: two freezers are the fewest that can pass the entry check together, and
  a sample below `Floor` makes the claim of one fail after the other was
  answered, so claims are taken, given back and lost. Two requests give a marker
  that stands on either side of each transition.
- `bundle`: counters only grow, so a population that was ready stays ready,
  except that an absent previous-cumulative population is acceptable and a
  present one must reach the minimum. It can therefore turn unready between the
  two scans only with two stages and a minimum of at least two, which is what
  this instance has; only there is the path `unready` of `Decide` taken. Four
  requests are two samples before the claim and contexts on both sides of it.
- `scan`: two markers are in flight at once, so the bound of `LateSamplesBounded`
  and of `ReportCoherent` is not that of one marker, and one of them may be between
  two increments while the other classifies online. Only the online counters are
  steps of the observer's scan: `OnlineImpliesThresholds` looks at no others and
  `DiagnosisAnswered` at none.
- `windows` has one completing request so that segments at both ends of the slice
  change; `freeze` needs only a mark. `Scanned` holds every cell a checkpoint of the
  instance writes, and `WindowBounded` is about these: all other cells are zero
  throughout, in the slice and in every copy.
- `orderings`: three threads are one that freezes, one that learns of the freeze and
  one that learns of it from neither, by way of a context. Two calls give a claim
  that is given back and another after it, two stages a bundle that is not whole
  at once.
- `register`: one builder more than there are cookies, so the last cookie is used
  and then exhaustion is met while others still claim.
- `contexts`: three calls make a path with two transitions, and `u64::MAX` = 2 makes
  latencies saturate at any of them. Cookies 1 and 6 differ in several bits of
  the word. All recorders have `NumStages` stages.
- `quantile`: buckets of one and of more nanoseconds, both terminals, quantile 1,
  quantiles at exact rank boundaries and one with a denominator wider than the
  product.
- `scores`: a mark below and in each tail, as a first mark and after a
  predecessor; every subset of the marks may be missing from each segment of the
  scan. Policies hold NaN, a negative threshold and one few scores meet.
- `layout`: one, two and three stages: without, with one and with two incoming
  matrices. The values of `usize::MAX` and the lengths of names are such that one or
  two stages just fit or just do not, and that a sum overflows early or late.

`CHECK_DEADLOCK FALSE` stands in every configuration whose calls are bounded: a
behaviour ends when they are used up.

**Fairness.** `FreezerFairSpec` makes the steps of a freezer that is inside a call
weakly fair and nothing else: `try_freeze_calibration` has no lock, no wait and no
unbounded loop, so its thread gets on as long as it is scheduled, while markers,
which may stop in the middle of a mark for ever, are given no fairness. Under it
every claim ends (`ClaimResolved`). `Registry!FairSpec` makes the steps of a claim
weakly fair and, for `ClaimSucceeds`, strongly: `compare_exchange_weak` may fail
spuriously, and other builders change the value between two attempts, but an
exchange that could succeed again and again is not failed for ever.

**Memory ordering.** All modules but Orderings interleave atomic steps, which is
sequential consistency. What carries over to the orderings of the code is what
rests on the release store of `Frozen`, the acquire loads of the state and the
exchange; `FrozenMeansPublished`, `ReportNeverAhead` and `ClaimsAccumulate` check
that in Orderings, where each of them fails when one ordering is weakened: the
store of `Frozen`, the failing exchange (its acquire is what lets a caller that was
answered `AlreadyFrozen` rely on the counters) and the store that gives a claim
back. The acquire load of `start` is not needed for thresholds: the mark's own
load (`context.rs:506`) joins the view before they are read. `OnlineImpliesThresholds`,
`LateSamplesBounded`, `ReportCoherent` and `WindowBounded` are statements about
interleavings only: relaxed loads of different counters may be reordered by the
hardware, and the code promises no more than that each cell is read atomically
(`calibration.rs:239-247`, `snapshot.rs:350-354`).

## 4. What is proved

Every theorem is about the specification of a run and holds for every value of its
constants that the named assumptions of its modules allow; each property below is
also checked by a run. Bounds on requests, calls and snapshots are arbitrary naturals.

### The freeze (`Calibration_proofs`)

| theorem | states |
|---|---|
| `TypeCorrect` | every variable keeps its type |
| `Inductive` | the inductive invariant `IInv` |
| `SingleClaimHolds` | at most one caller between claim and release |
| `PublicationNeverPanicsHolds` | `OnceLock::set` never finds a published stage |
| `NoPartialBundleHolds` | `Frozen` only with all thresholds, `Collecting` with none |
| `AcceptedBundleIsReadyHolds` | `Ok` only for ready populations and finite estimates |
| `StartedFrozenFindsThresholdsHolds` | an online mark finds its thresholds |
| `OnlineNeedsFrozenHolds` | nothing is classified online before `Frozen` is visible |
| `PopulationsNeverMixHolds` | no request feeds calibration and online counters |
| `ThresholdsFinalHolds` | `Frozen` is never left and thresholds never change |
| `Refinement` | `Spec` implements `FreezeContract` |

They hold for any set of freezers, any finite set of markers, any number of stages and any
latencies, minimums and quantile in (0, 1], from the assumptions named in
`Recorder` and `Calibration` (`MarkersAssumption`, `NumStagesAssumption`, `LatencyAssumption`,
`EndingsAssumption`, `MaxRequestsAssumption`, `MinimumsAssumption`,
`QuantileAssumption`, `MaxCallsAssumption`, `NoneAssumption`). The bounds on requests
and calls are arbitrary naturals.

None of the properties is inductive alone. `IInv` adds to `TypeOK`:

- `LiveContext`: a marker inside a checkpoint has a context to advance;
- `SingleClaim`: the state is `Freezing` when and only when one freezer is between
  claim and release;
- `PublisherInv`: that freezer's report is a ready bundle and the stages published
  so far are exactly those below its position, with the values of its report;
- `BundleInv`: with no freezer publishing, all stages are published in `Frozen`
  and none before it;
- `AnswerInv`: an `Ok` goes with `Frozen` and a ready published bundle;
- `ContextInv`: a context that started frozen implies `Frozen`, and what a context
  has fed agrees with the bit it started with.

`OnlineNeedsFrozenHolds` needs one part more, `OnlineInv`: before `Frozen`, no
checkpoint has an online counter left to increment and all of them are zero. It is
preserved because only `ReadThresholds` lists online counters and, by `ContextInv`,
only a context that has seen `Frozen` gets there. It is proved inductive beside
`IInv`, in two lemmas, one for the steps of a marker and one for those of a freezer.

The argument is short: the exchange makes the publisher unique, its position says
which stages are set, so no set finds another's value; `Release` comes when
the position has reached the last stage, so `Frozen` comes with a whole bundle;
no step leaves `Frozen`, so a context that saw it once may rely on it. Each
module proves `Init => IInv`, then preservation action by action with one step for
each part an action can disturb, and the properties follow by expanding the part
that implies them. `Refinement` uses `IInv` on both sides of a step: scans and
increments are stutters, `Claim`, `Restore`, `Release` and the answers are the
contract's steps.

### What the counters add up to (second half of `Calibration_proofs`)

| theorem | states |
|---|---|
| `BalanceInductive` | counters and announced increments balance at every moment |
| `AccountingHolds` | between checkpoints every recorded interval is accounted for once |
| `NearInductive` | from the claim on, the second scan, the report and the thresholds have missed no more than was announced at the claim |
| `LateSamplesBoundedHolds` | the report is never ahead of the counters and misses, over all stages, at most one sample of each marker in each population |
| `ReportCoherentHolds` | the published populations disagree, over all stages, by at most one sample of each marker |

`Accounting` speaks of moments at which no checkpoint is in progress, and says
nothing of those in between. The invariant does: the markers that are `Waiting` for
a cell have announced one increment of it, and what a counter shows and how many
are waiting for it is what the counter is `Expected` to become. An increment changes
neither side; expected counters move only when a checkpoint begins (`BeginMark`) and
when it has learned the state (`LoadState`, `ReadThresholds`), and then the two
sides of a balance move together. `BalanceInv` has three parts: `TodoInv`, a
checkpoint announces each counter once and samples of one stage and one class;
`StageBalance`, the matrices and the populations of a stage agree; `TotalBalance`, the
intervals recorded are those classified, those dropped and those of markers that
have still to classify theirs.

`NearInv` carries a bound through the transition. Its witness is a function from
stages to how many samples of a population have been missed, whose sum is at most the
number of markers (`Near`). At the claim the marker's announced samples are such a
witness (`NearNow`, with `SumDisjoint`: what distinct markers owe are disjoint sets
of markers); no sample is announced in `Freezing` or `Frozen`, so expected samples
stay what they were while counters approach them, and neither a load of the scan,
nor the derivation of the report, nor a publication takes any away.

### Snapshots and windows (`Windows_proofs`)

| theorem | states |
|---|---|
| `SnapshotRefinesSpec` | observers only look: all theorems about the freeze hold beside them |
| `ReaderInductive` | the invariant of the scans |
| `OnlineImpliesThresholdsHolds` | no snapshot shows an online sample without its thresholds |
| `DiagnosisAnsweredHolds` | diagnosis answers every stage of every snapshot and window and never unwraps what is not there |
| `HistoryInductive` | the invariant of the windows |
| `WindowBoundedHolds` | a window counts what happened between its scans and never underflows |
| `AcceptedWindowEndsFrozenHolds` | no window is diagnosed whose earlier scan completed before the freeze |

`ReaderInv` says of a scan in progress that it has copied no online sample unless the
state is `Frozen`: by `OnlineNeedsFrozen` there was none to copy. A snapshot whose
state was loaded after its counters and is not `Frozen` therefore holds none, and one
that is `Frozen` has the report of every stage, because `Frozen` comes with the whole
bundle (`FrozenBundle`, from `IInv`). `HistoryInv` encloses every copy, cell by cell,
between the counters when its scan began and those when it completed, whichever of
its loads came when: counters only grow (`CountersGrow`), the order of the slice
reaches every cell (`StorageOrderLists`), and a thread begins a scan after the one
before it has completed. The scanned cells and the number of observers are arbitrary.
Added assumptions: `ScannedAssumption`, `MaxSnapshotsAssumption`, and that `None` is
none of the values it stands beside (`NoReportAssumption`, `NoStageAssumption`,
`NoCountersAssumption`).

### The freeze under weak orderings (`Orderings_proofs`)

| theorem | states |
|---|---|
| `Inductive` | the inductive invariant `IInv` |
| `FrozenMeansPublishedHolds` | whoever has read `Frozen` finds every threshold |
| `ReportNeverAheadHolds` | a snapshot of a thread that knew of the freeze never counts fewer samples than the report beside it |
| `ClaimsAccumulateHolds` | the second scan of a claim finds at least the samples of every claim before it |

They hold for any threads, contexts and stages and every value a load is allowed to
return. The idea is one: every load of the state acquires and every store of it
releases, so whoever knows a value of the state knows what was released with it.
`ViewInv` says so of every view, in a thread, a context or the history of the state:
a view is `Sound` when it is of what exists and holds the view released with the
last value of the state it has followed. `SoundJoin`, `AcquiredSound`,
`ScannedSound` and `GotSound` show that what threads do with views keeps them sound.
`ClaimInv` makes the claimant unique and puts everything published into what is
released with `Frozen`; `ClaimsInv` and `SnapshotInv` compare what claims and snapshots
counted with what was released before. Each part needs the others: a claim that is
given back releases counts that only a sound view of the next claimant can be held to.

### Request contexts (`Context_proofs`)

| theorem | states |
|---|---|
| `TypesInductive`, `TypeCorrect` | contexts, paths and counters keep their types, and a packed word always reads as a cookie of a recorder and a mark of a stage |
| `EveryCallAccountedHolds` | a recording call is one interval or one rejection, and intervals are those of accepted marks |
| `ElapsedTelescopesHolds` | the latencies of a clocked path add up to the time elapsed, or have saturated |
| `ContextFollowsPathHolds` | a context is what its start and its accepted marks make it; rejected marks leave no trace |
| `FlowInductive` | the invariant of the matrices |
| `FlowConservedHolds` | the flow through the transition matrices is conserved |

They hold for any set of recorders, any finite set of contexts, up to 64 stages and 64
buckets (what six bits hold) and any `u64::MAX`, from `ContextsAssumption`,
`RecordersAssumption` (a cookie is a number of 32 bits), `StagesAssumption`,
`LatencyAssumption`, `BoundsAssumption` and `NoneAssumption`. Three arguments carry them:

- *The word.* A field gives back what was put into it (`Unpack`): the bits of a
  number, added up with their weights, are the number less what is left of it above
  them (`WorthIs`), and that is nothing in a field wide enough (`SixBits`). Fields do
  not touch each other (`PackedApart`), so `SetPreviousIs` holds after any number of
  rewrites and the cookie and the frozen bit stay what they were.
- *The slot.* A call leaves a context alone, begins one or marks one (`SlotStep`), and
  what elapsed time and paths say follows from these three cases; that saturating
  at every step equals saturating the sum once is `PathSumAppend` with `AdvanceIs`.
- *The counters.* A family of counters gains one in total when a call increments one
  of its cells and stays as it was when it increments none (`TallyStep`,
  `FamilyStep`, with `RowStep` and `ColumnStep` for the matrices). `FlowConserved` is not
  inductive: that no more leaves a bucket than has entered it is true because a
  context leaves it that entered it before, and leaves it once. `FlowInv` says so:
  what has left a bucket (`LeftOf`) and the contexts that carry it as their previous
  bucket (`CarryingOf`) are together no more than what entered it. A context
  that is marked moves from the second number to the first and enters another bucket,
  also when both are the same bucket (`CoveredMark`).

### Layout and memory estimate (`Layout_proofs`)

| theorem | states |
|---|---|
| `CountersDistinctHolds` | no two cells share a counter |
| `SliceExactHolds` | no index is outside the slice and no counter of it is unused |
| `EstimateExactHolds` | the estimate is the memory taken, and a build is refused only when that does not fit |
| `MemoryInductive` | a recorder exists only when no checked operation overflowed, with the slice of its layout |

They hold for segments of any widths, any number of stages, any names, sizes of types
and `usize::MAX`. Cells are placed in blocks of rows of equal width; the blocks
follow each other without a gap (`Chain`), and a place in a block is a quotient and
a remainder (`RowUnique`, `RowExists`), so that `Index` is a bijection from the
cells onto `0 .. CounterCount - 1`. No operand is negative, so a checked operation
overflows exactly when the total does (`FitTotal`).

### Estimates and scores (`Estimates_proofs`)

| theorem | states |
|---|---|
| `PopulationInductive` | the counters of a population are those of its samples, filed by a search of the whole grid |
| `NestedSearchExactHolds` | the search that starts from the ordinary bucket finds what a search of the whole grid finds |
| `EstimateEnclosesHolds` | an estimate has the exact nearest rank and its bounds enclose the sample of that rank |
| `ThresholdInBucketHolds` | a rounded representative is a latency of the bucket it stands for |
| `DiagnosisInductive` | every cell counts the marks that belong to it, and a scan counts at most as many |
| `TornScoresCoherentHolds` | scores of a torn scan are probabilities, complements add up, lift comes with its rates |
| `OnlineScoresExactHolds` | online scores are the conditional frequencies of the marks, lift their quotient |
| `LabelNeedsEvidenceHolds` | no label is given without marks that show what it says |

They hold for any tables that are ascending and nest four to one, any finite set of
latencies, validated quantiles, thresholds, policies and previous latencies, and
any numbers of samples and marks, from `GridAssumption`, `LatenciesAssumption`,
`WidthAssumption`, `QuantilesAssumption` (a product of a rank fits the integers that
hold it, as in the code for every `u64` population), `BoundsAssumption` and
`NoneAssumption`.

- *The search.* A latency `Lands` between two neighbouring bounds and in no other place,
  because the grid ascends (`GridAscends`, `LandsIs`). The ordinary bucket limits the
  search to four sub-buckets, whose bounds are the grid's at four times the index
  (`NestedSearch`), so the bucket it finds is the one where the latency lands.
- *The rank.* `IsRank` says without a division which number is the least with at least
  the fraction `q` of the samples at or below it, and there is one (`RankUnique`).
  `QuantileRank` is that number (`RankIs`), also in the branch for a denominator that
  is wider than the product, where it is one because the fraction of all samples that
  is asked for is less than one sample (`PowersGrow`). The first bucket at which
  the cumulative count reaches the rank then holds the sample of that rank: the samples
  up to a bucket, counted by bucket or by latency, are as many (`CountedUpTo`,
  `SmallestLands`).
- *The representative.* The harmonic mean of two bounds, rounded, is neither below
  the first nor at the second (`RepresentativeBetween`).
- *The counts.* `DiagnosisInvariant` says of each cell that it holds the number of
  positions in `marks` that belong to it (`PositionsAppend`: a mark adds one position to
  its cells and none to others), and of a scan that it has at most that (`Below`).
- *Coherence* needs no count at all. A numerator and its denominator are
  totals of one set of cells and of a part of it (`TotalsAddUp`), so whatever a scan
  has missed is missing from both (`CoherentWith`, `CoherentWithout`).
- *Exactness* needs all of them: an online cell is decoded to the bits it was
  encoded from (`BitsAre`, `OnlineCellDecodes`), so the totals that a score divides are
  numbers of marks (`OnlineTotal`).
- *Evidence.* A label needs an available score that meets its threshold (`LabelsMeet`), that
  needs a cell that is not zero in the scan, and such a cell has a mark behind it
  (`SeenOnline`, `SeenCause`).

### The registry (`Registry_proofs`)

| theorem | states |
|---|---|
| `Inductive`, `TypeCorrect` | the invariant; no cookie outside `u32`, no index outside `MAX_STAGES` |
| `CookiesUniqueHolds` | no two builders hold the same cookie |
| `ExhaustionHonestHolds` | no builder is without a cookie while one is free |
| `IdentifiersResolveHolds` | an id with a recorder's cookie names one of its stages |
| `BuiltRegistrySoundHolds` | what is built has one to `MAX_STAGES` distinct non-empty names and a valid quantile |

They need `CookieAssumption`, `StageAssumption`, `QuantilesAssumption` and
`AbsentAssumption`. The invariant `IInv` says that exactly the cookies below the next
one are held (`ClaimInv`), that registered names are acceptable and need a cookie
(`NamesInv`), and that issued identifiers and registered names correspond
(`IssuedInv`); an identifier can be traced to its builder only because cookies
are unique, so the parts are proved together.

### Numbers and sums (`Induction`)

The library's induction theorems take a predicate as a parameter, which the provers
cannot instantiate. `InductionOnNat` and `InductionOnSubsets` state induction with a
set instead, from well-foundedness. With them the sum that the community modules
define by recursion (`SumFunctionOnSet`) is shown to take out any element
(`SumRemove`), and from that follow the facts the accounting needs: sums compare,
change, split and count as their terms do, and what is counted by key adds up to what
is counted (`SumFibres`). So sums over finite sets are proved about. Products of
variables, which the solver does not multiply out by itself, have two lemmas of their own
(`ProductNat`, `ProductMonotonic`).
`IterateExists` does the same for a function defined by iterating another one: it
exists, and its definition therefore holds of it, which is what proofs about `Weight`
and `ShiftRight` of Context and `PowerOfTwo` of Ranks begin with.

### Only model-checked

Liveness (`ClaimResolved`, `ClaimTerminates`): fairness and ENABLED are out of the
prover's reach. Every other property of a run that passes is a theorem.

## 5. Findings

- **`freeze`: a window that contains the freeze and is not flagged.** A scan loads
  every counter (`snapshot.rs:356-362`) before it loads the state (`373-374`). If the
  freeze happens in between, the snapshot is `Frozen` with counters from before,
  `delta` compares two `Frozen` states (`332`) and the window counts increments
  made before the freeze; online diagnosis accepts it. The comment of
  `spans_freeze` (`snapshot.rs:205-208`) says that it tells whether the window
  spans the freeze and that diagnosis rejects such windows; that of `delta`
  (`302-303`) only claims what the states observed. The online counters of such a
  window are complete; the distributions and matrices beside them are not
  restricted to the time after the freeze. `AcceptedWindowEndsFrozen`, which holds,
  is what remains: no window is accepted whose first scan completed before it.
- **`pinned`: the maximum relative error is that of the unrounded threshold.** The
  representative is rounded to whole nanoseconds (`bucket.rs:537`) and the error
  is that of the exact harmonic mean (`543-545`). For the bucket [100, 108) the
  threshold is 104; a sample of 100 is 4.0% away and `max_relative_error` is
  8/208 = 3.85%. The field is documented as the maximum (`bucket.rs:438`).

## 6. Not modelled

- Display, Debug and Error implementations, and accessors that return a slice or a
  field of a value modelled elsewhere.
- A `u64` counter that wraps: outside the contract (`recorder.rs:371-377`).
- A second recorder at work: snapshots of one meet the registry checks of `delta` and
  `diagnose` in Readers, but its markers and freezers share nothing with the first.
  That their cookies differ is `Registry`'s `CookiesUnique`. The same check in the
  accessors of snapshots is that of `StageIndex`.
- Promises of the weak-memory model (a load that returns a value written later, as
  relaxed atomics allow in principle), and orderings of the counters that no freeze
  scans.
- Rounding of `f64` quotients in `Score::value` and in `relative_error`; the
  decoding of the quantile's bits, a quantile being its significand and shift.
- `cfg(test)` hooks, tests, benches and the example.

## 7. Plan

The plan is carried out: Recorder and Calibration with their contract; the readers
(Snapshot, Readers, Windows); the registry; the sequential parts (Context, Ranks,
Buckets, Diagnosis, Layout, Memory); the freeze under weak orderings; and the proofs
of section 4, which state every invariant and action property of the passing runs and
the refinement. Liveness stays with TLC. What would extend the project is listed in
section 6.
