----------------------------- MODULE Layout_proofs -----------------------------
(***************************************************************************)
(* Proofs about the geometry of the counters slice (module Layout) and the *)
(* memory estimate made from it (module Memory), for segments of any       *)
(* widths and any number of stages.  The argument places every cell in a   *)
(* block of rows of equal width; the blocks follow each other without a    *)
(* gap, and an index has one quotient and one remainder in its block, so   *)
(* that Index is a bijection from the cells onto the slice.                *)
(***************************************************************************)
EXTENDS Memory, FunctionTheorems, Induction

USE WidthAssumption, BoundAssumption

-----------------------------------------------------------------------------
(* Rows of equal width.                                                    *)

\* A row and an offset lie in the block of the rows.
LEMMA RowInside ==
    ASSUME NEW w \in Nat \ {0}, NEW rows \in Nat, NEW q \in 0 .. rows - 1, NEW r \in 0 .. w - 1
    PROVE  q * w + r \in 0 .. rows * w - 1
<1>1. (q + 1) * w =< rows * w
  BY ProductMonotonic
<1>2. (q + 1) * w = q * w + w /\ q * w \in Nat /\ rows * w \in Nat
  OBVIOUS
<1>3. PICK a \in Nat, b \in Nat : a = q * w /\ b = rows * w
  BY <1>2
<1>4. a + w =< b
  BY <1>1, <1>2, <1>3
<1>5. a + r \in 0 .. b - 1
  BY <1>4
<1>6. QED
  BY <1>3, <1>5

\* Two rows and offsets with the same index are the same.
LEMMA RowUnique ==
    ASSUME NEW w \in Nat \ {0}, NEW p \in Nat, NEW q \in Nat,
           NEW r \in 0 .. w - 1, NEW s \in 0 .. w - 1,
           p * w + r = q * w + s
    PROVE  p = q /\ r = s
<1>1. PICK a \in Nat, b \in Nat : a = p * w /\ b = q * w
  BY ProductNat
<1>2. a + r = b + s
  BY <1>1
<1>3. ASSUME p < q PROVE FALSE
  <2>1. (p + 1) * w =< q * w
    BY <1>3, ProductMonotonic
  <2>2. (p + 1) * w = a + w
    BY <1>1
  <2>3. a + w =< b
    BY <1>1, <2>1, <2>2
  <2>4. QED
    BY <1>2, <2>3
<1>4. ASSUME q < p PROVE FALSE
  <2>1. (q + 1) * w =< p * w
    BY <1>4, ProductMonotonic
  <2>2. (q + 1) * w = b + w
    BY <1>1
  <2>3. b + w =< a
    BY <1>1, <2>1, <2>2
  <2>4. QED
    BY <1>2, <2>3
<1>5. p = q
  BY <1>3, <1>4
<1>6. QED
  BY <1>1, <1>2, <1>5

\* Every index of a block has a row and an offset.
LEMMA RowExists ==
    ASSUME NEW w \in Nat \ {0}, NEW rows \in Nat, NEW n \in 0 .. rows * w - 1
    PROVE  \E q \in 0 .. rows - 1, r \in 0 .. w - 1 : n = q * w + r
<1>1. PICK b \in Nat : b = rows * w
  BY ProductNat
<1>2. n \in Nat /\ n < b
  BY <1>1
<1>3. PICK q, r : q = n \div w /\ r = n % w
  OBVIOUS
<1>4. q \in Nat /\ r \in 0 .. w - 1 /\ n = q * w + r
  BY <1>2, <1>3
<1>5. q < rows
  <2>1. SUFFICES ASSUME rows =< q PROVE FALSE
    BY <1>4
  <2>2. rows * w =< q * w
    BY <1>4, <2>1, ProductMonotonic
  <2>3. PICK a \in Nat : a = q * w
    BY <1>4, ProductNat
  <2>4. b =< a
    BY <1>1, <2>2, <2>3
  <2>5. QED
    BY <1>2, <1>4, <2>3, <2>4
<1>6. QED
  BY <1>4, <1>5, SMTT(30)

-----------------------------------------------------------------------------
(* The blocks of the slice.                                                *)

StageCountType == stage_count \in Nat \ {0}

Blocks ==
    {"Local", "Cumulative", "Cause", "Incoming", "Calibration", "Online",
     "Completion", "Diagnostic"}

\* Where a block starts, and its rows and their width.
Start(block) ==
    CASE block = "Local" -> 0
      [] block = "Cumulative" -> CumulativeStart
      [] block = "Cause" -> CauseStart
      [] block = "Incoming" -> IncomingStart
      [] block = "Calibration" -> CalibrationStart
      [] block = "Online" -> OnlineStart
      [] block = "Completion" -> CompletionStart
      [] block = "Diagnostic" -> DiagnosticStart
Rows(block) ==
    CASE block \in {"Local", "Cumulative", "Cause", "Online", "Completion"} -> stage_count
      [] block = "Incoming" -> stage_count - 1
      [] block = "Calibration" -> CALIBRATION_POPULATIONS_PER_STAGE * stage_count
      [] block = "Diagnostic" -> 1
Width(block) ==
    CASE block \in {"Local", "Cumulative"} -> BUCKETS
      [] block \in {"Cause", "Incoming"} -> MATRIX_CELLS
      [] block = "Calibration" -> CALIBRATION_BUCKETS
      [] block = "Online" -> ONLINE_COUNTERS_PER_STAGE
      [] block = "Completion" -> COMPLETION_COUNTERS_PER_STAGE
      [] block = "Diagnostic" -> DIAGNOSTIC_COUNTERS
Size(block) == Rows(block) * Width(block)

\* The block and the row of a cell.
BlockOf(segment) == IF segment \in Calibrations THEN "Calibration" ELSE segment
Population(segment) ==
    CASE segment = "Calibration0" -> 0
      [] segment = "Calibration1" -> 1
      [] segment = "Calibration2" -> 2
RowOf(segment, stage) ==
    CASE segment \in Calibrations ->
            CALIBRATION_POPULATIONS_PER_STAGE * stage + Population(segment)
      [] segment = "Incoming" -> stage - 1
      [] OTHER -> stage

LEMMA SizesType ==
    ASSUME StageCountType
    PROVE  /\ MATRIX_CELLS \in Nat \ {0}
           /\ \A block \in Blocks : /\ Rows(block) \in Nat /\ Width(block) \in Nat \ {0}
                                    /\ Size(block) \in Nat
<1>1. MATRIX_CELLS \in Nat /\ MATRIX_CELLS # 0
  BY ProductNat DEF MATRIX_CELLS
<1>2. ASSUME NEW block \in Blocks
      PROVE  Rows(block) \in Nat /\ Width(block) \in Nat \ {0}
  <2>1. stage_count \in Nat /\ stage_count - 1 \in Nat /\ 3 * stage_count \in Nat
    BY DEF StageCountType
  <2>2. Rows(block) \in Nat
    BY <2>1 DEF Rows, Blocks, CALIBRATION_POPULATIONS_PER_STAGE
  <2>3. Width(block) \in Nat \ {0}
    BY <1>1 DEF Width, Blocks
  <2>4. QED
    BY <2>2, <2>3
<1>3. QED
  BY <1>1, <1>2, ProductNat DEF Size

\* The blocks follow each other without a gap, from 0 to the end of the slice.
LEMMA Chain ==
    ASSUME StageCountType
    PROVE  /\ Start("Local") = 0
           /\ Start("Cumulative") = Start("Local") + Size("Local")
           /\ Start("Cause") = Start("Cumulative") + Size("Cumulative")
           /\ Start("Incoming") = Start("Cause") + Size("Cause")
           /\ Start("Calibration") = Start("Incoming") + Size("Incoming")
           /\ Start("Online") = Start("Calibration") + Size("Calibration")
           /\ Start("Completion") = Start("Online") + Size("Online")
           /\ Start("Diagnostic") = Start("Completion") + Size("Completion")
           /\ CounterCount = Start("Diagnostic") + Size("Diagnostic")
<1>1. /\ Size("Local") = stage_count * BUCKETS
      /\ Size("Cumulative") = stage_count * BUCKETS
      /\ Size("Cause") = stage_count * MATRIX_CELLS
      /\ Size("Incoming") = (stage_count - 1) * MATRIX_CELLS
      /\ Size("Online") = stage_count * ONLINE_COUNTERS_PER_STAGE
      /\ Size("Completion") = stage_count * COMPLETION_COUNTERS_PER_STAGE
  BY DEF Size, Rows, Width
<1>2. Size("Diagnostic") = DIAGNOSTIC_COUNTERS
  BY DEF Size, Rows, Width
<1>3. Size("Calibration") =
        stage_count * CALIBRATION_POPULATIONS_PER_STAGE * CALIBRATION_BUCKETS
  BY DEF Size, Rows, Width, StageCountType, CALIBRATION_POPULATIONS_PER_STAGE
<1>4. Start("Local") = 0 /\ Start("Cumulative") = CumulativeStart
      /\ Start("Cause") = CauseStart /\ Start("Incoming") = IncomingStart
      /\ Start("Calibration") = CalibrationStart /\ Start("Online") = OnlineStart
      /\ Start("Completion") = CompletionStart /\ Start("Diagnostic") = DiagnosticStart
  BY DEF Start
<1>5. Size("Local") \in Nat
  BY SizesType DEF Blocks
<1>6. QED
  BY <1>1, <1>2, <1>3, <1>4, <1>5
     DEF CumulativeStart, CauseStart, IncomingStart, CalibrationStart, OnlineStart,
         CompletionStart, DiagnosticStart, CounterCount

LEMMA StartType ==
    ASSUME StageCountType
    PROVE  CounterCount \in Nat /\ \A block \in Blocks : Start(block) \in Nat
<1>1. \A block \in Blocks : Size(block) \in Nat
  BY SizesType
<1>2. QED
  BY <1>1, Chain DEF Blocks

\* An index lies in one block.
LEMMA BlockUnique ==
    ASSUME StageCountType, NEW b \in Blocks, NEW c \in Blocks,
           NEW n \in Start(b) .. Start(b) + Size(b) - 1,
           n \in Start(c) .. Start(c) + Size(c) - 1
    PROVE  b = c
<1>1. \A block \in Blocks : Size(block) \in Nat /\ Start(block) \in Nat
  BY SizesType, StartType
<1>2. QED
  BY <1>1, Chain DEF Blocks

LEMMA BlockExists ==
    ASSUME StageCountType, NEW n \in 0 .. CounterCount - 1
    PROVE  \E b \in Blocks : n \in Start(b) .. Start(b) + Size(b) - 1
<1>1. \A block \in Blocks : Size(block) \in Nat /\ Start(block) \in Nat
  BY SizesType, StartType
<1>2. QED
  BY <1>1, Chain, StartType DEF Blocks

\* Every block lies in the slice.
LEMMA BlockInside ==
    ASSUME StageCountType, NEW b \in Blocks
    PROVE  Start(b) + Size(b) =< CounterCount
<1>1. \A block \in Blocks : Size(block) \in Nat /\ Start(block) \in Nat
  BY SizesType, StartType
<1>2. QED
  BY <1>1, Chain, StartType DEF Blocks

-----------------------------------------------------------------------------
(* Cells and their places.                                                 *)

LEMMA SegmentFacts ==
    ASSUME StageCountType, NEW segment \in Segments
    PROVE  /\ BlockOf(segment) \in Blocks \ {"Diagnostic"}
           /\ Geometry(segment).length = Width(BlockOf(segment))
           /\ Offsets(segment) = 0 .. Width(BlockOf(segment)) - 1
<1>1. BlockOf(segment) \in Blocks \ {"Diagnostic"}
  BY DEF BlockOf, Blocks, Segments, Calibrations
<1>2. Geometry(segment).length = Width(BlockOf(segment))
  BY DEF Geometry, Contiguous, CalibrationGeometry, Width, BlockOf, Segments,
         Calibrations
<1>3. CASE segment \in {"Cause", "Incoming"}
  <2>1. Offsets(segment) = {MatrixOffset(row, column) : row, column \in 0 .. BUCKETS - 1}
    BY <1>3 DEF Offsets
  <2>2. Width(BlockOf(segment)) = BUCKETS * BUCKETS
    BY <1>3 DEF Width, BlockOf, Calibrations, MATRIX_CELLS
  <2>3. \A row, column \in 0 .. BUCKETS - 1 :
            MatrixOffset(row, column) \in 0 .. BUCKETS * BUCKETS - 1
    BY RowInside DEF MatrixOffset
  <2>4. \A n \in 0 .. BUCKETS * BUCKETS - 1 : \E row, column \in 0 .. BUCKETS - 1 :
            n = MatrixOffset(row, column)
    BY RowExists DEF MatrixOffset
  <2>5. {MatrixOffset(row, column) : row, column \in 0 .. BUCKETS - 1} =
          0 .. BUCKETS * BUCKETS - 1
    <3> DEFINE pairs == {MatrixOffset(row, column) : row, column \in 0 .. BUCKETS - 1}
               all == 0 .. BUCKETS * BUCKETS - 1
    <3>1. ASSUME NEW n \in pairs PROVE n \in all
      <4>1. PICK row \in 0 .. BUCKETS - 1, column \in 0 .. BUCKETS - 1 :
                n = MatrixOffset(row, column)
        OBVIOUS
      <4>2. QED
        BY <2>3, <4>1
    <3>2. ASSUME NEW n \in all PROVE n \in pairs
      <4>1. PICK row \in 0 .. BUCKETS - 1, column \in 0 .. BUCKETS - 1 :
                n = MatrixOffset(row, column)
        BY <2>4
      <4>2. QED
        BY <4>1
    <3> HIDE DEF pairs, all
    <3>3. pairs = all
      BY <3>1, <3>2
    <3>4. QED
      BY <3>3 DEF pairs, all
  <2>6. QED
    BY <1>1, <1>2, <2>1, <2>2, <2>5
<1>4. CASE segment \notin {"Cause", "Incoming"}
  BY <1>1, <1>2, <1>4 DEF Offsets
<1>5. QED
  BY <1>3, <1>4

LEMMA CellShape ==
    ASSUME NEW cell \in Cells
    PROVE  \/ \E segment \in Segments :
                \E stage \in StagesOf(segment), offset \in Offsets(segment) :
                    cell = <<segment, stage, offset>>
           \/ \E offset \in 0 .. DIAGNOSTIC_COUNTERS - 1 :
                  cell = <<"Diagnostic", 0, offset>>
BY DEF Cells, SegmentCells

\* A cell of a block, at a row and an offset in it.
Placed(cell, block, row, offset) ==
    /\ block \in Blocks
    /\ row \in 0 .. Rows(block) - 1
    /\ offset \in 0 .. Width(block) - 1
    /\ block = BlockOf(cell[1])
    /\ row = RowOf(cell[1], cell[2])
    /\ offset = cell[3]
    /\ Index(cell) = Start(block) + (row * Width(block) + offset)

LEMMA SegmentPlaced ==
    ASSUME StageCountType, NEW segment \in Segments,
           NEW stage \in StagesOf(segment), NEW offset \in Offsets(segment)
    PROVE  Placed(<<segment, stage, offset>>, BlockOf(segment),
                  RowOf(segment, stage), offset)
<1> DEFINE block == BlockOf(segment)
           cell == <<segment, stage, offset>>
<1>1. /\ block \in Blocks /\ offset \in 0 .. Width(block) - 1
      /\ cell[1] = segment /\ cell[2] = stage /\ cell[3] = offset
  BY SegmentFacts
<1>2. segment # "Diagnostic"
  BY DEF Segments
<1>3. Index(cell) =
        Geometry(segment).base + stage * Geometry(segment).stride + offset
  BY <1>1, <1>2 DEF Index
<1>4. /\ stage \in Nat /\ stage < stage_count /\ stage_count \in Nat
      /\ segment = "Incoming" => stage >= 1
  BY DEF StagesOf, StageCountType
<1>5. offset \in Nat /\ Start(block) \in Nat /\ MATRIX_CELLS \in Nat
      /\ Width(block) \in Nat
  BY <1>1, SizesType, StartType
<1>6. CASE segment \in Calibrations
  <2>1. PICK p \in 0 .. 2 : p = Population(segment)
    BY <1>6 DEF Calibrations, Population
  <2>2. /\ Geometry(segment).base = CalibrationStart + p * CALIBRATION_BUCKETS
        /\ Geometry(segment).stride = 3 * CALIBRATION_BUCKETS
    BY <1>6, <2>1 DEF Calibrations, Population, Geometry, CalibrationGeometry,
                      CALIBRATION_POPULATIONS_PER_STAGE
  <2>3. RowOf(segment, stage) = 3 * stage + p
    BY <1>6, <2>1 DEF RowOf, Calibrations, CALIBRATION_POPULATIONS_PER_STAGE
  <2>4. /\ block = "Calibration" /\ Start(block) = CalibrationStart
        /\ Width(block) = CALIBRATION_BUCKETS /\ Rows(block) = 3 * stage_count
    BY <1>6 DEF BlockOf, Start, Width, Rows, CALIBRATION_POPULATIONS_PER_STAGE
  <2>5. 3 * stage + p \in 0 .. 3 * stage_count - 1
    BY <1>4
  <2>6. (3 * stage + p) * CALIBRATION_BUCKETS =
          p * CALIBRATION_BUCKETS + stage * (3 * CALIBRATION_BUCKETS)
    BY <1>4
  <2>7. Index(cell) = Start(block) + ((3 * stage + p) * Width(block) + offset)
    <3>1. PICK x \in Nat, y \in Nat :
            x = p * CALIBRATION_BUCKETS /\ y = stage * (3 * CALIBRATION_BUCKETS)
      BY <1>4, ProductNat
    <3>2. Index(cell) = Start(block) + x + y + offset
      BY <1>3, <2>2, <2>4, <3>1
    <3>3. QED
      BY <1>5, <2>4, <2>6, <3>1, <3>2
  <2>8. QED
    BY <1>1, <2>3, <2>4, <2>5, <2>7 DEF Placed
<1>7. CASE segment = "Incoming"
  <2>1. /\ Geometry(segment).base = IncomingStart - MATRIX_CELLS
        /\ Geometry(segment).stride = MATRIX_CELLS
    BY <1>7 DEF Geometry, Contiguous
  <2>2. RowOf(segment, stage) = stage - 1
    BY <1>7 DEF RowOf, Calibrations
  <2>3. /\ block = "Incoming" /\ Start(block) = IncomingStart
        /\ Width(block) = MATRIX_CELLS /\ Rows(block) = stage_count - 1
    BY <1>7 DEF BlockOf, Start, Width, Rows, Calibrations
  <2>4. stage - 1 \in 0 .. stage_count - 1 - 1
    BY <1>4, <1>7
  <2>5. (stage - 1) * MATRIX_CELLS = stage * MATRIX_CELLS - MATRIX_CELLS
    BY <1>4, <1>5
  <2>6. Index(cell) = Start(block) + ((stage - 1) * Width(block) + offset)
    <3>1. PICK x \in Nat : x = stage * MATRIX_CELLS
      BY <1>4, <1>5, ProductNat
    <3>2. Index(cell) = Start(block) - MATRIX_CELLS + x + offset
      BY <1>3, <2>1, <2>3, <3>1
    <3>3. QED
      BY <1>5, <2>3, <2>5, <3>1, <3>2
  <2>7. QED
    BY <1>1, <2>2, <2>3, <2>4, <2>6 DEF Placed
<1>8. CASE segment \notin Calibrations \cup {"Incoming"}
  <2>1. /\ Geometry(segment).base = Start(segment)
        /\ Geometry(segment).stride = Width(segment)
    BY <1>8 DEF Geometry, Contiguous, Segments, Calibrations, Start, Width
  <2>2. RowOf(segment, stage) = stage
    BY <1>8 DEF RowOf
  <2>3. block = segment /\ Rows(block) = stage_count
    BY <1>8 DEF BlockOf, Rows, Segments, Calibrations
  <2>4. stage \in 0 .. stage_count - 1
    BY <1>4
  <2>5. Index(cell) = Start(block) + (stage * Width(block) + offset)
    <3>1. PICK x \in Nat : x = stage * Width(block)
      BY <1>4, <1>5, ProductNat
    <3>2. Index(cell) = Start(block) + x + offset
      BY <1>3, <2>1, <2>3, <3>1
    <3>3. QED
      BY <1>5, <3>1, <3>2
  <2>6. QED
    BY <1>1, <2>2, <2>3, <2>4, <2>5 DEF Placed
<1>9. QED
  BY <1>6, <1>7, <1>8

LEMMA DiagnosticPlaced ==
    ASSUME StageCountType, NEW offset \in 0 .. DIAGNOSTIC_COUNTERS - 1
    PROVE  Placed(<<"Diagnostic", 0, offset>>, "Diagnostic", 0, offset)
<1> DEFINE cell == <<"Diagnostic", 0, offset>>
<1>1. cell[1] = "Diagnostic" /\ cell[2] = 0 /\ cell[3] = offset
  OBVIOUS
<1>2. /\ BlockOf("Diagnostic") = "Diagnostic" /\ RowOf("Diagnostic", 0) = 0
      /\ Rows("Diagnostic") = 1 /\ Width("Diagnostic") = DIAGNOSTIC_COUNTERS
      /\ Start("Diagnostic") = DiagnosticStart /\ "Diagnostic" \in Blocks
  BY DEF BlockOf, RowOf, Rows, Width, Start, Blocks, Calibrations
<1>3. DiagnosticStart \in Nat
  BY <1>2, StartType
<1>4. Index(cell) = DiagnosticStart + offset
  BY <1>1 DEF Index
<1>5. 0 * Width("Diagnostic") + offset = offset
  BY <1>2
<1>6. QED
  BY <1>1, <1>2, <1>3, <1>4, <1>5 DEF Placed

LEMMA CellPlaced ==
    ASSUME StageCountType, NEW cell \in Cells
    PROVE  \E block, row, offset : Placed(cell, block, row, offset)
BY CellShape, SegmentPlaced, DiagnosticPlaced

\* Blocks and rows tell cells apart.
LEMMA PlaceUnique ==
    ASSUME StageCountType, NEW c \in Cells, NEW d \in Cells,
           BlockOf(c[1]) = BlockOf(d[1]), RowOf(c[1], c[2]) = RowOf(d[1], d[2]),
           c[3] = d[3]
    PROVE  c = d
<1>1. ASSUME NEW x \in Cells
      PROVE  /\ x = <<x[1], x[2], x[3]>>
             /\ x[1] \in Segments => x[2] \in Nat
             /\ x[1] \notin Segments => x[1] = "Diagnostic" /\ x[2] = 0
             /\ x[1] # "Diagnostic" => x[1] \in Segments
  <2>1. "Diagnostic" \notin Segments
    BY DEF Segments
  <2>2. CASE \E segment \in Segments :
               \E stage \in StagesOf(segment), offset \in Offsets(segment) :
                   x = <<segment, stage, offset>>
    <3>1. PICK segment \in Segments :
                 \E stage \in StagesOf(segment), offset \in Offsets(segment) :
                     x = <<segment, stage, offset>>
      BY <2>2
    <3>2. PICK stage \in StagesOf(segment), offset \in Offsets(segment) :
                 x = <<segment, stage, offset>>
      BY <3>1
    <3>3. stage \in Nat
      BY DEF StagesOf, StageCountType
    <3>4. QED
      BY <2>1, <3>2, <3>3
  <2>3. CASE \E offset \in 0 .. DIAGNOSTIC_COUNTERS - 1 :
               x = <<"Diagnostic", 0, offset>>
    BY <2>1, <2>3
  <2>4. QED
    BY <2>2, <2>3, CellShape
<1>2. CASE c[1] \in Calibrations
  <2>1. d[1] \in Calibrations
    BY <1>1, <1>2 DEF BlockOf, Segments, Calibrations
  <2>2. c[2] \in Nat /\ d[2] \in Nat
    BY <1>1, <1>2, <2>1 DEF Segments, Calibrations
  <2>3. /\ RowOf(c[1], c[2]) = 3 * c[2] + Population(c[1])
        /\ RowOf(d[1], d[2]) = 3 * d[2] + Population(d[1])
    BY <1>2, <2>1 DEF RowOf, Calibrations, CALIBRATION_POPULATIONS_PER_STAGE
  <2>4. Population(c[1]) \in 0 .. 2 /\ Population(d[1]) \in 0 .. 2
    BY <1>2, <2>1 DEF Population, Calibrations
  <2>5. c[2] = d[2] /\ Population(c[1]) = Population(d[1])
    <3>1. PICK x \in Nat, y \in Nat : x = c[2] /\ y = d[2]
      BY <2>2
    <3>2. PICK p \in 0 .. 2, q \in 0 .. 2 :
            p = Population(c[1]) /\ q = Population(d[1])
      BY <2>4
    <3>3. 3 * x + p = 3 * y + q
      BY <2>3, <3>1, <3>2
    <3>4. x = y /\ p = q
      BY <3>3
    <3>5. QED
      BY <3>1, <3>2, <3>4
  <2>6. c[1] = d[1]
    BY <1>2, <2>1, <2>5 DEF Population, Calibrations
  <2>7. QED
    BY <1>1, <2>5, <2>6
<1>3. CASE c[1] \notin Calibrations
  <2>1. d[1] \notin Calibrations /\ c[1] = d[1]
    BY <1>1, <1>3 DEF BlockOf, Segments, Calibrations
  <2>2. c[2] = d[2]
    BY <1>1, <1>3, <2>1 DEF RowOf
  <2>3. QED
    BY <1>1, <2>1, <2>2
<1>4. QED
  BY <1>2, <1>3

\* Every place of every block is that of a cell.
LEMMA PlaceTaken ==
    ASSUME StageCountType, NEW block \in Blocks,
           NEW row \in 0 .. Rows(block) - 1, NEW offset \in 0 .. Width(block) - 1
    PROVE  \E cell \in Cells : Placed(cell, block, row, offset)
<1>1. ASSUME NEW segment \in Segments, NEW stage \in StagesOf(segment),
             block = BlockOf(segment), row = RowOf(segment, stage)
      PROVE  \E cell \in Cells : Placed(cell, block, row, offset)
  <2>1. offset \in Offsets(segment)
    BY <1>1, SegmentFacts
  <2>2. <<segment, stage, offset>> \in Cells
    BY <2>1 DEF Cells, SegmentCells
  <2>3. QED
    BY <1>1, <2>1, <2>2, SegmentPlaced
<1>2. stage_count \in Nat /\ row \in Nat /\ row =< Rows(block) - 1
      /\ Rows(block) \in Nat
  BY SizesType DEF StageCountType
<1>3. CASE block = "Diagnostic"
  <2>1. Rows(block) = 1 /\ Width(block) = DIAGNOSTIC_COUNTERS
    BY <1>3 DEF Rows, Width
  <2>2. row = 0 /\ offset \in 0 .. DIAGNOSTIC_COUNTERS - 1
    BY <1>2, <2>1
  <2>3. <<"Diagnostic", 0, offset>> \in Cells
    BY <2>2 DEF Cells
  <2>4. QED
    BY <1>3, <2>2, <2>3, DiagnosticPlaced
<1>4. CASE block = "Calibration"
  <2>1. Rows(block) = 3 * stage_count
    BY <1>4 DEF Rows, CALIBRATION_POPULATIONS_PER_STAGE
  <2>2. PICK stage, p : stage = row \div 3 /\ p = row % 3
    OBVIOUS
  <2>3. /\ stage \in 0 .. stage_count - 1 /\ p \in 0 .. 2 /\ row = 3 * stage + p
    BY <1>2, <2>1, <2>2
  <2>4. PICK segment \in Calibrations : Population(segment) = p
    <3>1. /\ "Calibration0" \in Calibrations /\ Population("Calibration0") = 0
          /\ "Calibration1" \in Calibrations /\ Population("Calibration1") = 1
          /\ "Calibration2" \in Calibrations /\ Population("Calibration2") = 2
      BY DEF Calibrations, Population
    <3>2. p = 0 \/ p = 1 \/ p = 2
      BY <2>3
    <3>3. QED
      BY <3>1, <3>2
  <2>5. segment \in Segments /\ BlockOf(segment) = block /\ segment # "Incoming"
    BY <1>4 DEF Segments, Calibrations, BlockOf
  <2>6. stage \in StagesOf(segment)
    BY <2>3, <2>5 DEF StagesOf
  <2>7. RowOf(segment, stage) = row
    BY <2>3, <2>4, <2>5 DEF RowOf, CALIBRATION_POPULATIONS_PER_STAGE
  <2>8. QED
    BY <1>1, <2>5, <2>6, <2>7
<1>5. CASE block = "Incoming"
  <2>1. Rows(block) = stage_count - 1
    BY <1>5 DEF Rows
  <2>2. PICK stage : stage = row + 1
    OBVIOUS
  <2>3. stage \in 1 .. stage_count - 1 /\ row = stage - 1
    BY <1>2, <2>1, <2>2
  <2>4. block \in Segments /\ BlockOf(block) = block /\ RowOf(block, stage) = stage - 1
    BY <1>5 DEF Segments, BlockOf, RowOf, Calibrations
  <2>5. stage \in StagesOf(block)
    BY <1>5, <2>3 DEF StagesOf
  <2>6. QED
    BY <1>1, <2>3, <2>4, <2>5
<1>6. CASE block \notin {"Diagnostic", "Calibration", "Incoming"}
  <2>1. Rows(block) = stage_count
    BY <1>6 DEF Rows, Blocks
  <2>2. block \in Segments /\ BlockOf(block) = block /\ RowOf(block, row) = row
    BY <1>6 DEF Segments, BlockOf, RowOf, Calibrations, Blocks
  <2>3. row \in StagesOf(block)
    BY <1>2, <1>6, <2>1 DEF StagesOf
  <2>4. QED
    BY <1>1, <2>2, <2>3
<1>7. QED
  BY <1>3, <1>4, <1>5, <1>6

-----------------------------------------------------------------------------
(* Index is a bijection from the cells onto the slice.                     *)

\* The index of a cell lies in its block.
LEMMA IndexInBlock ==
    ASSUME StageCountType, NEW cell \in Cells
    PROVE  /\ BlockOf(cell[1]) \in Blocks
           /\ Index(cell) \in Start(BlockOf(cell[1])) ..
                              Start(BlockOf(cell[1])) + Size(BlockOf(cell[1])) - 1
           /\ Index(cell) \in 0 .. CounterCount - 1
<1>1. PICK block, row, offset : Placed(cell, block, row, offset)
  BY CellPlaced
<1>2. /\ block \in Blocks /\ Rows(block) \in Nat /\ Width(block) \in Nat \ {0}
      /\ Start(block) \in Nat /\ Size(block) \in Nat /\ CounterCount \in Nat
      /\ block = BlockOf(cell[1])
  BY <1>1, SizesType, StartType DEF Placed
<1>3. PICK n : n = row * Width(block) + offset
  OBVIOUS
<1>4. n \in 0 .. Size(block) - 1
  BY <1>1, <1>2, <1>3, RowInside DEF Placed, Size
<1>5. Index(cell) = Start(block) + n
  BY <1>1, <1>3 DEF Placed
<1>6. Start(block) + Size(block) =< CounterCount
  BY <1>2, BlockInside
<1>7. QED
  BY <1>2, <1>4, <1>5, <1>6

LEMMA IndexUnique ==
    ASSUME StageCountType, NEW c \in Cells, NEW d \in Cells, Index(c) = Index(d)
    PROVE  c = d
<1>1. PICK block, row, offset : Placed(c, block, row, offset)
  BY CellPlaced
<1>2. PICK other, line, column : Placed(d, other, line, column)
  BY CellPlaced
<1>3. block = other
  BY <1>1, <1>2, IndexInBlock, BlockUnique DEF Placed
<1>4. PICK n, m : n = row * Width(block) + offset /\ m = line * Width(block) + column
  OBVIOUS
<1>5. /\ Width(block) \in Nat \ {0} /\ Rows(block) \in Nat /\ Start(block) \in Nat
      /\ row \in Nat /\ line \in Nat
      /\ offset \in 0 .. Width(block) - 1 /\ column \in 0 .. Width(block) - 1
  BY <1>1, <1>2, <1>3, SizesType, StartType DEF Placed
<1>6. n \in Nat /\ m \in Nat
  BY <1>4, <1>5
<1>7. n = m
  <2>1. PICK k \in Nat : k = Start(block)
    BY <1>5
  <2>2. Index(c) = k + n /\ Index(d) = k + m
    BY <1>1, <1>2, <1>3, <1>4, <2>1 DEF Placed
  <2>3. k + n = k + m
    BY <2>2
  <2>4. QED
    BY <1>6, <2>1, <2>3
<1>8. row = line /\ offset = column
  BY <1>4, <1>5, <1>7, RowUnique
<1>9. QED
  BY <1>1, <1>2, <1>3, <1>8, PlaceUnique DEF Placed

LEMMA IndexOnto ==
    ASSUME StageCountType, NEW n \in 0 .. CounterCount - 1
    PROVE  \E cell \in Cells : Index(cell) = n
<1>1. PICK block \in Blocks : n \in Start(block) .. Start(block) + Size(block) - 1
  BY BlockExists
<1>2. /\ Width(block) \in Nat \ {0} /\ Rows(block) \in Nat /\ Start(block) \in Nat
      /\ Size(block) \in Nat
  BY SizesType, StartType
<1>3. PICK m \in 0 .. Size(block) - 1 : n = Start(block) + m
  <2>1. n - Start(block) \in 0 .. Size(block) - 1 /\ n = Start(block) + (n - Start(block))
    BY <1>1, <1>2
  <2>2. QED
    BY <2>1
<1>4. PICK row \in 0 .. Rows(block) - 1, offset \in 0 .. Width(block) - 1 :
        m = row * Width(block) + offset
  BY <1>2, <1>3, RowExists, ZenonT(60) DEF Size
<1>5. PICK cell \in Cells : Placed(cell, block, row, offset)
  BY PlaceTaken
<1>6. QED
  BY <1>3, <1>4, <1>5 DEF Placed

\* As many cells have an index in an interval of the slice as it is long.
LEMMA CellsInInterval ==
    ASSUME StageCountType, NEW a \in Nat, NEW b \in Nat, a =< b, b =< CounterCount
    PROVE  /\ IsFiniteSet({cell \in Cells : Index(cell) \in a .. b - 1})
           /\ Cardinality({cell \in Cells : Index(cell) \in a .. b - 1}) = b - a
<1> DEFINE named == {cell \in Cells : Index(cell) \in a .. b - 1}
           interval == a .. b - 1
           index == [cell \in named |-> Index(cell)]
<1>1. index \in [named -> interval] /\ DOMAIN index = named
  OBVIOUS
<1>2. ASSUME NEW c \in named, NEW d \in named, index[c] = index[d]
      PROVE  c = d
  BY <1>2, IndexUnique
<1>3. ASSUME NEW n \in interval
      PROVE  \E c \in named : index[c] = n
  <2>1. n \in 0 .. CounterCount - 1
    BY StartType
  <2>2. PICK cell \in Cells : Index(cell) = n
    BY <2>1, IndexOnto
  <2>3. QED
    BY <2>2
<1>4. IsFiniteSet(interval) /\ Cardinality(interval) = b - a
  <2>1. a \in Int /\ b - 1 \in Int
    OBVIOUS
  <2>2. /\ IsFiniteSet(interval)
        /\ Cardinality(interval) = IF a > b - 1 THEN 0 ELSE (b - 1) - a + 1
    BY <2>1, FS_Interval
  <2>3. QED
    BY <2>2
<1> HIDE DEF named, interval, index
<1>5. index \in Bijection(named, interval)
  BY <1>1, <1>2, <1>3 DEF Bijection, Injection, Surjection, IsInjective
<1>6. ExistsBijection(interval, named)
  BY <1>5, Fun_ExistsBijSymmetric DEF ExistsBijection
<1>7. IsFiniteSet(named) /\ Cardinality(named) = b - a
  BY <1>4, <1>6, FS_Bijection
<1>8. QED
  BY <1>7 DEF named

LEMMA CellsCounted ==
    ASSUME StageCountType
    PROVE  Cardinality(Cells) = CounterCount
<1>1. {cell \in Cells : Index(cell) \in 0 .. CounterCount - 1} = Cells
  BY IndexInBlock
<1>2. CounterCount \in Nat
  BY StartType
<1>3. Cardinality({cell \in Cells : Index(cell) \in 0 .. CounterCount - 1}) = CounterCount - 0
  BY <1>2, CellsInInterval
<1>4. QED
  BY <1>1, <1>2, <1>3

-----------------------------------------------------------------------------
(* The memory estimate.                                                    *)

\* The cells of the matrices come first, those of the calibration follow.
LEMMA PartsCounted ==
    ASSUME StageCountType
    PROVE  /\ CountersOf(Matrices) = matrix_bytes
           /\ CountersOf(Calibrations) = calibration_bytes
           /\ CountersOf(Segments \cup {"Diagnostic"}) = CounterBytes * CounterCount
<1>1. /\ \A block \in Blocks : Size(block) \in Nat /\ Start(block) \in Nat
      /\ CounterCount \in Nat
  BY SizesType, StartType
<1>2. CalibrationStart \in Nat /\ OnlineStart \in Nat
      /\ CalibrationStart =< OnlineStart /\ OnlineStart =< CounterCount
      /\ Start("Calibration") = CalibrationStart /\ Start("Online") = OnlineStart
  BY <1>1, Chain DEF Start, Blocks
<1>3. ASSUME NEW cell \in Cells
      PROVE  /\ cell[1] \in Matrices <=> Index(cell) \in 0 .. CalibrationStart - 1
             /\ cell[1] \in Calibrations <=>
                   Index(cell) \in CalibrationStart .. OnlineStart - 1
             /\ cell[1] \in Segments \cup {"Diagnostic"}
  <2>1. PICK block : block = BlockOf(cell[1])
    OBVIOUS
  <2>2. /\ block \in Blocks
        /\ Index(cell) \in Start(block) .. Start(block) + Size(block) - 1
        /\ Index(cell) \in Nat
    BY <1>1, <2>1, IndexInBlock
  <2>3. cell[1] \in Segments \cup {"Diagnostic"}
    BY CellShape
  <2>4. /\ cell[1] \in Matrices <=> block \in Matrices
        /\ cell[1] \in Calibrations <=> block = "Calibration"
    BY <2>1, <2>3 DEF BlockOf, Segments, Matrices, Calibrations
  <2>5. block \in Matrices => Index(cell) \in 0 .. CalibrationStart - 1
    BY <1>1, <1>2, <2>2, Chain DEF Matrices, Blocks
  <2>6. block = "Calibration" => Index(cell) \in CalibrationStart .. OnlineStart - 1
    BY <1>1, <1>2, <2>2, Chain DEF Blocks
  <2>7. block \notin Matrices \cup {"Calibration"} => Index(cell) >= OnlineStart
    BY <1>1, <1>2, <2>2, Chain DEF Matrices, Blocks
  <2>8. "Calibration" \notin Matrices
    BY DEF Matrices
  <2>9. QED
    BY <1>2, <2>2, <2>3, <2>4, <2>5, <2>6, <2>7, <2>8
<1>4. /\ {cell \in Cells : cell[1] \in Matrices} =
            {cell \in Cells : Index(cell) \in 0 .. CalibrationStart - 1}
      /\ {cell \in Cells : cell[1] \in Calibrations} =
            {cell \in Cells : Index(cell) \in CalibrationStart .. OnlineStart - 1}
      /\ {cell \in Cells : cell[1] \in Segments \cup {"Diagnostic"}} = Cells
  BY <1>3
<1>5. Cardinality({cell \in Cells : Index(cell) \in 0 .. CalibrationStart - 1}) =
        CalibrationStart
  <2>1. 0 \in Nat /\ 0 =< CalibrationStart /\ CalibrationStart =< CounterCount
        /\ CalibrationStart - 0 = CalibrationStart
    BY <1>1, <1>2
  <2>2. QED
    BY <1>2, <2>1, CellsInInterval
<1>6. Cardinality({cell \in Cells : Index(cell) \in CalibrationStart .. OnlineStart - 1}) =
        OnlineStart - CalibrationStart
  BY <1>2, CellsInInterval
<1>7. Cardinality(Cells) = CounterCount
  BY CellsCounted
<1>8. /\ CountersOf(Matrices) = CounterBytes * CalibrationStart
      /\ CountersOf(Calibrations) = CounterBytes * (OnlineStart - CalibrationStart)
      /\ CountersOf(Segments \cup {"Diagnostic"}) = CounterBytes * CounterCount
  BY <1>4, <1>5, <1>6, <1>7 DEF CountersOf
<1>9. CounterBytes \in Nat
  BY SizeAssumption
<1>10. QED
  BY <1>2, <1>8, <1>9 DEF matrix_bytes, calibration_bytes, MatrixCounterCount,
                          CalibrationCounterCount

\* The items of the estimate add up to the memory of the recorder, and none is
\* negative.
LEMMA EstimateParts ==
    ASSUME StageCountType, name_bytes \in Nat
    PROVE  /\ {matrix_bytes, calibration_bytes, auxiliary_bytes,
               calibration_threshold_bytes, stage_headers, name_bytes,
               recorder_metadata_bytes} \subseteq Nat
           /\ CounterTotal = CounterBytes * CounterCount
           /\ EstimateTotal = TrueTotal
           /\ TrueTotal \in Nat
<1>1. /\ \A block \in Blocks : Size(block) \in Nat /\ Start(block) \in Nat
      /\ CounterCount \in Nat
  BY SizesType, StartType
<1>2. CalibrationStart \in Nat /\ OnlineStart \in Nat
      /\ CalibrationStart =< OnlineStart /\ OnlineStart =< CounterCount
  <2>1. Start("Calibration") = CalibrationStart /\ Start("Online") = OnlineStart
    BY DEF Start
  <2>2. QED
    BY <1>1, <2>1, Chain DEF Blocks
<1>3. /\ CounterBytes \in Nat /\ ThresholdBytes \in Nat /\ HeaderBytes \in Nat
      /\ InnerBytes \in Nat /\ WordBytes \in Nat /\ stage_count \in Nat
  BY SizeAssumption DEF StageCountType
<1>4. PICK m \in Nat, c \in Nat, x \in Nat :
        /\ m = CalibrationStart /\ c = OnlineStart - CalibrationStart
        /\ x = CounterCount - m - c /\ CounterCount = m + c + x
  BY <1>1, <1>2
<1>5. /\ matrix_bytes = m * CounterBytes /\ calibration_bytes = c * CounterBytes
      /\ auxiliary_bytes = x * CounterBytes
  BY <1>4 DEF matrix_bytes, calibration_bytes, auxiliary_bytes, MatrixCounterCount,
              CalibrationCounterCount, AuxiliaryCounterCount
<1>6. CounterTotal = CounterBytes * CounterCount
  BY <1>3, <1>4, <1>5 DEF CounterTotal
<1>7. /\ matrix_bytes \in Nat /\ calibration_bytes \in Nat /\ auxiliary_bytes \in Nat
  BY <1>3, <1>5, ProductNat
<1>8. PICK h \in Nat, g \in Nat :
        h = stage_count * HeaderBytes /\ g = stage_count * ThresholdBytes
  BY <1>3, ProductNat
<1>9. /\ stage_headers = h /\ calibration_threshold_bytes = g
      /\ stage_count * (ThresholdBytes + HeaderBytes) = g + h
  BY <1>3, <1>8 DEF stage_headers, calibration_threshold_bytes
<1>10. PICK r \in Nat : r = InnerBytes + 2 * WordBytes
  BY <1>3
<1>11. recorder_metadata_bytes = r
  BY <1>10 DEF recorder_metadata_bytes
<1>12. PICK k \in Nat : k = CounterBytes * CounterCount
  BY <1>1, <1>3, ProductNat
<1>13. EstimateTotal = k + g + (h + name_bytes) + r
  BY <1>6, <1>9, <1>11, <1>12
     DEF EstimateTotal, StageTotal, stage_metadata_bytes
<1>14. TrueTotal = k + (g + h) + name_bytes + InnerBytes + 2 * WordBytes
  BY <1>9, <1>12, PartsCounted DEF TrueTotal
<1>15. EstimateTotal = TrueTotal /\ TrueTotal \in Nat
  BY <1>3, <1>10, <1>13, <1>14
<1>16. QED
  BY <1>6, <1>7, <1>9, <1>11, <1>15

\* A checked computation overflows exactly when the total does not fit: every
\* intermediate result is at most the total.
LEMMA FitTotal ==
    ASSUME StageCountType, name_bytes \in Nat, usize_max \in Nat
    PROVE  Fit(LayoutResults) /\ Fit(EstimateResults) <=> TrueTotal =< usize_max
<1>1. /\ \A block \in Blocks : Size(block) \in Nat /\ Start(block) \in Nat
      /\ CounterCount \in Nat
  BY SizesType, StartType
<1>2. /\ matrix_bytes \in Nat /\ calibration_bytes \in Nat /\ auxiliary_bytes \in Nat
      /\ calibration_threshold_bytes \in Nat /\ stage_headers \in Nat
      /\ recorder_metadata_bytes \in Nat
      /\ CounterTotal = CounterBytes * CounterCount
      /\ EstimateTotal = TrueTotal /\ TrueTotal \in Nat
  BY EstimateParts
<1>3. \A bytes \in EstimateResults : bytes \in Nat /\ bytes =< EstimateTotal
  BY <1>2 DEF EstimateResults, EstimateTotal, StageTotal, CounterTotal,
              stage_metadata_bytes
<1>4. \A bytes \in LayoutResults : bytes \in Nat /\ bytes =< CounterCount
  <2>1. /\ Start("Cumulative") = CumulativeStart /\ Start("Cause") = CauseStart
        /\ Start("Incoming") = IncomingStart /\ Start("Calibration") = CalibrationStart
        /\ Start("Online") = OnlineStart /\ Start("Completion") = CompletionStart
        /\ Start("Diagnostic") = DiagnosticStart
    BY DEF Start
  <2>2. /\ Size("Local") = stage_count * BUCKETS
        /\ Size("Cause") = stage_count * MATRIX_CELLS
        /\ Size("Incoming") = (stage_count - 1) * MATRIX_CELLS
        /\ Size("Online") = stage_count * ONLINE_COUNTERS_PER_STAGE
        /\ Size("Completion") = stage_count * COMPLETION_COUNTERS_PER_STAGE
    BY DEF Size, Rows, Width
  <2>3. Size("Calibration") =
          stage_count * CALIBRATION_POPULATIONS_PER_STAGE * CALIBRATION_BUCKETS
    BY DEF Size, Rows, Width, StageCountType, CALIBRATION_POPULATIONS_PER_STAGE
  <2>4. /\ stage_count * CALIBRATION_POPULATIONS_PER_STAGE \in Nat
        /\ stage_count * CALIBRATION_POPULATIONS_PER_STAGE =< Size("Calibration")
    <3>1. PICK p \in Nat : p = stage_count * CALIBRATION_POPULATIONS_PER_STAGE
      BY DEF StageCountType, CALIBRATION_POPULATIONS_PER_STAGE
    <3>2. 1 * p =< CALIBRATION_BUCKETS * p
      BY ProductMonotonic
    <3>3. CALIBRATION_BUCKETS * p = p * CALIBRATION_BUCKETS /\ 1 * p = p
      OBVIOUS
    <3>4. QED
      BY <2>3, <3>1, <3>2, <3>3
  <2>5. \A block \in Blocks : /\ Start(block) =< CounterCount
                              /\ Size(block) =< CounterCount
    <3>1. ASSUME NEW block \in Blocks PROVE Start(block) + Size(block) =< CounterCount
      BY BlockInside
    <3>2. QED
      BY <1>1, <3>1
  <2>6. QED
    BY <1>1, <2>1, <2>2, <2>3, <2>4, <2>5 DEF LayoutResults, Blocks
<1>5. CounterCount =< EstimateTotal
  <2>1. CounterBytes \in Nat /\ 1 =< CounterBytes
    BY SizeAssumption
  <2>2. 1 * CounterCount =< CounterBytes * CounterCount
    BY <1>1, <2>1, ProductMonotonic
  <2>3. CounterTotal \in EstimateResults
    BY DEF EstimateResults
  <2>4. CounterTotal \in Nat /\ CounterTotal =< EstimateTotal
    BY <1>3, <2>3
  <2>5. CounterCount =< CounterTotal
    BY <1>1, <1>2, <2>2
  <2>6. QED
    BY <1>1, <1>2, <2>4, <2>5
<1>6. EstimateTotal \in EstimateResults
  BY DEF EstimateResults
<1>7. ASSUME TrueTotal =< usize_max PROVE Fit(LayoutResults) /\ Fit(EstimateResults)
  BY <1>1, <1>2, <1>3, <1>4, <1>5, <1>7 DEF Fit
<1>8. QED
  BY <1>2, <1>6, <1>7 DEF Fit

\* What a build answers is exact.
LEMMA EstimateCorrect ==
    ASSUME StageCountType, name_bytes \in Nat, usize_max \in Nat
    PROVE  IF TrueTotal > usize_max
           THEN Estimate.result = "SizeOverflow"
           ELSE /\ Estimate.result = "Ok"
                /\ Estimate.matrix = CountersOf(Matrices)
                /\ Estimate.calibration = CountersOf(Calibrations)
                /\ Estimate.matrix + Estimate.calibration + Estimate.metadata = TrueTotal
<1>1. /\ matrix_bytes \in Nat /\ calibration_bytes \in Nat
      /\ EstimateTotal = TrueTotal /\ TrueTotal \in Nat
  BY EstimateParts
<1>2. CASE TrueTotal > usize_max
  <2>1. ~(Fit(LayoutResults) /\ Fit(EstimateResults))
    BY <1>1, <1>2, FitTotal
  <2>2. QED
    BY <1>2, <2>1 DEF Estimate
<1>3. CASE ~(TrueTotal > usize_max)
  <2>1. Fit(LayoutResults) /\ Fit(EstimateResults)
    BY <1>1, <1>3, FitTotal
  <2>2. /\ Estimate.result = "Ok" /\ Estimate.matrix = matrix_bytes
        /\ Estimate.calibration = calibration_bytes
        /\ Estimate.metadata = EstimateTotal - matrix_bytes - calibration_bytes
    BY <2>1 DEF Estimate
  <2>3. matrix_bytes + calibration_bytes +
          (EstimateTotal - matrix_bytes - calibration_bytes) = TrueTotal
    BY <1>1
  <2>4. QED
    BY <1>3, <2>2, <2>3, PartsCounted
<1>4. QED
  BY <1>2, <1>3

-----------------------------------------------------------------------------
(* The properties of the specification.                                    *)

LayoutInv ==
    /\ StageCountType
    /\ latest \in Cells \cup {None}
    /\ earlier # None => earlier \in Cells /\ latest \in Cells

MemoryInv ==
    /\ usize_max \in Nat /\ name_bytes \in Nat
    /\ memory \in {None, Estimate}

LEMMA CellsKept ==
    ASSUME UNCHANGED stage_count
    PROVE  Cells' = Cells
BY DEF Cells, SegmentCells, StagesOf, Offsets, Geometry, Contiguous,
       CalibrationGeometry, CumulativeStart, CauseStart, IncomingStart,
       CalibrationStart, OnlineStart, CompletionStart, DiagnosticStart

LEMMA IncrementInv ==
    ASSUME LayoutInv, Next
    PROVE  LayoutInv' /\ UNCHANGED stage_count
<1>1. PICK cell \in Cells : Increment(cell)
  BY DEF Next
<1>2. UNCHANGED stage_count
  BY <1>1 DEF Increment
<1>3. Cells' = Cells
  BY <1>2, CellsKept
<1>4. QED
  BY <1>1, <1>2, <1>3 DEF Increment, LayoutInv, StageCountType

LEMMA EstimateKept ==
    ASSUME UNCHANGED <<stage_count, usize_max, name_bytes>>
    PROVE  Estimate' = Estimate
BY DEF Estimate, Fit, LayoutResults, EstimateResults, matrix_bytes, calibration_bytes,
       auxiliary_bytes, calibration_threshold_bytes, stage_headers,
       stage_metadata_bytes, recorder_metadata_bytes, CounterTotal, StageTotal,
       EstimateTotal, MatrixCounterCount, CalibrationCounterCount,
       AuxiliaryCounterCount, CumulativeStart, CauseStart, IncomingStart,
       CalibrationStart, OnlineStart, CompletionStart, DiagnosticStart, CounterCount

LEMMA MemoryInitInv == MemoryInit => LayoutInv /\ MemoryInv
<1> SUFFICES ASSUME MemoryInit PROVE LayoutInv /\ MemoryInv
  OBVIOUS
<1>1. LayoutInv
  BY DEF MemoryInit, Init, LayoutInv, StageCountType
<1>2. MemoryInv
  BY SizeAssumption DEF MemoryInit, MemoryInv
<1>3. QED
  BY <1>1, <1>2

LEMMA MemoryNextInv ==
    ASSUME LayoutInv, MemoryInv, [Build \/ Record]_memoryVars
    PROVE  LayoutInv' /\ MemoryInv'
<1>1. ASSUME UNCHANGED <<stage_count, usize_max, name_bytes>>, memory' \in {None, Estimate}
      PROVE  MemoryInv'
  BY <1>1, EstimateKept DEF MemoryInv
<1>2. ASSUME UNCHANGED vars
      PROVE  LayoutInv'
  BY <1>2, CellsKept DEF vars, LayoutInv, StageCountType
<1>3. CASE Build
  <2>1. UNCHANGED vars /\ UNCHANGED <<stage_count, usize_max, name_bytes>>
        /\ memory' = Estimate
    BY <1>3 DEF Build, vars
  <2>2. QED
    BY <1>1, <1>2, <2>1
<1>4. CASE Record
  <2>1. Next /\ UNCHANGED <<usize_max, name_bytes, memory>>
    BY <1>4 DEF Record
  <2>2. LayoutInv' /\ UNCHANGED stage_count
    BY <2>1, IncrementInv
  <2>3. memory' \in {None, Estimate}
    BY <2>1 DEF MemoryInv
  <2>4. QED
    BY <1>1, <2>1, <2>2, <2>3
<1>5. CASE UNCHANGED memoryVars
  <2>1. UNCHANGED vars /\ UNCHANGED <<stage_count, usize_max, name_bytes>>
        /\ memory' = memory
    BY <1>5 DEF memoryVars, vars
  <2>2. memory' \in {None, Estimate}
    BY <2>1 DEF MemoryInv
  <2>3. QED
    BY <1>1, <1>2, <2>1, <2>2
<1>6. QED
  BY <1>3, <1>4, <1>5

\* A recorder has stages, only ever counts cells of its layout, and the answer
\* of a build stays what the estimate of its layout is.
THEOREM MemoryInductive == MemorySpec => [](LayoutInv /\ MemoryInv)
<1>1. LayoutInv /\ MemoryInv /\ [Build \/ Record]_memoryVars => (LayoutInv /\ MemoryInv)'
  BY MemoryNextInv
<1>2. QED
  BY MemoryInitInv, <1>1, PTL DEF MemorySpec

\* For segments of any widths and any number of stages: two increments share a
\* counter only if they name the same cell.
THEOREM CountersDistinctHolds == MemorySpec => []CountersDistinct
<1>1. LayoutInv => CountersDistinct
  BY IndexUnique DEF LayoutInv, CountersDistinct
<1>2. QED
  BY MemoryInductive, <1>1, PTL

\* For segments of any widths and any number of stages: an increment stays
\* inside the slice, and the slice has as many counters as there are cells.
THEOREM SliceExactHolds == MemorySpec => []SliceExact
<1>1. LayoutInv => SliceExact
  BY IndexInBlock, CellsCounted DEF LayoutInv, SliceExact
<1>2. QED
  BY MemoryInductive, <1>1, PTL

\* For every target, any sizes, widths and names: the estimate is the memory of
\* the recorder, and is refused exactly when that does not fit a usize.
THEOREM EstimateExactHolds == MemorySpec => []EstimateExact
<1>1. LayoutInv /\ MemoryInv => EstimateExact
  <2> SUFFICES ASSUME LayoutInv, MemoryInv, memory # None
               PROVE  IF TrueTotal > usize_max
                      THEN memory.result = "SizeOverflow"
                      ELSE /\ memory.result = "Ok"
                           /\ memory.matrix = CountersOf(Matrices)
                           /\ memory.calibration = CountersOf(Calibrations)
                           /\ memory.matrix + memory.calibration + memory.metadata
                                = TrueTotal
    BY DEF EstimateExact
  <2>1. memory = Estimate
    BY DEF MemoryInv
  <2>2. QED
    BY <2>1, EstimateCorrect DEF LayoutInv, MemoryInv
<1>2. QED
  BY MemoryInductive, <1>1, PTL
=============================================================================
