---------------------------- MODULE PngRowsProof ----------------------------
(* What holds of every image, however it is written, cut into pieces and read.

   First the passes: the tables, macros and masks of Adam7 agree.  Then the
   filters: what png_read_filter_row makes of a row that was sent with any of them
   is the row before.  Then the stream between writer and reader.  StreamAt says
   how many bytes lie before row y of pass p; Writing and Reading say that a struct
   stands at a row that its image has, with the width and the number of rows of
   that pass, and that what it has written or read is just StreamAt.  Writer and
   reader may count rows differently, one those of the image and the other those
   of the pass: both come to the same number of bytes, which is why the reader
   never lacks data and leaves none.  Of the progressive reader one must also know
   that between two rows of the stream it does not stand at a row that has none
   (Rests), for it does not look; that is what the calls it generates are for
   (Loose).

   Then the pixels.  What the stream holds is each row of each pass, filtered with
   some filter on the row above it in the pass (StreamHolds), which needs the
   writer's buffers to be apart and to hold that row (MemoryOK); the reader, with the
   same row above (ReaderHolds), gets the row back.  RowsAt says which pixels of
   `rows' are known at a row of a pass, DisplayAt which blocks the display shows
   above it and below it, and InBuffer that the row from which a sequential reader
   repeats a block is still the one in row_buf.

   Last the file around the stream: every step of PngProgressive is a step of
   PngPush or leaves it alone, so that PngPushProof's invariant is kept here. *)
EXTENDS PngProgressive, SequenceTheorems, FiniteSetTheorems, TLAPS

PushProof == INSTANCE PngPushProof WITH Files <- {}, Pieces <- {}

----------------------------------------------------------------------------
(* The passes. *)

ColInPass(x, p) ==
  x >= png_pass_start[p] /\ (x - png_pass_start[p]) % png_pass_inc[p] = 0
RowInPass(y, p) ==
  y >= png_pass_ystart[p] /\ (y - png_pass_ystart[p]) % png_pass_yinc[p] = 0

(* There are seven passes; a proof about one of them looks at each. *)
LEMMA EachPass ==
  ASSUME NEW p \in Passes
  PROVE  p = 0 \/ p = 1 \/ p = 2 \/ p = 3 \/ p = 4 \/ p = 5 \/ p = 6
BY DEF Passes

(* The entries of the tables. *)
LEMMA Columns ==
  /\ png_pass_start[0] = 0 /\ png_pass_inc[0] = 8
  /\ png_pass_start[1] = 4 /\ png_pass_inc[1] = 8
  /\ png_pass_start[2] = 0 /\ png_pass_inc[2] = 4
  /\ png_pass_start[3] = 2 /\ png_pass_inc[3] = 4
  /\ png_pass_start[4] = 0 /\ png_pass_inc[4] = 2
  /\ png_pass_start[5] = 1 /\ png_pass_inc[5] = 2
  /\ png_pass_start[6] = 0 /\ png_pass_inc[6] = 1
BY DEF Passes, png_pass_start, png_pass_inc

LEMMA Rows ==
  /\ png_pass_ystart[0] = 0 /\ png_pass_yinc[0] = 8
  /\ png_pass_ystart[1] = 0 /\ png_pass_yinc[1] = 8
  /\ png_pass_ystart[2] = 4 /\ png_pass_yinc[2] = 8
  /\ png_pass_ystart[3] = 0 /\ png_pass_yinc[3] = 4
  /\ png_pass_ystart[4] = 2 /\ png_pass_yinc[4] = 4
  /\ png_pass_ystart[5] = 0 /\ png_pass_yinc[5] = 2
  /\ png_pass_ystart[6] = 1 /\ png_pass_yinc[6] = 2
BY DEF Passes, png_pass_ystart, png_pass_yinc

LEMMA Powers ==
  Power[0] = 1 /\ Power[1] = 2 /\ Power[2] = 4 /\ Power[3] = 8
BY DEF Power

(* Every pixel of every image is in exactly one pass: no pixel is lost between
   the passes that png_write_row writes, and none is written twice. *)
THEOREM EveryPixelInOnePass ==
  \A x, y \in Nat :
     \E p \in Passes : /\ ColInPass(x, p) /\ RowInPass(y, p)
                       /\ \A q \in Passes :
                             ColInPass(x, q) /\ RowInPass(y, q) => q = p
<1> SUFFICES ASSUME NEW x \in Nat, NEW y \in Nat
             PROVE  \E p \in Passes :
                      /\ ColInPass(x, p) /\ RowInPass(y, p)
                      /\ \A q \in Passes :
                            ColInPass(x, q) /\ RowInPass(y, q) => q = p
  OBVIOUS
<1> DEFINE In(p) == ColInPass(x, p) /\ RowInPass(y, p)
<1>0. In(0) <=> x % 8 = 0 /\ y % 8 = 0
  BY Columns, Rows DEF ColInPass, RowInPass
<1>1. In(1) <=> x % 8 = 4 /\ y % 8 = 0
  BY Columns, Rows DEF ColInPass, RowInPass
<1>2. In(2) <=> x % 4 = 0 /\ y % 8 = 4
  BY Columns, Rows DEF ColInPass, RowInPass
<1>3. In(3) <=> x % 4 = 2 /\ y % 4 = 0
  BY Columns, Rows DEF ColInPass, RowInPass
<1>4. In(4) <=> x % 2 = 0 /\ y % 4 = 2
  BY Columns, Rows DEF ColInPass, RowInPass
<1>5. In(5) <=> x % 2 = 1 /\ y % 2 = 0
  BY Columns, Rows DEF ColInPass, RowInPass
<1>6. In(6) <=> y % 2 = 1
  BY Columns, Rows DEF ColInPass, RowInPass
<1> HIDE DEF In
<1>7. \E p \in Passes : In(p)
  BY <1>0, <1>1, <1>2, <1>3, <1>4, <1>5, <1>6 DEF Passes
<1>8. ASSUME NEW p \in Passes, NEW q \in Passes, In(p), In(q)
      PROVE  q = p
  BY <1>0, <1>1, <1>2, <1>3, <1>4, <1>5, <1>6, <1>8, EachPass
<1>9. QED
  BY <1>7, <1>8 DEF In

(* What the macros say of each pass. *)
LEMMA MacroColumns ==
  /\ PNG_PASS_START_COL(0) = 0 /\ Power[PNG_PASS_COL_SHIFT(0)] = 8
  /\ PNG_PASS_START_COL(1) = 4 /\ Power[PNG_PASS_COL_SHIFT(1)] = 8
  /\ PNG_PASS_START_COL(2) = 0 /\ Power[PNG_PASS_COL_SHIFT(2)] = 4
  /\ PNG_PASS_START_COL(3) = 2 /\ Power[PNG_PASS_COL_SHIFT(3)] = 4
  /\ PNG_PASS_START_COL(4) = 0 /\ Power[PNG_PASS_COL_SHIFT(4)] = 2
  /\ PNG_PASS_START_COL(5) = 1 /\ Power[PNG_PASS_COL_SHIFT(5)] = 2
  /\ PNG_PASS_START_COL(6) = 0 /\ Power[PNG_PASS_COL_SHIFT(6)] = 1
BY Powers DEF PNG_PASS_START_COL, PNG_PASS_COL_SHIFT

LEMMA MacroRows ==
  /\ PNG_PASS_START_ROW(0) = 0 /\ Power[PNG_PASS_ROW_SHIFT(0)] = 8
  /\ PNG_PASS_START_ROW(1) = 0 /\ Power[PNG_PASS_ROW_SHIFT(1)] = 8
  /\ PNG_PASS_START_ROW(2) = 4 /\ Power[PNG_PASS_ROW_SHIFT(2)] = 8
  /\ PNG_PASS_START_ROW(3) = 0 /\ Power[PNG_PASS_ROW_SHIFT(3)] = 4
  /\ PNG_PASS_START_ROW(4) = 2 /\ Power[PNG_PASS_ROW_SHIFT(4)] = 4
  /\ PNG_PASS_START_ROW(5) = 0 /\ Power[PNG_PASS_ROW_SHIFT(5)] = 2
  /\ PNG_PASS_START_ROW(6) = 1 /\ Power[PNG_PASS_ROW_SHIFT(6)] = 2
BY Powers DEF PNG_PASS_START_ROW, PNG_PASS_ROW_SHIFT

(* The macros of png.h place a pass where the tables of the row code do. *)
THEOREM MacrosMatchTables ==
  \A p \in Passes :
     /\ PNG_PASS_START_COL(p) = png_pass_start[p]
     /\ PNG_PASS_START_ROW(p) = png_pass_ystart[p]
     /\ Power[PNG_PASS_COL_SHIFT(p)] = png_pass_inc[p]
     /\ Power[PNG_PASS_ROW_SHIFT(p)] = png_pass_yinc[p]
BY EachPass, Columns, Rows, MacroColumns, MacroRows

(* A reader that counts the rows and columns of a pass with the macros gets
   what the writer has put there. *)
THEOREM CountsAgree ==
  \A n \in Nat, p \in Passes :
     PNG_PASS_COLS(n, p) = PassWidth(n, p) /\ PNG_PASS_ROWS(n, p) = PassHeight(n, p)
<1> SUFFICES ASSUME NEW n \in Nat, NEW p \in Passes
             PROVE  PNG_PASS_COLS(n, p) = PassWidth(n, p)
                    /\ PNG_PASS_ROWS(n, p) = PassHeight(n, p)
  OBVIOUS
<1>1. /\ PNG_PASS_COLS(n, p) = (n + (png_pass_inc[p] - 1 - png_pass_start[p])) \div png_pass_inc[p]
      /\ PNG_PASS_ROWS(n, p) = (n + (png_pass_yinc[p] - 1 - png_pass_ystart[p])) \div png_pass_yinc[p]
  BY MacrosMatchTables DEF PNG_PASS_COLS, PNG_PASS_ROWS
<1>2. /\ n + (png_pass_inc[p] - 1 - png_pass_start[p]) = n + png_pass_inc[p] - 1 - png_pass_start[p]
      /\ n + (png_pass_yinc[p] - 1 - png_pass_ystart[p]) = n + png_pass_yinc[p] - 1 - png_pass_ystart[p]
  BY EachPass, Columns, Rows
<1>3. QED
  BY <1>1, <1>2 DEF PassWidth, PassHeight

(* The width that is computed for a pass is the number of its columns that an
   image has: column x of the pass is there exactly when it is counted, and the
   same for rows.  So no pixel is written beyond the width, and none is left. *)
THEOREM PassHoldsItsColumns ==
  \A n, k \in Nat, p \in Passes :
     /\ PNG_COL_FROM_PASS_COL(k, p) < n <=> k < PassWidth(n, p)
     /\ PNG_ROW_FROM_PASS_ROW(k, p) < n <=> k < PassHeight(n, p)
<1> SUFFICES ASSUME NEW n \in Nat, NEW k \in Nat, NEW p \in Passes
             PROVE  /\ PNG_COL_FROM_PASS_COL(k, p) < n <=> k < PassWidth(n, p)
                    /\ PNG_ROW_FROM_PASS_ROW(k, p) < n <=> k < PassHeight(n, p)
  OBVIOUS
<1>1. /\ PNG_COL_FROM_PASS_COL(k, p) = k * png_pass_inc[p] + png_pass_start[p]
      /\ PNG_ROW_FROM_PASS_ROW(k, p) = k * png_pass_yinc[p] + png_pass_ystart[p]
  BY MacrosMatchTables DEF PNG_COL_FROM_PASS_COL, PNG_ROW_FROM_PASS_ROW
<1>2. k * png_pass_inc[p] + png_pass_start[p] < n <=> k < PassWidth(n, p)
  BY EachPass, Columns DEF PassWidth
<1>3. k * png_pass_yinc[p] + png_pass_ystart[p] < n <=> k < PassHeight(n, p)
  BY EachPass, Rows DEF PassHeight
<1>4. QED
  BY <1>1, <1>2, <1>3

(* png_write_row and png_read_row pass over exactly the rows that are not in the
   pass or whose pass has no columns. *)
THEOREM SkippedRows ==
  ASSUME NEW y \in Nat, NEW w \in Nat, w > 0, NEW p \in Passes
  PROVE  SkipsRow(y, w, p) <=> ~RowInPass(y, p) \/ PassWidth(w, p) = 0
<1>1. CASE p = 0
  BY <1>1, Columns, Rows DEF SkipsRow, RowInPass, PassWidth
<1>2. CASE p = 1
  BY <1>2, Columns, Rows DEF SkipsRow, RowInPass, PassWidth
<1>3. CASE p = 2
  BY <1>3, Columns, Rows DEF SkipsRow, RowInPass, PassWidth
<1>4. CASE p = 3
  BY <1>4, Columns, Rows DEF SkipsRow, RowInPass, PassWidth
<1>5. CASE p = 4
  BY <1>5, Columns, Rows DEF SkipsRow, RowInPass, PassWidth
<1>6. CASE p = 5
  BY <1>6, Columns, Rows DEF SkipsRow, RowInPass, PassWidth
<1>7. CASE p = 6
  BY <1>7, Columns, Rows DEF SkipsRow, RowInPass, PassWidth
<1>8. QED
  BY <1>1, <1>2, <1>3, <1>4, <1>5, <1>6, <1>7, EachPass

(* A row of a pass, expanded in place by png_do_read_interlace, stays within the
   width rounded up to eight for which png_read_start_row allocates. *)
THEOREM ExpandedRowFits ==
  ASSUME NEW w \in Nat, NEW p \in Passes
  PROVE  PassWidth(w, p) * png_pass_inc[p] <= ((w + 7) \div 8) * 8
<1>1. CASE p = 0
  BY <1>1, Columns DEF PassWidth
<1>2. CASE p = 1
  BY <1>2, Columns DEF PassWidth
<1>3. CASE p = 2
  BY <1>3, Columns DEF PassWidth
<1>4. CASE p = 3
  BY <1>4, Columns DEF PassWidth
<1>5. CASE p = 4
  BY <1>5, Columns DEF PassWidth
<1>6. CASE p = 5
  BY <1>6, Columns DEF PassWidth
<1>7. CASE p = 6
  BY <1>7, Columns DEF PassWidth
<1>8. QED
  BY <1>1, <1>2, <1>3, <1>4, <1>5, <1>6, <1>7, EachPass

(* The bits of the mask that applications test a column or a row against. *)
LEMMA MaskBits ==
  ASSUME NEW b \in 0 .. 7
  PROVE  /\ PNG_PASS_MASK(0, 1, b) = 1 <=> b = 0
         /\ PNG_PASS_MASK(1, 1, b) = 1 <=> b = 4
         /\ PNG_PASS_MASK(2, 1, b) = 1 <=> b \in {0, 4}
         /\ PNG_PASS_MASK(3, 1, b) = 1 <=> b \in {2, 6}
         /\ PNG_PASS_MASK(4, 1, b) = 1 <=> b \in {0, 2, 4, 6}
         /\ PNG_PASS_MASK(5, 1, b) = 1 <=> b \in {1, 3, 5, 7}
         /\ PNG_PASS_MASK(6, 1, b) = 1
         /\ PNG_PASS_MASK(0, 0, b) = 1 <=> b = 0
         /\ PNG_PASS_MASK(1, 0, b) = 1 <=> b = 0
         /\ PNG_PASS_MASK(2, 0, b) = 1 <=> b = 4
         /\ PNG_PASS_MASK(3, 0, b) = 1 <=> b \in {0, 4}
         /\ PNG_PASS_MASK(4, 0, b) = 1 <=> b \in {2, 6}
         /\ PNG_PASS_MASK(5, 0, b) = 1 <=> b \in {0, 2, 4, 6}
         /\ PNG_PASS_MASK(6, 0, b) = 1 <=> b \in {1, 3, 5, 7}
<1>1. b = 0 \/ b = 1 \/ b = 2 \/ b = 3 \/ b = 4 \/ b = 5 \/ b = 6 \/ b = 7
  OBVIOUS
<1>2. QED
  BY <1>1, Powers DEF PNG_PASS_MASK, MaskLow, MaskHigh

(* The masks of png.h select the columns and rows of the pass. *)
THEOREM MasksMatchTables ==
  ASSUME NEW x \in Nat, NEW p \in Passes
  PROVE  /\ PNG_COL_IN_INTERLACE_PASS(x, p) <=> ColInPass(x, p)
         /\ PNG_ROW_IN_INTERLACE_PASS(x, p) <=> RowInPass(x, p)
<1>1. CASE p = 0
  BY <1>1, MaskBits, x % 8 \in 0 .. 7, Columns, Rows
  DEF PNG_COL_IN_INTERLACE_PASS, PNG_ROW_IN_INTERLACE_PASS, ColInPass, RowInPass
<1>2. CASE p = 1
  BY <1>2, MaskBits, x % 8 \in 0 .. 7, Columns, Rows
  DEF PNG_COL_IN_INTERLACE_PASS, PNG_ROW_IN_INTERLACE_PASS, ColInPass, RowInPass
<1>3. CASE p = 2
  BY <1>3, MaskBits, x % 8 \in 0 .. 7, Columns, Rows
  DEF PNG_COL_IN_INTERLACE_PASS, PNG_ROW_IN_INTERLACE_PASS, ColInPass, RowInPass
<1>4. CASE p = 3
  BY <1>4, MaskBits, x % 8 \in 0 .. 7, Columns, Rows
  DEF PNG_COL_IN_INTERLACE_PASS, PNG_ROW_IN_INTERLACE_PASS, ColInPass, RowInPass
<1>5. CASE p = 4
  BY <1>5, MaskBits, x % 8 \in 0 .. 7, Columns, Rows
  DEF PNG_COL_IN_INTERLACE_PASS, PNG_ROW_IN_INTERLACE_PASS, ColInPass, RowInPass
<1>6. CASE p = 5
  BY <1>6, MaskBits, x % 8 \in 0 .. 7, Columns, Rows
  DEF PNG_COL_IN_INTERLACE_PASS, PNG_ROW_IN_INTERLACE_PASS, ColInPass, RowInPass
<1>7. CASE p = 6
  BY <1>7, MaskBits, x % 8 \in 0 .. 7, Columns, Rows
  DEF PNG_COL_IN_INTERLACE_PASS, PNG_ROW_IN_INTERLACE_PASS, ColInPass, RowInPass
<1>8. QED
  BY <1>1, <1>2, <1>3, <1>4, <1>5, <1>6, <1>7, EachPass

(* The entries of the powers of two that the masks of png_combine_row use. *)
LEMMA Bits ==
  /\ Bit[0] = 1 /\ Bit[1] = 2 /\ Bit[2] = 4 /\ Bit[3] = 8
  /\ Bit[4] = 16 /\ Bit[5] = 32 /\ Bit[6] = 64 /\ Bit[7] = 128
BY DEF Bit

(* The masks of png_combine_row for small pixels: the sparkle mask holds the
   columns of the pass, the block mask those up to the next column that an
   earlier pass has filled. *)
THEOREM CombineMasks ==
  ASSUME NEW x \in 0 .. 7, NEW p \in 0 .. 5
  PROVE  /\ S_COPY(p, x) <=> ColInPass(x, p)
         /\ p = 1 => (B_COPY(p, x) <=> x >= 4)
         /\ p = 3 => (B_COPY(p, x) <=> x % 4 >= 2)
         /\ p = 5 => (B_COPY(p, x) <=> x % 2 = 1)
<1>1. x = 0 \/ x = 1 \/ x = 2 \/ x = 3 \/ x = 4 \/ x = 5 \/ x = 6 \/ x = 7
  OBVIOUS
<1>2. p = 0 \/ p = 1 \/ p = 2 \/ p = 3 \/ p = 4 \/ p = 5
  OBVIOUS
<1>3. /\ S_COPY(0, x) <=> x = 0
      /\ S_COPY(1, x) <=> x = 4
      /\ S_COPY(2, x) <=> x \in {0, 4}
      /\ S_COPY(3, x) <=> x \in {2, 6}
      /\ S_COPY(4, x) <=> x \in {0, 2, 4, 6}
      /\ S_COPY(5, x) <=> x \in {1, 3, 5, 7}
  BY <1>1, Bits DEF S_COPY, S_Bytes
<1>4. /\ B_COPY(1, x) <=> x \in {4, 5, 6, 7}
      /\ B_COPY(3, x) <=> x \in {2, 3, 6, 7}
      /\ B_COPY(5, x) <=> x \in {1, 3, 5, 7}
  BY <1>1, Bits DEF B_COPY, B_Bytes
<1>5. /\ ColInPass(x, 0) <=> x = 0
      /\ ColInPass(x, 1) <=> x = 4
      /\ ColInPass(x, 2) <=> x \in {0, 4}
      /\ ColInPass(x, 3) <=> x \in {2, 6}
      /\ ColInPass(x, 4) <=> x \in {0, 2, 4, 6}
      /\ ColInPass(x, 5) <=> x \in {1, 3, 5, 7}
  BY <1>1, Columns DEF ColInPass
<1>6. QED
  BY <1>1, <1>2, <1>3, <1>4, <1>5

----------------------------------------------------------------------------
(* The stream: which rows of which lengths. *)

JobOK == job \in JobType /\ Image \in [0 .. height - 1 -> [0 .. width - 1 -> Pixels(depth)]]

LEMMA Sizes ==
  ASSUME JobOK
  PROVE  /\ width \in Nat /\ width > 0 /\ height \in Nat /\ height > 0
         /\ job.interlaced \in BOOLEAN /\ job.writeHandling \in BOOLEAN
            /\ job.readHandling \in BOOLEAN
         /\ job.progressive \in BOOLEAN /\ job.filters \in SUBSET (0 .. 4)
  BY DEF JobOK, JobType, width, height

LEMMA RowBytesType ==
  ASSUME JobOK, NEW w \in Nat
  PROVE  PNG_ROWBYTES(depth, w) \in Nat
<1>1. CASE depth \in {1, 2, 4}
  <2>1. \A d \in {1, 2, 4} : PNG_ROWBYTES(d, w) \in Nat
    BY DEF PNG_ROWBYTES
  <2> QED BY <1>1, <2>1
<1>2. CASE depth \in {8 * k : k \in 1 .. 8}
  <2>1. PICK k \in 1 .. 8 : depth = 8 * k
    BY <1>2
  <2>2. depth \div 8 = k /\ depth >= 8 /\ depth \in Nat
    BY <2>1
  <2>3. w * k \in Nat
    OBVIOUS
  <2> QED BY <2>2, <2>3 DEF PNG_ROWBYTES
<1> QED BY <1>1, <1>2 DEF JobOK, JobType, depth

LEMMA PassSizes ==
  ASSUME NEW n \in Nat, NEW p \in Passes
  PROVE  PassWidth(n, p) \in Nat /\ PassHeight(n, p) \in Nat
<1>1. CASE p = 0 BY <1>1, Columns, Rows DEF PassWidth, PassHeight
<1>2. CASE p = 1 BY <1>2, Columns, Rows DEF PassWidth, PassHeight
<1>3. CASE p = 2 BY <1>3, Columns, Rows DEF PassWidth, PassHeight
<1>4. CASE p = 3 BY <1>4, Columns, Rows DEF PassWidth, PassHeight
<1>5. CASE p = 4 BY <1>5, Columns, Rows DEF PassWidth, PassHeight
<1>6. CASE p = 5 BY <1>6, Columns, Rows DEF PassWidth, PassHeight
<1>7. CASE p = 6 BY <1>7, Columns, Rows DEF PassWidth, PassHeight
<1> QED BY <1>1, <1>2, <1>3, <1>4, <1>5, <1>6, <1>7, EachPass

(* One more row: a row of the pass, or one that is passed over. *)
LEMMA OneMoreRow ==
  ASSUME NEW y \in Nat, NEW p \in Passes
  PROVE  PassHeight(y + 1, p) = PassHeight(y, p) + (IF RowInPass(y, p) THEN 1 ELSE 0)
<1> USE DEF PassHeight, RowInPass
<1>1. CASE p = 0 BY <1>1, Rows
<1>2. CASE p = 1 BY <1>2, Rows
<1>3. CASE p = 2 BY <1>3, Rows
<1>4. CASE p = 3 BY <1>4, Rows
<1>5. CASE p = 4 BY <1>5, Rows
<1>6. CASE p = 5 BY <1>6, Rows
<1>7. CASE p = 6 BY <1>7, Rows
<1> QED BY <1>1, <1>2, <1>3, <1>4, <1>5, <1>6, <1>7, EachPass

LEMMA NoRowsYet ==
  ASSUME NEW p \in Passes
  PROVE  PassHeight(0, p) = 0
<1> USE DEF PassHeight
<1>1. CASE p = 0 BY <1>1, Rows
<1>2. CASE p = 1 BY <1>2, Rows
<1>3. CASE p = 2 BY <1>3, Rows
<1>4. CASE p = 3 BY <1>4, Rows
<1>5. CASE p = 4 BY <1>5, Rows
<1>6. CASE p = 5 BY <1>6, Rows
<1>7. CASE p = 6 BY <1>7, Rows
<1> QED BY <1>1, <1>2, <1>3, <1>4, <1>5, <1>6, <1>7, EachPass

LEMMA Monotone ==
  ASSUME NEW y \in Nat, NEW n \in Nat, y <= n, NEW p \in Passes
  PROVE  PassHeight(y, p) <= PassHeight(n, p)
<1> USE DEF PassHeight
<1>1. CASE p = 0 BY <1>1, Rows
<1>2. CASE p = 1 BY <1>2, Rows
<1>3. CASE p = 2 BY <1>3, Rows
<1>4. CASE p = 3 BY <1>4, Rows
<1>5. CASE p = 4 BY <1>5, Rows
<1>6. CASE p = 5 BY <1>6, Rows
<1>7. CASE p = 6 BY <1>7, Rows
<1> QED BY <1>1, <1>2, <1>3, <1>4, <1>5, <1>6, <1>7, EachPass

(* What the stream has of a pass: its rows, each with its filter byte. *)
RowLength(p) ==
  PNG_ROWBYTES(depth, IF job.interlaced THEN PassWidth(width, p) ELSE width) + 1
PassRows(p) ==
  IF ~job.interlaced THEN height
  ELSE IF PassWidth(width, p) = 0 THEN 0 ELSE PassHeight(height, p)
BytesOf(p) == PassRows(p) * RowLength(p)
BytesBefore(p) ==
  (IF 0 < p THEN BytesOf(0) ELSE 0) + (IF 1 < p THEN BytesOf(1) ELSE 0)
  + (IF 2 < p THEN BytesOf(2) ELSE 0) + (IF 3 < p THEN BytesOf(3) ELSE 0)
  + (IF 4 < p THEN BytesOf(4) ELSE 0) + (IF 5 < p THEN BytesOf(5) ELSE 0)
  + (IF 6 < p THEN BytesOf(6) ELSE 0)

(* How much of the stream a writer or reader has dealt with that is at row y of pass
   p.  If it handles the interlacing, y counts the rows of the image. *)
RowsAmong(handles, y, p) ==
  IF ~job.interlaced \/ ~handles THEN y
  ELSE IF PassWidth(width, p) = 0 THEN 0 ELSE PassHeight(y, p)
StreamAt(handles, p, y) ==
  BytesBefore(p) + (IF p = 7 THEN 0 ELSE RowsAmong(handles, y, p) * RowLength(p))

LEMMA PassBytes ==
  ASSUME JobOK, NEW p \in Passes
  PROVE  RowLength(p) \in Nat \ {0} /\ PassRows(p) \in Nat /\ PassRows(p) * RowLength(p) \in Nat
<1>1. PassWidth(width, p) \in Nat /\ PassHeight(height, p) \in Nat /\ width \in Nat
      /\ height \in Nat
  BY Sizes, PassSizes
<1>2. RowLength(p) \in Nat \ {0}
  BY <1>1, RowBytesType DEF RowLength
<1>3. PassRows(p) \in Nat
  BY <1>1 DEF PassRows
<1> QED BY <1>2, <1>3

(* The passes lie one after the other, and those without rows take no place. *)
LEMMA BytesBeforeNext ==
  ASSUME JobOK, NEW p \in 0 .. 7
  PROVE  /\ BytesBefore(0) = 0 /\ BytesBefore(p) \in Nat
         /\ p \in Passes => BytesBefore(p + 1) = BytesBefore(p) + PassRows(p) * RowLength(p)
         /\ BytesBefore(p) <= BytesBefore(7)
         /\ \A q \in Passes :
              p <= q /\ (\A k \in Passes : p <= k /\ k < q => PassRows(k) = 0)
                => BytesBefore(q) = BytesBefore(p)
         /\ (\A k \in Passes : p <= k => PassRows(k) = 0) => BytesBefore(7) = BytesBefore(p)
<1> DEFINE Of(q) == PassRows(q) * RowLength(q)
           Up(q) == (IF 0 < q THEN Of(0) ELSE 0) + (IF 1 < q THEN Of(1) ELSE 0)
                    + (IF 2 < q THEN Of(2) ELSE 0) + (IF 3 < q THEN Of(3) ELSE 0)
                    + (IF 4 < q THEN Of(4) ELSE 0) + (IF 5 < q THEN Of(5) ELSE 0)
                    + (IF 6 < q THEN Of(6) ELSE 0)
<1>1. \A q : BytesBefore(q) = Up(q)
  BY DEF BytesBefore, BytesOf
<1>2. \A q \in Passes : Of(q) \in Nat
  BY PassBytes
<1>3. \A q \in Passes : PassRows(q) = 0 => Of(q) = 0
  BY PassBytes
<1>4. /\ 0 \in Passes /\ 1 \in Passes /\ 2 \in Passes /\ 3 \in Passes
      /\ 4 \in Passes /\ 5 \in Passes /\ 6 \in Passes
  BY DEF Passes
<1>5. /\ Of(0) \in Nat /\ Of(1) \in Nat /\ Of(2) \in Nat /\ Of(3) \in Nat
      /\ Of(4) \in Nat /\ Of(5) \in Nat /\ Of(6) \in Nat
  BY <1>2, <1>4
<1>6. p = 0 \/ p = 1 \/ p = 2 \/ p = 3 \/ p = 4 \/ p = 5 \/ p = 6 \/ p = 7
  OBVIOUS
<1>8. \A q \in Passes : p <= q /\ (\A k \in Passes : p <= k /\ k < q => PassRows(k) = 0)
        => Up(q) = Up(p)
  <2> SUFFICES ASSUME NEW q \in Passes, p <= q,
                      \A k \in Passes : p <= k /\ k < q => PassRows(k) = 0
               PROVE  Up(q) = Up(p)
    OBVIOUS
  <2>1. \A k \in Passes : p <= k /\ k < q => Of(k) = 0
    BY <1>3
  <2>2. q = 0 \/ q = 1 \/ q = 2 \/ q = 3 \/ q = 4 \/ q = 5 \/ q = 6
    BY EachPass
  <2> HIDE DEF Of
  <2>3. \A k \in {0, 1, 2, 3, 4, 5, 6} : p <= k /\ k < q => Of(k) = 0
    BY <2>1, <1>4
  <2> QED BY <2>2, <2>3, <1>4, <1>5, <1>6
<1>9. (\A k \in Passes : p <= k => PassRows(k) = 0) => Up(7) = Up(p)
  <2> SUFFICES ASSUME \A k \in Passes : p <= k => PassRows(k) = 0
               PROVE  Up(7) = Up(p)
    OBVIOUS
  <2>1. \A k \in Passes : p <= k => Of(k) = 0
    BY <1>3
  <2> HIDE DEF Of
  <2>3. \A k \in {0, 1, 2, 3, 4, 5, 6} : p <= k => Of(k) = 0
    BY <2>1, <1>4
  <2> QED BY <2>3, <1>4, <1>5, <1>6
<1>7. /\ Up(0) = 0 /\ Up(p) \in Nat /\ Up(p) <= Up(7)
  <2> HIDE DEF Of
  <2> QED BY <1>5, <1>6
<1>10. p \in Passes => Up(p + 1) = Up(p) + Of(p)
  <2> HIDE DEF Of
  <2> SUFFICES ASSUME p \in Passes PROVE Up(p + 1) = Up(p) + Of(p)
    OBVIOUS
  <2>1. p = 0 \/ p = 1 \/ p = 2 \/ p = 3 \/ p = 4 \/ p = 5 \/ p = 6
    BY EachPass
  <2> QED BY <1>5, <2>1
<1> HIDE DEF Up
<1> QED BY <1>1, <1>7, <1>8, <1>9, <1>10

(* Row y of pass p, of n. *)
At(handles, p, y, n) ==
  /\ p \in 0 .. 7 /\ y \in Nat /\ n \in Nat
  /\ ~job.interlaced => p = 0 /\ n = height /\ y <= n
  /\ job.interlaced /\ p < 7 =>
       /\ y < n
       /\ handles => n = height
       /\ ~handles => n = PassHeight(height, p) /\ PassWidth(width, p) > 0
  /\ job.interlaced /\ p = 7 => y = 0 /\ (handles => n = height)

Skipped(handles, p, y) == job.interlaced /\ handles /\ SkipsRow(y, width, p)

(* The search for the next pass passes over those without pixels only. *)
LEMMA NextPassIs ==
  ASSUME JobOK, NEW p \in Passes
  PROVE  /\ NextPass(p) \in p + 1 .. 7
         /\ NextPass(p) # 7 => PassWidth(width, NextPass(p)) > 0 /\ PassHeight(height, NextPass(p)) > 0
         /\ \A k \in Passes : p < k /\ k < NextPass(p)
              => PassWidth(width, k) = 0 \/ PassHeight(height, k) = 0
<1> DEFINE C(q) == PassWidth(width, q) > 0 /\ PassHeight(height, q) > 0
           S == {q \in p + 1 .. 7 : q = 7 \/ C(q)}
<1>1. p \in 0 .. 6
  BY DEF Passes
<1>2. \A k \in Passes : ~C(k) => PassWidth(width, k) = 0 \/ PassHeight(height, k) = 0
  BY Sizes, PassSizes
<1>3. NextPass(p) = Min(S)
  BY DEF NextPass
<1> HIDE DEF C
<1>4. \E q \in S : \A k \in S : q <= k
  <2>1. 7 \in S
    BY <1>1
  <2> QED BY <1>1, <2>1
<1>5. Min(S) \in S /\ \A k \in S : Min(S) <= k
  BY <1>4 DEF Min
<1>6. Min(S) \in p + 1 .. 7 /\ (Min(S) # 7 => C(Min(S)))
  BY <1>5
<1>7. ASSUME NEW k \in Passes, p < k, k < Min(S) PROVE ~C(k)
  <2>1. k \in p + 1 .. 7 /\ k \notin S
    BY <1>1, <1>5, <1>6, <1>7 DEF Passes
  <2> QED BY <2>1
<1> HIDE DEF S
<1> QED BY <1>2, <1>3, <1>6, <1>7 DEF C

Step(handles, p, y) == IF Skipped(handles, p, y) THEN 0 ELSE RowLength(p)

LEMMA StreamAtStart ==
  ASSUME JobOK, NEW h \in BOOLEAN, NEW q \in 0 .. 7
  PROVE  StreamAt(h, q, 0) = BytesBefore(q)
<1>1. CASE q = 7
  BY <1>1, BytesBeforeNext DEF StreamAt
<1>2. CASE q # 7
  <2>1. q \in Passes
    BY <1>2 DEF Passes
  <2>2. RowsAmong(h, 0, q) = 0
    BY <2>1, NoRowsYet DEF RowsAmong
  <2>3. RowsAmong(h, 0, q) * RowLength(q) = 0
    BY <2>1, <2>2, PassBytes
  <2> QED BY <1>2, <2>3, BytesBeforeNext DEF StreamAt
<1> QED BY <1>1, <1>2

LEMMA CountOne ==
  ASSUME JobOK, NEW h \in BOOLEAN, NEW p \in Passes, NEW y \in Nat
  PROVE  /\ RowsAmong(h, y, p) \in Nat
         /\ RowsAmong(h, y + 1, p) = RowsAmong(h, y, p) + (IF Skipped(h, p, y) THEN 0 ELSE 1)
<1>1. CASE job.interlaced /\ h
  <2>1. SkipsRow(y, width, p) <=> ~RowInPass(y, p) \/ PassWidth(width, p) = 0
    BY SkippedRows, Sizes
  <2>2. PassHeight(y + 1, p) = PassHeight(y, p) + (IF RowInPass(y, p) THEN 1 ELSE 0)
    BY OneMoreRow
  <2>3. PassHeight(y, p) \in Nat
    BY PassSizes
  <2> HIDE DEF SkipsRow
  <2> QED BY <1>1, <2>1, <2>2, <2>3 DEF RowsAmong, Skipped
<1>2. CASE ~(job.interlaced /\ h)
  BY <1>2 DEF RowsAmong, Skipped
<1> QED BY <1>1, <1>2

(* The rows of the image that lie in a pass are the rows of that pass. *)
LEMMA CountAll ==
  ASSUME JobOK, NEW h \in BOOLEAN, NEW p \in Passes, NEW y, NEW n, At(h, p, y, n)
  PROVE  /\ RowsAmong(h, n, p) = PassRows(p)
         /\ RowsAmong(h, y, p) <= PassRows(p)
<1>1. PassWidth(width, p) \in Nat /\ PassHeight(height, p) \in Nat /\ width \in Nat
      /\ height \in Nat
  BY Sizes, PassSizes
<1>2. p \in Nat /\ p < 7 /\ y \in Nat /\ n \in Nat /\ y <= n
  BY DEF At, Passes
<1>3. RowsAmong(h, n, p) = PassRows(p)
  BY <1>1, <1>2, Sizes DEF RowsAmong, PassRows, At
<1>4. RowsAmong(h, y, p) <= RowsAmong(h, n, p)
  BY <1>1, <1>2, Monotone DEF RowsAmong
<1> QED BY <1>3, <1>4

(* One row on: the stream has what the row puts there, or nothing if it is passed over. *)
LEMMA Onward ==
  ASSUME JobOK, NEW h \in BOOLEAN, NEW p \in Passes, NEW y, NEW n, At(h, p, y, n), y < n
  PROVE  /\ StreamAt(h, p, y + 1) = StreamAt(h, p, y) + Step(h, p, y)
         /\ y + 1 < n \/ ~job.interlaced => At(h, p, y + 1, n)
<1>1. y \in Nat /\ n \in Nat /\ p \in 0 .. 6
  BY DEF At, Passes
<1> DEFINE a == RowsAmong(h, y, p)
           l == RowLength(p)
<1>2. RowsAmong(h, y + 1, p) = a + (IF Skipped(h, p, y) THEN 0 ELSE 1) /\ a \in Nat
  BY <1>1, CountOne
<1>3. l \in Nat /\ BytesBefore(p) \in Nat
  BY PassBytes, BytesBeforeNext, <1>1
<1>4. StreamAt(h, p, y) = BytesBefore(p) + a * l
      /\ StreamAt(h, p, y + 1) = BytesBefore(p) + RowsAmong(h, y + 1, p) * l
  BY <1>1 DEF StreamAt
<1>5. Step(h, p, y) = IF Skipped(h, p, y) THEN 0 ELSE l
  BY DEF Step
<1>7. y + 1 < n \/ ~job.interlaced => At(h, p, y + 1, n)
  BY <1>1 DEF At
<1> HIDE DEF a, l
<1>6. (a + 1) * l = a * l + l /\ (a + 0) * l = a * l /\ a * l \in Nat
  BY <1>2, <1>3
<1> QED BY <1>2, <1>3, <1>4, <1>5, <1>6, <1>7

(* From the last row of a pass to the first of pass q, with nothing in between. *)
LEMMA EnterPass ==
  ASSUME JobOK, job.interlaced, NEW h \in BOOLEAN, NEW p \in Passes, NEW y, NEW n,
         At(h, p, y, n), y + 1 = n,
         NEW q \in p + 1 .. 7,
         ~h /\ q # 7 => PassWidth(width, q) > 0 /\ PassHeight(height, q) > 0,
         \A k \in Passes : p < k /\ k < q
           => PassWidth(width, k) = 0 \/ PassHeight(height, k) = 0
  PROVE  /\ At(h, q, 0, IF h \/ q = 7 THEN n ELSE PassHeight(height, q))
         /\ StreamAt(h, q, 0) = StreamAt(h, p, y) + Step(h, p, y)
<1>1. y \in Nat /\ n \in Nat /\ p \in 0 .. 6 /\ p + 1 \in 0 .. 7 /\ y < n
  BY DEF At, Passes
<1>3. \A k \in Passes : p + 1 <= k /\ k < q => PassRows(k) = 0
  BY <1>1 DEF PassRows, Passes
<1>4. BytesBefore(q) = BytesBefore(p + 1)
  <2>1. CASE q = 7
    <3>1. \A k \in Passes : p + 1 <= k => PassRows(k) = 0
      BY <1>3, <2>1 DEF Passes
    <3> QED BY <1>1, <2>1, <3>1, BytesBeforeNext
  <2>2. CASE q # 7
    <3>1. q \in Passes /\ p + 1 <= q
      BY <1>1, <2>2 DEF Passes
    <3> QED BY <1>1, <1>3, <3>1, BytesBeforeNext
  <2> QED BY <2>1, <2>2
<1>5. StreamAt(h, q, 0) = BytesBefore(p + 1)
  <2>1. q \in 0 .. 7
    BY <1>1
  <2> QED BY <1>4, <2>1, StreamAtStart
<1>6. BytesBefore(p + 1) = StreamAt(h, p, n)
  BY <1>1, CountAll, BytesBeforeNext DEF StreamAt, BytesOf
<1>7. StreamAt(h, p, n) = StreamAt(h, p, y) + Step(h, p, y)
  <2>1. StreamAt(h, p, y + 1) = StreamAt(h, p, y) + Step(h, p, y)
    BY <1>1, Onward
  <2> QED BY <2>1
<1>8. At(h, q, 0, IF h \/ q = 7 THEN n ELSE PassHeight(height, q))
  <2>1. q \in 0 .. 7 /\ PassHeight(height, p) \in Nat
    BY <1>1, PassSizes, Sizes
  <2>2. q # 7 => PassHeight(height, q) \in Nat
    <3>1. q # 7 => q \in Passes
      BY <2>1 DEF Passes
    <3> QED BY <3>1, PassSizes, Sizes
  <2> QED BY <1>1, <2>1, <2>2, Sizes DEF At
<1> QED BY <1>5, <1>6, <1>7, <1>8

----------------------------------------------------------------------------
(* The filters. *)

(* Induction over the numbers up to n: the library states it with an operator for a
   parameter. *)
LEMMA Climbs ==
  ASSUME NEW S, NEW n \in Nat, 0 \in S, \A i \in 0 .. n - 1 : i \in S => i + 1 \in S
  PROVE  n \in S
<1> SUFFICES ASSUME n \notin S
             PROVE  FALSE
  OBVIOUS
<1> DEFINE T == {i \in 0 .. n : i \in S}
           f == [i \in T |-> i + 1]
<1>1. IsFiniteSet(T)
  <2>1. IsFiniteSet(0 .. n)
    BY FS_Interval
  <2>2. QED
    BY <2>1, FS_Subset
<1>2. IsFiniteSet(T \ {0}) /\ Cardinality(T \ {0}) < Cardinality(T)
  <2>1. 0 \in T
    OBVIOUS
  <2> HIDE DEF T
  <2>2. Cardinality(T) \in Nat
    BY <1>1, FS_CardinalityType
  <2>3. IsFiniteSet(T \ {0}) /\ Cardinality(T \ {0}) = Cardinality(T) - 1
    BY <1>1, <2>1, FS_RemoveElement
  <2>4. QED
    BY <2>2, <2>3
<1>3. f \in [T -> T \ {0}]
  <2> SUFFICES ASSUME NEW i \in T
               PROVE  i + 1 \in T \ {0}
    OBVIOUS
  <2>1. i \in 0 .. n - 1
    OBVIOUS
  <2>2. QED
    BY <2>1
<1>4. \A x, y \in T : x # y => f[x] # f[y]
  OBVIOUS
<1> HIDE DEF T, f
<1>5. \E x, y \in T : x # y /\ f[x] = f[y]
  BY <1>1, <1>2, <1>3, FS_PigeonHole
<1>6. QED
  BY <1>4, <1>5

(* Byte k of a row that is sent with filter f; the first byte tells the filter. *)
Sent(f, raw, above, k) ==
  IF k = 0 THEN f
  ELSE IF f = PNG_FILTER_VALUE_NONE THEN raw[k]
  ELSE FilteredByte(f, raw, above, bpp, k)

(* The two ways of choosing among Paeth's candidates are one. *)
LEMMA PaethAgrees ==
  ASSUME NEW a \in Byte, NEW b \in Byte, NEW c \in Byte
  PROVE  ReaderPaeth(a, b, c) = WriterPaeth(a, b, c) /\ WriterPaeth(a, b, c) \in Byte
BY DEF ReaderPaeth, WriterPaeth, Distance, Byte

(* A difference modulo 256, added back, gives the byte. *)
LEMMA Difference ==
  ASSUME NEW x \in Byte, NEW p \in Byte
  PROVE  (x - p) % 256 \in Byte /\ (((x - p) % 256) + p) % 256 = x
BY DEF Byte

LEMMA Halves ==
  ASSUME NEW x \in Byte, NEW y \in Byte
  PROVE  x \div 2 \in Byte /\ (x + y) \div 2 \in Byte
BY DEF Byte

LEMMA LooksBack ==
  ASSUME JobOK
  PROVE  bpp \in Nat /\ bpp > 0
<1>1. CASE depth \in {1, 2, 4}
  <2>1. \A d \in {1, 2, 4} : (d + 7) \div 8 = 1
    OBVIOUS
  <2> QED BY <1>1, <2>1 DEF bpp
<1>2. CASE depth \in {8 * k : k \in 1 .. 8}
  <2>1. PICK k \in 1 .. 8 : depth = 8 * k
    BY <1>2
  <2>2. (8 * k + 7) \div 8 = k
    OBVIOUS
  <2> QED BY <2>1, <2>2 DEF bpp
<1> QED BY <1>1, <1>2 DEF JobOK, JobType, depth

(* The heart of it: with the bytes before it decoded, and the row above the same for
   both sides, byte i comes out as it was written. *)
LEMMA NextByte ==
  ASSUME JobOK, NEW n \in Nat, NEW i \in 1 .. n, NEW f \in 1 .. 4,
         NEW raw, NEW above, \A k \in 1 .. n : raw[k] \in Byte /\ above[k] \in Byte,
         NEW row, row[i] = FilteredByte(f, raw, above, bpp, i),
         \A k \in 1 .. i - 1 : row[k] = raw[k],
         i >= FirstByte(f, bpp)
  PROVE  DecodedByte(f, row, above, bpp, i) = raw[i]
<1>1. bpp \in Nat /\ bpp > 0
  BY LooksBack
<1>2. raw[i] \in Byte /\ above[i] \in Byte
  OBVIOUS
<1> DEFINE b == bpp
<1>3. ASSUME i > b
      PROVE  row[i - b] = raw[i - b] /\ raw[i - b] \in Byte /\ above[i - b] \in Byte
  BY <1>1, <1>3
<1>4. CASE f = PNG_FILTER_VALUE_SUB
  <2>1. i > bpp
    BY <1>1, <1>4 DEF FirstByte
  <2>2. row[i] = (raw[i] - raw[i - bpp]) % 256
    BY <1>1, <1>4, <2>1 DEF FilteredByte, SubByte, PNG_FILTER_VALUE_SUB
  <2>3. DecodedByte(f, row, above, bpp, i) = (row[i] + row[i - bpp]) % 256
    BY <1>4 DEF DecodedByte, UnSub, PNG_FILTER_VALUE_SUB
  <2> QED BY <1>2, <1>3, <2>1, <2>2, <2>3, Difference
<1>5. CASE f = PNG_FILTER_VALUE_UP
  <2>1. row[i] = (raw[i] - above[i]) % 256
    BY <1>5 DEF FilteredByte, UpByte, PNG_FILTER_VALUE_SUB, PNG_FILTER_VALUE_UP
  <2>2. DecodedByte(f, row, above, bpp, i) = (row[i] + above[i]) % 256
    BY <1>5 DEF DecodedByte, UnUp, PNG_FILTER_VALUE_SUB, PNG_FILTER_VALUE_UP
  <2> QED BY <1>2, <2>1, <2>2, Difference
<1>6. CASE f = PNG_FILTER_VALUE_AVG
  <2> DEFINE p == IF i <= bpp THEN above[i] \div 2 ELSE (above[i] + raw[i - bpp]) \div 2
  <2>1. p \in Byte
    <3>1. CASE i <= bpp
      BY <1>2, <3>1, Halves
    <3>2. CASE ~(i <= bpp)
      <4>1. i > bpp
        BY <1>1, <3>2
      <4>2. (above[i] + raw[i - bpp]) \div 2 \in Byte
        BY <1>2, <1>3, <4>1, Halves
      <4> QED BY <3>2, <4>2
    <3> QED BY <3>1, <3>2
  <2>2. row[i] = (raw[i] - p) % 256
    BY <1>6
    DEF FilteredByte, AvgByte, PNG_FILTER_VALUE_SUB, PNG_FILTER_VALUE_UP, PNG_FILTER_VALUE_AVG
  <2>3. DecodedByte(f, row, above, bpp, i) = (row[i] + p) % 256
    BY <1>1, <1>3, <1>6
    DEF DecodedByte, UnAvg, PNG_FILTER_VALUE_SUB, PNG_FILTER_VALUE_UP, PNG_FILTER_VALUE_AVG
  <2> HIDE DEF p
  <2> QED BY <1>2, <2>1, <2>2, <2>3, Difference
<1>7. CASE f = PNG_FILTER_VALUE_PAETH
  <2> DEFINE p == IF i <= bpp THEN above[i]
                  ELSE WriterPaeth(raw[i - bpp], above[i], above[i - bpp])
  <2>1. p \in Byte
    BY <1>1, <1>2, <1>3, PaethAgrees
  <2>2. row[i] = (raw[i] - p) % 256
    BY <1>7 DEF FilteredByte, PaethByte, PNG_FILTER_VALUE_SUB, PNG_FILTER_VALUE_UP,
                PNG_FILTER_VALUE_AVG, PNG_FILTER_VALUE_PAETH
  <2>3. DecodedByte(f, row, above, bpp, i) = (row[i] + p) % 256
    <3>1. CASE i <= bpp
      BY <1>7, <3>1 DEF DecodedByte, UnPaeth, PNG_FILTER_VALUE_SUB, PNG_FILTER_VALUE_UP,
                        PNG_FILTER_VALUE_AVG, PNG_FILTER_VALUE_PAETH
    <3>2. CASE i > bpp
      <4>1. ReaderPaeth(row[i - bpp], above[i], above[i - bpp]) = p
        BY <1>1, <1>2, <1>3, <3>2, PaethAgrees
      <4> HIDE DEF p
      <4> QED BY <1>1, <1>7, <3>2, <4>1
              DEF DecodedByte, UnPaeth, PNG_FILTER_VALUE_SUB, PNG_FILTER_VALUE_UP,
                  PNG_FILTER_VALUE_AVG, PNG_FILTER_VALUE_PAETH
    <3> QED BY <1>1, <3>1, <3>2
  <2> HIDE DEF p
  <2> QED BY <1>2, <2>1, <2>2, <2>3, Difference
<1> QED BY <1>4, <1>5, <1>6, <1>7
        DEF PNG_FILTER_VALUE_SUB, PNG_FILTER_VALUE_UP, PNG_FILTER_VALUE_AVG, PNG_FILTER_VALUE_PAETH

(* The loop over the row, byte by byte. *)
Undo(row, bytes, prev_row, k) ==
  [bytes EXCEPT ![k] = DecodedByte(row[0], bytes, prev_row, bpp, k)]

LEMMA UndoneByByte ==
  ASSUME JobOK, NEW row, NEW prev_row, NEW n \in Nat, row[0] # PNG_FILTER_VALUE_NONE
  PROVE  \E undone :
           /\ png_read_filter_row(row, prev_row, n) = undone[n]
           /\ \A k \in 0 .. n :
                undone[k] = IF k < FirstByte(row[0], bpp) THEN row
                            ELSE Undo(row, undone[k - 1], prev_row, k)
<1> DEFINE first == FirstByte(row[0], bpp)
           OneMore(bytes, k) == IF k < first THEN row ELSE Undo(row, bytes, prev_row, k)
           F(g, m) == g = [k \in 0 .. m |-> IF k < first THEN row
                                            ELSE Undo(row, g[k - 1], prev_row, k)]
           S == {m \in 0 .. n : \E g : F(g, m)}
<1>0. first \in Nat /\ 0 < first
  BY LooksBack DEF FirstByte
<1>1. 0 \in S
  <2> DEFINE g == [k \in 0 .. 0 |-> row]
  <2>1. \A k \in 0 .. 0 : row = IF k < first THEN row ELSE Undo(row, g[k - 1], prev_row, k)
    BY <1>0
  <2>2. F(g, 0)
    BY <2>1
  <2> HIDE DEF F, g
  <2> QED BY <2>2
<1>2. ASSUME NEW m \in 0 .. n - 1, m \in S PROVE m + 1 \in S
  <2>1. PICK g : F(g, m)
    BY <1>2
  <2> DEFINE next == OneMore(g[m], m + 1)
             more == [k \in 0 .. m + 1 |-> IF k = m + 1 THEN next ELSE g[k]]
  <2>2. ASSUME NEW k \in 0 .. m + 1 PROVE more[k] = OneMore(more[k - 1], k)
    <3>1. CASE k = m + 1
      <4>1. more[k] = next /\ more[k - 1] = g[m]
        BY <3>1
      <4> HIDE DEF more
      <4> QED BY <3>1, <4>1
    <3>2. CASE k # m + 1
      <4>1. k \in 0 .. m /\ more[k] = g[k]
        BY <3>2
      <4>2. k # 0 => more[k - 1] = g[k - 1]
        BY <3>2
      <4>3. g[k] = OneMore(g[k - 1], k)
        BY <2>1, <4>1
      <4> HIDE DEF more, first
      <4> QED BY <1>0, <4>1, <4>2, <4>3
    <3> QED BY <3>1, <3>2
  <2>3. F(more, m + 1)
    <3>1. more = [k \in 0 .. m + 1 |-> more[k]]
      OBVIOUS
    <3> HIDE DEF more
    <3> QED BY <2>2, <3>1
  <2> HIDE DEF F, more
  <2>4. m + 1 \in 0 .. n
    OBVIOUS
  <2> QED BY <2>3, <2>4
<1>3. n \in S
  <2> HIDE DEF S
  <2> QED BY <1>1, <1>2, Climbs
<1> DEFINE undone == CHOOSE g : F(g, n)
<1>4. F(undone, n)
  <2> HIDE DEF F
  <2> QED BY <1>3
<1>5. png_read_filter_row(row, prev_row, n) = undone[n]
  BY Zenon DEF png_read_filter_row, Undo
<1> HIDE DEF undone
<1>6. \A k \in 0 .. n : undone[k] = IF k < first THEN row ELSE Undo(row, undone[k - 1], prev_row, k)
  BY <1>4
<1> QED BY <1>5, <1>6

(* Two rows have the same first n bytes. *)
Agree(n, a, b) == \A k \in 1 .. n : a[k] = b[k]

BothBytes(n, raw, above) == \A k \in 1 .. n : raw[k] \in Byte /\ above[k] \in Byte

(* The row `raw' and its filter byte, as it is sent. *)
Filtered(row, f, raw, above, n) == \A k \in 0 .. n : row[k] = Sent(f, raw, above, k)

IsRow(row, last) == row \in [0 .. last -> {row[k] : k \in 0 .. last}]

Restored(row, raw, n) == [k \in DOMAIN row |-> IF k \in 1 .. n THEN raw[k] ELSE row[k]]

(* A row that was sent with any filter is what it was before, whatever its length, the
   size of its pixels and its bytes: png_read_filter_row works in place, from left to
   right, with predictions from bytes that it has restored itself, and
   png_write_find_filter's five filters had the original ones. *)
THEOREM FilterIsUndone ==
  ASSUME JobOK, NEW n \in Nat, NEW last \in Nat, n <= last, NEW f \in 0 .. 4,
         NEW raw, NEW above, BothBytes(n, raw, above),
         NEW row, IsRow(row, last), Filtered(row, f, raw, above, n),
         NEW prev_row, Agree(n, prev_row, above)
  PROVE  png_read_filter_row(row, prev_row, n) = Restored(row, raw, n)
<1> USE DEF Agree, BothBytes, Filtered
<1> DEFINE Values == {row[k] : k \in 0 .. last}
<1> row \in [0 .. last -> Values]
  BY DEF IsRow
<1> HIDE DEF Values
<1> DEFINE result == png_read_filter_row(row, prev_row, n)
           first == FirstByte(f, bpp)
<1>1. row[0] = f
  BY DEF Sent
<1>s. \A k \in 1 .. n : k \in 0 .. n /\ row[k] = Sent(f, raw, above, k) /\ k # 0
  OBVIOUS
<1>2. CASE f = PNG_FILTER_VALUE_NONE
  <2>1. result = row
    BY <1>1, <1>2, Zenon DEF png_read_filter_row
  <2>2. \A k \in 1 .. n : row[k] = raw[k]
    BY <1>s, <1>2 DEF Sent
  <2>3. row = [k \in 0 .. last |-> IF k \in 1 .. n THEN raw[k] ELSE row[k]]
    BY <2>2
  <2>4. DOMAIN row = 0 .. last
    OBVIOUS
  <2> QED BY <2>1, <2>3, <2>4, Zenon DEF Restored
<1>3. CASE f # PNG_FILTER_VALUE_NONE
  <2>1. PICK undone :
          /\ result = undone[n]
          /\ \A k \in 0 .. n : undone[k] = IF k < first THEN row
                                           ELSE Undo(row, undone[k - 1], prev_row, k)
    <3> HIDE DEF result
    <3> QED BY <1>1, <1>3, UndoneByByte DEF result
  <2> HIDE DEF result
  <2>2. f \in 1 .. 4 /\ first \in Nat /\ 0 < first
    BY <1>3, LooksBack DEF FirstByte, PNG_FILTER_VALUE_NONE
  <2>3. \A k \in 1 .. n : row[k] = FilteredByte(f, raw, above, bpp, k)
    BY <1>s, <1>3 DEF Sent
  <2>4. ASSUME NEW k \in 1 .. n, k < first PROVE row[k] = raw[k]
    <3>1. bpp \in Nat
      BY LooksBack
    <3>2. f = PNG_FILTER_VALUE_SUB /\ k <= bpp
      BY <2>2, <2>4, <3>1 DEF FirstByte
    <3> QED BY <2>3, <3>2 DEF FilteredByte, SubByte
  <2> DEFINE Progress(m) ==
               undone[m] = [k \in 0 .. last |-> IF k \in 1 .. m THEN raw[k] ELSE row[k]]
             S == {m \in 0 .. n : Progress(m)}
  <2>5. 0 \in S
    <3>1. undone[0] = row
      BY <2>1, <2>2
    <3>2. row = [k \in 0 .. last |-> IF k \in 1 .. 0 THEN raw[k] ELSE row[k]]
      OBVIOUS
    <3> QED BY <3>1, <3>2
  <2>6. ASSUME NEW m \in 0 .. n - 1, m \in S PROVE m + 1 \in S
    <3> DEFINE i == m + 1
    <3>1. i \in 1 .. n /\ i \in 0 .. n /\ i \in 0 .. last /\ i - 1 = m
      OBVIOUS
    <3>2. undone[m] = [k \in 0 .. last |-> IF k \in 1 .. m THEN raw[k] ELSE row[k]]
      BY <2>6
    <3>3. undone[i] = [k \in 0 .. last |-> IF k \in 1 .. i THEN raw[k] ELSE row[k]]
      <4>1. CASE i < first
        <5>1. undone[i] = row
          BY <2>1, <3>1, <4>1
        <5>2. \A k \in 1 .. i : row[k] = raw[k]
          BY <2>2, <2>4, <3>1, <4>1
        <5> HIDE DEF i, first
        <5>3. row = [k \in 0 .. last |-> IF k \in 1 .. i THEN raw[k] ELSE row[k]]
          BY <5>2
        <5> QED BY <5>1, <5>3
      <4>2. CASE i >= first
        <5> DEFINE bytes == undone[m]
        <5>1. undone[i] = Undo(row, bytes, prev_row, i)
          <6>1. undone[i] = IF i < first THEN row ELSE Undo(row, undone[i - 1], prev_row, i)
            BY <2>1, <3>1
          <6>2. undone[i - 1] = bytes
            BY <3>1
          <6> HIDE DEF i, first, bytes
          <6>3. ~(i < first)
            BY <2>2, <3>1, <4>2
          <6> QED BY <6>1, <6>2, <6>3
        <5>2. bytes[i] = FilteredByte(f, raw, above, bpp, i)
          BY <2>3, <3>1, <3>2
        <5>3. \A k \in 1 .. i - 1 : bytes[k] = raw[k]
          BY <3>1, <3>2
        <5>4. bytes = [k \in 0 .. last |-> IF k \in 1 .. m THEN raw[k] ELSE row[k]]
          BY <3>2
        <5> HIDE DEF i, bytes
        <5>5. DecodedByte(f, bytes, above, bpp, i) = raw[i]
          BY <2>2, <3>1, <4>2, <5>2, <5>3, NextByte
        <5>6. DecodedByte(f, bytes, prev_row, bpp, i) = DecodedByte(f, bytes, above, bpp, i)
          <6>1. prev_row[i] = above[i] /\ bpp \in Nat /\ bpp > 0
            BY <3>1, LooksBack
          <6>2. i > bpp => prev_row[i - bpp] = above[i - bpp]
            BY <3>1, <6>1
          <6> QED BY <3>1, <6>1, <6>2 DEF DecodedByte, UnSub, UnUp, UnAvg, UnPaeth
        <5>7. undone[i] = [bytes EXCEPT ![i] = raw[i]]
          BY <1>1, <5>1, <5>5, <5>6 DEF Undo
        <5>8. undone[i] = [k \in 0 .. last |-> IF k = i THEN raw[i] ELSE bytes[k]]
          BY <5>4, <5>7
        <5>9. ASSUME NEW k \in 0 .. last
              PROVE  (IF k = i THEN raw[i] ELSE bytes[k]) = IF k \in 1 .. i THEN raw[k] ELSE row[k]
          <6>1. bytes[k] = IF k \in 1 .. m THEN raw[k] ELSE row[k]
            BY <5>4
          <6>2. k \in 1 .. i <=> k = i \/ k \in 1 .. m
            BY <3>1
          <6> QED BY <6>1, <6>2
        <5> QED BY <5>8, <5>9
      <4> HIDE DEF i
      <4> QED BY <2>2, <3>1, <4>1, <4>2
    <3> QED BY <3>1, <3>3
  <2>7. n \in S
    <3> HIDE DEF S
    <3> QED BY <2>5, <2>6, Climbs
  <2>8. result = [k \in 0 .. last |-> IF k \in 1 .. n THEN raw[k] ELSE row[k]]
    BY <2>1, <2>7
  <2>9. DOMAIN row = 0 .. last
    OBVIOUS
  <2> QED BY <2>8, <2>9, Zenon DEF result, Restored
<1> QED BY <1>2, <1>3

----------------------------------------------------------------------------
(* The writer puts each row where it belongs. *)

WriterType ==
  [row_number : Nat, pass : 0 .. 7, num_rows : Nat, usr_width : Nat, do_filter : SUBSET (0 .. 4),
   row_buf : 0 .. 4, prev_row : 0 .. 4, try_row : 0 .. 4, tst_row : 0 .. 4]

WriterWidth(w) ==
  w.pass # 7 =>
    w.usr_width = (IF ~job.interlaced \/ job.writeHandling THEN width ELSE PassWidth(width, w.pass))

Writing(w) ==
  /\ w \in WriterType /\ w.row_buf # NULL
  /\ At(job.writeHandling, w.pass, w.row_number, w.num_rows)
  /\ WriterWidth(w)

(* png_write_finish_row leaves the writer at the row that comes next. *)
LEMMA FinishRow ==
  ASSUME JobOK, NEW w, NEW m, Writing(w), w.pass # 7, w.row_number < w.num_rows,
         png_write_finish_row(w, m)
  PROVE  /\ Writing(wr')
         /\ StreamAt(job.writeHandling, wr'.pass, wr'.row_number) =
              StreamAt(job.writeHandling, w.pass, w.row_number)
                + Step(job.writeHandling, w.pass, w.row_number)
<1> DEFINE h == job.writeHandling
           next == IF h THEN w.pass + 1 ELSE NextPass(w.pass)
           y == w.row_number
           n == w.num_rows
<1>1. h \in BOOLEAN /\ width \in Nat /\ height \in Nat /\ w \in WriterType /\ y < n
      /\ w.pass \in Passes
      /\ y \in Nat /\ n \in Nat /\ job.interlaced \in BOOLEAN /\ At(h, w.pass, y, n)
         /\ WriterWidth(w)
      /\ w.row_buf # NULL
  BY Sizes DEF Writing, WriterType, Passes
<1>2. CASE y + 1 >= n /\ job.interlaced
  <2>1. y + 1 = n
    BY <1>1, <1>2
  <2>2. /\ next \in w.pass + 1 .. 7
        /\ At(h, next, 0, IF h \/ next = 7 THEN n ELSE PassHeight(height, next))
        /\ StreamAt(h, next, 0) = StreamAt(h, w.pass, y) + Step(h, w.pass, y)
    <3>1. /\ next \in w.pass + 1 .. 7
          /\ ~h /\ next # 7 => PassWidth(width, next) > 0 /\ PassHeight(height, next) > 0
          /\ \A k \in Passes : w.pass < k /\ k < next
               => PassWidth(width, k) = 0 \/ PassHeight(height, k) = 0
      BY <1>1, NextPassIs DEF Passes
    <3> DEFINE p == w.pass
    <3>2. p \in Passes /\ At(h, p, y, n) /\ next \in p + 1 .. 7
      BY <1>1, <3>1
    <3> HIDE DEF next, h
    <3> QED BY <1>1, <1>2, <2>1, <3>1, <3>2, EnterPass
  <2>3. next \in 0 .. 7 /\ (next # 7 => PassWidth(width, next) \in Nat /\ PassHeight(height, next) \in Nat)
    <3> HIDE DEF next
    <3>1. next \in 0 .. 7
      BY <1>1, <2>2 DEF Passes
    <3>2. next # 7 => next \in Passes
      BY <3>1 DEF Passes
    <3> QED BY <1>1, <3>1, <3>2, PassSizes
  <2>4. wr' = [w EXCEPT !.row_number = 0, !.pass = next,
                  !.usr_width = IF h \/ next = 7 THEN @ ELSE PassWidth(width, next),
                  !.num_rows  = IF h \/ next = 7 THEN @ ELSE PassHeight(height, next)]
    BY <1>1, <1>2 DEF png_write_finish_row
  <2> HIDE DEF next, h
  <2>5. /\ wr' \in WriterType /\ wr'.row_number = 0 /\ wr'.pass = next /\ wr'.row_buf = w.row_buf
        /\ wr'.num_rows = (IF h \/ next = 7 THEN n ELSE PassHeight(height, next))
        /\ wr'.usr_width = (IF h \/ next = 7 THEN w.usr_width ELSE PassWidth(width, next))
    BY <1>1, <2>3, <2>4 DEF WriterType
  <2>6. w.pass # 7
    BY <1>1 DEF Passes
  <2>7. WriterWidth(wr')
    BY <1>1, <1>2, <2>5, <2>6 DEF WriterWidth, h
  <2> QED BY <1>1, <2>2, <2>5, <2>7 DEF Writing, h
<1>3. CASE ~(y + 1 >= n /\ job.interlaced)
  <2>1. wr' = [w EXCEPT !.row_number = @ + 1]
    BY <1>1, <1>3 DEF png_write_finish_row
  <2>2. /\ wr' \in WriterType /\ wr'.row_number = y + 1 /\ wr'.pass = w.pass /\ wr'.row_buf = w.row_buf
        /\ wr'.num_rows = n /\ wr'.usr_width = w.usr_width
    BY <1>1, <2>1 DEF WriterType
  <2>3. y + 1 < n \/ ~job.interlaced
    BY <1>1, <1>3
  <2>4. At(h, w.pass, y + 1, n)
        /\ StreamAt(h, w.pass, y + 1) = StreamAt(h, w.pass, y) + Step(h, w.pass, y)
    BY <1>1, <2>3, Onward
  <2>5. WriterWidth(wr')
    BY <1>1, <2>2 DEF WriterWidth
  <2> QED BY <1>1, <2>2, <2>4, <2>5 DEF Writing
<1> QED BY <1>2, <1>3

Kept(v, w) ==
  /\ v \in WriterType
  /\ v.row_number = w.row_number /\ v.pass = w.pass /\ v.num_rows = w.num_rows
  /\ v.usr_width = w.usr_width /\ v.row_buf = w.row_buf /\ v.prev_row = w.prev_row

Trying(c, w) ==
  /\ c \in [w : {c.w}, mem : {c.mem}, best_row : {c.best_row}, n : {c.n}, most : {c.most}, mins : {c.mins}]
  /\ Kept(c.w, w)

LEMMA TryKeeps ==
  ASSUME NEW c, NEW w, NEW f, Trying(c, w)
  PROVE  Trying(TryFilter(c, f), w)
<1> DEFINE try == c.w.try_row
           m == Tried(c, f)
           s == SetupRow(c, f).sum
           v == Exchanged(c.w)
<1>1. TryFilter(c, f) =
       IF f \notin c.w.do_filter THEN c
       ELSE IF c.w.do_filter = {f} THEN [c EXCEPT !.mem = m, !.best_row = try]
       ELSE IF s >= c.mins THEN [c EXCEPT !.mem = m]
       ELSE [c EXCEPT !.w = v, !.mem = m, !.best_row = try, !.mins = s]
  BY DEF TryFilter
<1>2. Kept(v, w)
  BY DEF Trying, Kept, WriterType, Exchanged
<1> HIDE DEF m, s, v
<1>3. Trying([c EXCEPT !.mem = m, !.best_row = try], w) /\ Trying([c EXCEPT !.mem = m], w)
  BY DEF Trying
<1>4. Trying([c EXCEPT !.w = v, !.mem = m, !.best_row = try, !.mins = s], w)
  BY <1>2 DEF Trying
<1> QED BY Zenon, <1>1, <1>3, <1>4

(* The search for the best filter moves rows about but changes no place or size. *)
LEMMA FindKeeps ==
  ASSUME NEW w, NEW buffers, NEW n, w \in WriterType
  PROVE  Kept(png_write_find_filter(w, buffers, n).w, w)
<1> DEFINE most == 256 * (n + 1)
           compared == /\ PNG_FILTER_VALUE_NONE \in w.do_filter
                       /\ w.do_filter # {PNG_FILTER_VALUE_NONE}
           plain == Weights(buffers[w.row_buf], n)[n]
           mins == IF compared THEN plain ELSE most
           c == [w |-> w, mem |-> buffers, best_row |-> w.row_buf, n |-> n, most |-> most, mins |-> mins]
           c1 == TryFilter(c, PNG_FILTER_VALUE_SUB)
           c2 == TryFilter(c1, PNG_FILTER_VALUE_UP)
           c3 == TryFilter(c2, PNG_FILTER_VALUE_AVG)
           c4 == TryFilter(c3, PNG_FILTER_VALUE_PAETH)
<1>1. png_write_find_filter(w, buffers, n) = c4
  BY Zenon DEF png_write_find_filter
<1> HIDE DEF most, mins
<1>2. Trying(c, w)
  BY DEF Trying, Kept
<1> HIDE DEF c
<1>3. Trying(c1, w)
  BY <1>2, TryKeeps
<1> HIDE DEF c1
<1>4. Trying(c2, w)
  BY <1>3, TryKeeps
<1> HIDE DEF c2
<1>5. Trying(c3, w)
  BY <1>4, TryKeeps
<1> HIDE DEF c3
<1>6. Trying(c4, w)
  BY <1>5, TryKeeps
<1> HIDE DEF c4
<1> QED BY <1>1, <1>6 DEF Trying

IsSequence(s) == \E S : s \in Seq(S)

LEMMA Appended ==
  ASSUME NEW s, IsSequence(s), NEW n \in Nat, NEW f, DOMAIN f = 1 .. n,
         f = [k \in 1 .. n |-> f[k]]
  PROVE  IsSequence(s \o f) /\ Len(s \o f) = Len(s) + n
<1>1. PICK S : s \in Seq(S)
  BY DEF IsSequence
<1> DEFINE T == S \cup {f[k] : k \in 1 .. n}
<1>2. f \in [1 .. n -> T]
  OBVIOUS
<1>3. s \in Seq(T)
  BY <1>1
<1> HIDE DEF T
<1>4. f \in Seq(T)
  BY <1>2
<1>5. Len(f) = n
  BY <1>4
<1>6. s \o f \in Seq(T) /\ Len(s \o f) = Len(s) + Len(f)
  BY <1>3, <1>4, ConcatProperties
<1> QED BY <1>5, <1>6 DEF IsSequence

WriterOK(w, s) ==
  /\ w \in WriterType /\ IsSequence(s)
  /\ w.row_buf = NULL => s = <<>> /\ w.row_number = 0 /\ w.pass = 0 /\ w.num_rows = 0
  /\ w.row_buf # NULL =>
       Writing(w) /\ Len(s) = StreamAt(job.writeHandling, w.pass, w.row_number)

LEMMA FirstPass ==
  ASSUME NEW n \in Nat \ {0}
  PROVE  PassWidth(n, 0) > 0 /\ PassHeight(n, 0) > 0
BY Columns, Rows DEF PassWidth, PassHeight

(* The first call of png_write_row puts the writer at the first row. *)
LEMMA StartWriting ==
  ASSUME JobOK, wr \in WriterType
  PROVE  /\ Writing(png_write_start_row)
         /\ png_write_start_row.row_number = 0 /\ png_write_start_row.pass = 0
         /\ png_write_start_row.row_number < png_write_start_row.num_rows
<1> DEFINE f == (IF Useful(wr.do_filter) = {} THEN {PNG_FILTER_VALUE_NONE} ELSE Useful(wr.do_filter))
           w == png_write_start_row
           whole == ~job.interlaced \/ job.writeHandling
           try == (IF f # {PNG_FILTER_VALUE_NONE} THEN 2 ELSE NULL)
           tst == (IF Several(f) THEN 3 ELSE NULL)
           prev == (IF f \cap UsesPrevRow # {} THEN 4 ELSE NULL)
<1>1. f \in SUBSET (0 .. 4)
  BY DEF Useful, WriterType, PNG_FILTER_VALUE_NONE
<1>2. /\ 0 \in Passes /\ PassWidth(width, 0) \in Nat /\ PassHeight(height, 0) \in Nat
      /\ PassWidth(width, 0) > 0 /\ PassHeight(height, 0) > 0
  <2>1. 0 \in Passes
    BY DEF Passes
  <2>2. PassWidth(width, 0) \in Nat /\ PassHeight(height, 0) \in Nat
    BY <2>1, Sizes, PassSizes
  <2>3. PassWidth(width, 0) > 0 /\ PassHeight(height, 0) > 0
    BY FirstPass, Sizes
  <2> QED BY <2>1, <2>2, <2>3
<1>3. try \in 0 .. 4 /\ tst \in 0 .. 4 /\ prev \in 0 .. 4
  BY DEF NULL
<1>4. w = [row_number |-> 0, pass |-> 0, do_filter |-> f, row_buf |-> 1, try_row |-> try,
           tst_row |-> tst, prev_row |-> prev,
           num_rows |-> IF whole THEN height ELSE PassHeight(height, 0),
           usr_width |-> IF whole THEN width ELSE PassWidth(width, 0)]
  BY DEF png_write_start_row
<1> HIDE DEF f, try, tst, prev, w
<1>5. w \in WriterType
  BY <1>1, <1>2, <1>3, <1>4, Sizes DEF WriterType
<1>6. /\ w.row_number = 0 /\ w.pass = 0 /\ w.row_buf = 1
      /\ w.num_rows = (IF whole THEN height ELSE PassHeight(height, 0))
      /\ w.usr_width = (IF whole THEN width ELSE PassWidth(width, 0))
  BY <1>4
<1>7. Writing(w)
  BY <1>2, <1>5, <1>6, Sizes DEF Writing, At, WriterWidth, NULL
<1> QED BY <1>2, <1>6, <1>7, Sizes DEF w

LEMMA WriteRow ==
  ASSUME JobOK, WriterOK(wr, stream), png_write_row
  PROVE  WriterOK(wr', stream')
<1> DEFINE first == wr.row_buf = NULL
           w == IF first THEN png_write_start_row ELSE wr
           buffers == IF first THEN StartBuffers ELSE mem
           picks == job.interlaced /\ job.writeHandling /\ w.pass < 6
           filled == Overwrite(buffers[w.row_buf], [GivenRow(w) EXCEPT ![0] = buffers[w.row_buf][0]])
           row == IF picks THEN png_do_write_interlace(filled, w.pass) ELSE filled
           n == PNG_ROWBYTES(depth, IF picks THEN PassWidth(width, w.pass) ELSE w.usr_width)
           found == png_write_find_filter(w, [buffers EXCEPT ![w.row_buf] = row], n)
           swapped == IF w.prev_row = NULL THEN found.w
                      ELSE [found.w EXCEPT !.row_buf = w.prev_row, !.prev_row = w.row_buf]
           out == [k \in 1 .. n + 1 |-> found.mem[found.best_row][k - 1]]
           h == job.writeHandling
<1>1. stream' = stream \o out /\ png_write_finish_row(swapped, found.mem)
  BY DEF png_write_row
<1>2. ~Written /\ ~(job.interlaced /\ h /\ SkipsRow(wr.row_number, width, wr.pass))
  BY DEF png_write_row
<1> HIDE DEF found, out
<1>3. wr \in WriterType /\ IsSequence(stream)
  BY DEF WriterOK
<1>4. /\ Writing(w) /\ w.row_number < w.num_rows /\ w.pass # 7
      /\ w.row_number = wr.row_number /\ w.pass = wr.pass
      /\ Len(stream) = StreamAt(h, w.pass, w.row_number)
  <2>1. CASE first
    <3>1. Writing(w) /\ w.row_number = 0 /\ w.pass = 0 /\ w.row_number < w.num_rows
      BY <1>3, <2>1, StartWriting
    <3>2. stream = <<>> /\ wr.row_number = 0 /\ wr.pass = 0
      BY <2>1 DEF WriterOK
    <3>3. StreamAt(h, 0, 0) = 0
      BY StreamAtStart, BytesBeforeNext, Sizes
    <3> HIDE DEF w
    <3> QED BY <3>1, <3>2, <3>3
  <2>2. CASE ~first
    <3>1. w = wr /\ Writing(wr) /\ Len(stream) = StreamAt(h, wr.pass, wr.row_number)
      BY <2>2 DEF WriterOK
    <3>2. At(h, wr.pass, wr.row_number, wr.num_rows) /\ wr.pass \in 0 .. 7
          /\ wr.num_rows \in Nat /\ wr.row_number \in Nat
      BY <3>1 DEF Writing, WriterType
    <3>3. wr.pass # 7 /\ wr.row_number < wr.num_rows
      BY <1>2, <3>2, Sizes DEF Written, At
    <3> HIDE DEF w
    <3> QED BY <3>1, <3>3
  <2> QED BY <2>1, <2>2
<1> HIDE DEF w
<1>5. w \in WriterType /\ w.row_buf # NULL /\ w.pass \in 0 .. 7 /\ w.pass \in Passes
  BY <1>4 DEF Writing, WriterType, Passes
<1>6. n + 1 = RowLength(w.pass) /\ n \in Nat
  <2>1. n + 1 = RowLength(w.pass)
    <3>1. PassWidth(width, 6) = width
      BY Columns, Sizes DEF PassWidth
    <3>2. w.pass >= 6 => w.pass = 6
      BY <1>5 DEF Passes
    <3> QED BY <1>4, <1>5, <3>1, <3>2, Sizes DEF RowLength, Writing, WriterWidth, Passes
  <2>2. RowLength(w.pass) \in Nat \ {0}
    BY <1>5, PassBytes
  <2>3. n \in Nat
    <3>1. PassWidth(width, w.pass) \in Nat /\ w.usr_width \in Nat
      BY <1>5, PassSizes, Sizes DEF WriterType
    <3> QED BY <3>1, RowBytesType
  <2> QED BY <2>1, <2>3
<1>7. Kept(found.w, w)
  BY <1>5, FindKeeps DEF found
<1> HIDE DEF n
<1>8. IsSequence(stream') /\ Len(stream') = Len(stream) + RowLength(w.pass)
  <2>1. DOMAIN out = 1 .. n + 1 /\ out = [k \in 1 .. n + 1 |-> out[k]]
    BY DEF out
  <2>2. n + 1 \in Nat
    BY <1>6
  <2> QED BY <1>1, <1>3, <1>6, <2>1, <2>2, Appended
<1>9. /\ Writing(swapped) /\ swapped.pass = w.pass /\ swapped.row_number = w.row_number
      /\ swapped.num_rows = w.num_rows
  <2>1. /\ swapped \in WriterType /\ swapped.pass = w.pass /\ swapped.row_number = w.row_number
        /\ swapped.num_rows = w.num_rows /\ swapped.usr_width = w.usr_width
        /\ swapped.row_buf # NULL
    BY <1>5, <1>7 DEF Kept, WriterType
  <2> HIDE DEF swapped
  <2> QED BY <1>4, <2>1 DEF Writing, WriterWidth
<1> HIDE DEF swapped
<1>10. /\ Writing(wr')
       /\ StreamAt(h, wr'.pass, wr'.row_number) =
            StreamAt(h, w.pass, w.row_number) + Step(h, w.pass, w.row_number)
  <2> DEFINE m == found.mem
  <2>1. png_write_finish_row(swapped, m)
    BY <1>1
  <2> HIDE DEF m
  <2>2. swapped.pass # 7 /\ swapped.row_number < swapped.num_rows
    BY <1>4, <1>9
  <2> QED BY <1>9, <2>1, <2>2, FinishRow
<1>11. Step(h, w.pass, w.row_number) = RowLength(w.pass)
  BY <1>2, <1>4 DEF Step, Skipped
<1>12. wr' \in WriterType /\ wr'.row_buf # NULL
  BY <1>10 DEF Writing
<1> QED BY <1>4, <1>8, <1>10, <1>11, <1>12 DEF WriterOK

LEMMA SkipRow ==
  ASSUME JobOK, WriterOK(wr, stream), WriteRowSkipped
  PROVE  WriterOK(wr', stream')
<1> DEFINE h == job.writeHandling
           p == wr.pass
           y == wr.row_number
<1>1. ~Written /\ job.interlaced /\ h /\ SkipsRow(y, width, p) /\ stream' = stream
      /\ png_write_finish_row(wr, mem)
  BY DEF WriteRowSkipped
<1>2. wr.row_buf # NULL
  <2> SUFFICES ASSUME wr.row_buf = NULL PROVE FALSE
    OBVIOUS
  <2>1. y = 0 /\ p = 0
    BY DEF WriterOK
  <2> QED BY <1>1, <2>1 DEF SkipsRow
<1>3. Writing(wr) /\ Len(stream) = StreamAt(h, p, y) /\ IsSequence(stream)
  BY <1>2 DEF WriterOK
<1>4. wr.pass # 7 /\ wr.row_number < wr.num_rows
  BY <1>1, <1>3 DEF Writing, At, WriterType, Written
<1>5. Writing(wr') /\ StreamAt(h, wr'.pass, wr'.row_number) = StreamAt(h, p, y) + Step(h, p, y)
  <2> DEFINE w == wr
  <2> HIDE DEF h, p, y
  <2>1. png_write_finish_row(w, mem) /\ Writing(w) /\ w.pass # 7 /\ w.row_number < w.num_rows
    BY <1>1, <1>3, <1>4
  <2> HIDE DEF w
  <2>2. /\ Writing(wr')
        /\ StreamAt(job.writeHandling, wr'.pass, wr'.row_number) =
              StreamAt(job.writeHandling, w.pass, w.row_number)
                + Step(job.writeHandling, w.pass, w.row_number)
    BY <2>1, FinishRow
  <2> QED BY <2>2 DEF w, h, p, y
<1>6. Step(h, p, y) = 0
  BY <1>1 DEF Step, Skipped
<1>7. Len(stream) \in Nat
  BY <1>3 DEF IsSequence
<1>8. wr' \in WriterType /\ wr'.row_buf # NULL
  BY <1>5 DEF Writing
<1>9. Len(stream') = StreamAt(h, wr'.pass, wr'.row_number)
  <2>1. Len(stream) + 0 = Len(stream)
    BY <1>7
  <2>2. StreamAt(h, wr'.pass, wr'.row_number) = Len(stream) + 0
    BY <1>3, <1>5, <1>6, Zenon
  <2> QED BY <1>1, <2>1, <2>2, Zenon
<1> QED BY <1>1, <1>3, <1>5, <1>8, <1>9 DEF WriterOK

(* A new choice of filters takes effect on a row as long as any other. *)
LEMMA SetFilter ==
  ASSUME JobOK, WriterOK(wr, stream), png_set_filter
  PROVE  WriterOK(wr', stream')
<1>1. wr.row_buf # NULL /\ stream' = stream
  BY DEF png_set_filter
<1>2. Writing(wr) /\ Len(stream) = StreamAt(job.writeHandling, wr.pass, wr.row_number)
      /\ IsSequence(stream)
  BY <1>1 DEF WriterOK
<1>3. PICK filters \in FilterChoices :
       wr' = [wr EXCEPT !.do_filter = IF wr.prev_row = NULL THEN Useful(filters) \ UsesPrevRow
                                      ELSE Useful(filters),
                        !.try_row = IF @ = NULL THEN 2 ELSE @,
                        !.tst_row =
                          IF /\ @ = NULL
                             /\ Several(IF wr.prev_row = NULL THEN Useful(filters) \ UsesPrevRow
                                        ELSE Useful(filters))
                          THEN 3 ELSE @]
  BY DEF png_set_filter
<1> DEFINE f == IF wr.prev_row = NULL THEN Useful(filters) \ UsesPrevRow ELSE Useful(filters)
           tries == IF wr.try_row = NULL THEN 2 ELSE wr.try_row
           tests == IF wr.tst_row = NULL /\ Several(f) THEN 3 ELSE wr.tst_row
<1>4. f \in SUBSET (0 .. 4)
  BY JobsAssumption DEF Useful
<1>5. wr' = [wr EXCEPT !.do_filter = f, !.try_row = tries, !.tst_row = tests]
  BY <1>3, Zenon
<1>8. tries \in 0 .. 4 /\ tests \in 0 .. 4
  BY <1>2 DEF Writing, WriterType
<1> HIDE DEF f, tries, tests
<1>6. /\ wr' \in WriterType
      /\ wr'.row_number = wr.row_number /\ wr'.pass = wr.pass /\ wr'.num_rows = wr.num_rows
      /\ wr'.usr_width = wr.usr_width /\ wr'.row_buf = wr.row_buf
  BY <1>2, <1>4, <1>5, <1>8 DEF Writing, WriterType
<1>7. Writing(wr')
  BY <1>2, <1>6 DEF Writing, WriterWidth
<1> QED BY <1>1, <1>2, <1>6, <1>7 DEF WriterOK

LEMMA SameLengths ==
  ASSUME job' = job, NEW p
  PROVE  RowLength(p)' = RowLength(p) /\ BytesOf(p)' = BytesOf(p)
BY Zenon DEF RowLength, BytesOf, PassRows, width, height, depth

LEMMA SameBytes ==
  ASSUME job' = job
  PROVE  /\ BytesOf(0)' = BytesOf(0) /\ BytesOf(1)' = BytesOf(1) /\ BytesOf(2)' = BytesOf(2)
         /\ BytesOf(3)' = BytesOf(3) /\ BytesOf(4)' = BytesOf(4) /\ BytesOf(5)' = BytesOf(5)
         /\ BytesOf(6)' = BytesOf(6)
BY Zenon, SameLengths

LEMMA SameWriter ==
  ASSUME job' = job
  PROVE  WriterOK(wr, stream)' <=> WriterOK(wr', stream')
<1>1. BytesBefore(wr.pass)' = BytesBefore(wr'.pass)
  BY SameBytes DEF BytesBefore
<1>2. StreamAt(job.writeHandling, wr.pass, wr.row_number)' = StreamAt(job.writeHandling, wr'.pass, wr'.row_number)
  BY <1>1, Zenon DEF StreamAt, RowsAmong, RowLength, width, depth
<1>3. Writing(wr)' <=> Writing(wr')
  BY Zenon DEF Writing, WriterWidth, At, width, height
<1> QED BY <1>2, <1>3, Zenon DEF WriterOK, IsSequence

----------------------------------------------------------------------------
(* The readers take each row from where it is. *)

(* The fields of the reader's struct. *)
IsReader(r) ==
  r \in [started : BOOLEAN, error : BOOLEAN, row_number : Nat, pass : 0 .. 7, num_rows : Nat,
         iwidth : Nat, next_in : Nat, row_buf : {r.row_buf}, prev_row : {r.prev_row}]

Standing(r) ==
  /\ IsReader(r) /\ r.started /\ ~r.error
  /\ At(job.readHandling, r.pass, r.row_number, r.num_rows)
  /\ r.pass # 7 => r.iwidth = (IF job.interlaced THEN PassWidth(width, r.pass) ELSE width)

Reading(r) == Standing(r) /\ r.next_in = StreamAt(job.readHandling, r.pass, r.row_number)

(* The row has been read, or is passed over; png_read_finish_row comes next. *)
Ahead(r) ==
  /\ Standing(r) /\ r.pass # 7 /\ r.row_number < r.num_rows
  /\ r.next_in = StreamAt(job.readHandling, r.pass, r.row_number)
                 + Step(job.readHandling, r.pass, r.row_number)

(* The struct moves to a row below, or to pass q. *)
LEMMA NextRow ==
  ASSUME JobOK, NEW r, Ahead(r), r.row_number + 1 < r.num_rows \/ ~job.interlaced
  PROVE  LET next == [r EXCEPT !.row_number = @ + 1]
         IN  Reading(next) /\ next.row_number = r.row_number + 1 /\ next.pass = r.pass
             /\ next.num_rows = r.num_rows
<1> DEFINE h == job.readHandling
           next == [r EXCEPT !.row_number = @ + 1]
<1>1. h \in BOOLEAN /\ IsReader(r) /\ r.pass \in Passes /\ r.row_number \in Nat
      /\ At(h, r.pass, r.row_number, r.num_rows) /\ r.row_number < r.num_rows
  BY Sizes DEF Ahead, Standing, IsReader, Passes
<1>2. StreamAt(h, r.pass, r.row_number + 1) = StreamAt(h, r.pass, r.row_number) + Step(h, r.pass, r.row_number)
      /\ At(h, r.pass, r.row_number + 1, r.num_rows)
  BY <1>1, Onward
<1>3. /\ IsReader(next) /\ next.row_number = r.row_number + 1 /\ next.pass = r.pass
      /\ next.num_rows = r.num_rows /\ next.started = r.started /\ next.error = r.error
      /\ next.iwidth = r.iwidth /\ next.next_in = r.next_in
  BY <1>1 DEF IsReader
<1> HIDE DEF next
<1> QED BY <1>1, <1>2, <1>3 DEF Reading, Ahead, Standing, next

LEMMA ToPass ==
  ASSUME JobOK, job.interlaced, NEW r, Ahead(r), r.row_number + 1 >= r.num_rows,
         NEW q \in r.pass + 1 .. 7,
         ~job.readHandling /\ q # 7 => PassWidth(width, q) > 0 /\ PassHeight(height, q) > 0,
         \A k \in Passes : r.pass < k /\ k < q
           => PassWidth(width, k) = 0 \/ PassHeight(height, k) = 0
  PROVE  Reading(AtPass(r, q)) /\ AtPass(r, q).row_number = 0 /\ AtPass(r, q).pass = q
         /\ (job.readHandling => AtPass(r, q).num_rows = r.num_rows)
<1> DEFINE h == job.readHandling
           next == AtPass(r, q)
           p == r.pass
           y == r.row_number
           n == r.num_rows
<1>1. h \in BOOLEAN /\ IsReader(r) /\ p \in Passes /\ y \in Nat /\ n \in Nat
      /\ At(h, p, y, n) /\ y + 1 = n
  BY Sizes DEF Ahead, Standing, IsReader, Passes
<1>2. /\ At(h, q, 0, IF h \/ q = 7 THEN n ELSE PassHeight(height, q))
      /\ StreamAt(h, q, 0) = StreamAt(h, p, y) + Step(h, p, y)
  <2> HIDE DEF h, p, y, n
  <2>1. p < q /\ (~h /\ q # 7 => PassWidth(width, q) > 0 /\ PassHeight(height, q) > 0)
        /\ \A k \in Passes : p < k /\ k < q
             => PassWidth(width, k) = 0 \/ PassHeight(height, k) = 0
    BY <1>1 DEF h, p, Passes
  <2>2. q \in p + 1 .. 7
    BY DEF p
  <2> QED BY <1>1, <2>1, <2>2, EnterPass
<1>3. q \in 0 .. 7 /\ (q # 7 => q \in Passes)
  BY <1>1 DEF Passes
<1>4. q # 7 => PassWidth(width, q) \in Nat /\ PassHeight(height, q) \in Nat
  BY <1>3, PassSizes, Sizes
<1>5. /\ IsReader(next) /\ next.row_number = 0 /\ next.pass = q
      /\ next.num_rows = (IF h \/ q = 7 THEN n ELSE PassHeight(height, q))
      /\ next.started = r.started /\ next.error = r.error
      /\ next.iwidth = (IF q = 7 THEN r.iwidth ELSE PassWidth(width, q)) /\ next.next_in = r.next_in
  BY <1>1, <1>3, <1>4 DEF IsReader, AtPass
<1> HIDE DEF next
<1> QED BY <1>1, <1>2, <1>5 DEF Reading, Ahead, Standing, next

(* png_read_finish_row leaves the reader at the row that comes next. *)
LEMMA FinishRead ==
  ASSUME JobOK, NEW r, Ahead(r)
  PROVE  Reading(png_read_finish_row(r))
<1>1. CASE r.row_number + 1 < r.num_rows \/ ~job.interlaced
  BY <1>1, NextRow DEF png_read_finish_row
<1>2. CASE ~(r.row_number + 1 < r.num_rows \/ ~job.interlaced)
  <2> DEFINE q == IF job.readHandling THEN r.pass + 1 ELSE NextPass(r.pass)
  <2>1. r.pass \in Passes /\ r.row_number \in Nat /\ r.num_rows \in Nat
        /\ r.row_number + 1 >= r.num_rows
    BY <1>2 DEF Ahead, Standing, IsReader, Passes
  <2>2. /\ q \in r.pass + 1 .. 7
        /\ ~job.readHandling /\ q # 7 => PassWidth(width, q) > 0 /\ PassHeight(height, q) > 0
        /\ \A k \in Passes : r.pass < k /\ k < q
             => PassWidth(width, k) = 0 \/ PassHeight(height, k) = 0
    BY <2>1, NextPassIs DEF Passes
  <2>3. png_read_finish_row(r) = AtPass(r, q)
    BY <1>2 DEF png_read_finish_row
  <2> HIDE DEF q
  <2> QED BY <1>2, <2>1, <2>2, <2>3, ToPass, Sizes
<1> QED BY <1>1, <1>2

(* So does png_read_push_finish_row, which knows the empty passes by the width. *)
LEMMA FinishPush ==
  ASSUME JobOK, deinterlaces, NEW r, Ahead(r)
  PROVE  LET next == png_read_push_finish_row(r)
         IN  /\ Reading(next)
             /\ IF r.row_number + 1 < height
                THEN next.pass = r.pass /\ next.row_number = r.row_number + 1
                ELSE next.pass = NextPushPass(r.pass) /\ next.row_number = 0
<1> DEFINE next == png_read_push_finish_row(r)
<1>0. job.interlaced /\ job.readHandling /\ r.pass \in Passes /\ r.row_number \in Nat
      /\ r.num_rows \in Nat
      /\ r.num_rows = height
  BY Sizes DEF Ahead, Standing, IsReader, Passes, At, deinterlaces
<1>1. CASE r.row_number + 1 < r.num_rows
  <2>1. next = [r EXCEPT !.row_number = @ + 1]
    BY <1>1 DEF png_read_push_finish_row
  <2> HIDE DEF next
  <2>2. Reading(next) /\ next.row_number = r.row_number + 1 /\ next.pass = r.pass
    BY <1>1, <2>1, NextRow
  <2> QED BY <1>0, <1>1, <2>2 DEF next
<1>2. CASE ~(r.row_number + 1 < r.num_rows)
  <2> DEFINE q == NextPushPass(r.pass)
  <2>1. q \in r.pass + 1 .. 7 /\ \A k \in Passes : r.pass < k /\ k < q
          => PassWidth(width, k) = 0
    <3> DEFINE p == r.pass
    <3>1. p \in Passes /\ q = NextPushPass(p) /\ width \in Nat
      BY <1>0, Sizes
    <3> HIDE DEF p, q
    <3>2. q \in p + 1 .. 7 /\ \A k \in Passes : p < k /\ k < q => PassWidth(width, k) = 0
      <4>1. CASE p = 0 /\ width < 5
        <5>1. PassWidth(width, 1) = 0
          BY <3>1, <4>1, Columns DEF PassWidth
        <5>2. \A k \in Passes : p < k /\ k < q => k = 1
          BY <3>1, <4>1 DEF NextPushPass, Passes
        <5> QED BY <3>1, <4>1, <5>1, <5>2 DEF NextPushPass
      <4>2. CASE p = 2 /\ width < 3
        <5>1. PassWidth(width, 3) = 0
          BY <3>1, <4>2, Columns DEF PassWidth
        <5>2. \A k \in Passes : p < k /\ k < q => k = 3
          BY <3>1, <4>2 DEF NextPushPass, Passes
        <5> QED BY <3>1, <4>2, <5>1, <5>2 DEF NextPushPass
      <4>3. CASE p = 4 /\ width < 2
        <5>1. PassWidth(width, 5) = 0
          BY <3>1, <4>3, Columns DEF PassWidth
        <5>2. \A k \in Passes : p < k /\ k < q => k = 5
          BY <3>1, <4>3 DEF NextPushPass, Passes
        <5> QED BY <3>1, <4>3, <5>1, <5>2 DEF NextPushPass
      <4> QED BY <3>1, <4>1, <4>2, <4>3 DEF NextPushPass, Passes
    <3> QED BY <3>2 DEF p
  <2>2. next = AtPass(r, q)
    BY <1>0, <1>2 DEF png_read_push_finish_row
  <2>3. r.row_number + 1 >= r.num_rows /\ NextPushPass(r.pass) = q
    BY <1>0, <1>2
  <2> HIDE DEF q, next
  <2>4. Reading(AtPass(r, q)) /\ AtPass(r, q).row_number = 0 /\ AtPass(r, q).pass = q
    BY <1>0, <2>1, <2>3, ToPass
  <2> QED BY <1>0, <1>2, <2>2, <2>3, <2>4 DEF next
<1> QED BY <1>1, <1>2

Call(t, p, new_row) == IF t.r.pass = p THEN png_push_have_row(t, new_row) ELSE t

(* The calls one after the other. *)
LEMMA Repeated ==
  ASSUME NEW s, NEW n \in Nat, NEW p, NEW new_row
  PROVE  \E after : /\ Repeat(s, n, p, new_row) = after[n] /\ after[0] = s
                    /\ \A i \in 0 .. n - 1 : after[i + 1] = Call(after[i], p, new_row)
<1> DEFINE F(after, k) == after = [i \in 0 .. k |-> IF i = 0 THEN s ELSE Call(after[i - 1], p, new_row)]
           S == {k \in 0 .. n : \E after : F(after, k)}
<1>1. 0 \in S
  <2>1. F([i \in 0 .. 0 |-> s], 0)
    OBVIOUS
  <2> HIDE DEF F
  <2> QED BY <2>1
<1>2. ASSUME NEW k \in 0 .. n - 1, k \in S PROVE k + 1 \in S
  <2>1. PICK after : F(after, k)
    BY <1>2
  <2> DEFINE next == Call(after[k], p, new_row)
             more == [i \in 0 .. k + 1 |-> IF i = k + 1 THEN next ELSE after[i]]
  <2>2. ASSUME NEW i \in 0 .. k + 1 PROVE more[i] = IF i = 0 THEN s ELSE Call(more[i - 1], p, new_row)
    <3>1. CASE i = k + 1
      <4>1. more[i] = next /\ more[i - 1] = after[k] /\ i # 0
        BY <3>1
      <4> HIDE DEF more
      <4> QED BY <3>1, <4>1
    <3>2. CASE i # k + 1
      <4>1. i \in 0 .. k /\ more[i] = after[i]
        BY <3>2
      <4>2. i # 0 => more[i - 1] = after[i - 1]
        BY <3>2
      <4>3. after[i] = IF i = 0 THEN s ELSE Call(after[i - 1], p, new_row)
        BY <2>1, <4>1
      <4> HIDE DEF more
      <4> QED BY <4>1, <4>2, <4>3
    <3> QED BY <3>1, <3>2
  <2>3. F(more, k + 1)
    <3>1. more = [i \in 0 .. k + 1 |-> more[i]]
      OBVIOUS
    <3> HIDE DEF more
    <3> QED BY <2>2, <3>1
  <2> HIDE DEF F, more
  <2>4. k + 1 \in 0 .. n
    OBVIOUS
  <2> QED BY <2>3, <2>4
<1>3. n \in S
  <2> HIDE DEF S
  <2> QED BY <1>1, <1>2, Climbs
<1> DEFINE after == CHOOSE f : F(f, n)
<1>4. F(after, n)
  <2> HIDE DEF F
  <2> QED BY <1>3
<1>5. Repeat(s, n, p, new_row) = after[n]
  BY Zenon DEF Repeat, Call
<1> HIDE DEF after
<1>6. after[0] = s /\ \A i \in 0 .. n - 1 : after[i + 1] = Call(after[i], p, new_row)
  <2>1. after[0] = s
    BY <1>4
  <2>2. ASSUME NEW i \in 0 .. n - 1 PROVE after[i + 1] = Call(after[i], p, new_row)
    <3>1. i + 1 \in 0 .. n /\ i + 1 # 0 /\ (i + 1) - 1 = i
      OBVIOUS
    <3> QED BY <1>4, <3>1
  <2> QED BY <2>1, <2>2
<1> QED BY <1>5, <1>6

(* A loop of calls for another pass does nothing. *)
LEMMA RepeatNot ==
  ASSUME NEW s, NEW n \in Nat, NEW p, NEW new_row, s.r.pass # p
  PROVE  Repeat(s, n, p, new_row) = s
<1>1. PICK after : /\ Repeat(s, n, p, new_row) = after[n] /\ after[0] = s
                   /\ \A i \in 0 .. n - 1 : after[i + 1] = Call(after[i], p, new_row)
  BY Repeated
<1> DEFINE S == {i \in 0 .. n : after[i] = s}
<1>2. 0 \in S /\ \A i \in 0 .. n - 1 : i \in S => i + 1 \in S
  BY <1>1 DEF Call
<1>3. n \in S
  <2> HIDE DEF S
  <2> QED BY <1>2, Climbs
<1> QED BY <1>1, <1>3

Lands(r, p, y, k) ==
  /\ Reading(r)
  /\ IF y + k < height THEN r.pass = p /\ r.row_number = y + k
     ELSE r.pass = NextPushPass(p) /\ r.row_number = 0

(* The calls for a row and for the rows below it that are not in the pass, each of
   them made where the reader has come to. *)
LEMMA HopByHop ==
  ASSUME JobOK, deinterlaces, NEW s, Ahead(s.r), NEW n \in Nat \ {0}, NEW p, p = s.r.pass,
         NEW y, y = s.r.row_number,
         NEW new_row, \A i \in 1 .. n - 1 : SkipsRow(y + i, width, p)
  PROVE  \E after : /\ Repeat(s, n, p, new_row) = after[n] /\ after[0] = s
                    /\ \A i \in 0 .. n - 1 : after[i + 1] = Call(after[i], p, new_row)
                    /\ \A i \in 1 .. n : Lands(after[i].r, p, y, i)
<1>1. PICK after : /\ Repeat(s, n, p, new_row) = after[n] /\ after[0] = s
                   /\ \A i \in 0 .. n - 1 : after[i + 1] = Call(after[i], p, new_row)
  <2>1. n \in Nat
    OBVIOUS
  <2> QED BY <2>1, Repeated
<1>2. /\ p \in Passes /\ y \in Nat /\ height \in Nat /\ width \in Nat
      /\ s.r.num_rows = height /\ y < height
      /\ job.interlaced /\ job.readHandling
  BY Sizes DEF Ahead, Standing, IsReader, Passes, At, deinterlaces
<1>3. NextPushPass(p) # p
  BY <1>2 DEF NextPushPass, Passes
<1> DEFINE S == {i \in 0 .. n : i = 0 \/ Lands(after[i].r, p, y, i)}
<1>4. ASSUME NEW t, Ahead(t.r), t.r.pass = p
      PROVE  Lands(Call(t, p, new_row).r, p, t.r.row_number, 1)
  <2>1. Call(t, p, new_row) = png_push_have_row(t, new_row)
    BY <1>4 DEF Call
  <2>2. png_push_have_row(t, new_row).r = png_read_push_finish_row(t.r)
    BY DEF png_push_have_row
  <2> DEFINE r == t.r
             next == png_read_push_finish_row(r)
  <2>3. Ahead(r) /\ r.pass = p
    BY <1>4
  <2> HIDE DEF r
  <2>4. /\ Reading(next)
        /\ IF r.row_number + 1 < height
           THEN next.pass = r.pass /\ next.row_number = r.row_number + 1
           ELSE next.pass = NextPushPass(r.pass) /\ next.row_number = 0
    BY <2>3, FinishPush
  <2>5. Call(t, p, new_row).r = next
    BY <2>1, <2>2 DEF r
  <2> HIDE DEF next
  <2>6. r = t.r
    BY DEF r
  <2> QED BY <2>3, <2>4, <2>5, <2>6 DEF Lands
<1>5. ASSUME NEW i \in 0 .. n - 1, i \in S PROVE i + 1 \in S
  <2>1. after[i + 1] = Call(after[i], p, new_row) /\ i + 1 \in 0 .. n
    BY <1>1
  <2>2. CASE i = 0
    <3>1. Lands(Call(s, p, new_row).r, p, y, 1)
      BY <1>4
    <3> QED BY <1>1, <2>1, <2>2, <3>1
  <2>3. CASE i # 0 /\ ~(y + i < height)
    <3>1. Lands(after[i].r, p, y, i)
      BY <1>5, <2>3
    <3>2. after[i].r.pass # p
      BY <1>3, <2>3, <3>1 DEF Lands
    <3>3. after[i + 1] = after[i]
      BY <2>1, <3>2 DEF Call
    <3>4. ~(y + (i + 1) < height)
      BY <1>2, <2>3
    <3> QED BY <2>1, <2>3, <3>1, <3>3, <3>4 DEF Lands
  <2>4. CASE i # 0 /\ y + i < height
    <3>1. Reading(after[i].r) /\ after[i].r.pass = p /\ after[i].r.row_number = y + i
      BY <1>5, <2>4 DEF Lands
    <3>2. SkipsRow(y + i, width, p)
      BY <2>4
    <3>3. Ahead(after[i].r)
      <4> DEFINE r == after[i].r
      <4>1. Reading(r) /\ r.pass = p /\ r.row_number = y + i
        BY <3>1
      <4> HIDE DEF r
      <4>2. Step(job.readHandling, r.pass, r.row_number) = 0
        BY <1>2, <3>2, <4>1 DEF Step, Skipped
      <4>3. r.next_in \in Nat /\ r.num_rows = height
        <5>1. r.next_in \in Nat
          BY <4>1 DEF Reading, Standing, IsReader
        <5>2. r.num_rows = height
          BY <1>2, <4>1, Sizes DEF Reading, Standing, At, Passes
        <5> QED BY <5>1, <5>2
      <4>4. r.pass # 7
        BY <1>2, <4>1 DEF Passes
      <4>5. Ahead(r)
        BY <2>4, <4>1, <4>2, <4>3, <4>4 DEF Ahead, Reading
      <4> QED BY <4>5 DEF r
    <3>4. Lands(Call(after[i], p, new_row).r, p, y + i, 1)
      <4> DEFINE t == after[i]
      <4>1. Ahead(t.r) /\ t.r.pass = p /\ t.r.row_number = y + i
        BY <3>1, <3>3
      <4> HIDE DEF t
      <4>2. Lands(Call(t, p, new_row).r, p, t.r.row_number, 1)
        BY <1>4, <4>1
      <4> QED BY <4>1, <4>2 DEF t
    <3>5. (y + i) + 1 = y + (i + 1)
      BY <1>2
    <3> QED BY <2>1, <3>4, <3>5 DEF Lands
  <2> QED BY <2>2, <2>3, <2>4
<1>6. ASSUME NEW i \in 1 .. n PROVE Lands(after[i].r, p, y, i)
  <2>1. 0 \in S /\ i \in Nat /\ \A j \in 0 .. i - 1 : j \in S => j + 1 \in S
    BY <1>5
  <2> HIDE DEF S
  <2>2. i \in S
    BY <2>1, Climbs
  <2> QED BY <2>2 DEF S
<1> QED BY <1>1, <1>6

LEMMA Hops ==
  ASSUME JobOK, deinterlaces, NEW s, Ahead(s.r), NEW n \in Nat \ {0}, NEW p, p = s.r.pass,
         NEW y, y = s.r.row_number,
         NEW new_row, \A i \in 1 .. n - 1 : SkipsRow(y + i, width, p)
  PROVE  Lands(Repeat(s, n, p, new_row).r, p, y, n)
<1>1. n \in 1 .. n
  OBVIOUS
<1> QED BY <1>1, HopByHop

(* The rows of pass q above its first one: k of them. *)
Above(y, q) == y % (IF q = 2 THEN 8 ELSE IF q = 4 THEN 4 ELSE 2) = 0

LEMMA Generated ==
  ASSUME JobOK, deinterlaces, NEW t, NEW new_row, Reading(t.r), NEW q, NEW k,
         (q = 2 /\ k = 4) \/ (q = 4 /\ k = 2) \/ (q = 6 /\ k = 1),
         t.r.pass = q => Above(t.r.row_number, q)
  PROVE  LET u == Repeat(t, k, q, new_row)
         IN  /\ t.r.pass # q => u = t
             /\ t.r.pass = q => Lands(u.r, q, t.r.row_number, k)
<1>1. CASE t.r.pass # q
  <2>1. k \in Nat
    OBVIOUS
  <2>2. Repeat(t, k, q, new_row) = t
    BY <1>1, <2>1, RepeatNot
  <2> QED BY <1>1, <2>2
<1>2. CASE t.r.pass = q
  <2> DEFINE r == t.r
             y == t.r.row_number
  <2>1. Reading(r) /\ r.pass = q /\ r.row_number = y
    BY <1>2
  <2>2. y \in Nat /\ width \in Nat
    BY Sizes DEF Reading, Standing, IsReader
  <2>3. \A i \in 0 .. k - 1 : SkipsRow(y + i, width, q)
    <3>1. Above(y, q)
      BY <1>2
    <3> HIDE DEF y
    <3> QED BY <2>2, <3>1 DEF SkipsRow, Above
  <2>4. job.readHandling /\ job.interlaced
    BY DEF deinterlaces
  <2> HIDE DEF r, y
  <2>5. Ahead(r)
    <3>1. SkipsRow(y, width, q)
      <4>1. 0 \in 0 .. k - 1 /\ y + 0 = y
        BY <2>2
      <4> QED BY <2>3, <4>1
    <3>2. Step(job.readHandling, r.pass, r.row_number) = 0
      BY <2>1, <2>4, <3>1 DEF Step, Skipped
    <3>3. r.next_in \in Nat /\ r.pass # 7 /\ r.row_number < r.num_rows
      <4>1. r.next_in \in Nat /\ r.pass # 7
        BY <2>1 DEF Reading, Standing, IsReader
      <4>2. r.row_number < r.num_rows
        BY <2>1, <2>4, Sizes DEF Reading, Standing, At
      <4> QED BY <4>1, <4>2
    <3> QED BY <2>1, <3>2, <3>3 DEF Ahead, Reading
  <2>6. \A i \in 1 .. k - 1 : SkipsRow(y + i, width, q)
    BY <2>3
  <2>7. Ahead(t.r) /\ q = t.r.pass /\ y = t.r.row_number /\ k \in Nat \ {0}
    BY <1>2, <2>5 DEF r, y
  <2>8. Lands(Repeat(t, k, q, new_row).r, q, y, k)
    BY <2>6, <2>7, Hops
  <2> QED BY <1>2, <2>7, <2>8
<1> QED BY <1>1, <1>2

(* The next call of row_fn takes a row from the stream. *)
Rests(r) == r.pass # 7 => ~SkipsRow(r.row_number, width, r.pass)

(* So it is, or the calls generated for pass q or a later one come next. *)
Loose(r, q) ==
  /\ Reading(r)
  /\ IF r.pass \in {2, 4, 6} /\ r.pass >= q THEN Above(r.row_number, r.pass) ELSE Rests(r)

LEMMA NextPushPasses ==
  /\ NextPushPass(0) = IF width < 5 THEN 2 ELSE 1
  /\ NextPushPass(1) = 2
  /\ NextPushPass(2) = IF width < 3 THEN 4 ELSE 3
  /\ NextPushPass(3) = 4
  /\ NextPushPass(4) = IF width < 2 THEN 6 ELSE 5
  /\ NextPushPass(5) = 6
  /\ NextPushPass(6) = 7
BY DEF NextPushPass

(* The columns that a pass needs. *)
LEMMA FirstRows ==
  ASSUME JobOK
  PROVE  /\ width >= 5 => ~SkipsRow(0, width, 1)
         /\ width >= 3 => ~SkipsRow(0, width, 3)
         /\ width >= 2 => ~SkipsRow(0, width, 5)
         /\ Above(0, 2) /\ Above(0, 4) /\ Above(0, 6)
BY Sizes DEF SkipsRow, Above

(* At the start of a pass, a row of the stream or generated calls come next. *)
LEMMA PassBegins ==
  ASSUME JobOK, NEW r, Reading(r), NEW p \in Passes, r.pass = NextPushPass(p), r.row_number = 0,
         NEW q \in {2, 4, 6, 8}, q <= p + 2
  PROVE  Loose(r, q)
<1>1. width \in Nat /\ p \in Nat
  BY Sizes DEF Passes
<1>2. \/ r.pass = 1 /\ width >= 5
      \/ r.pass = 2 /\ q <= 2
      \/ r.pass = 3 /\ width >= 3
      \/ r.pass = 4 /\ q <= 4
      \/ r.pass = 5 /\ width >= 2
      \/ r.pass = 6 /\ q <= 6
      \/ r.pass = 7
  <2>1. CASE p = 0 BY <1>1, <2>1, NextPushPasses
  <2>2. CASE p = 1 BY <1>1, <2>2, NextPushPasses
  <2>3. CASE p = 2 BY <1>1, <2>3, NextPushPasses
  <2>4. CASE p = 3 BY <1>1, <2>4, NextPushPasses
  <2>5. CASE p = 4 BY <1>1, <2>5, NextPushPasses
  <2>6. CASE p = 5 BY <1>1, <2>6, NextPushPasses
  <2>7. CASE p = 6 BY <1>1, <2>7, NextPushPasses
  <2> QED BY <2>1, <2>2, <2>3, <2>4, <2>5, <2>6, <2>7, EachPass
<1> QED BY <1>2, FirstRows DEF Loose, Rests

(* The rows of a block and the row below it, by the pass of the block. *)
LEMMA BlockOfRow ==
  ASSUME NEW p \in Passes, NEW y \in Nat, NEW n, n = <<8, 8, 4, 4, 2, 2, 1>>[p + 1],
         ~SkipsRow(y, width, p)
  PROVE  /\ n \in Nat \ {0} /\ \A i \in 1 .. n - 1 : SkipsRow(y + i, width, p)
         /\ IF p \in {2, 4, 6} THEN Above(y + n, p) ELSE ~SkipsRow(y + n, width, p)
<1> USE DEF SkipsRow, Above
<1>1. CASE p = 0
  <2>1. n = 8 /\ y % 8 = 0 BY <1>1
  <2> QED BY <1>1, <2>1
<1>2. CASE p = 1
  <2>1. n = 8 /\ y % 8 = 0 BY <1>2
  <2> QED BY <1>2, <2>1
<1>3. CASE p = 2
  <2>1. n = 4 /\ y % 8 = 4 BY <1>3
  <2> QED BY <1>3, <2>1
<1>4. CASE p = 3
  <2>1. n = 4 /\ y % 4 = 0 BY <1>4
  <2> QED BY <1>4, <2>1
<1>5. CASE p = 4
  <2>1. n = 2 /\ y % 4 = 2 BY <1>5
  <2> QED BY <1>5, <2>1
<1>6. CASE p = 5
  <2>1. n = 2 /\ y % 2 = 0 BY <1>6
  <2> QED BY <1>6, <2>1
<1>7. CASE p = 6
  <2>1. n = 1 /\ y % 2 = 1 BY <1>7
  <2> QED BY <1>7, <2>1
<1> QED BY <1>1, <1>2, <1>3, <1>4, <1>5, <1>6, <1>7, EachPass

(* The calls for a row of the stream and its block; pass q is the first that may
   have generated calls after it. *)
LEMMA BlockIsCalled ==
  ASSUME JobOK, deinterlaces, NEW s, Ahead(s.r), NEW p \in Passes, p = s.r.pass, NEW y,
         y = s.r.row_number,
         ~SkipsRow(y, width, p), NEW n, n = <<8, 8, 4, 4, 2, 2, 1>>[p + 1], NEW new_row,
         NEW q, q = <<2, 2, 2, 4, 4, 6, 6>>[p + 1]
  PROVE  LET r == Repeat(s, n, p, new_row).r
         IN  Lands(r, p, y, n) /\ Loose(r, q)
<1> DEFINE r == Repeat(s, n, p, new_row).r
<1>1. y \in Nat /\ width \in Nat /\ p \in Nat /\ p # 7
  BY Sizes DEF Ahead, Standing, IsReader, Passes
<1>2. /\ n \in Nat \ {0} /\ \A i \in 1 .. n - 1 : SkipsRow(y + i, width, p)
      /\ IF p \in {2, 4, 6} THEN Above(y + n, p) ELSE ~SkipsRow(y + n, width, p)
  BY <1>1, BlockOfRow
<1>6. q \in {2, 4, 6} /\ p <= q /\ q <= p + 2 /\ (p \in {2, 4, 6} => q = p)
  BY EachPass
<1>3. Lands(r, p, y, n)
  BY <1>2, Hops
<1> HIDE DEF r
<1>4. CASE y + n < height
  <2>1. Reading(r) /\ r.pass = p /\ r.row_number = y + n
    BY <1>3, <1>4 DEF Lands
  <2>2. Loose(r, q)
    BY <1>1, <1>2, <1>6, <2>1 DEF Loose, Rests
  <2> QED BY <1>3, <2>2 DEF r
<1>5. CASE ~(y + n < height)
  <2>1. Reading(r) /\ r.pass = NextPushPass(p) /\ r.row_number = 0
    BY <1>3, <1>5 DEF Lands
  <2>2. Loose(r, q)
    BY <1>6, <2>1, PassBegins
  <2> QED BY <1>3, <2>2 DEF r
<1> QED BY <1>4, <1>5

(* The generated calls for the rows above the first one of pass q. *)
LEMMA RowsAreGenerated ==
  ASSUME JobOK, deinterlaces, NEW t, NEW new_row, NEW q, NEW k,
         (q = 2 /\ k = 4) \/ (q = 4 /\ k = 2) \/ (q = 6 /\ k = 1), Loose(t.r, q)
  PROVE  LET u == Repeat(t, k, q, new_row)
         IN  /\ Loose(u.r, q + 2)
             /\ t.r.pass # q => u = t
             /\ t.r.pass = q => Lands(u.r, q, t.r.row_number, k)
<1> DEFINE u == Repeat(t, k, q, new_row)
           y == t.r.row_number
<1>1. Reading(t.r) /\ (t.r.pass = q => Above(y, q)) /\ t.r.pass \in 0 .. 7 /\ y \in Nat
  BY DEF Loose, Reading, Standing, IsReader
<1>2. /\ t.r.pass # q => u = t
      /\ t.r.pass = q => Lands(u.r, q, y, k)
  BY <1>1, Generated
<1> HIDE DEF u
<1>3. CASE t.r.pass # q
  <2>1. u = t
    BY <1>2, <1>3
  <2> QED BY <1>1, <1>2, <1>3, <2>1 DEF Loose, u
<1>4. CASE t.r.pass = q
  <2> HIDE DEF y
  <2>1. Above(y, q) /\ Lands(u.r, q, y, k) /\ q \in Passes
    BY <1>1, <1>2, <1>4 DEF Passes
  <2>2. CASE y + k < height
    <3>1. Reading(u.r) /\ u.r.pass = q /\ u.r.row_number = y + k
      BY <2>1, <2>2 DEF Lands
    <3>2. ~SkipsRow(y + k, width, q)
      BY <1>1, <2>1 DEF Above, SkipsRow
    <3>3. Loose(u.r, q + 2)
      BY <3>1, <3>2 DEF Loose, Rests
    <3> QED BY <1>2, <3>3 DEF u, y
  <2>3. CASE ~(y + k < height)
    <3>1. Reading(u.r) /\ u.r.pass = NextPushPass(q) /\ u.r.row_number = 0
      BY <2>1, <2>3 DEF Lands
    <3>2. q + 2 \in {2, 4, 6, 8}
      OBVIOUS
    <3>3. Loose(u.r, q + 2)
      BY <2>1, <3>1, <3>2, PassBegins
    <3> QED BY <1>2, <3>3 DEF u, y
  <2> QED BY <2>2, <2>3
<1> QED BY <1>3, <1>4

(* After the calls that follow from a row, the reader needs the next one. *)
LEMMA PushedRows ==
  ASSUME JobOK, deinterlaces, NEW s, Ahead(s.r), ~SkipsRow(s.r.row_number, width, s.r.pass)
  PROVE  Reading(PushRows(s).r) /\ Rests(PushRows(s).r)
<1> DEFINE p == s.r.pass
           y == s.r.row_number
<1>1. /\ width \in Nat /\ width > 0 /\ height \in Nat /\ y \in Nat /\ y < height /\ p \in Passes
      /\ ~SkipsRow(y, width, p)
  <2>1. width \in Nat /\ width > 0 /\ height \in Nat
    BY Sizes
  <2>2. y \in Nat /\ p \in Passes
    BY DEF Ahead, Standing, IsReader, Passes
  <2>3. y < height
    BY <2>2, Sizes DEF Ahead, Standing, At, deinterlaces, Passes
  <2> QED BY <2>1, <2>2, <2>3
<1>2. ASSUME NEW n, n = <<8, 8, 4, 4, 2, 2, 1>>[p + 1], NEW q, q = <<2, 2, 2, 4, 4, 6, 6>>[p + 1]
      PROVE  Lands(Repeat(s, n, p, TRUE).r, p, y, n) /\ Loose(Repeat(s, n, p, TRUE).r, q)
  BY <1>1, <1>2, BlockIsCalled
<1>3. ASSUME NEW r, Loose(r, 8)
      PROVE  Reading(r) /\ Rests(r)
  BY <1>3 DEF Loose
<1>4. ASSUME NEW r, Loose(r, 6), r.pass # 6
      PROVE  Reading(r) /\ Rests(r)
  BY <1>4 DEF Loose
<1>5. ASSUME NEW r, Loose(r, 4), r.pass # 4, r.pass # 6
      PROVE  Reading(r) /\ Rests(r)
  BY <1>5 DEF Loose
<1> DEFINE no == FALSE
           Two(t) == Repeat(t, 4, 2, no)
           Four(t) == Repeat(t, 2, 4, no)
           Six(t) == Repeat(t, 1, 6, no)
<1>6. ASSUME NEW t, Loose(t.r, 2)
      PROVE  /\ Loose(Two(t).r, 4)
             /\ t.r.pass # 2 => Two(t) = t
             /\ t.r.pass = 2 => Lands(Two(t).r, 2, t.r.row_number, 4)
  <2> DEFINE q == 2
             k == 4
  <2>1. ((q = 2 /\ k = 4) \/ (q = 4 /\ k = 2) \/ (q = 6 /\ k = 1)) /\ Loose(t.r, q) /\ q + 2 = 4
    BY <1>6
  <2> HIDE DEF q, k, no
  <2>2. LET u == Repeat(t, k, q, no)
        IN  /\ Loose(u.r, q + 2)
            /\ t.r.pass # q => u = t
            /\ t.r.pass = q => Lands(u.r, q, t.r.row_number, k)
    BY <2>1, RowsAreGenerated
  <2> QED BY <2>1, <2>2 DEF q, k
<1>7. ASSUME NEW t, Loose(t.r, 4)
      PROVE  /\ Loose(Four(t).r, 6)
             /\ t.r.pass # 4 => Four(t) = t
             /\ t.r.pass = 4 => Lands(Four(t).r, 4, t.r.row_number, 2)
  <2> DEFINE q == 4
             k == 2
  <2>1. ((q = 2 /\ k = 4) \/ (q = 4 /\ k = 2) \/ (q = 6 /\ k = 1)) /\ Loose(t.r, q) /\ q + 2 = 6
    BY <1>7
  <2> HIDE DEF q, k, no
  <2>2. LET u == Repeat(t, k, q, no)
        IN  /\ Loose(u.r, q + 2)
            /\ t.r.pass # q => u = t
            /\ t.r.pass = q => Lands(u.r, q, t.r.row_number, k)
    BY <2>1, RowsAreGenerated
  <2> QED BY <2>1, <2>2 DEF q, k
<1>8. ASSUME NEW t, Loose(t.r, 6)
      PROVE  Loose(Six(t).r, 8)
  <2> DEFINE q == 6
             k == 1
  <2>1. ((q = 2 /\ k = 4) \/ (q = 4 /\ k = 2) \/ (q = 6 /\ k = 1)) /\ Loose(t.r, q) /\ q + 2 = 8
    BY <1>8
  <2> HIDE DEF q, k, no
  <2>2. Loose(Repeat(t, k, q, no).r, q + 2)
    BY <2>1, RowsAreGenerated
  <2> QED BY <2>1, <2>2 DEF q, k
<1>9. CASE p = 0
  <2> DEFINE a == Repeat(s, 8, 0, TRUE)
  <2>1. Lands(a.r, 0, y, 8) /\ Loose(a.r, 2)
    <3>1. 8 = <<8, 8, 4, 4, 2, 2, 1>>[p + 1] /\ 2 = <<2, 2, 2, 4, 4, 6, 6>>[p + 1]
      BY <1>9
    <3> QED BY <1>2, <1>9, <3>1
  <2> HIDE DEF a, y
  <2>2. CASE height <= 4
    <3>1. PushRows(s) = Six(Four(Two(a)))
      BY <1>9, <2>2 DEF PushRows, a
    <3> HIDE DEF Two, Four, Six
    <3> QED BY <1>3, <1>6, <1>7, <1>8, <2>1, <3>1
  <2>3. CASE ~(height <= 4)
    <3>1. PushRows(s) = Two(a)
      BY <1>9, <2>3 DEF PushRows, a
    <3> DEFINE b == Two(a)
    <3> HIDE DEF Two
    <3>2. Loose(b.r, 4) /\ (a.r.pass # 2 => b = a)
          /\ (a.r.pass = 2 => Lands(b.r, 2, a.r.row_number, 4))
      BY <1>6, <2>1
    <3> HIDE DEF b
    <3>3. b.r.pass # 4 /\ b.r.pass # 6
      BY <1>1, <2>1, <2>3, <3>2, NextPushPasses DEF Lands
    <3> QED BY <1>5, <3>1, <3>2, <3>3 DEF b
  <2> QED BY <2>2, <2>3
<1>10. CASE p = 1
  <2> DEFINE a == Repeat(s, 8, 1, TRUE)
             b == Two(a)
  <2>1. Lands(a.r, 1, y, 8) /\ Loose(a.r, 2)
    <3>1. 8 = <<8, 8, 4, 4, 2, 2, 1>>[p + 1] /\ 2 = <<2, 2, 2, 4, 4, 6, 6>>[p + 1]
      BY <1>10
    <3> QED BY <1>2, <1>10, <3>1
  <2>2. PushRows(s) = b
    BY <1>10 DEF PushRows
  <2>3. width >= 5
    BY <1>1, <1>10 DEF SkipsRow
  <2> HIDE DEF a, y, Two
  <2>4. Loose(b.r, 4) /\ (a.r.pass # 2 => b = a)
        /\ (a.r.pass = 2 => Lands(b.r, 2, a.r.row_number, 4))
    BY <1>6, <2>1
  <2> HIDE DEF b
  <2>5. b.r.pass # 4 /\ b.r.pass # 6
    BY <1>1, <2>1, <2>3, <2>4, NextPushPasses DEF Lands
  <2> QED BY <1>5, <2>2, <2>4, <2>5
<1>11. CASE p = 2
  <2> DEFINE a == Repeat(s, 4, 2, TRUE)
             b == Two(a)
             c == Four(b)
  <2>1. Lands(a.r, 2, y, 4) /\ Loose(a.r, 2)
    <3>1. 4 = <<8, 8, 4, 4, 2, 2, 1>>[p + 1] /\ 2 = <<2, 2, 2, 4, 4, 6, 6>>[p + 1]
      BY <1>11
    <3> QED BY <1>2, <1>11, <3>1
  <2>2. PushRows(s) = c
    BY <1>11 DEF PushRows
  <2>3. height > 4
    BY <1>1, <1>11 DEF SkipsRow
  <2> HIDE DEF a, y, Two, Four
  <2>4. Loose(b.r, 4) /\ (a.r.pass # 2 => b = a)
        /\ (a.r.pass = 2 => Lands(b.r, 2, a.r.row_number, 4))
    BY <1>6, <2>1
  <2> HIDE DEF b
  <2>5. b.r.pass # 6 /\ (b.r.pass = 4 => b.r.row_number = 0)
    BY <1>1, <2>1, <2>4, NextPushPasses DEF Lands
  <2>6. Loose(c.r, 6) /\ (b.r.pass # 4 => c = b)
        /\ (b.r.pass = 4 => Lands(c.r, 4, b.r.row_number, 2))
    BY <1>7, <2>4
  <2> HIDE DEF c
  <2>7. c.r.pass # 6
    BY <1>1, <2>3, <2>5, <2>6, NextPushPasses DEF Lands
  <2> QED BY <1>4, <2>2, <2>6, <2>7
<1>12. CASE p = 3
  <2> DEFINE a == Repeat(s, 4, 3, TRUE)
             b == Four(a)
  <2>1. Lands(a.r, 3, y, 4) /\ Loose(a.r, 4)
    <3>1. 4 = <<8, 8, 4, 4, 2, 2, 1>>[p + 1] /\ 4 = <<2, 2, 2, 4, 4, 6, 6>>[p + 1]
      BY <1>12
    <3> QED BY <1>2, <1>12, <3>1
  <2>2. PushRows(s) = b
    BY <1>12 DEF PushRows
  <2>3. width >= 3
    BY <1>1, <1>12 DEF SkipsRow
  <2> HIDE DEF a, y, Four
  <2>4. Loose(b.r, 6) /\ (a.r.pass # 4 => b = a)
        /\ (a.r.pass = 4 => Lands(b.r, 4, a.r.row_number, 2))
    BY <1>7, <2>1
  <2> HIDE DEF b
  <2>5. b.r.pass # 6
    BY <1>1, <2>1, <2>3, <2>4, NextPushPasses DEF Lands
  <2> QED BY <1>4, <2>2, <2>4, <2>5
<1>13. CASE p = 4
  <2>1. PushRows(s) = Six(Four(Repeat(s, 2, 4, TRUE)))
    BY <1>13 DEF PushRows
  <2>2. Loose(Repeat(s, 2, 4, TRUE).r, 4)
    <3>1. 2 = <<8, 8, 4, 4, 2, 2, 1>>[p + 1] /\ 4 = <<2, 2, 2, 4, 4, 6, 6>>[p + 1]
      BY <1>13
    <3> QED BY <1>2, <1>13, <3>1
  <2> HIDE DEF Four, Six
  <2> QED BY <1>3, <1>7, <1>8, <2>1, <2>2
<1>14. CASE p = 5
  <2>1. PushRows(s) = Six(Repeat(s, 2, 5, TRUE))
    BY <1>14 DEF PushRows
  <2>2. Loose(Repeat(s, 2, 5, TRUE).r, 6)
    <3>1. 2 = <<8, 8, 4, 4, 2, 2, 1>>[p + 1] /\ 6 = <<2, 2, 2, 4, 4, 6, 6>>[p + 1]
      BY <1>14
    <3> QED BY <1>2, <1>14, <3>1
  <2> HIDE DEF Six
  <2> QED BY <1>3, <1>8, <2>1, <2>2
<1>15. CASE p = 6
  <2>1. PushRows(s) = Six(Repeat(s, 1, 6, TRUE))
    BY <1>15 DEF PushRows
  <2>2. Loose(Repeat(s, 1, 6, TRUE).r, 6)
    <3>1. 1 = <<8, 8, 4, 4, 2, 2, 1>>[p + 1] /\ 6 = <<2, 2, 2, 4, 4, 6, 6>>[p + 1]
      BY <1>15
    <3> QED BY <1>2, <1>15, <3>1
  <2> HIDE DEF Six
  <2> QED BY <1>3, <1>8, <2>1, <2>2
<1> QED BY <1>1, <1>9, <1>10, <1>11, <1>12, <1>13, <1>14, <1>15, EachPass

----------------------------------------------------------------------------
(* What is read is there, and at the end nothing is left. *)

ReaderOK ==
  IF rd.started THEN Written /\ Reading(rd) /\ (job.progressive /\ deinterlaces => Rests(rd))
  ELSE /\ IsReader(rd) /\ ~rd.error
       /\ rd.row_number = 0 /\ rd.pass = 0 /\ rd.num_rows = 0 /\ rd.next_in = 0

LEMMA Whole ==
  ASSUME JobOK, WriterOK(wr, stream), Written
  PROVE  Len(stream) = IF job.interlaced THEN BytesBefore(7) ELSE StreamAt(job.writeHandling, 0, height)
<1>1. wr.row_buf # NULL
  BY Sizes DEF WriterOK, Written
<1>2. Writing(wr) /\ Len(stream) = StreamAt(job.writeHandling, wr.pass, wr.row_number)
  BY <1>1 DEF WriterOK
<1>3. CASE job.interlaced
  <2>1. wr.pass = 7
    BY <1>3 DEF Written
  <2>2. BytesBefore(7) \in Nat
    BY BytesBeforeNext
  <2> QED BY <1>2, <1>3, <2>1, <2>2 DEF StreamAt
<1>4. CASE ~job.interlaced
  BY <1>2, <1>4 DEF Written, Writing, At
<1> QED BY <1>3, <1>4

LEMMA Longer ==
  ASSUME NEW a \in Nat, NEW b \in Nat, a <= b, NEW l \in Nat
  PROVE  a * l <= b * l
<1>1. PICK c \in Nat : b = a + c
  <2>1. b - a \in Nat /\ b = a + (b - a)
    OBVIOUS
  <2> QED BY <2>1
<1>2. b * l = a * l + c * l /\ c * l \in Nat /\ a * l \in Nat
  BY <1>1
<1> QED BY <1>2

(* A reader that stands at a row finds it in the stream. *)
LEMMA Fits ==
  ASSUME JobOK, WriterOK(wr, stream), Written, NEW r, Reading(r), r.pass # 7,
         r.row_number < r.num_rows,
         ~Skipped(job.readHandling, r.pass, r.row_number)
  PROVE  r.next_in + RowLength(r.pass) <= Len(stream)
<1> DEFINE h == job.readHandling
           p == r.pass
           y == r.row_number
           n == r.num_rows
           l == RowLength(p)
           a == RowsAmong(h, y, p)
<1>1. h \in BOOLEAN /\ p \in Passes /\ y \in Nat /\ n \in Nat /\ y < n /\ At(h, p, y, n)
      /\ r.next_in = StreamAt(h, p, y) /\ p # 7 /\ p \in 0 .. 7
  BY Sizes DEF Reading, Standing, IsReader, Passes
<1>2. ~Skipped(h, p, y)
  OBVIOUS
<1> HIDE DEF h, p, y, n
<1>3. a \in Nat /\ RowsAmong(h, y + 1, p) = a + 1
  BY <1>1, <1>2, CountOne
<1>4. RowsAmong(h, y + 1, p) <= PassRows(p) /\ PassRows(p) \in Nat /\ l \in Nat
  <2>1. RowsAmong(h, n, p) = PassRows(p) /\ PassRows(p) \in Nat /\ l \in Nat
    BY <1>1, CountAll, PassBytes
  <2>2. CASE y + 1 = n
    BY <2>1, <2>2
  <2>3. CASE y + 1 # n
    <3>1. y + 1 < n
      BY <1>1, <2>3
    <3>2. At(h, p, y + 1, n)
      BY <1>1, <3>1, Onward
    <3>3. RowsAmong(h, y + 1, p) <= PassRows(p)
      BY <1>1, <3>2, CountAll
    <3> QED BY <2>1, <3>3
  <2> QED BY <2>2, <2>3
<1>5. StreamAt(h, p, y) = BytesBefore(p) + a * l /\ BytesBefore(p) \in Nat
  BY <1>1, BytesBeforeNext DEF StreamAt
<1> DEFINE b == PassRows(p)
           B == BytesBefore(p)
<1>6. a * l + l <= b * l
  <2> HIDE DEF a, l, b
  <2>1. a + 1 \in Nat /\ a + 1 <= b /\ b \in Nat
    BY <1>3, <1>4 DEF b
  <2>2. (a + 1) * l <= b * l
    BY <1>4, <2>1, Longer
  <2>3. (a + 1) * l = a * l + l
    BY <1>3, <1>4
  <2> QED BY <2>2, <2>3
<1>7. B + b * l <= Len(stream)
  <2>1. CASE job.interlaced
    <3>1. BytesBefore(p + 1) = B + b * l
      BY <1>1, BytesBeforeNext DEF BytesOf
    <3>2. p + 1 \in 0 .. 7
      BY <1>1 DEF Passes
    <3>3. BytesBefore(p + 1) <= BytesBefore(7)
      BY <3>2, BytesBeforeNext
    <3>4. Len(stream) = BytesBefore(7)
      BY <2>1, Whole
    <3> HIDE DEF B, b, l
    <3> QED BY <3>1, <3>3, <3>4
  <2>2. CASE ~job.interlaced
    <3>1. p = 0 /\ b = height /\ height \in Nat
      BY <1>1, <2>2, Sizes DEF At, PassRows
    <3>2. Len(stream) = StreamAt(job.writeHandling, 0, height)
      BY <2>2, Whole
    <3>3. StreamAt(job.writeHandling, 0, height) = BytesBefore(0) + height * RowLength(0)
      BY <2>2 DEF StreamAt, RowsAmong
    <3>4. b * l \in Nat /\ B = 0
      BY <3>1, <1>1, BytesBeforeNext, PassBytes
    <3>5. Len(stream) = B + b * l
      BY <3>1, <3>2, <3>3
    <3> HIDE DEF B, b, l
    <3> QED BY <3>4, <3>5
  <2> QED BY <2>1, <2>2
<1>8. StreamAt(h, p, y) + l <= Len(stream)
  <2>1. Len(stream) \in Nat
    BY DEF WriterOK, IsSequence
  <2>2. b \in Nat /\ B \in Nat /\ StreamAt(h, p, y) = B + a * l
    BY <1>4, <1>5
  <2> HIDE DEF a, l, b, B
  <2>3. a * l \in Nat /\ b * l \in Nat
    BY <1>3, <1>4, <2>2
  <2> DEFINE al == a * l
             bl == b * l
             L == Len(stream)
  <2>4. al + l <= bl /\ B + bl <= L /\ al \in Nat /\ bl \in Nat /\ L \in Nat
        /\ StreamAt(h, p, y) = B + al
    BY <1>6, <1>7, <2>1, <2>2, <2>3
  <2> HIDE DEF al, bl, L
  <2>5. StreamAt(h, p, y) + l <= L
    BY <1>4, <2>2, <2>4
  <2> QED BY <2>5 DEF L
<1> QED BY <1>1, <1>8 DEF h, p, y

LEMMA StartReading ==
  ASSUME JobOK, ReaderOK, ~rd.started
  PROVE  /\ Reading(png_read_start_row)
         /\ png_read_start_row.row_number = 0 /\ png_read_start_row.pass = 0
<1> DEFINE whole == ~job.interlaced \/ job.readHandling
           n == IF whole THEN height ELSE PassHeight(height, 0)
           iw == IF job.interlaced THEN PassWidth(width, 0) ELSE width
           bytes == PNG_ROWBYTES(depth, ((width + 7) \div 8) * 8) + 1 + bpp
           rb == Filled(IF job.interlaced THEN 0 ELSE FreshByte, bytes - 1)
           pb == Overwrite(Filled(FreshByte, bytes - 1), AppRow(0))
           r == png_read_start_row
<1>1. r = [rd EXCEPT !.started = TRUE, !.num_rows = n, !.iwidth = iw, !.row_buf = rb, !.prev_row = pb]
  BY SMT DEF png_read_start_row
<1>2. 0 \in Passes /\ 0 \in 0 .. 7
  BY DEF Passes
<1>3. width \in Nat \ {0} /\ height \in Nat \ {0} /\ PassWidth(width, 0) \in Nat \ {0}
      /\ PassHeight(height, 0) \in Nat \ {0}
  BY <1>2, Sizes, PassSizes, FirstPass
<1>4. n \in Nat \ {0} /\ iw \in Nat
  BY <1>3
<1>5. IsReader(rd) /\ ~rd.error /\ rd.row_number = 0 /\ rd.pass = 0 /\ rd.next_in = 0
  BY DEF ReaderOK
<1>6. StreamAt(job.readHandling, 0, 0) = 0
  BY <1>2, StreamAtStart, BytesBeforeNext, Sizes
<1> HIDE DEF rb, pb
<1>7. /\ IsReader(r) /\ r.started /\ ~r.error /\ r.row_number = 0 /\ r.pass = 0 /\ r.next_in = 0
      /\ r.num_rows = n /\ r.iwidth = iw
  <2> HIDE DEF n, iw, r
  <2> QED BY <1>1, <1>4, <1>5 DEF IsReader
<1> HIDE DEF r
<1>8. At(job.readHandling, 0, 0, n)
  BY <1>2, <1>3, Sizes DEF At
<1> QED BY <1>6, <1>7, <1>8 DEF Reading, Standing, r

LEMMA ReaderStands ==
  ASSUME JobOK, ReaderOK, ~AllRead
  PROVE  /\ Reading(reader) /\ reader.pass # 7 /\ reader.row_number < reader.num_rows
         /\ ~rd.started => ~Skipped(job.readHandling, reader.pass, reader.row_number)
<1>1. CASE rd.started
  <2>1. reader = rd /\ Reading(rd)
    BY <1>1 DEF reader, ReaderOK
  <2>2. At(job.readHandling, rd.pass, rd.row_number, rd.num_rows) /\ rd.pass \in 0 .. 7
        /\ rd.row_number \in Nat /\ rd.num_rows \in Nat
    BY <2>1 DEF Reading, Standing, IsReader
  <2>3. rd.pass # 7 /\ rd.row_number < rd.num_rows
    BY <1>1, <2>2, Sizes DEF AllRead, At
  <2> QED BY <1>1, <2>1, <2>3
<1>2. CASE ~rd.started
  <2>1. reader = png_read_start_row
    BY <1>2 DEF reader
  <2>2. Reading(reader) /\ reader.row_number = 0 /\ reader.pass = 0
    BY <1>2, <2>1, StartReading
  <2>3. reader.row_number < reader.num_rows
    BY <2>2, Sizes DEF Reading, Standing, IsReader, At
  <2>4. ~SkipsRow(0, width, 0)
    BY DEF SkipsRow
  <2> QED BY <2>2, <2>3, <2>4 DEF Skipped
<1> QED BY <1>1, <1>2

(* So the row is there, and after it the reader is ahead by its length. *)
LEMMA RowTaken ==
  ASSUME JobOK, WriterOK(wr, stream), Written, NEW r, Reading(r), r.pass # 7,
         r.row_number < r.num_rows,
         ~Skipped(job.readHandling, r.pass, r.row_number),
         NEW n, n = PNG_ROWBYTES(depth, r.iwidth), NEW x, NEW z
  PROVE  LET done == [r EXCEPT !.next_in = @ + n + 1, !.row_buf = x, !.prev_row = z]
         IN  /\ ~TooShort(r, n)
             /\ Ahead(done) /\ done.pass = r.pass /\ done.row_number = r.row_number
<1> DEFINE done == [r EXCEPT !.next_in = @ + n + 1, !.row_buf = x, !.prev_row = z]
<1>1. n + 1 = RowLength(r.pass)
  BY Sizes DEF Reading, Standing, RowLength
<1>2. r.iwidth \in Nat /\ r.next_in \in Nat /\ IsReader(r)
  BY DEF Reading, Standing, IsReader
<1>3. n \in Nat
  BY <1>2, RowBytesType
<1>4. ~TooShort(r, n)
  <2>1. r.next_in + RowLength(r.pass) <= Len(stream)
    BY Fits
  <2>2. Len(stream) \in Nat
    BY DEF WriterOK, IsSequence
  <2> QED BY <1>1, <1>2, <1>3, <2>1, <2>2 DEF TooShort
<1>5. /\ IsReader(done) /\ done.started = r.started /\ done.error = r.error /\ done.pass = r.pass
      /\ done.row_number = r.row_number /\ done.num_rows = r.num_rows /\ done.iwidth = r.iwidth
      /\ done.next_in = r.next_in + (n + 1)
  <2> DEFINE m == r.next_in + n + 1
  <2>1. m \in Nat /\ m = r.next_in + (n + 1)
    BY <1>2, <1>3
  <2>2. done = [r EXCEPT !.next_in = m, !.row_buf = x, !.prev_row = z]
    OBVIOUS
  <2> HIDE DEF m, done
  <2>3. /\ done.started = r.started /\ done.error = r.error /\ done.pass = r.pass
        /\ done.row_number = r.row_number /\ done.num_rows = r.num_rows
           /\ done.iwidth = r.iwidth
        /\ done.next_in = m /\ done.row_buf = x /\ done.prev_row = z
    BY <1>2, <2>2 DEF IsReader
  <2>4. IsReader(done)
    BY <1>2, <2>1, <2>2, <2>3 DEF IsReader
  <2> QED BY <2>1, <2>3, <2>4
<1> HIDE DEF done
<1>6. Step(job.readHandling, r.pass, r.row_number) = n + 1
  BY <1>1 DEF Step
<1>7. Ahead(done)
  BY <1>5, <1>6 DEF Ahead, Reading, Standing
<1> QED BY <1>4, <1>5, <1>7 DEF done

LEMMA ReadStep ==
  ASSUME JobOK, WriterOK(wr, stream), ReaderOK, png_read_row
  PROVE  Reading(rd')
<1>1. Written /\ ~AllRead
      /\ ~(rd.started /\ deinterlaces /\ SkipsRow(rd.row_number, width, rd.pass))
  BY DEF png_read_row
<1> DEFINE r == reader
           n == PNG_ROWBYTES(depth, r.iwidth)
           row == RowRead(r, n)
           expanded == IF deinterlaces /\ r.pass < 6
                       THEN png_do_read_interlace(row, r.iwidth, r.pass) ELSE row
           prev == Overwrite(r.prev_row, [k \in 0 .. n |-> row[k]])
           done == [r EXCEPT !.next_in = @ + n + 1, !.row_buf = expanded, !.prev_row = prev]
<1>2. /\ Reading(r) /\ r.pass # 7 /\ r.row_number < r.num_rows
      /\ ~Skipped(job.readHandling, r.pass, r.row_number)
  <2>1. rd.started => r = rd
    BY DEF reader
  <2>2. /\ Reading(r) /\ r.pass # 7 /\ r.row_number < r.num_rows
        /\ ~rd.started => ~Skipped(job.readHandling, r.pass, r.row_number)
    BY <1>1, ReaderStands
  <2> HIDE DEF r
  <2> QED BY <1>1, <2>1, <2>2 DEF Skipped, deinterlaces
<1>3. IF TooShort(r, n) THEN TRUE ELSE rd' = png_read_finish_row(done)
  BY Zenon DEF png_read_row
<1> HIDE DEF r, expanded, prev
<1>4. ~TooShort(r, n) /\ Ahead(done)
  <2> HIDE DEF n
  <2>1. n = PNG_ROWBYTES(depth, r.iwidth)
    BY DEF n
  <2> QED BY <1>1, <1>2, <2>1, RowTaken
<1> HIDE DEF n, done
<1>5. Reading(png_read_finish_row(done))
  BY <1>4, FinishRead
<1> QED BY <1>3, <1>4, <1>5

LEMMA SkipStep ==
  ASSUME JobOK, ReaderOK, ReadRowSkipped
  PROVE  Reading(rd')
<1>1. ~AllRead /\ rd.started /\ deinterlaces /\ SkipsRow(rd.row_number, width, rd.pass)
      /\ rd' = png_read_finish_row(rd)
  BY DEF ReadRowSkipped
<1>2. Reading(rd) /\ rd.pass # 7 /\ rd.row_number < rd.num_rows
  BY <1>1, ReaderStands DEF reader
<1>3. Step(job.readHandling, rd.pass, rd.row_number) = 0
  BY <1>1 DEF Step, Skipped, deinterlaces
<1>4. Ahead(rd)
  <2>1. rd.next_in \in Nat
    BY <1>2 DEF Reading, Standing, IsReader
  <2> QED BY <1>2, <1>3, <2>1 DEF Ahead, Reading
<1> DEFINE r == rd
<1>5. Ahead(r)
  BY <1>4
<1> HIDE DEF r
<1>6. Reading(png_read_finish_row(r))
  BY <1>5, FinishRead
<1> QED BY <1>1, <1>6 DEF r

LEMMA PushStep ==
  ASSUME JobOK, WriterOK(wr, stream), ReaderOK, png_push_process_row
  PROVE  Reading(rd') /\ (deinterlaces => Rests(rd'))
<1>1. Written /\ ~AllRead /\ job.progressive
  BY DEF png_push_process_row
<1> DEFINE r == reader
           n == PNG_ROWBYTES(depth, r.iwidth)
           row == RowRead(r, n)
           expanded == IF deinterlaces /\ r.pass < 6
                       THEN png_do_read_interlace(row, r.iwidth, r.pass) ELSE row
           prev == Overwrite(r.prev_row, [k \in 0 .. n |-> row[k]])
           done == [r EXCEPT !.next_in = @ + n + 1, !.row_buf = expanded, !.prev_row = prev]
           s == [r |-> done, calls |-> calls, image |-> display]
<1>2. /\ Reading(r) /\ r.pass # 7 /\ r.row_number < r.num_rows
      /\ ~Skipped(job.readHandling, r.pass, r.row_number)
  <2>1. rd.started => r = rd
    BY DEF reader
  <2>2. /\ Reading(r) /\ r.pass # 7 /\ r.row_number < r.num_rows
        /\ ~rd.started => ~Skipped(job.readHandling, r.pass, r.row_number)
    BY <1>1, ReaderStands
  <2>3. rd.started => (deinterlaces => Rests(rd))
    BY <1>1 DEF ReaderOK
  <2> HIDE DEF r
  <2> QED BY <1>1, <2>1, <2>2, <2>3 DEF Skipped, deinterlaces, Rests
<1>3. IF TooShort(r, n) THEN TRUE
      ELSE IF deinterlaces THEN rd' = PushRows(s).r ELSE rd' = png_read_push_finish_row(done)
  BY Zenon DEF png_push_process_row
<1> HIDE DEF r, expanded, prev
<1>4. ~TooShort(r, n) /\ Ahead(done) /\ done.pass = r.pass /\ done.row_number = r.row_number
  <2> HIDE DEF n, s
  <2>1. n = PNG_ROWBYTES(depth, r.iwidth)
    BY DEF n
  <2>2. ~TooShort(r, n) /\ Ahead(done)
    BY <1>1, <1>2, <2>1, RowTaken
  <2>3. IsReader(r)
    BY <1>2 DEF Reading, Standing
  <2>4. done.pass = r.pass /\ done.row_number = r.row_number
    BY <2>3 DEF IsReader
  <2> QED BY <2>2, <2>4
<1> HIDE DEF n, done
<1>5. CASE deinterlaces
  <2>1. s.r = done
    OBVIOUS
  <2>2. ~SkipsRow(done.row_number, width, done.pass)
    BY <1>2, <1>4, <1>5 DEF Skipped, deinterlaces
  <2> HIDE DEF s
  <2>3. Ahead(s.r) /\ ~SkipsRow(s.r.row_number, width, s.r.pass)
    BY <1>4, <2>1, <2>2
  <2>4. Reading(PushRows(s).r) /\ Rests(PushRows(s).r)
    BY <1>5, <2>3, PushedRows
  <2> QED BY <1>3, <1>4, <1>5, <2>4
<1>6. CASE ~deinterlaces
  <2>1. png_read_push_finish_row(done) = png_read_finish_row(done)
    BY <1>6, Sizes DEF png_read_push_finish_row, png_read_finish_row, deinterlaces
  <2>2. Reading(png_read_finish_row(done))
    BY <1>4, FinishRead
  <2> QED BY <1>3, <1>4, <1>6, <2>1, <2>2
<1> QED BY <1>5, <1>6

RowsInv == JobOK /\ WriterOK(wr, stream) /\ ReaderOK

LEMMA FirstJob ==
  ASSUME Init
  PROVE  JobOK
<1>1. job \in Jobs
  BY DEF Init
<1>2. Image \in [0 .. job.height - 1 -> [0 .. job.width - 1 -> Pixels(job.depth)]]
  BY <1>1, PicturesAssumption, Zenon DEF Image
<1> QED BY <1>1, <1>2, JobsAssumption, Zenon DEF JobOK, width, height, depth

LEMMA SameJob ==
  ASSUME JobOK, job' = job
  PROVE  JobOK'
BY Zenon DEF JobOK, Image, width, height, depth

LEMMA NoRows ==
  ASSUME Init
  PROVE  RowsInv
<1>1. JobOK
  BY FirstJob
<1>2. job.filters \in SUBSET (0 .. 4)
  BY <1>1, Sizes
<1>3. wr \in WriterType /\ wr.row_buf = NULL /\ wr.row_number = 0 /\ wr.pass = 0
      /\ wr.num_rows = 0
  BY <1>2 DEF Init, WriterType, NULL
<1>4. stream = <<>> /\ IsSequence(stream)
  BY DEF Init, IsSequence
<1>5. WriterOK(wr, stream)
  BY <1>3, <1>4 DEF WriterOK
<1>6. ReaderOK
  BY DEF Init, ReaderOK, IsReader
<1> QED BY <1>1, <1>5, <1>6 DEF RowsInv

LEMMA SameReader ==
  ASSUME job' = job
  PROVE  /\ Reading(rd)' <=> Reading(rd')
         /\ Rests(rd)' <=> Rests(rd')
         /\ IsReader(rd)' <=> IsReader(rd')
         /\ deinterlaces' <=> deinterlaces
<1>1. BytesBefore(rd.pass)' = BytesBefore(rd'.pass)
  BY SameBytes DEF BytesBefore
<1>2. StreamAt(job.readHandling, rd.pass, rd.row_number)' = StreamAt(job.readHandling, rd'.pass, rd'.row_number)
  BY <1>1, Zenon DEF StreamAt, RowsAmong, RowLength, width, depth
<1>3. IsReader(rd)' <=> IsReader(rd')
  BY Zenon DEF IsReader
<1>4. Standing(rd)' <=> Standing(rd')
  BY <1>3, Zenon DEF Standing, At, width, height
<1> QED BY <1>2, <1>3, <1>4, Zenon DEF Reading, Rests, deinterlaces, width

LEMMA WriterMoves ==
  ASSUME RowsInv, WriteRowSkipped \/ png_write_row \/ png_set_filter
  PROVE  RowsInv'
<1>1. ~Written /\ job' = job /\ rd' = rd
  BY DEF WriteRowSkipped, png_write_row, png_set_filter
<1>2. WriterOK(wr', stream')
  BY SkipRow, WriteRow, SetFilter DEF RowsInv
<1>3. WriterOK(wr, stream)'
  BY <1>1, <1>2, SameWriter
<1>4. ~rd.started
  BY <1>1 DEF RowsInv, ReaderOK
<1>5. ReaderOK'
  BY <1>1, <1>4 DEF RowsInv, ReaderOK, IsReader
<1>6. JobOK'
  BY <1>1, SameJob DEF RowsInv
<1> QED BY <1>3, <1>5, <1>6 DEF RowsInv

LEMMA ReaderMoves ==
  ASSUME RowsInv, ReadRowSkipped \/ png_read_row \/ png_push_process_row
  PROVE  RowsInv'
<1>1. Written /\ job' = job /\ wr' = wr /\ stream' = stream
  BY DEF ReadRowSkipped, png_read_row, png_push_process_row
<1>2. Reading(rd') /\ (job.progressive /\ deinterlaces => Rests(rd'))
  <2>1. CASE ReadRowSkipped
    BY <2>1, SkipStep DEF RowsInv, ReadRowSkipped
  <2>2. CASE png_read_row
    BY <2>2, ReadStep DEF RowsInv, png_read_row
  <2>3. CASE png_push_process_row
    BY <2>3, PushStep DEF RowsInv
  <2> QED BY <2>1, <2>2, <2>3
<1>3. rd'.started
  BY <1>2 DEF Reading, Standing
<1>4. Reading(rd)' /\ (job.progressive /\ deinterlaces => Rests(rd))'
  BY <1>1, <1>2, SameReader
<1>5. Written'
  BY <1>1 DEF Written
<1>6. ReaderOK'
  BY <1>3, <1>4, <1>5 DEF ReaderOK
<1>7. WriterOK(wr, stream)'
  BY <1>1, SameWriter DEF RowsInv
<1>8. JobOK'
  BY <1>1, SameJob DEF RowsInv
<1> QED BY <1>6, <1>7, <1>8 DEF RowsInv

LEMMA NothingMoves ==
  ASSUME RowsInv, UNCHANGED vars
  PROVE  RowsInv'
<1>1. job' = job /\ wr' = wr /\ stream' = stream /\ rd' = rd
  BY DEF vars
<1>2. WriterOK(wr, stream)'
  BY <1>1, SameWriter DEF RowsInv
<1>3. Written' <=> Written
  BY <1>1 DEF Written
<1>4. ReaderOK'
  BY <1>1, <1>3, SameReader, Zenon DEF RowsInv, ReaderOK
<1>5. JobOK'
  BY <1>1, SameJob DEF RowsInv
<1> QED BY <1>2, <1>4, <1>5 DEF RowsInv

LEMMA InvFits ==
  ASSUME RowsInv
  PROVE  StreamFits
<1>1. ~rd.error
  BY DEF RowsInv, ReaderOK, Reading, Standing
<1>2. ASSUME AllRead PROVE rd.next_in = Len(stream)
  <2> DEFINE h == job.readHandling
  <2>1. rd.started
    BY <1>2 DEF RowsInv, ReaderOK, AllRead
  <2>2. Written /\ Reading(rd)
    BY <2>1 DEF RowsInv, ReaderOK
  <2>3. Len(stream) = IF job.interlaced THEN BytesBefore(7) ELSE StreamAt(job.writeHandling, 0, height)
    BY <2>2, Whole DEF RowsInv
  <2>4. rd.next_in = StreamAt(h, rd.pass, rd.row_number)
        /\ At(h, rd.pass, rd.row_number, rd.num_rows)
    BY <2>2 DEF Reading, Standing
  <2>5. CASE job.interlaced
    <3>1. rd.pass = 7
      BY <1>2, <2>5 DEF AllRead
    <3>2. BytesBefore(7) \in Nat
      BY BytesBeforeNext DEF RowsInv
    <3> QED BY <2>3, <2>4, <2>5, <3>1, <3>2 DEF StreamAt
  <2>6. CASE ~job.interlaced
    <3>1. rd.pass = 0 /\ rd.row_number = height
      BY <1>2, <2>4, <2>6 DEF AllRead, At
    <3> QED BY <2>3, <2>4, <2>6, <3>1 DEF StreamAt, RowsAmong
  <2> QED BY <2>5, <2>6
<1> QED BY <1>1, <1>2 DEF StreamFits

(* Of every image, whoever picks the pixels of a pass out, sequentially or
   progressively read, with any choice of filters: png_read_IDAT_data never lacks
   data for a row, and when the last row is read none is left over. *)
THEOREM StreamAgrees == ProgressiveSpec => []StreamFits
<1>1. ProgressiveInit => RowsInv
  BY NoRows DEF ProgressiveInit
<1>2. RowsInv /\ [ProgressiveNext]_<<vars, pushVars, delivery>> => RowsInv'
  <2> SUFFICES ASSUME RowsInv, [ProgressiveNext]_<<vars, pushVars, delivery>>
               PROVE  RowsInv'
    OBVIOUS
  <2>1. CASE UNCHANGED vars
    BY <2>1, NothingMoves
  <2>2. CASE Sequential
    BY <2>2, WriterMoves, ReaderMoves DEF Sequential
  <2>3. CASE ProcessRow
    BY <2>3, ReaderMoves DEF ProcessRow
  <2>4. CASE OpenFile \/ GivePiece \/ ProcessPiece \/ Stay
    BY <2>1, <2>4, Zenon DEF OpenFile, GivePiece, ProcessPiece, Stay
  <2> QED BY <2>1, <2>2, <2>3, <2>4, Zenon DEF ProgressiveNext
<1> QED BY <1>1, <1>2, InvFits, PTL DEF ProgressiveSpec

----------------------------------------------------------------------------
(* The calls of row_fn. *)

CallType == [pass : Passes, row : Nat, new : BOOLEAN]

(* The calls before pass p, and those for its first y rows. *)
CallsBefore(p) ==
  IF p = 0 THEN <<>>
  ELSE IF p = 1 THEN PassCalls(0)
  ELSE IF p = 2 THEN PassCalls(0) \o PassCalls(1)
  ELSE IF p = 3 THEN PassCalls(0) \o PassCalls(1) \o PassCalls(2)
  ELSE IF p = 4 THEN PassCalls(0) \o PassCalls(1) \o PassCalls(2) \o PassCalls(3)
  ELSE IF p = 5 THEN PassCalls(0) \o PassCalls(1) \o PassCalls(2) \o PassCalls(3) \o PassCalls(4)
  ELSE IF p = 6
  THEN PassCalls(0) \o PassCalls(1) \o PassCalls(2) \o PassCalls(3) \o PassCalls(4) \o PassCalls(5)
  ELSE ExpectedCalls
CallsOf(p, y) == [k \in 1 .. y |-> CallOf(p, k - 1)]

(* The calls made are those up to where the reader stands. *)
Told(t) == t.calls = CallsBefore(t.r.pass) \o CallsOf(t.r.pass, t.r.row_number)

LEMMA CallTypes ==
  ASSUME JobOK, NEW p \in Passes
  PROVE  /\ \A y \in Nat : CallOf(p, y) \in CallType /\ CallsOf(p, y) \in Seq(CallType)
                           /\ Len(CallsOf(p, y)) = y
         /\ PassCalls(p) \in Seq(CallType)
         /\ PassCalls(p) = IF PassWidth(width, p) = 0 THEN <<>> ELSE CallsOf(p, height)
<1>1. \A y \in Nat : CallOf(p, y) \in CallType
  BY DEF CallOf, CallType
<1>2. \A y \in Nat : CallsOf(p, y) \in Seq(CallType) /\ Len(CallsOf(p, y)) = y
  <2> TAKE y \in Nat
  <2>1. \A k \in 1 .. y : CallOf(p, k - 1) \in CallType
    BY <1>1
  <2> HIDE DEF CallType
  <2> QED BY <2>1 DEF CallsOf
<1>3. PassCalls(p) = IF PassWidth(width, p) = 0 THEN <<>> ELSE CallsOf(p, height)
  BY Zenon DEF PassCalls, CallsOf
<1> QED BY <1>1, <1>2, <1>3, Sizes, EmptySeq

LEMMA PassesFollow ==
  ASSUME JobOK
  PROVE  /\ CallsBefore(0) = <<>> /\ CallsBefore(7) = ExpectedCalls
         /\ \A p \in 0 .. 7 : CallsBefore(p) \in Seq(CallType)
         /\ \A p \in Passes : CallsBefore(p + 1) = CallsBefore(p) \o PassCalls(p)
<1>1. /\ PassCalls(0) \in Seq(CallType) /\ PassCalls(1) \in Seq(CallType)
      /\ PassCalls(2) \in Seq(CallType) /\ PassCalls(3) \in Seq(CallType)
      /\ PassCalls(4) \in Seq(CallType) /\ PassCalls(5) \in Seq(CallType)
      /\ PassCalls(6) \in Seq(CallType)
  BY CallTypes DEF Passes
<1>2. /\ CallsBefore(0) = <<>>
      /\ CallsBefore(1) = PassCalls(0)
      /\ CallsBefore(2) = CallsBefore(1) \o PassCalls(1)
      /\ CallsBefore(3) = CallsBefore(2) \o PassCalls(2)
      /\ CallsBefore(4) = CallsBefore(3) \o PassCalls(3)
      /\ CallsBefore(5) = CallsBefore(4) \o PassCalls(4)
      /\ CallsBefore(6) = CallsBefore(5) \o PassCalls(5)
      /\ CallsBefore(7) = CallsBefore(6) \o PassCalls(6)
      /\ CallsBefore(7) = ExpectedCalls
  BY DEF CallsBefore, ExpectedCalls
<1>3. <<>> \in Seq(CallType) /\ PassCalls(0) = <<>> \o PassCalls(0)
  BY <1>1, EmptySeq, ConcatEmptySeq
<1>4. \A s, t \in Seq(CallType) : s \o t \in Seq(CallType)
  BY ConcatProperties
<1> DEFINE B(p) == CallsBefore(p)
           P(p) == PassCalls(p)
           T == Seq(CallType)
<1>5. /\ B(0) \in T /\ B(1) \in T /\ B(2) \in T /\ B(3) \in T /\ B(4) \in T /\ B(5) \in T
      /\ B(6) \in T /\ B(7) \in T
  <2> HIDE DEF T
  <2>1. B(1) \in T BY <1>1, <1>2 DEF T
  <2>2. B(2) \in T BY <1>1, <1>2, <1>4, <2>1 DEF T
  <2>3. B(3) \in T BY <1>1, <1>2, <1>4, <2>2 DEF T
  <2>4. B(4) \in T BY <1>1, <1>2, <1>4, <2>3 DEF T
  <2>5. B(5) \in T BY <1>1, <1>2, <1>4, <2>4 DEF T
  <2>6. B(6) \in T BY <1>1, <1>2, <1>4, <2>5 DEF T
  <2>7. B(7) \in T BY <1>1, <1>2, <1>4, <2>6 DEF T
  <2> QED BY <1>2, <1>3, <2>1, <2>2, <2>3, <2>4, <2>5, <2>6, <2>7 DEF T
<1>6. ASSUME NEW p \in 0 .. 7 PROVE B(p) \in T
  <2>1. p = 0 \/ p = 1 \/ p = 2 \/ p = 3 \/ p = 4 \/ p = 5 \/ p = 6 \/ p = 7
    OBVIOUS
  <2> HIDE DEF B, T
  <2> QED BY <1>5, <2>1
<1>7. ASSUME NEW p \in Passes PROVE B(p + 1) = B(p) \o P(p)
  <2>1. B(1) = B(0) \o P(0)
    BY <1>2, <1>3
  <2>2. /\ B(2) = B(1) \o P(1) /\ B(3) = B(2) \o P(2) /\ B(4) = B(3) \o P(3)
        /\ B(5) = B(4) \o P(4) /\ B(6) = B(5) \o P(5) /\ B(7) = B(6) \o P(6)
    BY <1>2
  <2> HIDE DEF B, P
  <2>3. \/ p = 0 /\ p + 1 = 1
        \/ p = 1 /\ p + 1 = 2
        \/ p = 2 /\ p + 1 = 3
        \/ p = 3 /\ p + 1 = 4
        \/ p = 4 /\ p + 1 = 5
        \/ p = 5 /\ p + 1 = 6
        \/ p = 6 /\ p + 1 = 7
    BY EachPass
  <2> QED BY <2>1, <2>2, <2>3, Zenon
<1> QED BY <1>2, <1>6, <1>7

(* The pass that png_read_push_finish_row comes to has the calls of those before it. *)
LEMMA PassesOver ==
  ASSUME JobOK, NEW p \in Passes
  PROVE  /\ NextPushPass(p) \in 0 .. 7
         /\ CallsBefore(NextPushPass(p)) = CallsBefore(p) \o PassCalls(p)
<1>1. width \in Nat /\ height \in Nat /\ p \in Nat
  BY Sizes DEF Passes
<1>2. CallsBefore(p + 1) = CallsBefore(p) \o PassCalls(p)
  BY PassesFollow
<1>3. CASE NextPushPass(p) = p + 1
  BY <1>2, <1>3, EachPass
<1>4. CASE NextPushPass(p) # p + 1
  <2>1. NextPushPass(p) = p + 2 /\ p + 1 \in Passes /\ p + 2 \in 0 .. 7
        /\ PassWidth(width, p + 1) = 0
    <3>1. \/ p = 0 /\ width < 5
          \/ p = 2 /\ width < 3
          \/ p = 4 /\ width < 2
      BY <1>4 DEF NextPushPass
    <3>2. CASE p = 0 /\ width < 5
      BY <1>1, <3>2, Columns DEF NextPushPass, Passes, PassWidth
    <3>3. CASE p = 2 /\ width < 3
      BY <1>1, <3>3, Columns DEF NextPushPass, Passes, PassWidth
    <3>4. CASE p = 4 /\ width < 2
      BY <1>1, <3>4, Columns DEF NextPushPass, Passes, PassWidth
    <3> QED BY <3>1, <3>2, <3>3, <3>4
  <2>2. (p + 1) + 1 = p + 2 /\ p + 1 \in 0 .. 7
    BY <1>1, <2>1
  <2>3. CallsBefore(p + 2) = CallsBefore(p + 1) \o PassCalls(p + 1)
    BY <2>1, <2>2, PassesFollow
  <2>4. PassCalls(p + 1) = <<>>
    BY <2>1 DEF PassCalls
  <2>5. CallsBefore(p + 1) \o <<>> = CallsBefore(p + 1)
    BY <2>2, PassesFollow, ConcatEmptySeq
  <2> QED BY <1>2, <2>1, <2>3, <2>4, <2>5
<1> QED BY <1>3, <1>4

(* One call more, for the row that the reader stands at. *)
LEMMA TellOne ==
  ASSUME JobOK, deinterlaces, NEW t, Ahead(t.r), Told(t), PassWidth(width, t.r.pass) # 0,
         NEW new_row, new_row = CallOf(t.r.pass, t.r.row_number).new
  PROVE  Told(png_push_have_row(t, new_row))
<1> DEFINE r == t.r
           p == r.pass
           y == r.row_number
           u == png_push_have_row(t, new_row)
           c == CallOf(p, y)
<1>1. p \in Passes /\ p \in 0 .. 7 /\ y \in Nat /\ height \in Nat /\ y < height
  BY Sizes DEF Ahead, Standing, IsReader, Passes, At, deinterlaces
<1>2. u.calls = Append(t.calls, c)
  <2>1. [pass |-> p, row |-> y, new |-> new_row] = c
    BY DEF CallOf
  <2> QED BY <2>1 DEF png_push_have_row
<1>3. u.r = png_read_push_finish_row(r)
  BY DEF png_push_have_row
<1> HIDE DEF u, r
<1>4. IF y + 1 < height THEN u.r.pass = p /\ u.r.row_number = y + 1
      ELSE u.r.pass = NextPushPass(p) /\ u.r.row_number = 0
  <2>1. Ahead(r)
    BY DEF r
  <2> QED BY <1>3, <2>1, FinishPush
<1>5. t.calls = CallsBefore(p) \o CallsOf(p, y)
  BY DEF Told, r
<1>6. PassWidth(width, p) # 0 /\ c = CallOf(p, y)
  BY DEF r
<1> HIDE DEF p, y, c
<1>7. /\ CallsBefore(p) \in Seq(CallType) /\ CallsOf(p, y) \in Seq(CallType) /\ c \in CallType
      /\ CallsOf(p, y + 1) \in Seq(CallType)
  <2>1. y + 1 \in Nat
    BY <1>1
  <2> QED BY <1>1, <1>6, <2>1, CallTypes, PassesFollow
<1>8. Append(CallsOf(p, y), c) = CallsOf(p, y + 1)
  <2>1. \A k \in 1 .. y + 1 : CallsOf(p, y + 1)[k] = IF k = y + 1 THEN c ELSE CallsOf(p, y)[k]
    BY <1>1, <1>6 DEF CallsOf
  <2>2. Len(CallsOf(p, y)) = y /\ Len(CallsOf(p, y + 1)) = y + 1
    <3>1. y + 1 \in Nat
      BY <1>1
    <3> QED BY <1>1, <3>1, CallTypes
  <2> DEFINE a == CallsOf(p, y)
             b == CallsOf(p, y + 1)
  <2> HIDE DEF a, b
  <2>3. Len(Append(a, c)) = Len(b) /\ Append(a, c) \in Seq(CallType) /\ b \in Seq(CallType)
    BY <1>7, <2>2, AppendProperties DEF a, b
  <2>4. \A k \in 1 .. Len(b) : Append(a, c)[k] = b[k]
    BY <1>1, <1>7, <2>1, <2>2, AppendProperties DEF a, b
  <2>5. Append(a, c) = b
    BY <2>3, <2>4, SeqEqual
  <2> QED BY <2>5 DEF a, b
<1>9. u.calls = CallsBefore(p) \o CallsOf(p, y + 1)
  <2> DEFINE before == CallsBefore(p)
             these == CallsOf(p, y)
             T == CallType
  <2>1. before \in Seq(T) /\ these \in Seq(T) /\ c \in T /\ <<c>> \in Seq(T)
    BY <1>7
  <2> HIDE DEF before, these, T
  <2>2. Append(before \o these, c) = (before \o these) \o <<c>>
        /\ Append(these, c) = these \o <<c>>
    BY <2>1, ConcatProperties, AppendIsConcat
  <2>3. (before \o these) \o <<c>> = before \o (these \o <<c>>)
    BY <2>1, ConcatAssociative
  <2>4. u.calls = before \o Append(these, c)
    BY <1>2, <1>5, <2>2, <2>3 DEF before, these
  <2> QED BY <1>8, <2>4 DEF before, these
<1>10. CASE y + 1 < height
  BY <1>4, <1>9, <1>10 DEF Told, u
<1>11. CASE ~(y + 1 < height)
  <2>1. u.r.pass = NextPushPass(p) /\ u.r.row_number = 0 /\ y + 1 = height
    BY <1>1, <1>4, <1>11
  <2>2. PassCalls(p) = CallsOf(p, y + 1)
    BY <1>1, <1>6, <2>1, CallTypes
  <2>3. u.calls = CallsBefore(NextPushPass(p))
    BY <1>1, <1>9, <2>2, PassesOver
  <2>4. CallsOf(NextPushPass(p), 0) = <<>>
    BY DEF CallsOf
  <2>5. CallsBefore(NextPushPass(p)) \o <<>> = CallsBefore(NextPushPass(p))
    BY <1>1, PassesOver, PassesFollow, ConcatEmptySeq
  <2> QED BY <2>1, <2>3, <2>4, <2>5 DEF Told, u
<1> QED BY <1>10, <1>11

(* A row that is passed over. *)
LEMMA PassedOver ==
  ASSUME JobOK, deinterlaces, NEW r, Reading(r), r.pass \in Passes,
         SkipsRow(r.row_number, width, r.pass)
  PROVE  Ahead(r)
<1>1. job.interlaced /\ job.readHandling /\ r.pass < 7 /\ r.pass # 7
  BY DEF deinterlaces, Passes
<1>2. Step(job.readHandling, r.pass, r.row_number) = 0
  BY <1>1 DEF Step, Skipped
<1>3. r.next_in \in Nat /\ r.row_number < r.num_rows
  BY <1>1 DEF Reading, Standing, IsReader, At
<1>4. Standing(r) /\ r.next_in = StreamAt(job.readHandling, r.pass, r.row_number)
  BY DEF Reading
<1>5. r.next_in = StreamAt(job.readHandling, r.pass, r.row_number)
                  + Step(job.readHandling, r.pass, r.row_number)
  BY <1>2, <1>3, <1>4
<1> QED BY <1>1, <1>3, <1>4, <1>5 DEF Ahead

(* The calls for a row and for those below it are the ones expected of them. *)
LEMMA HopsTold ==
  ASSUME JobOK, deinterlaces, NEW s, Ahead(s.r), Told(s), NEW n \in Nat \ {0},
         NEW p, p = s.r.pass, NEW y, y = s.r.row_number, PassWidth(width, p) # 0,
         NEW new_row, \A i \in 1 .. n - 1 : SkipsRow(y + i, width, p),
         \A i \in 0 .. n - 1 : y + i < height => CallOf(p, y + i).new = new_row
  PROVE  Told(Repeat(s, n, p, new_row))
<1>1. PICK after : /\ Repeat(s, n, p, new_row) = after[n] /\ after[0] = s
                   /\ \A i \in 0 .. n - 1 : after[i + 1] = Call(after[i], p, new_row)
                   /\ \A i \in 1 .. n : Lands(after[i].r, p, y, i)
  BY HopByHop
<1>2. p \in Passes /\ y \in Nat /\ height \in Nat /\ y < height
  BY Sizes DEF Ahead, Standing, IsReader, Passes, At, deinterlaces
<1>3. NextPushPass(p) # p
  BY <1>2 DEF NextPushPass, Passes
<1> DEFINE S == {i \in 0 .. n : Told(after[i])}
<1>4. ASSUME NEW i \in 0 .. n - 1, Told(after[i]) PROVE Told(after[i + 1])
  <2> DEFINE t == after[i]
  <2>1. after[i + 1] = Call(t, p, new_row)
    BY <1>1
  <2>2. i = 0 \/ Lands(t.r, p, y, i)
    <3>1. i # 0 => i \in 1 .. n
      OBVIOUS
    <3> QED BY <1>1, <3>1
  <2>3. i = 0 => t = s
    BY <1>1
  <2>4. Told(t)
    BY <1>4
  <2> HIDE DEF t
  <2>5. CASE t.r.pass # p
    BY <2>1, <2>4, <2>5 DEF Call
  <2>6. CASE t.r.pass = p
    <3>1. t.r.row_number = y + i /\ y + i < height /\ Ahead(t.r)
      <4>1. CASE i = 0
        BY <1>2, <2>3, <4>1
      <4>2. CASE i # 0
        <5>1. y + i < height /\ t.r.row_number = y + i /\ Reading(t.r)
          BY <1>3, <2>2, <2>6, <4>2 DEF Lands
        <5>2. SkipsRow(y + i, width, p)
          BY <4>2
        <5> DEFINE r == t.r
        <5>3. Reading(r) /\ r.pass \in Passes /\ SkipsRow(r.row_number, width, r.pass)
          BY <1>2, <2>6, <5>1, <5>2
        <5>4. Ahead(r)
          <6> HIDE DEF r
          <6> QED BY <5>3, PassedOver
        <5> QED BY <5>1, <5>4
      <4> QED BY <4>1, <4>2
    <3>2. new_row = CallOf(t.r.pass, t.r.row_number).new /\ PassWidth(width, t.r.pass) # 0
      BY <2>6, <3>1
    <3>3. Told(png_push_have_row(t, new_row))
      BY <2>4, <3>1, <3>2, TellOne
    <3> QED BY <2>1, <2>6, <3>3 DEF Call
  <2> QED BY <2>5, <2>6
<1>5. n \in S
  <2>1. 0 \in S /\ \A i \in 0 .. n - 1 : i \in S => i + 1 \in S
    BY <1>1, <1>4
  <2>2. n \in Nat
    OBVIOUS
  <2> HIDE DEF S
  <2> QED BY <2>1, <2>2, Climbs
<1> QED BY <1>1, <1>5

(* Which rows a block covers. *)
LEMMA Covered ==
  ASSUME JobOK, NEW p \in Passes, NEW y \in Nat, ~SkipsRow(y, width, p),
         NEW n, n = <<8, 8, 4, 4, 2, 2, 1>>[p + 1], NEW i \in 0 .. n - 1, y + i < height
  PROVE  CallOf(p, y + i).new = TRUE
<1>1. n \in {8, 4, 2, 1}
  BY EachPass
<1>2. height \in Nat /\ y \in 0 .. height - 1 /\ y + i \in y .. y + n - 1
  BY <1>1, Sizes
<1> DEFINE C == \E first \in 0 .. height - 1 :
                   /\ ~SkipsRow(first, width, p)
                   /\ y + i \in first .. first + <<8, 8, 4, 4, 2, 2, 1>>[p + 1] - 1
<1>3. C
  BY <1>2
<1>4. CallOf(p, y + i).new = C
  BY DEF CallOf
<1> HIDE DEF C
<1> QED BY <1>3, <1>4

LEMMA NotCovered ==
  ASSUME JobOK, NEW q, NEW k, (q = 2 /\ k = 4) \/ (q = 4 /\ k = 2) \/ (q = 6 /\ k = 1),
         NEW y \in Nat, Above(y, q), NEW i \in 0 .. k - 1, y + i < height
  PROVE  CallOf(q, y + i).new = FALSE
<1> DEFINE C == \E first \in 0 .. height - 1 :
                   /\ ~SkipsRow(first, width, q)
                   /\ y + i \in first .. first + <<8, 8, 4, 4, 2, 2, 1>>[q + 1] - 1
<1>1. ASSUME NEW first \in 0 .. height - 1, ~SkipsRow(first, width, q),
             y + i \in first .. first + <<8, 8, 4, 4, 2, 2, 1>>[q + 1] - 1
      PROVE  FALSE
  <2>1. first \in Nat /\ i \in Nat
    BY Sizes
  <2>2. CASE q = 2 /\ k = 4
    <3>1. first % 8 = 4 /\ y % 8 = 0 /\ y + i >= first /\ y + i <= first + 3 /\ i < 4
      BY <1>1, <2>1, <2>2 DEF SkipsRow, Above
    <3> QED BY <2>1, <3>1
  <2>3. CASE q = 4 /\ k = 2
    <3>1. first % 4 = 2 /\ y % 4 = 0 /\ y + i >= first /\ y + i <= first + 1 /\ i < 2
      BY <1>1, <2>1, <2>3 DEF SkipsRow, Above
    <3> QED BY <2>1, <3>1
  <2>4. CASE q = 6 /\ k = 1
    <3>1. first % 2 = 1 /\ y % 2 = 0 /\ y + i = first /\ i = 0
      BY <1>1, <2>1, <2>4 DEF SkipsRow, Above
    <3> QED BY <2>1, <3>1
  <2> QED BY <2>2, <2>3, <2>4
<1>2. ~C
  BY <1>1
<1>3. CallOf(q, y + i).new = C
  BY DEF CallOf
<1> HIDE DEF C
<1> QED BY <1>2, <1>3

(* The calls for a row of the stream and its block. *)
LEMMA BlockTold ==
  ASSUME JobOK, deinterlaces, NEW s, Ahead(s.r), Told(s), NEW p \in Passes, p = s.r.pass,
         ~SkipsRow(s.r.row_number, width, p), NEW n, n = <<8, 8, 4, 4, 2, 2, 1>>[p + 1]
  PROVE  Told(Repeat(s, n, p, TRUE))
<1> DEFINE y == s.r.row_number
           new_row == TRUE
<1>1. y \in Nat /\ width \in Nat
  BY Sizes DEF Ahead, Standing, IsReader
<1>2. /\ n \in Nat \ {0} /\ \A i \in 1 .. n - 1 : SkipsRow(y + i, width, p)
  BY <1>1, BlockOfRow
<1>3. PassWidth(width, p) # 0
  <2> HIDE DEF y
  <2>1. SkipsRow(y, width, p) <=> ~RowInPass(y, p) \/ PassWidth(width, p) = 0
    BY <1>1, SkippedRows, Sizes
  <2> QED BY <2>1 DEF y
<1>4. \A i \in 0 .. n - 1 : y + i < height => CallOf(p, y + i).new = new_row
  BY <1>1, Covered
<1>5. y = s.r.row_number /\ new_row = TRUE
  OBVIOUS
<1> HIDE DEF y, new_row
<1>6. Told(Repeat(s, n, p, new_row))
  BY <1>2, <1>3, <1>4, <1>5, HopsTold
<1> QED BY <1>5, <1>6

(* The generated calls for the rows above the first one of pass q. *)
LEMMA GeneratedTold ==
  ASSUME JobOK, deinterlaces, NEW t, NEW q, NEW k,
         (q = 2 /\ k = 4) \/ (q = 4 /\ k = 2) \/ (q = 6 /\ k = 1), Loose(t.r, q), Told(t)
  PROVE  Loose(Repeat(t, k, q, FALSE).r, q + 2) /\ Told(Repeat(t, k, q, FALSE))
<1> DEFINE new_row == FALSE
           y == t.r.row_number
<1>1. k \in Nat \ {0} /\ q \in Passes
  BY DEF Passes
<1>2. Loose(Repeat(t, k, q, new_row).r, q + 2)
  <2> HIDE DEF new_row
  <2> QED BY RowsAreGenerated
<1>3. Reading(t.r) /\ y \in Nat /\ width \in Nat /\ (t.r.pass = q => Above(y, q))
  BY Sizes DEF Loose, Reading, Standing, IsReader
<1>4. CASE t.r.pass # q
  <2> HIDE DEF new_row
  <2>1. Repeat(t, k, q, new_row) = t
    <3>1. k \in Nat
      BY <1>1
    <3> QED BY <1>4, <3>1, RepeatNot
  <2> QED BY <1>2, <2>1 DEF new_row
<1>5. CASE t.r.pass = q
  <2>1. \A i \in 0 .. k - 1 : SkipsRow(y + i, width, q)
    <3>1. Above(y, q) /\ y \in Nat
      BY <1>3, <1>5
    <3> HIDE DEF y
    <3> QED BY <1>3, <3>1 DEF SkipsRow, Above
  <2>2. \A i \in 0 .. k - 1 : y + i < height => CallOf(q, y + i).new = FALSE
    BY <1>3, <1>5, NotCovered
  <2>3. SkipsRow(y, width, q)
    <3>1. 0 \in 0 .. k - 1 /\ y + 0 = y
      BY <1>3
    <3> HIDE DEF y
    <3> QED BY <2>1, <3>1
  <2>4. PassWidth(width, q) # 0
    BY Sizes, Columns DEF PassWidth
  <2>5. Ahead(t.r)
    <3> DEFINE r == t.r
    <3>1. Reading(r) /\ r.pass \in Passes /\ SkipsRow(r.row_number, width, r.pass)
      BY <1>1, <1>3, <1>5, <2>3
    <3>2. Ahead(r)
      <4> HIDE DEF r
      <4> QED BY <3>1, PassedOver
    <3> QED BY <3>2
  <2>6. /\ \A i \in 1 .. k - 1 : SkipsRow(y + i, width, q)
        /\ \A i \in 0 .. k - 1 : y + i < height => CallOf(q, y + i).new = new_row
    BY <2>1, <2>2
  <2>7. y = t.r.row_number /\ q = t.r.pass
    BY <1>5
  <2> HIDE DEF y, new_row
  <2>8. Told(Repeat(t, k, q, new_row))
    BY <1>1, <2>4, <2>5, <2>6, <2>7, HopsTold
  <2> QED BY <1>2, <2>8 DEF new_row
<1> QED BY <1>4, <1>5

(* All the calls that follow from one row. *)
LEMMA PushedTold ==
  ASSUME JobOK, deinterlaces, NEW s, Ahead(s.r), Told(s),
         ~SkipsRow(s.r.row_number, width, s.r.pass)
  PROVE  Told(PushRows(s))
<1> DEFINE p == s.r.pass
           Two(t) == Repeat(t, 4, 2, FALSE)
           Four(t) == Repeat(t, 2, 4, FALSE)
           Six(t) == Repeat(t, 1, 6, FALSE)
           Block(n) == Repeat(s, n, p, TRUE)
<1>1. p \in Passes
  BY DEF Ahead, Standing, IsReader, Passes
<1>2. ASSUME NEW t, Loose(t.r, 2), Told(t)
      PROVE  Loose(Two(t).r, 4) /\ Told(Two(t))
  <2> DEFINE q == 2
             k == 4
  <2>1. ((q = 2 /\ k = 4) \/ (q = 4 /\ k = 2) \/ (q = 6 /\ k = 1)) /\ Loose(t.r, q) /\ q + 2 = 4
    BY <1>2
  <2> HIDE DEF q, k
  <2>2. Loose(Repeat(t, k, q, FALSE).r, q + 2) /\ Told(Repeat(t, k, q, FALSE))
    BY <1>2, <2>1, GeneratedTold
  <2> QED BY <2>1, <2>2 DEF q, k
<1>3. ASSUME NEW t, Loose(t.r, 4), Told(t)
      PROVE  Loose(Four(t).r, 6) /\ Told(Four(t))
  <2> DEFINE q == 4
             k == 2
  <2>1. ((q = 2 /\ k = 4) \/ (q = 4 /\ k = 2) \/ (q = 6 /\ k = 1)) /\ Loose(t.r, q) /\ q + 2 = 6
    BY <1>3
  <2> HIDE DEF q, k
  <2>2. Loose(Repeat(t, k, q, FALSE).r, q + 2) /\ Told(Repeat(t, k, q, FALSE))
    BY <1>3, <2>1, GeneratedTold
  <2> QED BY <2>1, <2>2 DEF q, k
<1>4. ASSUME NEW t, Loose(t.r, 6), Told(t)
      PROVE  Told(Six(t))
  <2> DEFINE q == 6
             k == 1
  <2>1. ((q = 2 /\ k = 4) \/ (q = 4 /\ k = 2) \/ (q = 6 /\ k = 1)) /\ Loose(t.r, q)
    BY <1>4
  <2> HIDE DEF q, k
  <2>2. Told(Repeat(t, k, q, FALSE))
    BY <1>4, <2>1, GeneratedTold
  <2> QED BY <2>1, <2>2 DEF q, k
<1>5. ASSUME NEW n, n = <<8, 8, 4, 4, 2, 2, 1>>[p + 1], NEW q, q = <<2, 2, 2, 4, 4, 6, 6>>[p + 1]
      PROVE  Loose(Block(n).r, q) /\ Told(Block(n))
  <2> DEFINE y == s.r.row_number
             new_row == TRUE
  <2>1. p = s.r.pass /\ y = s.r.row_number /\ ~SkipsRow(y, width, p) /\ new_row = TRUE
    OBVIOUS
  <2> HIDE DEF p, y, new_row
  <2>2. Loose(Repeat(s, n, p, new_row).r, q)
    BY <1>1, <1>5, <2>1, BlockIsCalled
  <2>3. Told(Repeat(s, n, p, TRUE))
    BY <1>1, <1>5, <2>1, BlockTold
  <2> QED BY <2>1, <2>2, <2>3
<1>6. CASE p = 0
  <2>1. Loose(Block(8).r, 2) /\ Told(Block(8))
    <3>1. 8 = <<8, 8, 4, 4, 2, 2, 1>>[p + 1] /\ 2 = <<2, 2, 2, 4, 4, 6, 6>>[p + 1]
      BY <1>6
    <3> HIDE DEF Block
    <3> QED BY <1>5, <3>1
  <2>2. PushRows(s) = IF height <= 4 THEN Six(Four(Two(Block(8)))) ELSE Two(Block(8))
    BY <1>6 DEF PushRows
  <2> HIDE DEF Two, Four, Six, Block
  <2> QED BY <1>2, <1>3, <1>4, <2>1, <2>2
<1>7. CASE p = 1
  <2>1. Loose(Block(8).r, 2) /\ Told(Block(8))
    <3>1. 8 = <<8, 8, 4, 4, 2, 2, 1>>[p + 1] /\ 2 = <<2, 2, 2, 4, 4, 6, 6>>[p + 1]
      BY <1>7
    <3> HIDE DEF Block
    <3> QED BY <1>5, <3>1
  <2>2. PushRows(s) = Two(Block(8))
    BY <1>7 DEF PushRows
  <2> HIDE DEF Two, Block
  <2> QED BY <1>2, <2>1, <2>2
<1>8. CASE p = 2
  <2>1. Loose(Block(4).r, 2) /\ Told(Block(4))
    <3>1. 4 = <<8, 8, 4, 4, 2, 2, 1>>[p + 1] /\ 2 = <<2, 2, 2, 4, 4, 6, 6>>[p + 1]
      BY <1>8
    <3> HIDE DEF Block
    <3> QED BY <1>5, <3>1
  <2>2. PushRows(s) = Four(Two(Block(4)))
    BY <1>8 DEF PushRows
  <2> HIDE DEF Two, Four, Block
  <2> QED BY <1>2, <1>3, <2>1, <2>2
<1>9. CASE p = 3
  <2>1. Loose(Block(4).r, 4) /\ Told(Block(4))
    <3>1. 4 = <<8, 8, 4, 4, 2, 2, 1>>[p + 1] /\ 4 = <<2, 2, 2, 4, 4, 6, 6>>[p + 1]
      BY <1>9
    <3> HIDE DEF Block
    <3> QED BY <1>5, <3>1
  <2>2. PushRows(s) = Four(Block(4))
    BY <1>9 DEF PushRows
  <2> HIDE DEF Four, Block
  <2> QED BY <1>3, <2>1, <2>2
<1>10. CASE p = 4
  <2>1. Loose(Block(2).r, 4) /\ Told(Block(2))
    <3>1. 2 = <<8, 8, 4, 4, 2, 2, 1>>[p + 1] /\ 4 = <<2, 2, 2, 4, 4, 6, 6>>[p + 1]
      BY <1>10
    <3> HIDE DEF Block
    <3> QED BY <1>5, <3>1
  <2>2. PushRows(s) = Six(Four(Block(2)))
    BY <1>10 DEF PushRows
  <2> HIDE DEF Four, Six, Block
  <2> QED BY <1>3, <1>4, <2>1, <2>2
<1>11. CASE p = 5
  <2>1. Loose(Block(2).r, 6) /\ Told(Block(2))
    <3>1. 2 = <<8, 8, 4, 4, 2, 2, 1>>[p + 1] /\ 6 = <<2, 2, 2, 4, 4, 6, 6>>[p + 1]
      BY <1>11
    <3> HIDE DEF Block
    <3> QED BY <1>5, <3>1
  <2>2. PushRows(s) = Six(Block(2))
    BY <1>11 DEF PushRows
  <2> HIDE DEF Six, Block
  <2> QED BY <1>4, <2>1, <2>2
<1>12. CASE p = 6
  <2>1. Loose(Block(1).r, 6) /\ Told(Block(1))
    <3>1. 1 = <<8, 8, 4, 4, 2, 2, 1>>[p + 1] /\ 6 = <<2, 2, 2, 4, 4, 6, 6>>[p + 1]
      BY <1>12
    <3> HIDE DEF Block
    <3> QED BY <1>5, <3>1
  <2>2. PushRows(s) = Six(Block(1))
    BY <1>12 DEF PushRows
  <2> HIDE DEF Six, Block
  <2> QED BY <1>4, <2>1, <2>2
<1> QED BY <1>1, <1>6, <1>7, <1>8, <1>9, <1>10, <1>11, <1>12, EachPass

CallsOK ==
  job.progressive /\ deinterlaces =>
    IF rd.started THEN Told([r |-> rd, calls |-> calls]) ELSE calls = <<>>

LEMMA NoCallsYet == ASSUME Init PROVE CallsOK
BY DEF Init, CallsOK

(* The rows that a piece of data brings lead to the calls expected of them. *)
LEMMA PushTells ==
  ASSUME RowsInv, CallsOK, png_push_process_row, deinterlaces
  PROVE  Told([r |-> rd', calls |-> calls'])
<1>1. Written /\ ~AllRead /\ job.progressive /\ JobOK /\ WriterOK(wr, stream) /\ ReaderOK
  BY DEF png_push_process_row, RowsInv
<1> DEFINE r == reader
           n == PNG_ROWBYTES(depth, r.iwidth)
           row == RowRead(r, n)
           expanded == IF deinterlaces /\ r.pass < 6
                       THEN png_do_read_interlace(row, r.iwidth, r.pass) ELSE row
           prev == Overwrite(r.prev_row, [k \in 0 .. n |-> row[k]])
           done == [r EXCEPT !.next_in = @ + n + 1, !.row_buf = expanded, !.prev_row = prev]
           s == [r |-> done, calls |-> calls, image |-> display]
<1>2. /\ Reading(r) /\ r.pass # 7 /\ r.row_number < r.num_rows
      /\ ~Skipped(job.readHandling, r.pass, r.row_number)
  <2>1. rd.started => r = rd
    BY DEF reader
  <2>2. /\ Reading(r) /\ r.pass # 7 /\ r.row_number < r.num_rows
        /\ ~rd.started => ~Skipped(job.readHandling, r.pass, r.row_number)
    BY <1>1, ReaderStands
  <2>3. rd.started => (deinterlaces => Rests(rd))
    BY <1>1 DEF ReaderOK
  <2> HIDE DEF r
  <2> QED BY <1>1, <2>1, <2>2, <2>3 DEF Skipped, deinterlaces, Rests
<1>3. Told([r |-> r, calls |-> calls])
  <2>1. CASE rd.started
    BY <1>1, <2>1 DEF CallsOK, reader
  <2>2. CASE ~rd.started
    <3>1. r.pass = 0 /\ r.row_number = 0 /\ calls = <<>>
      BY <1>1, <2>2, StartReading DEF CallsOK, reader
    <3>2. CallsBefore(0) = <<>> /\ CallsOf(0, 0) = <<>> /\ <<>> \in Seq(CallType)
      BY <1>1, PassesFollow, EmptySeq DEF CallsOf
    <3>3. CallsBefore(0) \o CallsOf(0, 0) = <<>>
      BY <3>2, ConcatEmptySeq
    <3> HIDE DEF r
    <3> QED BY <3>1, <3>3 DEF Told
  <2> QED BY <2>1, <2>2
<1>4. IF TooShort(r, n) THEN TRUE ELSE rd' = PushRows(s).r /\ calls' = PushRows(s).calls
  BY Zenon DEF png_push_process_row
<1> HIDE DEF r, expanded, prev
<1>5. ~TooShort(r, n) /\ Ahead(done) /\ done.pass = r.pass /\ done.row_number = r.row_number
  <2> HIDE DEF n, s
  <2>1. n = PNG_ROWBYTES(depth, r.iwidth)
    BY DEF n
  <2>2. ~TooShort(r, n) /\ Ahead(done)
    BY <1>1, <1>2, <2>1, RowTaken
  <2>3. IsReader(r)
    BY <1>2 DEF Reading, Standing
  <2>4. done.pass = r.pass /\ done.row_number = r.row_number
    BY <2>3 DEF IsReader
  <2> QED BY <2>2, <2>4
<1> HIDE DEF n, done
<1>6. s.r = done /\ s.calls = calls
  OBVIOUS
<1> HIDE DEF s
<1>7. Told(s)
  BY <1>3, <1>5, <1>6 DEF Told
<1>8. Ahead(s.r) /\ ~SkipsRow(s.r.row_number, width, s.r.pass)
  BY <1>2, <1>5, <1>6 DEF Skipped, deinterlaces
<1>9. Told(PushRows(s))
  BY <1>1, <1>7, <1>8, PushedTold
<1> QED BY <1>4, <1>5, <1>9 DEF Told

LEMMA SameCalls ==
  ASSUME job' = job
  PROVE  (Told([r |-> rd, calls |-> calls]))' <=> Told([r |-> rd', calls |-> calls'])
<1>1. /\ PassCalls(0)' = PassCalls(0) /\ PassCalls(1)' = PassCalls(1)
      /\ PassCalls(2)' = PassCalls(2) /\ PassCalls(3)' = PassCalls(3)
      /\ PassCalls(4)' = PassCalls(4) /\ PassCalls(5)' = PassCalls(5)
      /\ PassCalls(6)' = PassCalls(6)
  BY Zenon DEF PassCalls, CallOf, width, height
<1>2. CallsBefore(rd.pass)' = CallsBefore(rd'.pass)
  BY <1>1, Zenon DEF CallsBefore, ExpectedCalls
<1>3. CallsOf(rd.pass, rd.row_number)' = CallsOf(rd'.pass, rd'.row_number)
  BY Zenon DEF CallsOf, CallOf, width, height
<1> QED BY <1>2, <1>3 DEF Told

LEMMA CallsKept ==
  ASSUME RowsInv, CallsOK, job' = job, rd' = rd, calls' = calls
  PROVE  CallsOK'
<1>1. deinterlaces' <=> deinterlaces
  BY DEF deinterlaces
<1> QED BY <1>1, SameCalls DEF CallsOK

LEMMA CallsMove ==
  ASSUME RowsInv, CallsOK, ReadRowSkipped \/ png_read_row \/ png_push_process_row
  PROVE  CallsOK'
<1>1. job' = job
  BY DEF ReadRowSkipped, png_read_row, png_push_process_row
<1>2. CASE ~(job.progressive /\ deinterlaces)
  BY <1>1, <1>2 DEF CallsOK, deinterlaces
<1>3. CASE job.progressive /\ deinterlaces
  <2>1. png_push_process_row
    BY <1>3 DEF ReadRowSkipped, png_read_row
  <2>2. Told([r |-> rd', calls |-> calls'])
    BY <1>3, <2>1, PushTells
  <2>3. rd'.started
    BY <2>1, PushStep DEF RowsInv, Reading, Standing
  <2> QED BY <1>1, <2>2, <2>3, SameCalls DEF CallsOK
<1> QED BY <1>2, <1>3

(* The calls up to any row are the first of those expected. *)
LEMMA FirstOf ==
  ASSUME NEW T, NEW s, NEW t, s \in Seq(T), t \in Seq(T)
  PROVE  IsPrefix(s, s \o t)
<1>1. s \o t \in Seq(T) /\ Len(s \o t) = Len(s) + Len(t) /\ Len(s) \in Nat /\ Len(t) \in Nat
  BY ConcatProperties
<1>2. SubSeq(s \o t, 1, Len(s)) = SubSeq(s, 1, Len(s))
  <2>1. CASE Len(s) = 0
    BY <1>1, <2>1
  <2>2. CASE Len(s) # 0
    <3>1. 1 \in 1 .. Len(s) /\ Len(s) \in 1 .. Len(s)
      BY <1>1, <2>2
    <3> QED BY <3>1, SubSeqOfConcat1
  <2> QED BY <2>1, <2>2
<1> QED BY <1>1, <1>2 DEF IsPrefix

LEMMA Rest ==
  ASSUME JobOK, NEW p \in 0 .. 7
  PROVE  \E t \in Seq(CallType) : ExpectedCalls = CallsBefore(p) \o t
<1> DEFINE B(q) == CallsBefore(q)
           More(q) == \E t \in Seq(CallType) : ExpectedCalls = B(q) \o t
<1>1. More(7)
  <2>1. B(7) = ExpectedCalls /\ B(7) \in Seq(CallType) /\ <<>> \in Seq(CallType)
    BY PassesFollow, EmptySeq
  <2>2. B(7) \o <<>> = B(7)
    BY <2>1, ConcatEmptySeq
  <2> QED BY <2>1, <2>2
<1>2. ASSUME NEW q \in Passes, More(q + 1) PROVE More(q)
  <2>1. PICK t \in Seq(CallType) : ExpectedCalls = B(q + 1) \o t
    BY <1>2
  <2>2. B(q + 1) = B(q) \o PassCalls(q) /\ B(q) \in Seq(CallType) /\ PassCalls(q) \in Seq(CallType)
    <3>1. q \in 0 .. 7
      BY DEF Passes
    <3> QED BY <3>1, PassesFollow, CallTypes
  <2> HIDE DEF B
  <2>3. ExpectedCalls = B(q) \o (PassCalls(q) \o t)
    <3>1. (B(q) \o PassCalls(q)) \o t = B(q) \o (PassCalls(q) \o t)
      BY <2>2, ConcatAssociative
    <3> QED BY <2>1, <2>2, <3>1, Zenon
  <2>4. PassCalls(q) \o t \in Seq(CallType)
    BY <2>2, ConcatProperties
  <2> QED BY <2>3, <2>4 DEF More
<1> HIDE DEF More
<1>3. /\ 0 \in Passes /\ 1 \in Passes /\ 2 \in Passes /\ 3 \in Passes /\ 4 \in Passes
      /\ 5 \in Passes /\ 6 \in Passes
  BY DEF Passes
<1>4. More(6) BY <1>1, <1>2, <1>3, 6 + 1 = 7
<1>5. More(5) BY <1>4, <1>2, <1>3, 5 + 1 = 6
<1>6. More(4) BY <1>5, <1>2, <1>3, 4 + 1 = 5
<1>7. More(3) BY <1>6, <1>2, <1>3, 3 + 1 = 4
<1>8. More(2) BY <1>7, <1>2, <1>3, 2 + 1 = 3
<1>9. More(1) BY <1>8, <1>2, <1>3, 1 + 1 = 2
<1>10. More(0) BY <1>9, <1>2, <1>3, 0 + 1 = 1
<1>11. p = 0 \/ p = 1 \/ p = 2 \/ p = 3 \/ p = 4 \/ p = 5 \/ p = 6 \/ p = 7
  OBVIOUS
<1> QED BY <1>1, <1>4, <1>5, <1>6, <1>7, <1>8, <1>9, <1>10, <1>11 DEF More

LEMMA InvCalls ==
  ASSUME RowsInv, CallsOK
  PROVE  EveryRowIsCalled
<1> SUFFICES ASSUME job.progressive, deinterlaces
             PROVE  IF AllRead THEN calls = ExpectedCalls ELSE IsPrefix(calls, ExpectedCalls)
  BY DEF EveryRowIsCalled
<1>1. JobOK /\ ReaderOK /\ job.interlaced
  BY DEF RowsInv, deinterlaces
<1>2. CASE ~rd.started
  <2>1. ~AllRead /\ calls = <<>>
    BY <1>1, <1>2 DEF AllRead, ReaderOK, CallsOK
  <2>2. ExpectedCalls \in Seq(CallType) /\ <<>> \in Seq(CallType)
    BY <1>1, PassesFollow, EmptySeq
  <2>3. <<>> \o ExpectedCalls = ExpectedCalls
    BY <2>2, ConcatEmptySeq
  <2>4. IsPrefix(<<>>, ExpectedCalls)
    BY <2>2, <2>3, FirstOf
  <2> QED BY <2>1, <2>4
<1>3. CASE rd.started
  <2> DEFINE p == rd.pass
             y == rd.row_number
  <2>1. calls = CallsBefore(p) \o CallsOf(p, y)
    BY <1>3 DEF CallsOK, Told
  <2>2. p \in 0 .. 7 /\ y \in Nat /\ (p = 7 => y = 0) /\ (p # 7 => y < height /\ PassWidth(width, p) # 0)
    <3>1. Reading(rd) /\ Rests(rd)
      BY <1>1, <1>3 DEF ReaderOK
    <3>2. p \in 0 .. 7 /\ y \in Nat /\ (p = 7 => y = 0) /\ (p # 7 => y < height)
      BY <1>1, <3>1, Sizes DEF Reading, Standing, IsReader, At, deinterlaces
    <3>3. p # 7 => ~SkipsRow(y, width, p)
      BY <3>1 DEF Rests
    <3> HIDE DEF p, y
    <3>4. p # 7 => p \in Passes
      BY <3>2 DEF Passes
    <3> QED BY <1>1, <3>2, <3>3, <3>4, SkippedRows, Sizes
  <2> HIDE DEF p, y
  <2>3. CallsBefore(p) \in Seq(CallType)
    BY <1>1, <2>2, PassesFollow
  <2>4. CASE p = 7
    <3>1. CallsOf(p, y) = <<>>
      BY <2>2, <2>4 DEF CallsOf
    <3>2. calls = ExpectedCalls
      BY <1>1, <2>1, <2>3, <2>4, <3>1, ConcatEmptySeq, PassesFollow
    <3>3. AllRead
      BY <1>1, <2>4 DEF AllRead, p
    <3> QED BY <3>2, <3>3
  <2>5. CASE p # 7
    <3>1. p \in Passes /\ ~AllRead /\ p + 1 \in 0 .. 7
      BY <1>1, <2>2, <2>5 DEF AllRead, p, Passes
    <3>2. PassCalls(p) = CallsOf(p, height) /\ CallsOf(p, y) \in Seq(CallType)
          /\ PassCalls(p) \in Seq(CallType)
      BY <1>1, <2>2, <2>5, <3>1, CallTypes
    <3>3. PICK t \in Seq(CallType) : ExpectedCalls = CallsBefore(p + 1) \o t
      BY <1>1, <3>1, Rest
    <3>4. CallsBefore(p + 1) = CallsBefore(p) \o PassCalls(p)
      BY <1>1, <3>1, PassesFollow
    <3> DEFINE rest == [k \in 1 .. height - y |-> CallOf(p, y + k - 1)]
    <3>5. rest \in Seq(CallType) /\ CallsOf(p, height) = CallsOf(p, y) \o rest
      <4>1. \A k \in 1 .. height - y : CallOf(p, y + k - 1) \in CallType
        <5>1. \A k \in 1 .. height - y : y + k - 1 \in Nat
          BY <1>1, <2>2, Sizes
        <5> QED BY <1>1, <3>1, <5>1, CallTypes
      <4>2. height - y \in Nat /\ height \in Nat
        BY <1>1, <2>2, <2>5, Sizes
      <4>3. rest \in Seq(CallType) /\ Len(rest) = height - y
        <5> HIDE DEF CallType
        <5> QED BY <4>1, <4>2
      <4> DEFINE a == CallsOf(p, y)
                 b == CallsOf(p, height)
      <4>4. Len(a) = y /\ Len(b) = height /\ a \in Seq(CallType) /\ b \in Seq(CallType)
        BY <1>1, <2>2, <3>1, <4>2, CallTypes
      <4>5. \A k \in 1 .. height : b[k] = IF k <= y THEN a[k] ELSE rest[k - y]
        <5>1. \A k \in 1 .. height : b[k] = CallOf(p, k - 1)
          BY DEF CallsOf
        <5>2. \A k \in 1 .. height : k <= y => a[k] = CallOf(p, k - 1)
          BY <2>2 DEF CallsOf
        <5>3. \A k \in 1 .. height : ~(k <= y) => rest[k - y] = CallOf(p, k - 1)
          <6> TAKE k \in 1 .. height
          <6> SUFFICES ASSUME ~(k <= y) PROVE rest[k - y] = CallOf(p, k - 1)
            OBVIOUS
          <6>1. k - y \in 1 .. height - y /\ y + (k - y) - 1 = k - 1
            BY <2>2, <4>2
          <6> QED BY <6>1
        <5> QED BY <5>1, <5>2, <5>3
      <4> HIDE DEF a, b, rest
      <4>8. Len(a \o rest) = Len(a) + Len(rest) /\ a \o rest \in Seq(CallType)
            /\ \A k \in 1 .. Len(a) + Len(rest) :
                 (a \o rest)[k] = IF k <= Len(a) THEN a[k] ELSE rest[k - Len(a)]
        BY <4>3, <4>4, ConcatProperties
      <4>6. Len(a \o rest) = Len(b) /\ a \o rest \in Seq(CallType)
            /\ \A k \in 1 .. Len(b) : (a \o rest)[k] = b[k]
        <5>1. Len(a) + Len(rest) = height /\ Len(a) = y /\ Len(b) = height
          BY <2>2, <4>2, <4>3, <4>4
        <5> QED BY <4>5, <4>8, <5>1
      <4>7. a \o rest = b
        BY <4>4, <4>6, SeqEqual
      <4> QED BY <4>3, <4>7 DEF a, b
    <3> DEFINE S == Seq(CallType)
               A == CallsBefore(p)
               C == CallsOf(p, y)
    <3> HIDE DEF rest, A, C
    <3>6. A \in Seq(CallType) /\ C \in Seq(CallType) /\ rest \in Seq(CallType)
          /\ ExpectedCalls = (A \o (C \o rest)) \o t /\ calls = A \o C
      BY <2>1, <2>3, <3>2, <3>3, <3>4, <3>5 DEF A, C
    <3>7. (A \o (C \o rest)) \o t = (A \o C) \o (rest \o t)
      <4>1. A \o (C \o rest) = (A \o C) \o rest
        BY <3>6, ConcatAssociative
      <4>2. A \o C \in Seq(CallType)
        BY <3>6, ConcatProperties
      <4> QED BY <3>6, <4>1, <4>2, ConcatAssociative
    <3>8. A \o C \in Seq(CallType) /\ rest \o t \in Seq(CallType)
      BY <3>6, ConcatProperties
    <3>9. IsPrefix(A \o C, (A \o C) \o (rest \o t))
      BY <3>8, FirstOf
    <3> QED BY <3>1, <3>6, <3>7, <3>9
  <2> QED BY <2>4, <2>5
<1> QED BY <1>2, <1>3

(* The application of the progressive reader is called for every row of every pass
   that has columns, in order, and with NULL for exactly the rows that no block of
   the pass covers: png_push_process_row generates neither too few calls nor too
   many, for every size of the image. *)
THEOREM RowsAreCalled == ProgressiveSpec => []EveryRowIsCalled
<1> DEFINE Inv == RowsInv /\ CallsOK
<1>1. ProgressiveInit => Inv
  BY NoRows, NoCallsYet DEF ProgressiveInit
<1>2. Inv /\ [ProgressiveNext]_<<vars, pushVars, delivery>> => Inv'
  <2> SUFFICES ASSUME Inv, [ProgressiveNext]_<<vars, pushVars, delivery>>
               PROVE  Inv'
    OBVIOUS
  <2>1. CASE UNCHANGED vars
    <3>1. job' = job /\ rd' = rd /\ calls' = calls
      BY <2>1 DEF vars
    <3> QED BY <2>1, <3>1, NothingMoves, CallsKept
  <2>2. CASE Sequential
    <3>1. CASE WriteRowSkipped \/ png_write_row \/ png_set_filter
      <4>1. job' = job /\ rd' = rd /\ calls' = calls
        BY <3>1 DEF WriteRowSkipped, png_write_row, png_set_filter
      <4> QED BY <3>1, <4>1, WriterMoves, CallsKept
    <3>2. CASE ReadRowSkipped \/ png_read_row
      BY <3>2, ReaderMoves, CallsMove
    <3> QED BY <2>1, <2>2, <3>1, <3>2 DEF Sequential
  <2>3. CASE ProcessRow
    BY <2>3, ReaderMoves, CallsMove DEF ProcessRow
  <2>4. CASE OpenFile \/ GivePiece \/ ProcessPiece \/ Stay
    BY <2>1, <2>4, Zenon DEF OpenFile, GivePiece, ProcessPiece, Stay
  <2> QED BY <2>1, <2>2, <2>3, <2>4, Zenon DEF ProgressiveNext
<1>3. Inv => EveryRowIsCalled
  BY InvCalls
<1> QED BY <1>1, <1>2, <1>3, PTL DEF ProgressiveSpec

----------------------------------------------------------------------------
(* Pixels in bytes. *)

Depths == {1, 2, 4} \cup {8 * k : k \in 1 .. 8}

LEMMA EachDepth ==
  ASSUME NEW d \in Depths
  PROVE  \/ d < 8 /\ (d = 1 \/ d = 2 \/ d = 4)
         \/ /\ ~(d < 8)
            /\ \E s \in 1 .. 8 : d = 8 * s /\ d \div 8 = s
BY DEF Depths

LEMMA SumsUnrolled ==
  ASSUME NEW n \in Nat, NEW a
  PROVE  /\ Sums(a, n)[0] = 0
         /\ \A k \in 1 .. n : Sums(a, n)[k] = Sums(a, n)[k - 1] + a[k]
<1> DEFINE F(g, m) == g = [k \in 0 .. m |-> IF k = 0 THEN 0 ELSE g[k - 1] + a[k]]
           S == {m \in 0 .. n : \E g : F(g, m)}
<1>1. 0 \in S
  <2> DEFINE g == [k \in 0 .. 0 |-> 0]
  <2>1. \A k \in 0 .. 0 : 0 = IF k = 0 THEN 0 ELSE g[k - 1] + a[k]
    OBVIOUS
  <2>2. F(g, 0)
    BY <2>1
  <2> HIDE DEF F, g
  <2> QED BY <2>2
<1>2. ASSUME NEW m \in 0 .. n - 1, m \in S PROVE m + 1 \in S
  <2>1. PICK g : F(g, m)
    BY <1>2
  <2> DEFINE total == g[m] + a[m + 1]
             more == [k \in 0 .. m + 1 |-> IF k = m + 1 THEN total ELSE g[k]]
  <2>2. ASSUME NEW k \in 0 .. m + 1 PROVE more[k] = IF k = 0 THEN 0 ELSE more[k - 1] + a[k]
    <3>1. CASE k = m + 1
      <4>1. more[k] = total /\ more[k - 1] = g[m]
        BY <3>1
      <4> HIDE DEF more
      <4> QED BY <3>1, <4>1
    <3>2. CASE k # m + 1
      <4>1. k \in 0 .. m /\ more[k] = g[k]
        BY <3>2
      <4>2. k # 0 => more[k - 1] = g[k - 1]
        BY <3>2
      <4>3. g[k] = IF k = 0 THEN 0 ELSE g[k - 1] + a[k]
        BY <2>1, <4>1
      <4> HIDE DEF more
      <4> QED BY <4>1, <4>2, <4>3
    <3> QED BY <3>1, <3>2
  <2>3. F(more, m + 1)
    <3>1. more = [k \in 0 .. m + 1 |-> more[k]]
      OBVIOUS
    <3> HIDE DEF more
    <3> QED BY <2>2, <3>1
  <2> HIDE DEF F, more
  <2>4. m + 1 \in 0 .. n
    OBVIOUS
  <2> QED BY <2>3, <2>4
<1>3. n \in S
  <2> HIDE DEF S
  <2> QED BY <1>1, <1>2, Climbs
<1> DEFINE sum == CHOOSE g : F(g, n)
<1>4. F(sum, n)
  <2> HIDE DEF F
  <2> QED BY <1>3
<1>5. Sums(a, n) = sum
  BY Zenon DEF Sums
<1> HIDE DEF sum
<1>6. \A k \in 0 .. n : sum[k] = IF k = 0 THEN 0 ELSE sum[k - 1] + a[k]
  BY <1>4
<1>7. 0 \in 0 .. n /\ \A k \in 1 .. n : k \in 0 .. n /\ k # 0
  OBVIOUS
<1> QED BY <1>5, <1>6, <1>7

(* Two, four or eight pixels in a byte. *)
LEMMA TwoPixels ==
  ASSUME NEW v, v[1] \in 0 .. 15, v[2] \in 0 .. 15
  PROVE  LET s == 16 * v[1] + v[2]
         IN  s \in Byte /\ (s \div 16) % 16 = v[1] /\ (s \div 1) % 16 = v[2]
BY DEF Byte

LEMMA FourPixels ==
  ASSUME NEW v, v[1] \in 0 .. 3, v[2] \in 0 .. 3, v[3] \in 0 .. 3, v[4] \in 0 .. 3
  PROVE  LET s == 64 * v[1] + 16 * v[2] + 4 * v[3] + v[4]
         IN  /\ s \in Byte
             /\ (s \div 64) % 4 = v[1] /\ (s \div 16) % 4 = v[2] /\ (s \div 4) % 4 = v[3] /\ (s \div 1) % 4 = v[4]
BY DEF Byte

LEMMA EightPixels ==
  ASSUME NEW v,
         v[1] \in 0 .. 1, v[2] \in 0 .. 1, v[3] \in 0 .. 1, v[4] \in 0 .. 1,
         v[5] \in 0 .. 1, v[6] \in 0 .. 1, v[7] \in 0 .. 1, v[8] \in 0 .. 1
  PROVE  LET s == 128 * v[1] + 64 * v[2] + 32 * v[3] + 16 * v[4] + 8 * v[5] + 4 * v[6] + 2 * v[7] + v[8]
         IN  /\ s \in Byte
             /\ (s \div 128) % 2 = v[1] /\ (s \div 64) % 2 = v[2] /\ (s \div 32) % 2 = v[3] /\ (s \div 16) % 2 = v[4]
             /\ (s \div 8) % 2 = v[5] /\ (s \div 4) % 2 = v[6] /\ (s \div 2) % 2 = v[7] /\ (s \div 1) % 2 = v[8]
BY DEF Byte

(* A byte of pixels gives them back, each from its place. *)
LEMMA ByteOfPixels ==
  ASSUME NEW d \in {1, 2, 4}, NEW v \in [1 .. 8 \div d -> 0 .. Bit[d] - 1],
         NEW a, \A i \in 1 .. 8 \div d : a[i] = Bit[8 - d - d * (i - 1)] * v[i]
  PROVE  LET byte == Sums(a, 8 \div d)[8 \div d]
         IN  /\ byte \in Byte
             /\ \A i \in 1 .. 8 \div d : (byte \div Bit[8 - d - d * (i - 1)]) % Bit[d] = v[i]
<1> DEFINE sum == Sums(a, 8 \div d)
<1>1. sum[0] = 0 /\ \A k \in 1 .. 8 \div d : sum[k] = sum[k - 1] + a[k]
  <2>1. 8 \div d \in Nat
    OBVIOUS
  <2> QED BY <2>1, SumsUnrolled, Zenon
<1> HIDE DEF sum
<1>2. CASE d = 4
  <2>1. 8 \div d = 2 /\ \A i \in 1 .. 2 : i = 1 \/ i = 2
    BY <1>2
  <2>2. v[1] \in 0 .. 15 /\ v[2] \in 0 .. 15
    BY <1>2, <2>1, Bits
  <2>3. a[1] = 16 * v[1] /\ a[2] = v[2]
    BY <1>2, <2>1, <2>2, Bits
  <2>4. sum[2] = 16 * v[1] + v[2]
    BY <1>1, <2>1, <2>2, <2>3
  <2>5. sum[2] \in Byte /\ (sum[2] \div 16) % 16 = v[1] /\ (sum[2] \div 1) % 16 = v[2]
    <3> DEFINE s == 16 * v[1] + v[2]
    <3>1. s \in Byte /\ (s \div 16) % 16 = v[1] /\ (s \div 1) % 16 = v[2]
      BY <2>2, TwoPixels, Zenon
    <3>2. sum[2] = s
      BY <2>4
    <3> HIDE DEF s
    <3> QED BY <3>1, <3>2, Zenon
  <2> QED BY <1>2, <2>1, <2>5, Bits DEF sum
<1>3. CASE d = 2
  <2>1. 8 \div d = 4 /\ \A i \in 1 .. 4 : i = 1 \/ i = 2 \/ i = 3 \/ i = 4
    BY <1>3
  <2>2. v[1] \in 0 .. 3 /\ v[2] \in 0 .. 3 /\ v[3] \in 0 .. 3 /\ v[4] \in 0 .. 3
    BY <1>3, <2>1, Bits
  <2>3. a[1] = 64 * v[1] /\ a[2] = 16 * v[2] /\ a[3] = 4 * v[3] /\ a[4] = v[4]
    BY <1>3, <2>1, <2>2, Bits
  <2>4. sum[4] = 64 * v[1] + 16 * v[2] + 4 * v[3] + v[4]
    <3>1. sum[1] = a[1] /\ sum[2] = sum[1] + a[2] /\ sum[3] = sum[2] + a[3] /\ sum[4] = sum[3] + a[4]
      BY <1>1, <2>1, <2>2, <2>3
    <3> QED BY <2>2, <2>3, <3>1
  <2>5. /\ sum[4] \in Byte /\ (sum[4] \div 64) % 4 = v[1] /\ (sum[4] \div 16) % 4 = v[2]
        /\ (sum[4] \div 4) % 4 = v[3] /\ (sum[4] \div 1) % 4 = v[4]
    <3> DEFINE s == 64 * v[1] + 16 * v[2] + 4 * v[3] + v[4]
    <3>1. /\ s \in Byte /\ (s \div 64) % 4 = v[1] /\ (s \div 16) % 4 = v[2]
          /\ (s \div 4) % 4 = v[3] /\ (s \div 1) % 4 = v[4]
      BY <2>2, FourPixels, Zenon
    <3>2. sum[4] = s
      BY <2>4
    <3> HIDE DEF s
    <3> QED BY <3>1, <3>2, Zenon
  <2> QED BY <1>3, <2>1, <2>5, Bits DEF sum
<1>4. CASE d = 1
  <2>1. 8 \div d = 8 /\ \A i \in 1 .. 8 : i = 1 \/ i = 2 \/ i = 3 \/ i = 4 \/ i = 5 \/ i = 6 \/ i = 7 \/ i = 8
    BY <1>4
  <2>2. /\ v[1] \in 0 .. 1 /\ v[2] \in 0 .. 1 /\ v[3] \in 0 .. 1 /\ v[4] \in 0 .. 1
        /\ v[5] \in 0 .. 1 /\ v[6] \in 0 .. 1 /\ v[7] \in 0 .. 1 /\ v[8] \in 0 .. 1
    BY <1>4, <2>1, Bits
  <2>3. /\ a[1] = 128 * v[1] /\ a[2] = 64 * v[2] /\ a[3] = 32 * v[3] /\ a[4] = 16 * v[4]
        /\ a[5] = 8 * v[5] /\ a[6] = 4 * v[6] /\ a[7] = 2 * v[7] /\ a[8] = v[8]
    BY <1>4, <2>1, <2>2, Bits
  <2>4. sum[8] = 128 * v[1] + 64 * v[2] + 32 * v[3] + 16 * v[4] + 8 * v[5] + 4 * v[6] + 2 * v[7] + v[8]
    <3>1. sum[1] = a[1] /\ sum[2] = sum[1] + a[2] /\ sum[3] = sum[2] + a[3] /\ sum[4] = sum[3] + a[4]
      BY <1>1, <2>1, <2>2, <2>3
    <3>2. sum[5] = sum[4] + a[5] /\ sum[6] = sum[5] + a[6] /\ sum[7] = sum[6] + a[7] /\ sum[8] = sum[7] + a[8]
      BY <1>1, <2>1, <2>2, <2>3
    <3> QED BY <2>2, <2>3, <3>1, <3>2
  <2>5. /\ sum[8] \in Byte /\ (sum[8] \div 128) % 2 = v[1] /\ (sum[8] \div 64) % 2 = v[2]
        /\ (sum[8] \div 32) % 2 = v[3] /\ (sum[8] \div 16) % 2 = v[4]
        /\ (sum[8] \div 8) % 2 = v[5] /\ (sum[8] \div 4) % 2 = v[6]
        /\ (sum[8] \div 2) % 2 = v[7] /\ (sum[8] \div 1) % 2 = v[8]
    <3> DEFINE s == 128 * v[1] + 64 * v[2] + 32 * v[3] + 16 * v[4] + 8 * v[5] + 4 * v[6] + 2 * v[7] + v[8]
    <3>1. /\ s \in Byte /\ (s \div 128) % 2 = v[1] /\ (s \div 64) % 2 = v[2]
          /\ (s \div 32) % 2 = v[3] /\ (s \div 16) % 2 = v[4]
          /\ (s \div 8) % 2 = v[5] /\ (s \div 4) % 2 = v[6]
          /\ (s \div 2) % 2 = v[7] /\ (s \div 1) % 2 = v[8]
      BY <2>2, EightPixels, Zenon
    <3>2. sum[8] = s
      BY <2>4
    <3> HIDE DEF s
    <3> QED BY <3>1, <3>2, Zenon
  <2> QED BY <1>4, <2>1, <2>5, Bits DEF sum
<1> QED BY <1>2, <1>3, <1>4

(* How many bytes the pixels up to x take. *)
LEMMA BytesForPixel ==
  ASSUME NEW d \in Depths, NEW x \in Nat
  PROVE  /\ d < 8 => PNG_ROWBYTES(d, x + 1) = x \div (8 \div d) + 1
         /\ ~(d < 8) => PNG_ROWBYTES(d, x + 1) = (x + 1) * (d \div 8)
         /\ PNG_ROWBYTES(d, 0) = 0 /\ PNG_ROWBYTES(d, x) \in Nat
<1>1. CASE d = 1
  BY <1>1 DEF PNG_ROWBYTES
<1>2. CASE d = 2
  BY <1>2 DEF PNG_ROWBYTES
<1>3. CASE d = 4
  BY <1>3 DEF PNG_ROWBYTES
<1>4. CASE ~(d < 8)
  <2>1. PICK s \in 1 .. 8 : d = 8 * s /\ d \div 8 = s
    BY <1>4, EachDepth
  <2>2. d >= 8
    BY <2>1
  <2>3. s = 1 \/ s = 2 \/ s = 3 \/ s = 4 \/ s = 5 \/ s = 6 \/ s = 7 \/ s = 8
    OBVIOUS
  <2>4. x * s \in Nat
    BY <2>3
  <2> QED BY <1>4, <2>1, <2>2, <2>4 DEF PNG_ROWBYTES
<1> QED BY <1>1, <1>2, <1>3, <1>4, EachDepth

LEMMA WiderIsLonger ==
  ASSUME NEW d \in Depths, NEW v \in Nat, NEW w \in Nat, v <= w
  PROVE  PNG_ROWBYTES(d, v) <= PNG_ROWBYTES(d, w)
<1>1. CASE d = 1
  BY <1>1 DEF PNG_ROWBYTES
<1>2. CASE d = 2
  BY <1>2 DEF PNG_ROWBYTES
<1>3. CASE d = 4
  BY <1>3 DEF PNG_ROWBYTES
<1>4. CASE ~(d < 8)
  <2>1. PICK s \in 1 .. 8 : d = 8 * s /\ d \div 8 = s
    BY <1>4, EachDepth
  <2>2. d >= 8
    BY <2>1
  <2>3. s = 1 \/ s = 2 \/ s = 3 \/ s = 4 \/ s = 5 \/ s = 6 \/ s = 7 \/ s = 8
    OBVIOUS
  <2>4. v * s <= w * s
    BY <2>3
  <2> QED BY <1>4, <2>1, <2>2, <2>4 DEF PNG_ROWBYTES
<1> QED BY <1>1, <1>2, <1>3, <1>4, EachDepth

(* Where a pixel that fills only a part of a byte lies. *)
LEMMA SmallPlace ==
  ASSUME NEW d \in {1, 2, 4}, NEW k \in Nat \ {0}, NEW i \in 1 .. 8 \div d
  PROVE  LET x == (k - 1) * (8 \div d) + i - 1
         IN  x \in Nat /\ x \div (8 \div d) = k - 1 /\ x % (8 \div d) = i - 1
             /\ Place(x, d) = Bit[8 - d - d * (i - 1)]
             /\ PNG_ROWBYTES(d, x + 1) = k
<1> DEFINE x == (k - 1) * (8 \div d) + i - 1
<1>1. x \in Nat /\ x \div (8 \div d) = k - 1 /\ x % (8 \div d) = i - 1
  <2>1. CASE d = 1
    BY <2>1
  <2>2. CASE d = 2
    BY <2>2
  <2>3. CASE d = 4
    BY <2>3
  <2> QED BY <2>1, <2>2, <2>3
<1>2. PNG_ROWBYTES(d, x + 1) = k
  <2>1. d \in Depths /\ d < 8
    BY DEF Depths
  <2> HIDE DEF x
  <2>2. PNG_ROWBYTES(d, x + 1) = x \div (8 \div d) + 1
    BY <1>1, <2>1, BytesForPixel, Zenon
  <2> QED BY <1>1, <2>2
<1>3. Place(x, d) = Bit[8 - d - d * (i - 1)]
  <2> HIDE DEF x
  <2> QED BY <1>1 DEF Place
<1> QED BY <1>1, <1>2, <1>3

LEMMA SmallPixel ==
  ASSUME NEW d \in {1, 2, 4}, NEW x \in Nat
  PROVE  LET k == x \div (8 \div d) + 1
             i == (x % (8 \div d)) + 1
         IN  k \in Nat \ {0} /\ i \in 1 .. 8 \div d /\ x = (k - 1) * (8 \div d) + i - 1
             /\ PNG_ROWBYTES(d, x + 1) = k
<1>1. CASE d = 1
  BY <1>1 DEF PNG_ROWBYTES
<1>2. CASE d = 2
  BY <1>2 DEF PNG_ROWBYTES
<1>3. CASE d = 4
  BY <1>3 DEF PNG_ROWBYTES
<1> QED BY <1>1, <1>2, <1>3

(* Where the bytes of a larger one lie. *)
LEMMA LargePlace ==
  ASSUME NEW s \in 1 .. 8, NEW x \in Nat, NEW k \in 1 .. s
  PROVE  /\ x * s + k \in Nat /\ x * s + k >= 1 /\ x * s + k <= (x + 1) * s
         /\ (x * s + k - 1) \div s = x /\ (x * s + k - 1) % s = k - 1
<1>1. s = 1 \/ s = 2 \/ s = 3 \/ s = 4 \/ s = 5 \/ s = 6 \/ s = 7 \/ s = 8
  OBVIOUS
<1> QED BY <1>1

LEMMA PixelType ==
  ASSUME NEW d \in Depths, NEW n \in Nat, NEW row \in [0 .. n -> Byte], NEW x \in Nat,
         PNG_ROWBYTES(d, x + 1) <= n
  PROVE  PixelAt(row, x, d) \in Pixels(d)
<1>1. CASE d \in {1, 2, 4}
  <2> DEFINE k == x \div (8 \div d) + 1
             i == (x % (8 \div d)) + 1
  <2>1. k \in Nat \ {0} /\ i \in 1 .. 8 \div d /\ PNG_ROWBYTES(d, x + 1) = k
    BY <1>1, SmallPixel, Zenon
  <2>2. 1 + x \div (8 \div d) = k /\ x % (8 \div d) = i - 1
    BY <1>1
  <2> HIDE DEF k, i
  <2>3. row[k] \in Byte
    BY <2>1
  <2>4. PixelAt(row, x, d) = (row[k] \div Bit[8 - d - d * (i - 1)]) % Bit[d]
    <3>1. Place(x, d) = Bit[8 - d - d * (i - 1)]
      BY <2>2, Zenon DEF Place
    <3>2. d < 8
      BY <1>1
    <3> QED BY <2>2, <3>1, <3>2, Zenon DEF PixelAt
  <2>5. Bit[8 - d - d * (i - 1)] \in Nat \ {0}
    <3>1. 8 - d - d * (i - 1) \in 0 .. 7
      BY <1>1, <2>1
    <3> QED BY <3>1, Bits
  <2>6. Bit[d] \in Nat \ {0}
    BY <1>1, Bits
  <2>7. ASSUME NEW v \in Byte, NEW b \in Nat \ {0}, NEW m \in Nat \ {0}
        PROVE  (v \div b) % m \in 0 .. m - 1
    <3>1. v \div b \in Int
      BY DEF Byte
    <3> QED BY <3>1
  <2>8. (row[k] \div Bit[8 - d - d * (i - 1)]) % Bit[d] \in 0 .. Bit[d] - 1
    BY <2>3, <2>5, <2>6, <2>7, Zenon
  <2>9. d < 8
    BY <1>1
  <2> QED BY <2>4, <2>8, <2>9, Zenon DEF Pixels
<1>2. CASE ~(d < 8)
  <2>1. PICK s \in 1 .. 8 : d = 8 * s /\ d \div 8 = s
    BY <1>2, EachDepth
  <2>2. PNG_ROWBYTES(d, x + 1) = (x + 1) * s
    BY <1>2, <2>1, BytesForPixel
  <2>3. ASSUME NEW k \in 1 .. s PROVE row[x * s + k] \in Byte
    <3>1. x * s + k \in Nat /\ x * s + k <= (x + 1) * s
      BY LargePlace
    <3>2. x * s + k \in 0 .. n
      <4>1. (x + 1) * s \in Nat
        BY <2>2, BytesForPixel, x + 1 \in Nat
      <4> QED BY <2>2, <3>1, <4>1
    <3> QED BY <3>2
  <2>4. PixelAt(row, x, d) = [k \in 1 .. s |-> row[x * s + k]]
    BY <1>2, <2>1 DEF PixelAt
  <2>5. [k \in 1 .. s |-> row[x * s + k]] \in [1 .. s -> Byte]
    BY <2>3
  <2> QED BY <1>2, <2>1, <2>4, <2>5, Zenon DEF Pixels
<1> QED BY <1>1, <1>2, EachDepth

(* Pixels that WithPixels may be given. *)
ArePixels(px, d) == \A x \in DOMAIN px : x \in Nat /\ px[x] \in Pixels(d)

(* A pixel as it is then. *)
NewPixel(row, px, x, d) == IF x \in DOMAIN px THEN px[x] ELSE PixelAt(row, x, d)
NewByte(row, px, x, j, d) ==
  IF x \in DOMAIN px THEN px[x][j] ELSE row[x * (d \div 8) + j]

(* Byte k of a row with some pixels replaced, when several pixels share it. *)
LEMMA SmallWritten ==
  ASSUME NEW d \in {1, 2, 4}, NEW n \in Nat, NEW row \in [0 .. n -> Byte], NEW px, ArePixels(px, d),
         NEW k \in 1 .. n
  PROVE  LET byte == WithPixels(row, px, d)[k]
         IN  /\ byte \in Byte
             /\ \A i \in 1 .. 8 \div d :
                  LET x == (k - 1) * (8 \div d) + i - 1
                  IN  (byte \div Place(x, d)) % Bit[d] = NewPixel(row, px, x, d)
<1> DEFINE per == 8 \div d
           X(i) == (k - 1) * per + i - 1
           Pixel(x) == IF x \in DOMAIN px THEN px[x] ELSE PixelAt(row, x, d)
           bits == [i \in 1 .. per |-> LET x == (k - 1) * per + i - 1 IN Place(x, d) * Pixel(x)]
           v == [i \in 1 .. per |-> Pixel(X(i))]
           byte == WithPixels(row, px, d)[k]
<1>1. d < 8 /\ d \in Depths /\ per \in Nat /\ k # 0 /\ k \in Nat \ {0}
  BY DEF Depths
<1>2. byte = Sums(bits, per)[per]
  <2>1. k \in DOMAIN row
    OBVIOUS
  <2> HIDE DEF bits, per
  <2> QED BY <1>1, <2>1, Zenon DEF WithPixels, bits, per
<1>3. ASSUME NEW i \in 1 .. per
      PROVE  /\ X(i) \in Nat /\ Place(X(i), d) = Bit[8 - d - d * (i - 1)]
             /\ Pixel(X(i)) \in 0 .. Bit[d] - 1
  <2>1. /\ X(i) \in Nat /\ Place(X(i), d) = Bit[8 - d - d * (i - 1)]
        /\ PNG_ROWBYTES(d, X(i) + 1) = k
    BY <1>1, SmallPlace, Zenon
  <2> HIDE DEF X
  <2>2. PixelAt(row, X(i), d) \in Pixels(d)
    <3>1. PNG_ROWBYTES(d, X(i) + 1) <= n
      BY <2>1
    <3> QED BY <1>1, <2>1, <3>1, PixelType, Zenon
  <2>3. X(i) \in DOMAIN px => px[X(i)] \in Pixels(d)
    BY DEF ArePixels
  <2>4. Pixels(d) = 0 .. Bit[d] - 1
    BY <1>1, Zenon DEF Pixels
  <2> QED BY <2>1, <2>2, <2>3, <2>4, Zenon
<1>4. v \in [1 .. per -> 0 .. Bit[d] - 1]
  <2> HIDE DEF X, Pixel, per
  <2> QED BY <1>3
<1>5. \A i \in 1 .. per : bits[i] = Bit[8 - d - d * (i - 1)] * v[i]
  <2> SUFFICES ASSUME NEW i \in 1 .. per PROVE bits[i] = Bit[8 - d - d * (i - 1)] * v[i]
    OBVIOUS
  <2>1. bits[i] = Place(X(i), d) * Pixel(X(i)) /\ v[i] = Pixel(X(i))
    BY Zenon
  <2> HIDE DEF X, Pixel, per, bits, v
  <2> QED BY <1>3, <2>1, Zenon
<1>6. /\ Sums(bits, per)[per] \in Byte
      /\ \A i \in 1 .. per : (Sums(bits, per)[per] \div Bit[8 - d - d * (i - 1)]) % Bit[d] = v[i]
  <2> HIDE DEF bits, v, X, Pixel
  <2> QED BY <1>4, <1>5, ByteOfPixels, Zenon
<1>7. \A i \in 1 .. per : (byte \div Place(X(i), d)) % Bit[d] = Pixel(X(i))
  <2> SUFFICES ASSUME NEW i \in 1 .. per PROVE (byte \div Place(X(i), d)) % Bit[d] = Pixel(X(i))
    OBVIOUS
  <2>1. v[i] = Pixel(X(i))
    BY Zenon
  <2> HIDE DEF X, Pixel, per, bits, v, byte
  <2> QED BY <1>2, <1>3, <1>6, <2>1, Zenon
<1>8. byte \in Byte
  <2> HIDE DEF X, Pixel, per, bits, v, byte
  <2> QED BY <1>2, <1>6, Zenon
<1> HIDE DEF byte, v, bits
<1> QED BY <1>7, <1>8, Zenon DEF byte, NewPixel

(* Byte k when each pixel has bytes of its own. *)
LEMMA LargeWritten ==
  ASSUME NEW d \in Depths, ~(d < 8), NEW n \in Nat, NEW row \in [0 .. n -> Byte], NEW px,
         ArePixels(px, d)
  PROVE  /\ \A k \in 1 .. n : WithPixels(row, px, d)[k] \in Byte
         /\ \A x \in Nat, j \in 1 .. d \div 8 : x * (d \div 8) + j <= n =>
              WithPixels(row, px, d)[x * (d \div 8) + j] = NewByte(row, px, x, j, d)
<1>1. PICK s \in 1 .. 8 : d = 8 * s /\ d \div 8 = s
  BY EachDepth
<1> DEFINE Large(k) == LET x == (k - 1) \div s
                       IN  IF x \in DOMAIN px THEN px[x][((k - 1) % s) + 1] ELSE row[k]
<1>2. ASSUME NEW k \in 1 .. n PROVE WithPixels(row, px, d)[k] = Large(k)
  <2>1. k \in DOMAIN row /\ k # 0
    OBVIOUS
  <2> QED BY <1>1, <2>1, Zenon DEF WithPixels
<1>3. \A x \in DOMAIN px : \A j \in 1 .. s : px[x][j] \in Byte
  BY <1>1 DEF ArePixels, Pixels
<1>4. ASSUME NEW k \in 1 .. n PROVE WithPixels(row, px, d)[k] \in Byte
  <2>1. ((k - 1) % s) + 1 \in 1 .. s
    OBVIOUS
  <2>2. row[k] \in Byte
    OBVIOUS
  <2> QED BY <1>2, <1>3, <2>1, <2>2, Zenon
<1>5. ASSUME NEW x \in Nat, NEW j \in 1 .. s, x * s + j <= n
      PROVE  WithPixels(row, px, d)[x * s + j] = NewByte(row, px, x, j, d)
  <2> DEFINE k == x * s + j
  <2>1. k \in Nat /\ k >= 1 /\ (k - 1) \div s = x /\ (k - 1) % s = j - 1
    BY LargePlace
  <2> HIDE DEF k
  <2>2. k \in 1 .. n
    BY <1>5, <2>1 DEF k
  <2>3. ((k - 1) % s) + 1 = j
    BY <2>1
  <2>4. WithPixels(row, px, d)[k] = IF x \in DOMAIN px THEN px[x][j] ELSE row[k]
    BY <1>2, <2>1, <2>2, <2>3, Zenon
  <2>5. WithPixels(row, px, d)[k] = NewByte(row, px, x, j, d)
    <3>1. x * (d \div 8) + j = k
      BY <1>1, Zenon DEF k
    <3> QED BY <2>4, <3>1 DEF NewByte
  <2> QED BY <2>5, Zenon DEF k
<1> QED BY <1>1, <1>4, <1>5, Zenon

(* The pixels that are written are there afterwards, and the others as before. *)
LEMMA PixelWritten ==
  ASSUME NEW d \in Depths, NEW n \in Nat, NEW row \in [0 .. n -> Byte], NEW px, ArePixels(px, d)
  PROVE  /\ WithPixels(row, px, d) \in [0 .. n -> Byte]
         /\ WithPixels(row, px, d)[0] = row[0]
         /\ \A x \in Nat : PNG_ROWBYTES(d, x + 1) <= n =>
              PixelAt(WithPixels(row, px, d), x, d) = NewPixel(row, px, x, d)
<1> DEFINE new == WithPixels(row, px, d)
<1>1. DOMAIN new = 0 .. n /\ new[0] = row[0] /\ new = [k \in 0 .. n |-> new[k]]
  BY DEF WithPixels
<1>2. CASE d \in {1, 2, 4}
  <2>1. \A k \in 1 .. n : new[k] \in Byte
    <3> HIDE DEF new
    <3> QED BY <1>2, SmallWritten, Zenon DEF new
  <2>2. ASSUME NEW x \in Nat, PNG_ROWBYTES(d, x + 1) <= n
        PROVE  PixelAt(new, x, d) = NewPixel(row, px, x, d)
    <3> DEFINE k == x \div (8 \div d) + 1
               i == (x % (8 \div d)) + 1
    <3>1. k \in Nat \ {0} /\ i \in 1 .. 8 \div d /\ x = (k - 1) * (8 \div d) + i - 1
          /\ PNG_ROWBYTES(d, x + 1) = k
      BY <1>2, SmallPixel, Zenon
    <3>2. k \in 1 .. n
      <4> HIDE DEF k
      <4> QED BY <2>2, <3>1
    <3>3. 1 + x \div (8 \div d) = k
      <4>1. x \div (8 \div d) \in Int
        BY <1>2
      <4> QED BY <4>1
    <3> HIDE DEF k, i, new
    <3>4. (new[k] \div Place(x, d)) % Bit[d] = NewPixel(row, px, x, d)
      <4> DEFINE y == (k - 1) * (8 \div d) + i - 1
      <4>3. \A j \in 1 .. 8 \div d :
               (new[k] \div Place((k - 1) * (8 \div d) + j - 1, d)) % Bit[d]
                 = NewPixel(row, px, (k - 1) * (8 \div d) + j - 1, d)
        BY <1>2, <3>2, SmallWritten, Zenon DEF new
      <4>1. (new[k] \div Place(y, d)) % Bit[d] = NewPixel(row, px, y, d)
        BY <3>1, <4>3, Zenon
      <4>2. y = x
        BY <3>1, Zenon
      <4> HIDE DEF y
      <4> QED BY <4>1, <4>2, Zenon
    <3>5. d < 8
      BY <1>2
    <3>6. PixelAt(new, x, d) = (new[k] \div Place(x, d)) % Bit[d]
      BY <3>3, <3>5, Zenon DEF PixelAt
    <3> QED BY <3>4, <3>6, Zenon
  <2>3. new \in [0 .. n -> Byte]
    <3>1. \A k \in 0 .. n : new[k] \in Byte
      BY <1>1, <2>1
    <3> HIDE DEF new
    <3> QED BY <1>1, <3>1
  <2> HIDE DEF new
  <2> QED BY <1>1, <2>2, <2>3, Zenon DEF new
<1>3. CASE ~(d < 8)
  <2> HIDE DEF new
  <2>1. \A k \in 1 .. n : new[k] \in Byte
    BY <1>3, LargeWritten, Zenon DEF new
  <2>2. ASSUME NEW x \in Nat, PNG_ROWBYTES(d, x + 1) <= n
        PROVE  PixelAt(new, x, d) = NewPixel(row, px, x, d)
    <3>1. PICK s \in 1 .. 8 : d = 8 * s /\ d \div 8 = s
      BY <1>3, EachDepth
    <3>2. (x + 1) * s <= n
      BY <1>3, <2>2, <3>1, BytesForPixel
    <3>3. ASSUME NEW j \in 1 .. s
          PROVE  new[x * s + j] = NewByte(row, px, x, j, d)
      <4>1. x * s + j <= n
        <5>1. x * s + j \in Nat /\ x * s + j <= (x + 1) * s
          BY LargePlace
        <5>2. (x + 1) * s \in Nat
          OBVIOUS
        <5> QED BY <3>2, <5>1, <5>2
      <4>2. x * (d \div 8) + j <= n /\ j \in 1 .. d \div 8
        BY <3>1, <4>1, Zenon
      <4>3. new[x * (d \div 8) + j] = NewByte(row, px, x, j, d)
        <5>1. \A y \in Nat, i \in 1 .. d \div 8 : y * (d \div 8) + i <= n =>
                 new[y * (d \div 8) + i] = NewByte(row, px, y, i, d)
          BY <1>3, LargeWritten, Zenon DEF new
        <5> QED BY <4>2, <5>1, Zenon
      <4> QED BY <3>1, <4>3, Zenon
    <3>4. PixelAt(new, x, d) = [j \in 1 .. s |-> new[x * s + j]]
          /\ PixelAt(row, x, d) = [j \in 1 .. s |-> row[x * s + j]]
      BY <1>3, <3>1, Zenon DEF PixelAt
    <3>5. CASE x \in DOMAIN px
      <4>1. px[x] \in [1 .. s -> Byte]
        BY <1>3, <3>1, <3>5 DEF ArePixels, Pixels
      <4>2. px[x] = [j \in 1 .. s |-> px[x][j]]
        BY <4>1
      <4>3. \A j \in 1 .. s : new[x * s + j] = px[x][j]
        BY <3>3, <3>5, Zenon DEF NewByte
      <4> QED BY <3>4, <3>5, <4>2, <4>3 DEF NewPixel
    <3>6. CASE x \notin DOMAIN px
      <4>1. \A j \in 1 .. s : new[x * s + j] = row[x * s + j]
        BY <3>1, <3>3, <3>6, Zenon DEF NewByte
      <4> QED BY <3>4, <3>6, <4>1 DEF NewPixel
    <3> QED BY <3>5, <3>6
  <2>3. new \in [0 .. n -> Byte]
    <3>1. \A k \in 0 .. n : new[k] \in Byte
      BY <1>1, <2>1
    <3> QED BY <1>1, <3>1
  <2> QED BY <1>1, <2>2, <2>3, Zenon DEF new
<1> QED BY <1>2, <1>3, EachDepth

(* A pixel depends on its bytes alone. *)
LEMMA SamePixel ==
  ASSUME NEW d \in Depths, NEW x \in Nat, NEW row, NEW other,
         \A k \in 1 .. PNG_ROWBYTES(d, x + 1) : row[k] = other[k]
  PROVE  PixelAt(row, x, d) = PixelAt(other, x, d)
<1>1. CASE d \in {1, 2, 4}
  <2>1. 1 + x \div (8 \div d) \in 1 .. PNG_ROWBYTES(d, x + 1)
    BY <1>1 DEF PNG_ROWBYTES
  <2>2. d < 8
    BY <1>1
  <2> QED BY <2>1, <2>2, Zenon DEF PixelAt
<1>2. CASE ~(d < 8)
  <2>1. PICK s \in 1 .. 8 : d = 8 * s /\ d \div 8 = s
    BY <1>2, EachDepth
  <2>2. PNG_ROWBYTES(d, x + 1) = (x + 1) * s
    BY <1>2, <2>1, BytesForPixel
  <2>3. \A k \in 1 .. s : row[x * s + k] = other[x * s + k]
    <3> SUFFICES ASSUME NEW k \in 1 .. s PROVE row[x * s + k] = other[x * s + k]
      OBVIOUS
    <3>1. x * s + k \in 1 .. (x + 1) * s
      <4>1. x * s + k \in Nat /\ x * s + k >= 1 /\ x * s + k <= (x + 1) * s
        BY LargePlace
      <4>2. (x + 1) * s \in Nat
        OBVIOUS
      <4> QED BY <4>1, <4>2
    <3> QED BY <2>2, <3>1
  <2> QED BY <1>2, <2>1, <2>3 DEF PixelAt
<1> QED BY <1>1, <1>2, EachDepth

----------------------------------------------------------------------------
(* The rows of the passes, as bytes. *)

LEMMA DepthIs == ASSUME JobOK PROVE depth \in Depths
BY DEF JobOK, JobType, Depths, depth

LEMMA Remainder ==
  ASSUME NEW v \in Int, NEW m \in Nat \ {0}
  PROVE  v % m \in 0 .. m - 1
  OBVIOUS

LEMMA ImagePixel ==
  ASSUME JobOK, NEW y \in 0 .. height - 1, NEW x \in 0 .. width - 1
  PROVE  Image[y][x] \in Pixels(depth)
BY DEF JobOK

(* Where the pixels of a pass's rows lie in the image. *)
RowPixels(p) == IF job.interlaced THEN PassWidth(width, p) ELSE width
ImageRow(p, i) == IF job.interlaced THEN PNG_ROW_FROM_PASS_ROW(i, p) ELSE i
ImageCol(p, x) == IF job.interlaced THEN PNG_COL_FROM_PASS_COL(x, p) ELSE x

PassPixels(p, i) ==
  [x \in 0 .. RowPixels(p) - 1 |-> Image[ImageRow(p, i)][ImageCol(p, x)]]
RawRow(p, i) == WithPixels(Filled(0, RowLength(p) - 1), PassPixels(p, i), depth)

(* A row that the stream has. *)
HasRow(p, i) ==
  p \in Passes /\ (~job.interlaced => p = 0) /\ i \in Nat /\ i < PassRows(p)

LEMMA PixelPlaces ==
  ASSUME JobOK, NEW p, NEW i, HasRow(p, i)
  PROVE  /\ RowPixels(p) \in Nat /\ RowLength(p) - 1 = PNG_ROWBYTES(depth, RowPixels(p))
         /\ RowLength(p) - 1 \in Nat
         /\ ImageRow(p, i) \in 0 .. height - 1
         /\ \A x \in 0 .. RowPixels(p) - 1 : ImageCol(p, x) \in 0 .. width - 1
<1>1. width \in Nat /\ height \in Nat /\ p \in Passes /\ i \in Nat
  BY Sizes DEF HasRow
<1>2. RowPixels(p) \in Nat
  BY <1>1, PassSizes DEF RowPixels
<1>3. PNG_ROWBYTES(depth, RowPixels(p)) \in Nat
  BY <1>2, RowBytesType
<1>4. RowLength(p) - 1 = PNG_ROWBYTES(depth, RowPixels(p))
  BY <1>3 DEF RowLength, RowPixels
<1>5. CASE ~job.interlaced
  BY <1>1, <1>2, <1>3, <1>4, <1>5 DEF HasRow, PassRows, RowPixels, ImageRow, ImageCol
<1>6. CASE job.interlaced
  <2>1. i < PassHeight(height, p)
    BY <1>1, <1>6 DEF HasRow, PassRows
  <2>2. PNG_ROW_FROM_PASS_ROW(i, p) < height
    BY <1>1, <2>1, PassHoldsItsColumns
  <2>3. \A x \in 0 .. RowPixels(p) - 1 : PNG_COL_FROM_PASS_COL(x, p) < width
    BY <1>1, <1>2, <1>6, PassHoldsItsColumns DEF RowPixels
  <2>4. \A k \in Nat : PNG_ROW_FROM_PASS_ROW(k, p) \in Nat /\ PNG_COL_FROM_PASS_COL(k, p) \in Nat
    BY <1>1, EachPass, MacroColumns, MacroRows DEF PNG_ROW_FROM_PASS_ROW, PNG_COL_FROM_PASS_COL
  <2> QED BY <1>1, <1>2, <1>3, <1>4, <1>6, <2>2, <2>3, <2>4 DEF ImageRow, ImageCol
<1> QED BY <1>5, <1>6

(* Such a row is one of bytes, with the pixels of the image. *)
LEMMA RawRowIs ==
  ASSUME JobOK, NEW p, NEW i, HasRow(p, i)
  PROVE  /\ RawRow(p, i) \in [0 .. RowLength(p) - 1 -> Byte]
         /\ RawRow(p, i)[0] = 0
         /\ \A x \in 0 .. RowPixels(p) - 1 :
              /\ PNG_ROWBYTES(depth, x + 1) <= RowLength(p) - 1
              /\ PixelAt(RawRow(p, i), x, depth) = Image[ImageRow(p, i)][ImageCol(p, x)]
<1> DEFINE n == RowLength(p) - 1
           px == PassPixels(p, i)
<1>1. n \in Nat /\ depth \in Depths
  BY DepthIs, PixelPlaces
<1>2. ArePixels(px, depth)
  <2>1. DOMAIN px = 0 .. RowPixels(p) - 1
    BY DEF PassPixels
  <2>2. ASSUME NEW x \in 0 .. RowPixels(p) - 1 PROVE x \in Nat /\ px[x] \in Pixels(depth)
    <3>1. px[x] = Image[ImageRow(p, i)][ImageCol(p, x)]
      BY DEF PassPixels
    <3>2. ImageRow(p, i) \in 0 .. height - 1 /\ ImageCol(p, x) \in 0 .. width - 1
      BY PixelPlaces
    <3>3. Image[ImageRow(p, i)][ImageCol(p, x)] \in Pixels(depth)
      BY <3>2, ImagePixel, Zenon
    <3>4. x \in Nat
      BY PixelPlaces
    <3> QED BY <3>1, <3>3, <3>4, Zenon
  <2> QED BY <2>1, <2>2, Zenon DEF ArePixels
<1>3. Filled(0, n) \in [0 .. n -> Byte] /\ Filled(0, n)[0] = 0
  <2> HIDE DEF n
  <2> QED BY <1>1 DEF Filled, Byte
<1>4. ASSUME NEW x \in 0 .. RowPixels(p) - 1 PROVE x \in Nat /\ PNG_ROWBYTES(depth, x + 1) <= n
  <2>1. RowPixels(p) \in Nat /\ n = PNG_ROWBYTES(depth, RowPixels(p))
    BY PixelPlaces
  <2> HIDE DEF n
  <2>2. x \in Nat /\ x + 1 \in Nat /\ x + 1 <= RowPixels(p)
    BY <2>1
  <2> QED BY <1>1, <2>1, <2>2, WiderIsLonger
<1>5. ASSUME NEW x \in 0 .. RowPixels(p) - 1
      PROVE  NewPixel(Filled(0, n), px, x, depth) = Image[ImageRow(p, i)][ImageCol(p, x)]
  BY DEF NewPixel, PassPixels
<1> HIDE DEF n, px
<1> DEFINE new == WithPixels(Filled(0, n), px, depth)
<1>8. /\ new \in [0 .. n -> Byte] /\ new[0] = Filled(0, n)[0]
      /\ \A x \in Nat : PNG_ROWBYTES(depth, x + 1) <= n =>
           PixelAt(new, x, depth) = NewPixel(Filled(0, n), px, x, depth)
  BY <1>1, <1>2, <1>3, PixelWritten
<1>6. /\ WithPixels(Filled(0, n), px, depth) \in [0 .. n -> Byte]
      /\ WithPixels(Filled(0, n), px, depth)[0] = 0
      /\ \A x \in 0 .. RowPixels(p) - 1 :
           PixelAt(WithPixels(Filled(0, n), px, depth), x, depth) = NewPixel(Filled(0, n), px, x, depth)
  <2> HIDE DEF new
  <2> QED BY <1>3, <1>4, <1>8, Zenon DEF new
<1>7. RawRow(p, i) = WithPixels(Filled(0, n), px, depth)
  BY Zenon DEF RawRow, n, px
<1> QED BY <1>4, <1>5, <1>6, <1>7, Zenon DEF n

(* Row y of the image is that row of its pass which is counted before it. *)
LEMMA RowOfImage ==
  ASSUME JobOK, job.interlaced, NEW p \in Passes, NEW y \in Nat, RowInPass(y, p)
  PROVE  ImageRow(p, PassHeight(y, p)) = y
<1> DEFINE i == PassHeight(y, p)
<1>1. CASE p = 0
  <2>1. (y - 0) % 8 = 0 /\ y >= 0 /\ i = (y + 7) \div 8
    BY <1>1, Rows DEF RowInPass, PassHeight
  <2>2. PNG_ROW_FROM_PASS_ROW(i, p) = i * 8 + 0
    BY <1>1, MacroRows DEF PNG_ROW_FROM_PASS_ROW
  <2> HIDE DEF i
  <2> QED BY <2>1, <2>2 DEF ImageRow, i
<1>2. CASE p = 1
  <2>1. (y - 0) % 8 = 0 /\ y >= 0 /\ i = (y + 7) \div 8
    BY <1>2, Rows DEF RowInPass, PassHeight
  <2>2. PNG_ROW_FROM_PASS_ROW(i, p) = i * 8 + 0
    BY <1>2, MacroRows DEF PNG_ROW_FROM_PASS_ROW
  <2> HIDE DEF i
  <2> QED BY <2>1, <2>2 DEF ImageRow, i
<1>3. CASE p = 2
  <2>1. (y - 4) % 8 = 0 /\ y >= 4 /\ i = (y + 3) \div 8
    BY <1>3, Rows DEF RowInPass, PassHeight
  <2>2. PNG_ROW_FROM_PASS_ROW(i, p) = i * 8 + 4
    BY <1>3, MacroRows DEF PNG_ROW_FROM_PASS_ROW
  <2> HIDE DEF i
  <2> QED BY <2>1, <2>2 DEF ImageRow, i
<1>4. CASE p = 3
  <2>1. (y - 0) % 4 = 0 /\ y >= 0 /\ i = (y + 3) \div 4
    BY <1>4, Rows DEF RowInPass, PassHeight
  <2>2. PNG_ROW_FROM_PASS_ROW(i, p) = i * 4 + 0
    BY <1>4, MacroRows DEF PNG_ROW_FROM_PASS_ROW
  <2> HIDE DEF i
  <2> QED BY <2>1, <2>2 DEF ImageRow, i
<1>5. CASE p = 4
  <2>1. (y - 2) % 4 = 0 /\ y >= 2 /\ i = (y + 1) \div 4
    BY <1>5, Rows DEF RowInPass, PassHeight
  <2>2. PNG_ROW_FROM_PASS_ROW(i, p) = i * 4 + 2
    BY <1>5, MacroRows DEF PNG_ROW_FROM_PASS_ROW
  <2> HIDE DEF i
  <2> QED BY <2>1, <2>2 DEF ImageRow, i
<1>6. CASE p = 5
  <2>1. (y - 0) % 2 = 0 /\ y >= 0 /\ i = (y + 1) \div 2
    BY <1>6, Rows DEF RowInPass, PassHeight
  <2>2. PNG_ROW_FROM_PASS_ROW(i, p) = i * 2 + 0
    BY <1>6, MacroRows DEF PNG_ROW_FROM_PASS_ROW
  <2> HIDE DEF i
  <2> QED BY <2>1, <2>2 DEF ImageRow, i
<1>7. CASE p = 6
  <2>1. (y - 1) % 2 = 0 /\ y >= 1 /\ i = (y + 0) \div 2
    BY <1>7, Rows DEF RowInPass, PassHeight
  <2>2. PNG_ROW_FROM_PASS_ROW(i, p) = i * 2 + 1
    BY <1>7, MacroRows DEF PNG_ROW_FROM_PASS_ROW
  <2> HIDE DEF i
  <2> QED BY <2>1, <2>2 DEF ImageRow, i
<1> QED BY <1>1, <1>2, <1>3, <1>4, <1>5, <1>6, <1>7, EachPass

LEMMA RowHandled ==
  ASSUME JobOK, NEW h \in BOOLEAN, NEW p \in Passes, NEW y \in 0 .. height - 1,
         job.interlaced => h, ~job.interlaced => p = 0, ~Skipped(h, p, y)
  PROVE  HasRow(p, RowsAmong(h, y, p)) /\ ImageRow(p, RowsAmong(h, y, p)) = y
<1>1. width \in Nat /\ width > 0 /\ height \in Nat /\ y \in Nat
  BY Sizes
<1>2. CASE ~job.interlaced
  BY <1>1, <1>2 DEF HasRow, RowsAmong, ImageRow, PassRows
<1>3. CASE job.interlaced
  <2>1. ~SkipsRow(y, width, p)
    BY <1>3 DEF Skipped
  <2>2. RowInPass(y, p) /\ PassWidth(width, p) # 0
    BY <1>1, <2>1, SkippedRows
  <2>3. RowsAmong(h, y, p) = PassHeight(y, p)
    BY <1>3, <2>2 DEF RowsAmong
  <2>4. PassHeight(y + 1, p) = PassHeight(y, p) + 1
    BY <1>1, <2>2, OneMoreRow
  <2>5. PassHeight(y + 1, p) <= PassHeight(height, p)
    <3>1. y + 1 \in Nat /\ y + 1 <= height
      BY <1>1
    <3> QED BY <1>1, <3>1, Monotone
  <2>6. PassHeight(y, p) \in Nat /\ PassHeight(height, p) \in Nat
    BY <1>1, PassSizes
  <2> QED BY <1>3, <2>2, <2>3, <2>4, <2>5, <2>6, RowOfImage DEF HasRow, PassRows
<1> QED BY <1>2, <1>3

----------------------------------------------------------------------------
(* The search for the best filter. *)

Longest == PNG_ROWBYTES(depth, width)

(* A filtered byte is a byte; without a row above only NONE and SUB are used. *)
CanUse(f, prev) == f \in UsesPrevRow => prev # NULL

LEMMA FilteredIsByte ==
  ASSUME JobOK, NEW f \in 1 .. 4, NEW n \in Nat, NEW raw, NEW above,
         \A k \in 1 .. n : raw[k] \in Byte,
         f \in UsesPrevRow => \A k \in 1 .. n : above[k] \in Byte,
         NEW i \in 1 .. n
  PROVE  FilteredByte(f, raw, above, bpp, i) \in Byte
<1>1. bpp \in Nat /\ bpp > 0 /\ raw[i] \in Byte
  BY LooksBack
<1> DEFINE b == bpp
<1> HIDE DEF b
<1>2. i > b => raw[i - b] \in Byte
  BY <1>1 DEF b
<1>3. CASE f = PNG_FILTER_VALUE_SUB
  <2>1. FilteredByte(f, raw, above, bpp, i) = IF i <= b THEN raw[i] ELSE (raw[i] - raw[i - b]) % 256
    BY <1>3, Zenon DEF FilteredByte, SubByte, b
  <2> QED BY <1>1, <1>2, <2>1, Difference DEF b
<1>4. CASE f \in UsesPrevRow
  <2>1. above[i] \in Byte
    BY <1>4
  <2>2. i > b => above[i - b] \in Byte
    BY <1>1, <1>4 DEF b
  <2>3. CASE f = PNG_FILTER_VALUE_UP
    BY <1>1, <2>1, <2>3, Difference
    DEF FilteredByte, UpByte, PNG_FILTER_VALUE_SUB, PNG_FILTER_VALUE_UP
  <2>4. CASE f = PNG_FILTER_VALUE_AVG
    <3>1. FilteredByte(f, raw, above, bpp, i)
            = IF i <= b THEN (raw[i] - (above[i] \div 2)) % 256
              ELSE (raw[i] - ((above[i] + raw[i - b]) \div 2)) % 256
      <4>1. f # PNG_FILTER_VALUE_SUB /\ f # PNG_FILTER_VALUE_UP
        BY <2>4 DEF PNG_FILTER_VALUE_SUB, PNG_FILTER_VALUE_UP, PNG_FILTER_VALUE_AVG
      <4> QED BY <2>4, <4>1, Zenon DEF FilteredByte, AvgByte, b
    <3>2. above[i] \div 2 \in Byte
      BY <2>1, Halves
    <3>3. i > b => (above[i] + raw[i - b]) \div 2 \in Byte
      BY <1>2, <2>1, Halves
    <3> QED BY <1>1, <3>1, <3>2, <3>3, Difference DEF b
  <2>5. CASE f = PNG_FILTER_VALUE_PAETH
    <3>1. FilteredByte(f, raw, above, bpp, i)
            = IF i <= b THEN (raw[i] - above[i]) % 256
              ELSE (raw[i] - WriterPaeth(raw[i - b], above[i], above[i - b])) % 256
      <4>1. f # PNG_FILTER_VALUE_SUB /\ f # PNG_FILTER_VALUE_UP /\ f # PNG_FILTER_VALUE_AVG
        BY <2>5 DEF PNG_FILTER_VALUE_SUB, PNG_FILTER_VALUE_UP, PNG_FILTER_VALUE_AVG, PNG_FILTER_VALUE_PAETH
      <4> QED BY <2>5, <4>1, Zenon DEF FilteredByte, PaethByte, b
    <3>2. i > b => WriterPaeth(raw[i - b], above[i], above[i - b]) \in Byte
      BY <1>2, <2>1, <2>2, PaethAgrees
    <3> QED BY <1>1, <2>1, <3>1, <3>2, Difference DEF b
  <2> QED BY <1>4, <2>3, <2>4, <2>5 DEF UsesPrevRow
<1> QED BY <1>3, <1>4 DEF UsesPrevRow, PNG_FILTER_VALUE_SUB, PNG_FILTER_VALUE_UP,
           PNG_FILTER_VALUE_AVG, PNG_FILTER_VALUE_PAETH

(* The weights of a row add up to at most 128 for each byte. *)
LEMMA WeightsAdd ==
  ASSUME NEW n \in Nat, NEW bytes, \A k \in 1 .. n : bytes[k] \in Byte
  PROVE  \A k \in 0 .. n : Weights(bytes, n)[k] \in 0 .. 128 * k
<1> DEFINE a == [k \in 1 .. n |-> Weight(bytes[k])]
           sum == Sums(a, n)
<1>1. \A k \in 1 .. n : a[k] \in 0 .. 128
  <2>1. \A v \in Byte : Weight(v) \in 0 .. 128
    BY DEF Weight, Byte
  <2>2. \A k \in 1 .. n : a[k] = Weight(bytes[k])
    OBVIOUS
  <2> HIDE DEF a
  <2> QED BY <2>1, <2>2
<1>2. sum[0] = 0 /\ \A k \in 1 .. n : sum[k] = sum[k - 1] + a[k]
  BY SumsUnrolled, Zenon
<1> HIDE DEF a, sum
<1>3. ASSUME NEW m \in 0 .. n PROVE sum[m] \in 0 .. 128 * m
  <2> DEFINE S == {k \in 0 .. m : sum[k] \in 0 .. 128 * k}
  <2>1. 0 \in S
    BY <1>2
  <2>2. ASSUME NEW k \in 0 .. m - 1, k \in S PROVE k + 1 \in S
    <3>1. k + 1 \in 1 .. n /\ k + 1 \in 0 .. m
      OBVIOUS
    <3>2. sum[k + 1] = sum[k] + a[k + 1] /\ a[k + 1] \in 0 .. 128
      BY <1>1, <1>2, <3>1
    <3>3. sum[k] \in 0 .. 128 * k
      BY <2>2
    <3> QED BY <3>1, <3>2, <3>3
  <2>3. m \in S
    <3>1. m \in Nat
      OBVIOUS
    <3> HIDE DEF S
    <3> QED BY <2>1, <2>2, <3>1, Climbs
  <2> QED BY <2>3
<1> QED BY <1>3, Zenon DEF Weights, sum, a

(* A set of positions has a first one. *)
LEMMA FirstOne ==
  ASSUME NEW n \in Nat, NEW S, S \subseteq 1 .. n, S # {}
  PROVE  Min(S) \in S
<1>1. \E x \in S : \A y \in S : x <= y
  <2> SUFFICES ASSUME \A x \in S : \E y \in S : ~(x <= y) PROVE FALSE
    OBVIOUS
  <2> DEFINE T == {m \in 0 .. n : \A x \in 1 .. m : x \notin S}
  <2>1. 0 \in T
    OBVIOUS
  <2>2. ASSUME NEW m \in 0 .. n - 1, m \in T PROVE m + 1 \in T
    <3>1. m + 1 \notin S
      <4> SUFFICES ASSUME m + 1 \in S PROVE FALSE
        OBVIOUS
      <4>1. PICK y \in S : ~(m + 1 <= y)
        OBVIOUS
      <4>2. y \in 1 .. m
        BY <4>1
      <4> QED BY <2>2, <4>2
    <3>2. \A x \in 1 .. m + 1 : x = m + 1 \/ x \in 1 .. m
      OBVIOUS
    <3> QED BY <2>2, <3>1, <3>2
  <2>3. n \in T
    <3> HIDE DEF T
    <3> QED BY <2>1, <2>2, Climbs
  <2> QED BY <2>3
<1> QED BY <1>1 DEF Min

(* png_setup_*_row gives the first bytes of the filtered row, all of them if the sum
   stays within the limit. *)
FirstFiltered(s, f, row, prev, n, lmins) ==
  /\ s.sum \in Nat
  /\ \E stop \in 0 .. n :
       /\ DOMAIN s.bytes = 0 .. stop
       /\ \A k \in 0 .. stop : s.bytes[k] = Sent(f, row, prev, k)
       /\ (lmins >= 128 * n \/ s.sum <= lmins) => stop = n

LEMMA SetupGives ==
  ASSUME JobOK, NEW f \in 1 .. 4, NEW n \in Nat, NEW row, NEW prev,
         \A k \in 1 .. n : row[k] \in Byte,
         f \in UsesPrevRow => \A k \in 1 .. n : prev[k] \in Byte,
         NEW lmins \in Int, NEW s, s = Setup(f, row, prev, n, lmins)
  PROVE  FirstFiltered(s, f, row, prev, n, lmins)
<1> DEFINE filtered == [k \in 1 .. n |-> FilteredByte(f, row, prev, bpp, k)]
           sum == Weights(filtered, n)
           tested == IF f = PNG_FILTER_VALUE_UP THEN 1 .. n ELSE bpp + 1 .. n
           worse == {k \in tested : sum[k] > lmins}
           stop == IF worse = {} THEN n ELSE Min(worse)
           bytes == [k \in 0 .. stop |-> IF k = 0 THEN f ELSE filtered[k]]
<1>1. s = [bytes |-> bytes, sum |-> sum[stop]]
  BY Zenon DEF Setup
<1>2. \A k \in 1 .. n : filtered[k] = FilteredByte(f, row, prev, bpp, k) /\ filtered[k] \in Byte
  BY FilteredIsByte
<1>3. \A k \in 0 .. n : sum[k] \in 0 .. 128 * k
  <2> HIDE DEF filtered
  <2> QED BY <1>2, WeightsAdd, Zenon
<1> HIDE DEF filtered, sum
<1>4. worse \subseteq 1 .. n
  <2>1. bpp \in Nat
    BY LooksBack
  <2> QED BY <2>1
<1>5. worse # {} => stop \in worse
  <2> HIDE DEF worse
  <2> QED BY <1>4, FirstOne
<1>6. stop \in 0 .. n /\ (stop # n => sum[stop] > lmins)
  BY <1>4, <1>5
<1> HIDE DEF stop, worse
<1>7. sum[stop] \in 0 .. 128 * stop
  BY <1>3, <1>6
<1>8. (lmins >= 128 * n \/ sum[stop] <= lmins) => stop = n
  BY <1>6, <1>7
<1>9. \A k \in 0 .. stop : bytes[k] = Sent(f, row, prev, k)
  <2> SUFFICES ASSUME NEW k \in 0 .. stop PROVE bytes[k] = Sent(f, row, prev, k)
    OBVIOUS
  <2>1. bytes[k] = IF k = 0 THEN f ELSE filtered[k]
    OBVIOUS
  <2>2. k # 0 => filtered[k] = FilteredByte(f, row, prev, bpp, k)
    BY <1>2, <1>6
  <2>3. f # PNG_FILTER_VALUE_NONE
    BY DEF PNG_FILTER_VALUE_NONE
  <2> HIDE DEF bytes
  <2> QED BY <2>1, <2>2, <2>3, Zenon DEF Sent
<1>10. DOMAIN bytes = 0 .. stop
  OBVIOUS
<1>11. s.bytes = bytes /\ s.sum = sum[stop] /\ sum[stop] \in Nat
  BY <1>1, <1>6, <1>7
<1> HIDE DEF bytes
<1> QED BY <1>6, <1>8, <1>9, <1>10, <1>11 DEF FirstFiltered

(* The two rows for filtered bytes: there are as many as the filters chosen need. *)
Rooms(w) ==
  /\ w.try_row \in {NULL, 2, 3} /\ w.tst_row \in {NULL, 2, 3}
  /\ w.tst_row = w.try_row => w.tst_row = NULL
  /\ w.tst_row # NULL => w.try_row # NULL
  /\ w.tst_row = NULL => w.try_row # 3
  /\ \A f \in 1 .. 4 : f \in w.do_filter => w.try_row # NULL /\ CanUse(f, w.prev_row)
  /\ \A f, g \in 1 .. 4 : f \in w.do_filter /\ g \in w.do_filter /\ f # g => w.tst_row # NULL

(* The rows with the pixels are elsewhere. *)
Pointers(w) ==
  w.row_buf \in {1, 4} /\ w.prev_row \in {NULL, 1, 4} /\ w.prev_row # w.row_buf /\ Rooms(w)

Buffers(m) ==
  /\ DOMAIN m = 1 .. 4 /\ \A b \in 1 .. 4 : DOMAIN m[b] = 0 .. Longest
  /\ m[1] \in [0 .. Longest -> Byte] /\ m[4] \in [0 .. Longest -> Byte]

(* Before filter f is tried: some filter tried before, or none, is in the best row,
   and the next one that is chosen has another row to go to. *)
Searching(c, w, m, n, f) ==
  /\ Trying(c, w) /\ c.n = n /\ c.most = 256 * (n + 1) /\ c.mins \in Int
  /\ c.w.do_filter = w.do_filter /\ Rooms(c.w)
  /\ Buffers(c.mem) /\ c.mem[1] = m[1] /\ c.mem[4] = m[4]
  /\ \E g \in 0 .. 4 :
       /\ CanUse(g, w.prev_row)
       /\ \A k \in 0 .. n : c.mem[c.best_row][k] = Sent(g, m[w.row_buf], m[w.prev_row], k)
  /\ \A g \in f .. 4 : g \in w.do_filter => c.best_row # c.w.try_row

LEMMA FilterTried ==
  ASSUME JobOK, NEW w \in WriterType, Pointers(w), NEW m, Buffers(m), NEW n \in Nat, n <= Longest,
         NEW f \in 1 .. 4, NEW c, Searching(c, w, m, n, f)
  PROVE  Searching(TryFilter(c, f), w, m, n, f + 1)
<1> DEFINE try == c.w.try_row
           s == SetupRow(c, f)
           sum == s.sum
           mem2 == Tried(c, f)
           v == Exchanged(c.w)
           row == m[w.row_buf]
           prev == m[w.prev_row]
           lmins == IF c.w.do_filter = {f} THEN c.most ELSE c.mins
<1>1. TryFilter(c, f) =
       IF f \notin c.w.do_filter THEN c
       ELSE IF c.w.do_filter = {f} THEN [c EXCEPT !.mem = mem2, !.best_row = try]
       ELSE IF sum >= c.mins THEN [c EXCEPT !.mem = mem2]
       ELSE [c EXCEPT !.w = v, !.mem = mem2, !.best_row = try, !.mins = sum]
  BY DEF TryFilter
<1>2. Trying(TryFilter(c, f), w)
  BY TryKeeps DEF Searching
<1>3. CASE f \notin c.w.do_filter
  <2>1. TryFilter(c, f) = c
    BY <1>1, <1>3, Zenon
  <2>2. \A g \in f + 1 .. 4 : g \in f .. 4
    OBVIOUS
  <2> QED BY <2>1, <2>2 DEF Searching
<1>4. CASE f \in c.w.do_filter
  <2>1. /\ c.w.do_filter = w.do_filter /\ Rooms(c.w) /\ Buffers(c.mem) /\ c.mem[1] = m[1] /\ c.mem[4] = m[4]
        /\ c.w.row_buf = w.row_buf /\ c.w.prev_row = w.prev_row /\ c.n = n /\ c.most = 256 * (n + 1)
        /\ c.mins \in Int
    BY DEF Searching, Trying, Kept
  <2>2. try \in {2, 3} /\ CanUse(f, w.prev_row) /\ c.best_row # try
    BY <1>4, <2>1 DEF Rooms, NULL, Searching
  <2>3. c.mem[w.row_buf] = row
    BY <2>1 DEF Pointers
  <2>4. f \in UsesPrevRow => c.mem[w.prev_row] = prev /\ w.prev_row \in {1, 4}
    BY <2>1, <2>2 DEF Pointers, CanUse
  <2>5. \A k \in 1 .. n : row[k] \in Byte
    <3>1. row \in [0 .. Longest -> Byte]
      BY DEF Pointers, Buffers
    <3>2. Longest \in Nat
      BY Sizes, RowBytesType DEF Longest
    <3> HIDE DEF row
    <3> QED BY <3>1, <3>2
  <2>6. f \in UsesPrevRow => \A k \in 1 .. n : prev[k] \in Byte
    <3> SUFFICES ASSUME f \in UsesPrevRow PROVE \A k \in 1 .. n : prev[k] \in Byte
      OBVIOUS
    <3>1. prev \in [0 .. Longest -> Byte]
      BY <2>4 DEF Buffers
    <3>2. Longest \in Nat
      BY Sizes, RowBytesType DEF Longest
    <3> HIDE DEF prev
    <3> QED BY <3>1, <3>2
  <2>7. lmins \in Int
    BY <2>1
  <2>8. s = Setup(f, row, c.mem[w.prev_row], n, lmins)
    BY <2>1, <2>3, Zenon DEF SetupRow
  <2>9. f \in UsesPrevRow => \A k \in 1 .. n : c.mem[w.prev_row][k] \in Byte
    BY <2>4, <2>6
  <2> HIDE DEF s, row, prev, lmins
  <2>21. FirstFiltered(s, f, row, c.mem[w.prev_row], n, lmins)
    <3> DEFINE above == c.mem[w.prev_row]
    <3> HIDE DEF above
    <3>1. f \in UsesPrevRow => \A k \in 1 .. n : above[k] \in Byte
      BY <2>9 DEF above
    <3>2. s = Setup(f, row, above, n, lmins)
      BY <2>8 DEF above
    <3>3. FirstFiltered(s, f, row, above, n, lmins)
      BY <2>5, <2>7, <3>1, <3>2, SetupGives
    <3> QED BY <3>3 DEF above
  <2>10. s.sum \in Nat
    BY <2>21 DEF FirstFiltered
  <2>11. PICK stop \in 0 .. n :
              /\ DOMAIN s.bytes = 0 .. stop
              /\ \A k \in 0 .. stop : s.bytes[k] = Sent(f, row, c.mem[w.prev_row], k)
              /\ (lmins >= 128 * n \/ s.sum <= lmins) => stop = n
    BY <2>21 DEF FirstFiltered
  <2>12. \A k \in 0 .. n : Sent(f, row, c.mem[w.prev_row], k) = Sent(f, row, prev, k)
    <3>1. CASE f \in UsesPrevRow
      BY <2>4, <3>1
    <3>2. CASE f = PNG_FILTER_VALUE_SUB
      BY <3>2, Zenon DEF Sent, FilteredByte, SubByte
    <3> QED BY <3>1, <3>2 DEF UsesPrevRow, PNG_FILTER_VALUE_SUB, PNG_FILTER_VALUE_UP,
               PNG_FILTER_VALUE_AVG, PNG_FILTER_VALUE_PAETH
  <2> DEFINE tried == Overwrite(c.mem[try], s.bytes)
  <2>13. mem2 = [c.mem EXCEPT ![try] = tried]
    BY Zenon DEF Tried, s
  <2>14. DOMAIN tried = 0 .. Longest
         /\ \A k \in 0 .. stop : tried[k] = s.bytes[k]
    <3>1. DOMAIN c.mem[try] = 0 .. Longest
      BY <2>1, <2>2 DEF Buffers
    <3>2. \A k \in 0 .. stop : k \in 0 .. Longest
      <4>1. Longest \in Nat
        BY Sizes, RowBytesType DEF Longest
      <4> QED BY <4>1
    <3> QED BY <2>11, <3>1, <3>2 DEF Overwrite
  <2> HIDE DEF tried, mem2
  <2>15. Buffers(mem2) /\ mem2[1] = m[1] /\ mem2[4] = m[4] /\ mem2[try] = tried
         /\ \A b \in 1 .. 4 : b # try => mem2[b] = c.mem[b]
    <3>1. DOMAIN c.mem = 1 .. 4
      BY <2>1 DEF Buffers
    <3>2. DOMAIN mem2 = 1 .. 4 /\ mem2[try] = tried /\ \A b \in 1 .. 4 : b # try => mem2[b] = c.mem[b]
      BY <2>2, <2>13, <3>1
    <3>3. mem2[1] = c.mem[1] /\ mem2[4] = c.mem[4]
      BY <2>2, <3>2
    <3>4. \A b \in 1 .. 4 : DOMAIN mem2[b] = 0 .. Longest
      BY <2>1, <2>14, <3>2 DEF Buffers
    <3> QED BY <2>1, <3>2, <3>3, <3>4 DEF Buffers
  <2>16. stop = n => \A k \in 0 .. n : mem2[try][k] = Sent(f, row, prev, k)
    BY <2>11, <2>12, <2>14, <2>15
  <2>17. f \in 0 .. 4 /\ f \in w.do_filter
    BY <1>4, <2>1
  <2>18. CASE c.w.do_filter = {f}
    <3>1. TryFilter(c, f) = [c EXCEPT !.mem = mem2, !.best_row = try]
      BY <1>1, <1>4, <2>18, Zenon
    <3> DEFINE t == [c EXCEPT !.mem = mem2, !.best_row = try]
    <3>2. t.w = c.w /\ t.mem = mem2 /\ t.best_row = try /\ t.n = c.n /\ t.most = c.most /\ t.mins = c.mins
      BY DEF Searching, Trying
    <3>3. stop = n
      <4>1. lmins = 256 * (n + 1)
        BY <2>1, <2>18 DEF lmins
      <4> QED BY <2>11, <4>1
    <3>4. \A g \in f + 1 .. 4 : g \notin w.do_filter
      BY <2>1, <2>18
    <3> HIDE DEF t
    <3>5. /\ t.n = n /\ t.most = 256 * (n + 1) /\ t.mins \in Int
          /\ t.w.do_filter = w.do_filter /\ Rooms(t.w)
          /\ Buffers(t.mem) /\ t.mem[1] = m[1] /\ t.mem[4] = m[4]
      BY <2>1, <2>15, <3>2, Zenon
    <3>6. \A k \in 0 .. n : t.mem[t.best_row][k] = Sent(f, m[w.row_buf], m[w.prev_row], k)
      BY <2>16, <3>2, <3>3, Zenon DEF row, prev
    <3>7. Trying(t, w)
      BY <1>2, <3>1, Zenon DEF t
    <3>8. Searching(t, w, m, n, f + 1)
      BY <2>2, <2>17, <3>4, <3>5, <3>6, <3>7, Zenon DEF Searching
    <3> QED BY <3>1, <3>8, Zenon DEF t
  <2>19. CASE c.w.do_filter # {f} /\ sum >= c.mins
    <3> DEFINE t == [c EXCEPT !.mem = mem2]
    <3>1. TryFilter(c, f) = t
      BY <1>1, <1>4, <2>19, Zenon
    <3>2. t.w = c.w /\ t.mem = mem2 /\ t.best_row = c.best_row /\ t.n = c.n /\ t.most = c.most /\ t.mins = c.mins
      BY DEF Searching, Trying
    <3> HIDE DEF t
    <3>3. /\ t.n = n /\ t.most = 256 * (n + 1) /\ t.mins \in Int
          /\ t.w.do_filter = w.do_filter /\ Rooms(t.w)
          /\ Buffers(t.mem) /\ t.mem[1] = m[1] /\ t.mem[4] = m[4]
      BY <2>1, <2>15, <3>2, Zenon
    <3>4. PICK g \in 0 .. 4 : /\ CanUse(g, w.prev_row)
                              /\ \A k \in 0 .. n : c.mem[c.best_row][k] = Sent(g, m[w.row_buf], m[w.prev_row], k)
      BY DEF Searching
    <3>5. mem2[c.best_row] = c.mem[c.best_row]
      <4>1. CASE c.best_row \in 1 .. 4
        BY <2>2, <2>15, <4>1
      <4>2. CASE c.best_row \notin 1 .. 4
        <5>1. DOMAIN c.mem = 1 .. 4
          BY <2>1 DEF Buffers
        <5> QED BY <2>13, <4>2, <5>1
      <4> QED BY <4>1, <4>2
    <3>6. \A g1 \in f + 1 .. 4 : g1 \in f .. 4
      OBVIOUS
    <3>7. \A g1 \in f + 1 .. 4 : g1 \in w.do_filter => t.best_row # t.w.try_row
      BY <3>2, <3>6 DEF Searching
    <3>8. Trying(t, w)
      BY <1>2, <3>1, Zenon
    <3>9. \A k \in 0 .. n : t.mem[t.best_row][k] = Sent(g, m[w.row_buf], m[w.prev_row], k)
      BY <3>2, <3>4, <3>5, Zenon
    <3>10. Searching(t, w, m, n, f + 1)
      BY <3>3, <3>4, <3>7, <3>8, <3>9, Zenon DEF Searching
    <3> QED BY <3>1, <3>10, Zenon
  <2>20. CASE c.w.do_filter # {f} /\ ~(sum >= c.mins)
    <3> DEFINE t == [c EXCEPT !.w = v, !.mem = mem2, !.best_row = try, !.mins = sum]
    <3>1. TryFilter(c, f) = t
      BY <1>1, <1>4, <2>20, Zenon
    <3> HIDE DEF v
    <3>2. t.w = v /\ t.mem = mem2 /\ t.best_row = try /\ t.n = c.n /\ t.most = c.most /\ t.mins = sum
      BY DEF Searching, Trying
    <3>3. stop = n
      <4>1. lmins = c.mins
        BY <2>20 DEF lmins
      <4>2. s.sum \in Nat /\ ~(s.sum >= c.mins)
        BY <2>10, <2>20
      <4> QED BY <2>1, <2>11, <4>1, <4>2
    <3> HIDE DEF t
    <3>4. /\ c.w \in WriterType
          /\ v.do_filter = w.do_filter /\ v.prev_row = w.prev_row
          /\ IF c.w.tst_row = NULL THEN v.try_row = try /\ v.tst_row = NULL
             ELSE v.try_row = c.w.tst_row /\ v.tst_row = try
      BY <2>1 DEF v, Exchanged, Searching, Trying, Kept, WriterType
    <3>5. Rooms(v)
      <4>1. CASE c.w.tst_row = NULL
        BY <2>1, <3>4, <4>1 DEF Rooms
      <4>2. CASE c.w.tst_row # NULL
        BY <2>1, <2>2, <3>4, <4>2 DEF Rooms, NULL
      <4> QED BY <4>1, <4>2
    <3>6. \A g1 \in f + 1 .. 4 : g1 \in w.do_filter => try # v.try_row
      <4> SUFFICES ASSUME NEW g1 \in f + 1 .. 4, g1 \in w.do_filter PROVE try # v.try_row
        OBVIOUS
      <4>1. g1 \in 1 .. 4 /\ g1 # f
        OBVIOUS
      <4>2. c.w.tst_row # NULL
        BY <2>1, <2>17, <4>1 DEF Rooms
      <4> QED BY <2>1, <2>2, <3>4, <4>2 DEF Rooms
    <3>7. /\ t.n = n /\ t.most = 256 * (n + 1) /\ t.mins \in Int
          /\ t.w.do_filter = w.do_filter /\ Rooms(t.w)
          /\ Buffers(t.mem) /\ t.mem[1] = m[1] /\ t.mem[4] = m[4]
      <4>1. sum \in Int
        BY <2>10
      <4> QED BY <2>1, <2>15, <3>2, <3>4, <3>5, <4>1, Zenon
    <3>8. \A k \in 0 .. n : t.mem[t.best_row][k] = Sent(f, m[w.row_buf], m[w.prev_row], k)
      BY <2>16, <3>2, <3>3, Zenon DEF row, prev
    <3>9. Trying(t, w)
      BY <1>2, <3>1, Zenon
    <3>10. \A g \in f + 1 .. 4 : g \in w.do_filter => t.best_row # t.w.try_row
      BY <3>2, <3>6, Zenon
    <3>11. Searching(t, w, m, n, f + 1)
      BY <2>2, <2>17, <3>7, <3>8, <3>9, <3>10, Zenon DEF Searching
    <3> QED BY <3>1, <3>11, Zenon
  <2> QED BY <2>18, <2>19, <2>20
<1> QED BY <1>3, <1>4

(* The row that is found is the row `raw', filtered in a way that can be used. *)
Carries(found, raw, above, prev, n) ==
  \E g \in 0 .. 4 :
    CanUse(g, prev) /\ \A k \in 0 .. n : found.mem[found.best_row][k] = Sent(g, raw, above, k)

(* Whatever filters are chosen, the row that is found is the row to be sent, filtered
   with one of them, and the row itself and the one above are as they were. *)
LEMMA FilterFound ==
  ASSUME JobOK, NEW w \in WriterType, Pointers(w), NEW m, Buffers(m), NEW n \in Nat, n <= Longest,
         m[w.row_buf][0] = 0, NEW found, found = png_write_find_filter(w, m, n)
  PROVE  /\ Kept(found.w, w) /\ found.w.do_filter = w.do_filter /\ Rooms(found.w)
         /\ Buffers(found.mem) /\ found.mem[1] = m[1] /\ found.mem[4] = m[4]
         /\ Carries(found, m[w.row_buf], m[w.prev_row], w.prev_row, n)
<1> DEFINE most == 256 * (n + 1)
           compared == /\ PNG_FILTER_VALUE_NONE \in w.do_filter
                       /\ w.do_filter # {PNG_FILTER_VALUE_NONE}
           plain == Weights(m[w.row_buf], n)[n]
           mins == IF compared THEN plain ELSE most
           c == [w |-> w, mem |-> m, best_row |-> w.row_buf, n |-> n, most |-> most, mins |-> mins]
           c1 == TryFilter(c, PNG_FILTER_VALUE_SUB)
           c2 == TryFilter(c1, PNG_FILTER_VALUE_UP)
           c3 == TryFilter(c2, PNG_FILTER_VALUE_AVG)
           c4 == TryFilter(c3, PNG_FILTER_VALUE_PAETH)
<1>1. found = c4
  BY Zenon DEF png_write_find_filter
<1>2. w.row_buf \in {1, 4} /\ Rooms(w) /\ m[w.row_buf] \in [0 .. Longest -> Byte]
  BY DEF Pointers, Buffers
<1>3. mins \in Int
  <2>1. \A k \in 1 .. n : m[w.row_buf][k] \in Byte
    <3>1. Longest \in Nat
      BY Sizes, RowBytesType DEF Longest
    <3> QED BY <1>2, <3>1
  <2>2. n \in 0 .. n /\ 128 * n \in Nat
    OBVIOUS
  <2>3. plain \in 0 .. 128 * n
    BY <2>1, <2>2, WeightsAdd, Zenon
  <2> HIDE DEF plain
  <2> QED BY <2>2, <2>3
<1>4. Searching(c, w, m, n, PNG_FILTER_VALUE_SUB)
  <2>1. \A k \in 0 .. n : m[w.row_buf][k] = Sent(PNG_FILTER_VALUE_NONE, m[w.row_buf], m[w.prev_row], k)
    BY DEF Sent, PNG_FILTER_VALUE_NONE
  <2>2. PNG_FILTER_VALUE_NONE \in 0 .. 4 /\ CanUse(PNG_FILTER_VALUE_NONE, w.prev_row)
    BY DEF CanUse, UsesPrevRow, PNG_FILTER_VALUE_NONE, PNG_FILTER_VALUE_UP, PNG_FILTER_VALUE_AVG,
           PNG_FILTER_VALUE_PAETH
  <2>3. \A g \in 1 .. 4 : g \in w.do_filter => w.row_buf # w.try_row
    BY <1>2 DEF Rooms, NULL
  <2> HIDE DEF most, mins
  <2>4. c.w = w /\ c.mem = m /\ c.best_row = w.row_buf /\ c.n = n /\ c.most = most /\ c.mins = mins
    OBVIOUS
  <2>5. Trying(c, w)
    BY DEF Trying, Kept
  <2> HIDE DEF c
  <2> QED BY <1>2, <1>3, <2>1, <2>2, <2>3, <2>4, <2>5 DEF Searching, PNG_FILTER_VALUE_SUB, most
<1> HIDE DEF c
<1>5. Searching(c1, w, m, n, PNG_FILTER_VALUE_UP)
  <2>1. Searching(TryFilter(c, 1), w, m, n, 1 + 1)
    BY <1>4, FilterTried DEF PNG_FILTER_VALUE_SUB
  <2> QED BY <2>1 DEF PNG_FILTER_VALUE_SUB, PNG_FILTER_VALUE_UP
<1> HIDE DEF c1
<1>6. Searching(c2, w, m, n, PNG_FILTER_VALUE_AVG)
  <2>1. Searching(TryFilter(c1, 2), w, m, n, 2 + 1)
    BY <1>5, FilterTried DEF PNG_FILTER_VALUE_UP
  <2> QED BY <2>1 DEF PNG_FILTER_VALUE_UP, PNG_FILTER_VALUE_AVG
<1> HIDE DEF c2
<1>7. Searching(c3, w, m, n, PNG_FILTER_VALUE_PAETH)
  <2>1. Searching(TryFilter(c2, 3), w, m, n, 3 + 1)
    BY <1>6, FilterTried DEF PNG_FILTER_VALUE_AVG
  <2> QED BY <2>1 DEF PNG_FILTER_VALUE_AVG, PNG_FILTER_VALUE_PAETH
<1> HIDE DEF c3
<1>8. Searching(c4, w, m, n, 5)
  <2>1. Searching(TryFilter(c3, 4), w, m, n, 4 + 1)
    BY <1>7, FilterTried DEF PNG_FILTER_VALUE_PAETH
  <2> QED BY <2>1 DEF PNG_FILTER_VALUE_PAETH
<1> HIDE DEF c4
<1> QED BY <1>1, <1>8 DEF Searching, Trying, Carries

----------------------------------------------------------------------------
(* What the writer puts into the stream. *)

LEMMA LongestType == ASSUME JobOK PROVE Longest \in Nat
BY Sizes, RowBytesType DEF Longest

LEMMA Overwritten ==
  ASSUME NEW l \in Nat, NEW n \in Nat, n <= l, NEW row \in [0 .. l -> Byte], NEW new \in [0 .. n -> Byte]
  PROVE  /\ Overwrite(row, new) \in [0 .. l -> Byte]
         /\ \A k \in 0 .. n : Overwrite(row, new)[k] = new[k]
         /\ \A k \in n + 1 .. l : Overwrite(row, new)[k] = row[k]
BY DEF Overwrite

LEMMA FirstByteSet ==
  ASSUME NEW n \in Nat, NEW row \in [0 .. n -> Byte], NEW v \in Byte
  PROVE  /\ [row EXCEPT ![0] = v] \in [0 .. n -> Byte] /\ [row EXCEPT ![0] = v][0] = v
         /\ \A k \in 1 .. n : [row EXCEPT ![0] = v][k] = row[k]
OBVIOUS

LEMMA Narrower ==
  ASSUME NEW n \in Nat, NEW p \in Passes
  PROVE  PassWidth(n, p) <= n /\ (p = 6 => PassWidth(n, p) = n)
BY EachPass, Columns DEF PassWidth

LEMMA RowsFit ==
  ASSUME JobOK, NEW p \in Passes
  PROVE  RowPixels(p) \in Nat /\ RowPixels(p) <= width /\ RowLength(p) - 1 \in Nat
         /\ RowLength(p) - 1 = PNG_ROWBYTES(depth, RowPixels(p)) /\ RowLength(p) - 1 <= Longest
<1>1. width \in Nat /\ depth \in Depths
  BY Sizes, DepthIs
<1>2. RowPixels(p) \in Nat /\ RowPixels(p) <= width
  BY <1>1, PassSizes, Narrower DEF RowPixels
<1>3. PNG_ROWBYTES(depth, RowPixels(p)) \in Nat
  BY <1>2, RowBytesType
<1>4. RowLength(p) - 1 = PNG_ROWBYTES(depth, RowPixels(p))
  BY <1>3 DEF RowLength, RowPixels
<1>5. PNG_ROWBYTES(depth, RowPixels(p)) <= PNG_ROWBYTES(depth, width)
  BY <1>1, <1>2, WiderIsLonger, Zenon
<1> QED BY <1>2, <1>3, <1>4, <1>5 DEF Longest

(* Whoever stands at a row that is not passed over stands at one of the stream's. *)
LEMMA AtRow ==
  ASSUME JobOK, NEW h \in BOOLEAN, NEW p \in Passes, NEW y, NEW n, At(h, p, y, n), y < n,
         ~Skipped(h, p, y)
  PROVE  /\ HasRow(p, RowsAmong(h, y, p))
         /\ ~job.interlaced \/ h => y \in 0 .. height - 1 /\ ImageRow(p, RowsAmong(h, y, p)) = y
         /\ ~job.interlaced \/ ~h => RowsAmong(h, y, p) = y
<1>1. width \in Nat /\ height \in Nat /\ p # 7 /\ p < 7
  BY Sizes DEF Passes
<1>2. CASE ~job.interlaced \/ h
  <2>1. y \in 0 .. height - 1 /\ (~job.interlaced => p = 0)
    BY <1>1, <1>2, Sizes DEF At
  <2>2. job.interlaced => h
    BY <1>2
  <2>3. HasRow(p, RowsAmong(h, y, p)) /\ ImageRow(p, RowsAmong(h, y, p)) = y
    BY <2>1, <2>2, RowHandled, Zenon
  <2> QED BY <2>1, <2>3, Zenon DEF RowsAmong
<1>3. CASE job.interlaced /\ ~h
  BY <1>1, <1>3 DEF At, HasRow, PassRows, RowsAmong
<1> QED BY <1>2, <1>3

LEMMA ImageRowIs ==
  ASSUME JobOK, NEW y \in 0 .. height - 1
  PROVE  Image[y] = [x \in 0 .. width - 1 |-> Image[y][x]] /\ ArePixels(Image[y], depth)
<1>1. Image[y] = [x \in 0 .. width - 1 |-> Image[y][x]]
  BY DEF JobOK
<1>2. \A x \in 0 .. width - 1 : x \in Nat /\ Image[y][x] \in Pixels(depth)
  BY ImagePixel, Sizes
<1>3. DOMAIN Image[y] = 0 .. width - 1
  BY <1>1
<1> QED BY <1>1, <1>2, <1>3, Zenon DEF ArePixels

(* The row that png_write_row puts into row_buf, and its length. *)
Picks(w) == job.interlaced /\ job.writeHandling /\ w.pass < 6
Filling(w, old) == Overwrite(old, [GivenRow(w) EXCEPT ![0] = old[0]])
RowPut(w, old) ==
  IF Picks(w) THEN png_do_write_interlace(Filling(w, old), w.pass) ELSE Filling(w, old)
LengthPut(w) == PNG_ROWBYTES(depth, IF Picks(w) THEN PassWidth(width, w.pass) ELSE w.usr_width)

(* The row has the pixels of the pass, at its start. *)
LEMMA RowGiven ==
  ASSUME JobOK, NEW w, Writing(w), w.pass # 7, w.row_number < w.num_rows, NEW p, p = w.pass,
         NEW y, y = w.row_number, ~Skipped(job.writeHandling, p, y),
         NEW old \in [0 .. Longest -> Byte], old[0] = 0,
         NEW row, row = RowPut(w, old), NEW n, n = LengthPut(w), NEW i, i = RowsAmong(job.writeHandling, y, p)
  PROVE  /\ HasRow(p, i) /\ n = RowLength(p) - 1 /\ n \in Nat /\ n <= Longest
         /\ row \in [0 .. Longest -> Byte] /\ row[0] = 0
         /\ Agree(n, row, RawRow(p, i))
<1> DEFINE h == job.writeHandling
           last == RowLength(p) - 1
           whole == ~job.interlaced \/ h
           picks == Picks(w)
           filled == Filling(w, old)
           src == IF whole THEN y ELSE PNG_ROW_FROM_PASS_ROW(y, p)
           pixels == IF whole THEN Image[src]
                     ELSE [x \in 0 .. w.usr_width - 1 |-> Image[src][PNG_COL_FROM_PASS_COL(x, p)]]
<1>1. /\ p \in Passes /\ h \in BOOLEAN /\ At(h, p, y, w.num_rows) /\ y < w.num_rows
      /\ w.usr_width = IF whole THEN width ELSE PassWidth(width, p)
      /\ width \in Nat /\ depth \in Depths /\ Longest \in Nat
  <2>1. p \in Passes
    BY DEF Writing, WriterType, Passes
  <2> QED BY <2>1, Sizes, DepthIs, LongestType DEF Writing, WriterWidth
<1>2. HasRow(p, i) /\ (whole => y \in 0 .. height - 1 /\ ImageRow(p, i) = y)
      /\ (~job.interlaced \/ ~h => i = y)
  BY <1>1, AtRow
<1>3. /\ RowPixels(p) \in Nat /\ RowPixels(p) <= width /\ RowLength(p) - 1 \in Nat
      /\ RowLength(p) - 1 = PNG_ROWBYTES(depth, RowPixels(p)) /\ RowLength(p) - 1 <= Longest
  BY <1>1, RowsFit
<1>4. /\ RawRow(p, i) \in [0 .. RowLength(p) - 1 -> Byte] /\ RawRow(p, i)[0] = 0
  BY <1>2, RawRowIs
<1>5. GivenRow(w) = WithPixels(Filled(0, PNG_ROWBYTES(depth, w.usr_width)), pixels, depth)
  BY Zenon DEF GivenRow
<1>6. p = 6 => PassWidth(width, p) = width
  BY <1>1, Narrower
<1>9. picks <=> job.interlaced /\ h /\ p < 6
  BY Zenon DEF Picks
<1>11. /\ picks => row = png_do_write_interlace(filled, p) /\ n = PNG_ROWBYTES(depth, PassWidth(width, p))
       /\ ~picks => row = filled /\ n = PNG_ROWBYTES(depth, w.usr_width)
       /\ filled = Overwrite(old, [GivenRow(w) EXCEPT ![0] = old[0]])
  BY DEF RowPut, LengthPut, Filling
<1> HIDE DEF picks, filled
<1>10. Longest \in Nat /\ depth \in Depths
  BY <1>1
<1>7. CASE ~picks
  <2>1. row = filled /\ n = PNG_ROWBYTES(depth, w.usr_width)
    BY <1>7, <1>11
  <2>2. w.usr_width = RowPixels(p)
    BY <1>1, <1>6, <1>7, <1>9 DEF RowPixels, Passes
  <2>3. n = RowLength(p) - 1
    BY <1>3, <2>1, <2>2
  <2>4. pixels = PassPixels(p, i)
    <3>1. CASE ~job.interlaced
      <4>1. src = y /\ pixels = Image[y] /\ ImageRow(p, i) = y /\ RowPixels(p) = width
        BY <1>2, <3>1 DEF RowPixels
      <4>2. \A x \in 0 .. width - 1 : ImageCol(p, x) = x
        BY <3>1 DEF ImageCol
      <4>3. Image[y] = [x \in 0 .. width - 1 |-> Image[y][x]]
        BY <1>2, <3>1, ImageRowIs
      <4> HIDE DEF pixels, src
      <4> QED BY <4>1, <4>2, <4>3 DEF PassPixels
    <3>2. CASE job.interlaced /\ h
      <4>4. ~(p < 6) /\ p \in Passes
        BY <1>1, <1>7, <1>9, <3>2, Zenon
      <4>5. p = 6
        BY <4>4 DEF Passes
      <4>1. p = 6 /\ src = y /\ pixels = Image[y] /\ ImageRow(p, i) = y /\ RowPixels(p) = width
        BY <1>2, <1>6, <3>2, <4>5, Zenon DEF RowPixels
      <4>2. \A x \in 0 .. width - 1 : ImageCol(p, x) = x
        BY <4>1, <3>2, MacroColumns DEF ImageCol, PNG_COL_FROM_PASS_COL
      <4>3. Image[y] = [x \in 0 .. width - 1 |-> Image[y][x]]
        BY <1>2, <3>2, ImageRowIs
      <4> HIDE DEF pixels, src
      <4> QED BY <4>1, <4>2, <4>3 DEF PassPixels
    <3>3. CASE job.interlaced /\ ~h
      <4>1. src = ImageRow(p, i) /\ pixels = [x \in 0 .. w.usr_width - 1 |-> Image[src][PNG_COL_FROM_PASS_COL(x, p)]]
        BY <1>2, <3>3 DEF ImageRow
      <4>2. \A x : ImageCol(p, x) = PNG_COL_FROM_PASS_COL(x, p)
        BY <3>3 DEF ImageCol
      <4> HIDE DEF pixels, src
      <4> QED BY <2>2, <4>1, <4>2 DEF PassPixels
    <3> QED BY <1>1, <3>1, <3>2, <3>3
  <2>5. GivenRow(w) = RawRow(p, i)
    BY <1>3, <1>5, <2>1, <2>3, <2>4, Zenon DEF RawRow
  <2> HIDE DEF pixels, src
  <2> DEFINE raw == RawRow(p, i)
  <2> HIDE DEF last
  <2> HIDE DEF raw
  <2>6. /\ [raw EXCEPT ![0] = old[0]] \in [0 .. last -> Byte]
        /\ [raw EXCEPT ![0] = old[0]][0] = 0 /\ \A k \in 1 .. last : [raw EXCEPT ![0] = old[0]][k] = raw[k]
    BY <1>3, <1>4 DEF raw, Byte, last
  <2> DEFINE new == [raw EXCEPT ![0] = old[0]]
  <2>7. row = Overwrite(old, new)
    BY <1>11, <2>1, <2>5 DEF raw
  <2> HIDE DEF new
  <2>8. last \in Nat /\ last <= Longest /\ new \in [0 .. last -> Byte]
    BY <1>3, <2>6 DEF new, last
  <2>9. row \in [0 .. Longest -> Byte] /\ \A k \in 0 .. last : row[k] = new[k]
    <3>1. Overwrite(old, new) \in [0 .. Longest -> Byte] /\ \A k \in 0 .. last : Overwrite(old, new)[k] = new[k]
      BY <1>10, <2>8, Overwritten, Zenon
    <3> QED BY <2>7, <3>1, Zenon
  <2>10. row[0] = 0 /\ \A k \in 1 .. last : row[k] = raw[k]
    <3>1. 0 \in 0 .. last /\ \A k \in 1 .. last : k \in 0 .. last
      BY <2>8
    <3> QED BY <2>6, <2>9, <3>1, Zenon DEF new
  <2> QED BY <1>2, <2>3, <2>8, <2>9, <2>10, Zenon DEF raw, last, Agree
<1>8. CASE picks
  <2>1. job.interlaced /\ h /\ p < 6 /\ w.usr_width = width /\ src = y /\ pixels = Image[y]
        /\ n = PNG_ROWBYTES(depth, PassWidth(width, p)) /\ row = png_do_write_interlace(filled, p)
    BY <1>1, <1>8, <1>9, <1>11
  <2>2. y \in 0 .. height - 1 /\ ImageRow(p, i) = y /\ RowPixels(p) = PassWidth(width, p)
    BY <1>2, <2>1 DEF RowPixels
  <2>3. n = RowLength(p) - 1
    BY <1>3, <2>1, <2>2
  <2> DEFINE blank == Filled(0, Longest)
             all == WithPixels(blank, Image[y], depth)
             over == [all EXCEPT ![0] = old[0]]
  <2>4. GivenRow(w) = all
    BY <1>5, <2>1, Zenon DEF Longest
  <2> HIDE DEF pixels, src
  <2>5. blank \in [0 .. Longest -> Byte] /\ blank[0] = 0
    BY <1>1 DEF Filled, Byte
  <2> HIDE DEF blank
  <2>6. ArePixels(Image[y], depth) /\ DOMAIN Image[y] = 0 .. width - 1
    <3>1. Image[y] = [x \in 0 .. width - 1 |-> Image[y][x]] /\ ArePixels(Image[y], depth)
      BY <2>2, ImageRowIs
    <3> QED BY <3>1
  <2>7. /\ all \in [0 .. Longest -> Byte] /\ all[0] = 0
        /\ \A x \in Nat : PNG_ROWBYTES(depth, x + 1) <= Longest =>
             PixelAt(all, x, depth) = NewPixel(blank, Image[y], x, depth)
    BY <1>1, <2>5, <2>6, PixelWritten
  <2> HIDE DEF all
  <2>8. over \in [0 .. Longest -> Byte] /\ over[0] = 0 /\ \A k \in 1 .. Longest : over[k] = all[k]
    BY <1>1, <2>7 DEF Byte
  <2>9. filled = Overwrite(old, over)
    BY <1>11, <2>4
  <2> HIDE DEF over
  <2>10. filled \in [0 .. Longest -> Byte] /\ filled[0] = 0 /\ \A k \in 1 .. Longest : filled[k] = all[k]
    <3>1. Longest <= Longest /\ 0 \in 0 .. Longest /\ \A k \in 1 .. Longest : k \in 0 .. Longest
      BY <1>10
    <3>2. filled \in [0 .. Longest -> Byte] /\ \A k \in 0 .. Longest : filled[k] = over[k]
      <4>1. Overwrite(old, over) \in [0 .. Longest -> Byte]
            /\ \A k \in 0 .. Longest : Overwrite(old, over)[k] = over[k]
        BY <1>10, <2>8, <3>1, Overwritten, Zenon
      <4> QED BY <2>9, <4>1, Zenon
    <3> QED BY <2>8, <3>1, <3>2, Zenon
  <2>11. ASSUME NEW x \in 0 .. width - 1 PROVE PixelAt(filled, x, depth) = Image[y][x]
    <3>1. x \in Nat /\ x + 1 \in Nat /\ x + 1 <= width
      BY <1>1
    <3>2. PNG_ROWBYTES(depth, x + 1) <= Longest /\ PNG_ROWBYTES(depth, x + 1) \in Nat
      BY <1>1, <3>1, WiderIsLonger, RowBytesType DEF Longest
    <3>3. PixelAt(all, x, depth) = NewPixel(blank, Image[y], x, depth)
      BY <2>7, <3>1, <3>2
    <3>4. NewPixel(blank, Image[y], x, depth) = Image[y][x]
      BY <2>6 DEF NewPixel
    <3>5. \A k \in 1 .. PNG_ROWBYTES(depth, x + 1) : filled[k] = all[k]
      <4> DEFINE b == PNG_ROWBYTES(depth, x + 1)
      <4> HIDE DEF b
      <4>1. \A k \in 1 .. b : k \in 1 .. Longest
        BY <1>10, <3>2 DEF b
      <4> QED BY <2>10, <4>1, Zenon DEF b
    <3>6. PixelAt(filled, x, depth) = PixelAt(all, x, depth)
      BY <1>10, <3>1, <3>5, SamePixel, Zenon
    <3> QED BY <3>3, <3>4, <3>6
  <2> DEFINE px == [x \in 0 .. PassWidth(width, p) - 1 |-> PixelAt(filled, PNG_COL_FROM_PASS_COL(x, p), depth)]
             bytes == WithPixels(Filled(0, PNG_ROWBYTES(depth, PassWidth(width, p))), px, depth)
             new == [bytes EXCEPT ![0] = filled[0]]
  <2>12. px = PassPixels(p, i)
    <3>1. ASSUME NEW x \in 0 .. PassWidth(width, p) - 1
          PROVE  PixelAt(filled, PNG_COL_FROM_PASS_COL(x, p), depth) = Image[ImageRow(p, i)][ImageCol(p, x)]
      <4>1. ImageCol(p, x) \in 0 .. width - 1
        BY <1>2, <2>2, PixelPlaces
      <4>2. ImageCol(p, x) = PNG_COL_FROM_PASS_COL(x, p)
        BY <2>1 DEF ImageCol
      <4> QED BY <2>2, <2>11, <4>1, <4>2
    <3> QED BY <2>2, <3>1 DEF PassPixels
  <2> HIDE DEF px
  <2>13. bytes = RawRow(p, i)
    BY <2>1, <2>3, <2>12, Zenon DEF RawRow
  <2>14. row = Overwrite(filled, new)
    BY <2>1, Zenon DEF png_do_write_interlace, px
  <2> HIDE DEF bytes, last
  <2>16. last \in Nat /\ last <= Longest /\ 0 \in 0 .. last /\ \A k \in 1 .. last : k \in 0 .. last /\ k # 0
    BY <1>3 DEF last
  <2>15. new \in [0 .. last -> Byte] /\ new[0] = 0 /\ \A k \in 1 .. last : new[k] = bytes[k]
    <3>1. bytes \in [0 .. last -> Byte] /\ filled[0] = 0
      BY <1>4, <2>10, <2>13, Zenon DEF last
    <3> DEFINE v == filled[0]
    <3>2. v = 0
      BY <3>1
    <3> HIDE DEF v
    <3>3. [bytes EXCEPT ![0] = v] \in [0 .. last -> Byte] /\ [bytes EXCEPT ![0] = v][0] = v
          /\ \A k \in 1 .. last : [bytes EXCEPT ![0] = v][k] = bytes[k]
      <4>1. v \in Byte
        BY <3>2 DEF Byte
      <4> QED BY <2>16, <3>1, <4>1, FirstByteSet, Zenon
    <3> QED BY <3>2, <3>3, Zenon DEF v
  <2> HIDE DEF new
  <2>17. row \in [0 .. Longest -> Byte] /\ \A k \in 0 .. last : row[k] = new[k]
    <3> DEFINE full == filled
    <3> HIDE DEF full
    <3>2. full \in [0 .. Longest -> Byte]
      BY <2>10, Zenon DEF full
    <3>3. Overwrite(full, new) \in [0 .. Longest -> Byte]
          /\ \A k \in 0 .. last : Overwrite(full, new)[k] = new[k]
      <4>1. last \in Nat /\ last <= Longest /\ new \in [0 .. last -> Byte]
        BY <2>15, <2>16, Zenon
      <4> QED BY <1>10, <3>2, <4>1, Overwritten, Zenon
    <3>1. Overwrite(filled, new) \in [0 .. Longest -> Byte]
          /\ \A k \in 0 .. last : Overwrite(filled, new)[k] = new[k]
      BY <3>3, Zenon DEF full
    <3> QED BY <2>14, <3>1, Zenon
  <2>18. row[0] = 0 /\ \A k \in 1 .. last : row[k] = bytes[k]
    BY <2>15, <2>16, <2>17, Zenon
  <2> QED BY <1>2, <2>3, <2>13, <2>16, <2>17, <2>18, Zenon DEF last, Agree
<1> QED BY <1>7, <1>8

(* The row above row i of pass p; above the first one is a row of zeros. *)
RowAbove(p, i) == IF i = 0 THEN Filled(0, RowLength(p) - 1) ELSE RawRow(p, i - 1)

(* A filtered row depends on the row and, where the filter uses it, the one above. *)
LEMMA SentSame ==
  ASSUME JobOK, NEW f \in 0 .. 4, NEW n \in Nat, NEW raw, NEW raw2, NEW above, NEW above2,
         Agree(n, raw, raw2), f \in UsesPrevRow => Agree(n, above, above2), NEW x \in 0 .. n
  PROVE  Sent(f, raw, above, x) = Sent(f, raw2, above2, x)
<1>1. bpp \in Nat /\ bpp > 0
  BY LooksBack
<1>2. CASE x = 0 \/ f = 0
  <2>1. x # 0 => raw[x] = raw2[x]
    BY DEF Agree
  <2>2. CASE x = 0
    BY <2>2, Zenon DEF Sent
  <2>3. CASE x # 0 /\ f = 0
    <3>1. f = PNG_FILTER_VALUE_NONE
      BY <2>3 DEF PNG_FILTER_VALUE_NONE
    <3>2. Sent(f, raw, above, x) = raw[x]
      BY <2>3, <3>1, Zenon DEF Sent
    <3>3. Sent(f, raw2, above2, x) = raw2[x]
      BY <2>3, <3>1, Zenon DEF Sent
    <3> QED BY <2>1, <2>3, <3>2, <3>3, Zenon
  <2> QED BY <1>2, <2>2, <2>3
<1>3. CASE x # 0 /\ f # 0
  <2>1. x \in 1 .. n /\ (x > bpp => x - bpp \in 1 .. n)
    BY <1>1, <1>3
  <2>2. f \in 1 .. 4
    BY <1>3
  <2>3. raw[x] = raw2[x] /\ (x > bpp => raw[x - bpp] = raw2[x - bpp])
    BY <2>1 DEF Agree
  <2>4. f \in UsesPrevRow => above[x] = above2[x] /\ (x > bpp => above[x - bpp] = above2[x - bpp])
    BY <2>1 DEF Agree
  <2> HIDE DEF bpp
  <2>5. FilteredByte(f, raw, above, bpp, x) = FilteredByte(f, raw2, above2, bpp, x)
    BY <1>1, <2>1, <2>2, <2>3, <2>4
       DEF FilteredByte, SubByte, UpByte, AvgByte, PaethByte, UsesPrevRow, PNG_FILTER_VALUE_SUB,
           PNG_FILTER_VALUE_UP, PNG_FILTER_VALUE_AVG,
           PNG_FILTER_VALUE_PAETH
  <2>6. f # PNG_FILTER_VALUE_NONE
    BY <1>3 DEF PNG_FILTER_VALUE_NONE
  <2>7. Sent(f, raw, above, x) = FilteredByte(f, raw, above, bpp, x)
    BY <1>3, <2>6, Zenon DEF Sent
  <2>8. Sent(f, raw2, above2, x) = FilteredByte(f, raw2, above2, bpp, x)
    BY <1>3, <2>6, Zenon DEF Sent
  <2> QED BY <2>5, <2>7, <2>8, Zenon
<1> QED BY <1>2, <1>3

(* Where the writer stands, the row above is in prev_row, if there is one at all. *)
HoldsAbove(w, m) ==
  \A k \in 1 .. RowLength(w.pass) - 1 :
    m[w.prev_row][k] = RowAbove(w.pass, RowsAmong(job.writeHandling, w.row_number, w.pass))[k]

Holds(w, m) ==
  /\ Pointers(w) /\ Buffers(m) /\ m[w.row_buf][0] = 0
  /\ w.prev_row # NULL => m[w.prev_row][0] = 0 /\ (w.pass # 7 => HoldsAbove(w, m))

MemoryOK(w, m) == w.row_buf # NULL => Holds(w, m)

LEMMA BlackRow ==
  ASSUME JobOK
  PROVE  AppRow(0) \in [0 .. Longest -> Byte] /\ \A k \in 0 .. Longest : AppRow(0)[k] = 0
BY LongestType DEF AppRow, Filled, Longest, Byte

LEMMA BlackAbove ==
  ASSUME JobOK, NEW p \in Passes, NEW k \in 1 .. RowLength(p) - 1
  PROVE  RowAbove(p, 0)[k] = 0 /\ k \in 0 .. Longest
<1>1. RowLength(p) - 1 \in Nat /\ RowLength(p) - 1 <= Longest /\ Longest \in Nat
  BY RowsFit, LongestType
<1> DEFINE last == RowLength(p) - 1
<1>2. RowAbove(p, 0) = Filled(0, last)
  BY DEF RowAbove
<1> HIDE DEF last
<1> QED BY <1>1, <1>2 DEF Filled, last

(* png_write_finish_row leaves in prev_row what lies above the row that comes next. *)
LEMMA FinishHolds ==
  ASSUME JobOK, NEW w, NEW m, Writing(w), w.pass # 7, w.row_number < w.num_rows,
         Pointers(w), Buffers(m), m[w.row_buf][0] = 0,
         NEW p, p = w.pass, NEW i, i = RowsAmong(job.writeHandling, w.row_number + 1, p),
         w.prev_row # NULL =>
           m[w.prev_row][0] = 0 /\ \A k \in 1 .. RowLength(p) - 1 : m[w.prev_row][k] = RowAbove(p, i)[k],
         png_write_finish_row(w, m)
  PROVE  Holds(wr', mem')
<1> DEFINE h == job.writeHandling
           next == IF h THEN w.pass + 1 ELSE NextPass(w.pass)
           last == w.row_number + 1 >= w.num_rows
           moved == [w EXCEPT !.row_number = 0, !.pass = next,
                       !.usr_width = IF h \/ next = 7 THEN @ ELSE PassWidth(width, next),
                       !.num_rows  = IF h \/ next = 7 THEN @ ELSE PassHeight(height, next)]
<1>1. /\ wr' = IF last /\ job.interlaced THEN moved ELSE [w EXCEPT !.row_number = @ + 1]
      /\ mem' = IF last /\ job.interlaced /\ next < 7 /\ w.prev_row # NULL
                THEN [m EXCEPT ![w.prev_row] = AppRow(0)] ELSE m
  BY DEF png_write_finish_row
<1>2. w \in WriterType /\ p \in Passes /\ h \in BOOLEAN
  BY Sizes DEF Writing, WriterType, Passes
<1>3. w.row_buf \in {1, 4} /\ w.prev_row \in {NULL, 1, 4} /\ w.prev_row # w.row_buf
  BY DEF Pointers
<1>4. CASE last /\ job.interlaced
  <2>1. next \in p + 1 .. 7
    BY <1>2, NextPassIs DEF Passes
  <2>2. /\ wr'.row_number = 0 /\ wr'.pass = next /\ wr'.row_buf = w.row_buf /\ wr'.prev_row = w.prev_row
        /\ wr'.try_row = w.try_row /\ wr'.tst_row = w.tst_row /\ wr'.do_filter = w.do_filter
    BY <1>1, <1>2, <1>4 DEF WriterType
  <2>3. Pointers(wr')
    BY <2>2, Zenon DEF Pointers, Rooms
  <2> HIDE DEF next, last, moved
  <2>4. CASE next < 7 /\ w.prev_row # NULL
    <3>1. mem' = [m EXCEPT ![w.prev_row] = AppRow(0)] /\ w.prev_row \in {1, 4}
      BY <1>1, <1>3, <1>4, <2>4
    <3>2. DOMAIN m = 1 .. 4 /\ \A b \in 1 .. 4 : DOMAIN m[b] = 0 .. Longest
      BY DEF Buffers
    <3>3. AppRow(0) \in [0 .. Longest -> Byte] /\ \A k \in 0 .. Longest : AppRow(0)[k] = 0
      BY BlackRow
    <3>4. /\ mem'[w.prev_row] = AppRow(0) /\ mem'[w.row_buf] = m[w.row_buf]
          /\ DOMAIN mem' = 1 .. 4 /\ \A b \in 1 .. 4 : mem'[b] = AppRow(0) \/ mem'[b] = m[b]
      BY <1>3, <3>1, <3>2
    <3>5. Buffers(mem')
      <4>1. \A b \in 1 .. 4 : DOMAIN mem'[b] = 0 .. Longest
        BY <3>2, <3>3, <3>4
      <4>2. 1 \in 1 .. 4 /\ 4 \in 1 .. 4
        OBVIOUS
      <4> QED BY <3>3, <3>4, <4>1, <4>2, Zenon DEF Buffers
    <3>6. mem'[wr'.row_buf][0] = 0 /\ mem'[wr'.prev_row][0] = 0
      BY <2>2, <3>3, <3>4, LongestType
    <3>7. next \in Passes /\ RowsAmong(h, 0, next) = 0
      <4>1. next \in Passes
        BY <1>2, <2>1, <2>4 DEF Passes
      <4> QED BY <4>1, NoRowsYet, Zenon DEF RowsAmong
    <3>8. HoldsAbove(wr', mem')
      <4> SUFFICES ASSUME NEW k \in 1 .. RowLength(next) - 1
                   PROVE  mem'[w.prev_row][k] = RowAbove(next, 0)[k]
        BY <2>2, <3>7, Zenon DEF HoldsAbove
      <4> QED BY <3>3, <3>4, <3>7, BlackAbove
    <3> QED BY <2>3, <3>5, <3>6, <3>8, Zenon DEF Holds
  <2>5. CASE ~(next < 7 /\ w.prev_row # NULL)
    <3>1. mem' = m /\ (w.prev_row = NULL \/ next = 7)
      BY <1>1, <2>1, <2>5
    <3> QED BY <2>2, <2>3, <3>1, Zenon DEF Holds
  <2> QED BY <2>4, <2>5
<1>5. CASE ~(last /\ job.interlaced)
  <2>1. wr' = [w EXCEPT !.row_number = @ + 1] /\ mem' = m
    BY <1>1, <1>5
  <2>2. /\ wr'.row_number = w.row_number + 1 /\ wr'.pass = p /\ wr'.row_buf = w.row_buf /\ wr'.prev_row = w.prev_row
        /\ wr'.try_row = w.try_row /\ wr'.tst_row = w.tst_row /\ wr'.do_filter = w.do_filter
    BY <1>2, <2>1 DEF WriterType
  <2>3. Pointers(wr')
    BY <2>2, Zenon DEF Pointers, Rooms
  <2>4. w.prev_row # NULL => HoldsAbove(wr', mem')
    BY <2>1, <2>2, Zenon DEF HoldsAbove
  <2> QED BY <2>1, <2>2, <2>3, <2>4, Zenon DEF Holds
<1> QED BY <1>4, <1>5

(* Two filters besides NONE are several. *)
LEMMA TwoAreSeveral ==
  ASSUME NEW filters \in SUBSET (0 .. 4), NEW a \in filters, NEW b \in filters, a # b, a # 0, b # 0
  PROVE  Several(filters)
<1> DEFINE F == filters \ {PNG_FILTER_VALUE_NONE}
<1>1. IsFiniteSet(0 .. 4)
  <2>1. 0 \in Int /\ 4 \in Int
    OBVIOUS
  <2> QED BY <2>1, FS_Interval, Zenon
<1>2. F \subseteq 0 .. 4 /\ {a, b} \subseteq F
  BY DEF PNG_FILTER_VALUE_NONE
<1>3. IsFiniteSet(F)
  BY <1>1, <1>2, FS_Subset
<1>4. Cardinality({a}) = 1 /\ IsFiniteSet({a})
  BY FS_Singleton
<1>5. Cardinality({a} \cup {b}) = 2
  <2>1. b \notin {a}
    OBVIOUS
  <2>2. Cardinality({a} \cup {b}) = Cardinality({a}) + 1
    BY <1>4, <2>1, FS_AddElement
  <2> QED BY <1>4, <2>2
<1>6. {a} \cup {b} \subseteq F
  BY <1>2
<1>7. Cardinality({a} \cup {b}) <= Cardinality(F) /\ Cardinality(F) \in Nat
  BY <1>3, <1>6, FS_Subset, FS_CardinalityType
<1> QED BY <1>5, <1>7 DEF Several

LEMMA StartHolds ==
  ASSUME JobOK, wr \in WriterType
  PROVE  Holds(png_write_start_row, StartBuffers)
<1> DEFINE f == (IF Useful(wr.do_filter) = {} THEN {PNG_FILTER_VALUE_NONE} ELSE Useful(wr.do_filter))
           w == png_write_start_row
           m == StartBuffers
<1>1. f \in SUBSET (0 .. 4)
  BY DEF Useful, WriterType, PNG_FILTER_VALUE_NONE
<1>2. /\ w.do_filter = f /\ w.row_buf = 1 /\ w.row_number = 0 /\ w.pass = 0
      /\ w.try_row = (IF f # {PNG_FILTER_VALUE_NONE} THEN 2 ELSE NULL)
      /\ w.tst_row = (IF Several(f) THEN 3 ELSE NULL)
      /\ w.prev_row = (IF f \cap UsesPrevRow # {} THEN 4 ELSE NULL)
  BY DEF png_write_start_row
<1> HIDE DEF f, w
<1>3. ASSUME Several(f) PROVE f # {PNG_FILTER_VALUE_NONE}
  <2> SUFFICES ASSUME f = {PNG_FILTER_VALUE_NONE} PROVE FALSE
    OBVIOUS
  <2>1. f \ {PNG_FILTER_VALUE_NONE} = {}
    OBVIOUS
  <2>2. Cardinality({}) = 0
    BY FS_EmptySet
  <2> QED BY <1>3, <2>1, <2>2 DEF Several
<1>4. Pointers(w)
  <2>1. \A a \in 1 .. 4 :
           a \in f => f # {PNG_FILTER_VALUE_NONE} /\ (a \in UsesPrevRow => f \cap UsesPrevRow # {})
    BY DEF PNG_FILTER_VALUE_NONE
  <2>2. \A a, b \in 1 .. 4 : a \in f /\ b \in f /\ a # b => Several(f)
    <3> SUFFICES ASSUME NEW a \in 1 .. 4, NEW b \in 1 .. 4, a \in f, b \in f, a # b PROVE Several(f)
      OBVIOUS
    <3>1. a # 0 /\ b # 0
      OBVIOUS
    <3> QED BY <1>1, <3>1, TwoAreSeveral
  <2> QED BY <1>2, <1>3, <2>1, <2>2 DEF Pointers, Rooms, CanUse, NULL
<1>5. \A b \in 1 .. 4 : m[b] = [AppRow(IF b = 4 THEN 0 ELSE FreshByte)
                                EXCEPT ![0] = IF b \in {1, 4} THEN 0 ELSE FreshByte]
  BY DEF StartBuffers
<1>6. DOMAIN m = 1 .. 4
  BY DEF StartBuffers
<1> HIDE DEF m
<1>7. \A v \in Byte : AppRow(v) \in [0 .. Longest -> Byte]
  BY LongestType DEF AppRow, Filled, Longest
<1>8. 0 \in Byte /\ FreshByte \in Byte
  BY BytesAssumption DEF Byte
<1>9. Buffers(m) /\ m[1][0] = 0 /\ m[4][0] = 0
  <2>1. ASSUME NEW b \in 1 .. 4
        PROVE  m[b] \in [0 .. Longest -> Byte] /\ (b \in {1, 4} => m[b][0] = 0)
    <3> DEFINE v == IF b = 4 THEN 0 ELSE FreshByte
               z == IF b \in {1, 4} THEN 0 ELSE FreshByte
    <3>1. v \in Byte /\ z \in Byte /\ (b \in {1, 4} => z = 0)
      BY <1>8
    <3>2. m[b] = [AppRow(v) EXCEPT ![0] = z]
      BY <1>5
    <3> HIDE DEF v, z
    <3>3. AppRow(v) \in [0 .. Longest -> Byte]
      BY <1>7, <3>1
    <3> QED BY <3>1, <3>2, <3>3, FirstByteSet, LongestType
  <2>2. \A b \in 1 .. 4 : DOMAIN m[b] = 0 .. Longest
    BY <2>1
  <2>3. 1 \in 1 .. 4 /\ 4 \in 1 .. 4
    OBVIOUS
  <2> QED BY <1>6, <2>1, <2>2, <2>3 DEF Buffers
<1>10. w.prev_row # NULL => HoldsAbove(w, m)
  <2> SUFFICES ASSUME w.prev_row = 4, NEW k \in 1 .. RowLength(0) - 1
               PROVE  m[4][k] = RowAbove(0, RowsAmong(job.writeHandling, 0, 0))[k]
    BY <1>2, Zenon DEF HoldsAbove
  <2>1. 0 \in Passes /\ RowsAmong(job.writeHandling, 0, 0) = 0
    BY NoRowsYet DEF RowsAmong, Passes
  <2>2. m[4] = [AppRow(0) EXCEPT ![0] = 0]
    BY <1>5
  <2>3. RowAbove(0, 0)[k] = 0 /\ k \in 0 .. Longest
    BY <2>1, BlackAbove
  <2>4. AppRow(0) \in [0 .. Longest -> Byte] /\ AppRow(0)[k] = 0
    BY <2>3, BlackRow
  <2> QED BY <2>1, <2>2, <2>3, <2>4
<1> QED BY <1>2, <1>4, <1>9, <1>10 DEF Holds, w, m

LEMMA FilterHolds ==
  ASSUME JobOK, WriterOK(wr, stream), MemoryOK(wr, mem), png_set_filter
  PROVE  MemoryOK(wr', mem')
<1>1. wr.row_buf # NULL /\ mem' = mem
  BY DEF png_set_filter
<1>2. wr \in WriterType /\ Holds(wr, mem)
  BY <1>1 DEF WriterOK, MemoryOK
<1>3. PICK filters \in FilterChoices :
       wr' = [wr EXCEPT !.do_filter = IF wr.prev_row = NULL THEN Useful(filters) \ UsesPrevRow
                                      ELSE Useful(filters),
                        !.try_row = IF @ = NULL THEN 2 ELSE @,
                        !.tst_row =
                          IF /\ @ = NULL
                             /\ Several(IF wr.prev_row = NULL THEN Useful(filters) \ UsesPrevRow
                                        ELSE Useful(filters))
                          THEN 3 ELSE @]
  BY DEF png_set_filter
<1> DEFINE f == IF wr.prev_row = NULL THEN Useful(filters) \ UsesPrevRow ELSE Useful(filters)
           tries == IF wr.try_row = NULL THEN 2 ELSE wr.try_row
           tests == IF wr.tst_row = NULL /\ Several(f) THEN 3 ELSE wr.tst_row
<1>4. f \in SUBSET (0 .. 4) /\ \A a \in f : CanUse(a, wr.prev_row)
  BY JobsAssumption DEF Useful, CanUse
<1>5. wr' = [wr EXCEPT !.do_filter = f, !.try_row = tries, !.tst_row = tests]
  BY <1>3, Zenon
<1> HIDE DEF f
<1>6. \A a, b \in 1 .. 4 : a \in f /\ b \in f /\ a # b => Several(f)
  <2> SUFFICES ASSUME NEW a \in 1 .. 4, NEW b \in 1 .. 4, a \in f, b \in f, a # b PROVE Several(f)
    OBVIOUS
  <2>1. a # 0 /\ b # 0
    OBVIOUS
  <2> QED BY <1>4, <2>1, TwoAreSeveral
<1>7. /\ wr.try_row \in {NULL, 2, 3} /\ wr.tst_row \in {NULL, 2, 3}
      /\ wr.tst_row = wr.try_row => wr.tst_row = NULL
      /\ wr.tst_row # NULL => wr.try_row # NULL
      /\ wr.tst_row = NULL => wr.try_row # 3
  BY <1>2 DEF Holds, Pointers, Rooms
<1>8. /\ tries \in {NULL, 2, 3} /\ tests \in {NULL, 2, 3} /\ tests # tries /\ tries # NULL
      /\ (tests = NULL => tries # 3) /\ (Several(f) => tests # NULL)
  BY <1>7 DEF NULL
<1> HIDE DEF tries, tests
<1>9. /\ wr'.row_number = wr.row_number /\ wr'.pass = wr.pass /\ wr'.row_buf = wr.row_buf
      /\ wr'.prev_row = wr.prev_row /\ wr'.do_filter = f /\ wr'.try_row = tries /\ wr'.tst_row = tests
  BY <1>2, <1>5 DEF WriterType
<1>10. Rooms(wr')
  BY <1>4, <1>6, <1>8, <1>9 DEF Rooms
<1>11. Pointers(wr')
  BY <1>2, <1>9, <1>10, Zenon DEF Holds, Pointers
<1>12. HoldsAbove(wr, mem) => HoldsAbove(wr', mem)
  BY <1>9, Zenon DEF HoldsAbove
<1> QED BY <1>1, <1>2, <1>9, <1>11, <1>12, Zenon DEF MemoryOK, Holds

----------------------------------------------------------------------------
(* The stream has the rows of the passes, each filtered somehow. *)

(* Row i of pass p is in `s' from byte `start' on. *)
RowIsAt(s, start, p, i) ==
  \E f \in 0 .. 4 : \A k \in 0 .. RowLength(p) - 1 :
    s[start + 1 + k] = Sent(f, RawRow(p, i), RowAbove(p, i), k)

StreamHolds(s) ==
  \A p \in Passes, i \in Nat :
    HasRow(p, i) /\ BytesBefore(p) + (i + 1) * RowLength(p) <= Len(s)
      => RowIsAt(s, BytesBefore(p) + i * RowLength(p), p, i)

LEMMA PassesInOrder ==
  ASSUME JobOK, NEW p \in Passes, NEW q \in Passes, p < q
  PROVE  BytesBefore(p) + PassRows(p) * RowLength(p) <= BytesBefore(q)
<1> DEFINE b == [k \in Passes |-> BytesOf(k)]
<1>1. \A k \in Passes : b[k] \in Nat /\ b[k] = BytesOf(k) /\ b[k] = PassRows(k) * RowLength(k)
  BY PassBytes DEF BytesOf
<1>2. /\ 0 \in Passes /\ 1 \in Passes /\ 2 \in Passes /\ 3 \in Passes
      /\ 4 \in Passes /\ 5 \in Passes /\ 6 \in Passes
  BY DEF Passes
<1> DEFINE b0 == b[0] b1 == b[1] b2 == b[2] b3 == b[3] b4 == b[4] b5 == b[5] b6 == b[6]
           before(r) == (IF 0 < r THEN b0 ELSE 0) + (IF 1 < r THEN b1 ELSE 0) + (IF 2 < r THEN b2 ELSE 0)
                        + (IF 3 < r THEN b3 ELSE 0) + (IF 4 < r THEN b4 ELSE 0) + (IF 5 < r THEN b5 ELSE 0)
                        + (IF 6 < r THEN b6 ELSE 0)
<1> HIDE DEF b
<1>3. BytesBefore(p) = before(p) /\ BytesBefore(q) = before(q)
  BY <1>1, <1>2, Zenon DEF BytesBefore
<1>4. b0 \in Nat /\ b1 \in Nat /\ b2 \in Nat /\ b3 \in Nat /\ b4 \in Nat /\ b5 \in Nat /\ b6 \in Nat
  BY <1>1, <1>2
<1>5. b[p] = IF p = 0 THEN b0 ELSE IF p = 1 THEN b1 ELSE IF p = 2 THEN b2 ELSE IF p = 3 THEN b3
             ELSE IF p = 4 THEN b4 ELSE IF p = 5 THEN b5 ELSE b6
  BY EachPass
<1>6. PassRows(p) * RowLength(p) = b[p]
  BY <1>1
<1> HIDE DEF b0, b1, b2, b3, b4, b5, b6
<1>7. before(p) + b[p] <= before(q)
  BY <1>4, <1>5, EachPass DEF Passes
<1> QED BY <1>3, <1>6, <1>7

LEMMA Joined ==
  ASSUME NEW s, IsSequence(s), NEW n \in Nat, NEW f, DOMAIN f = 1 .. n,
         f = [k \in 1 .. n |-> f[k]]
  PROVE  /\ IsSequence(s \o f) /\ Len(s) \in Nat /\ Len(s \o f) = Len(s) + n
         /\ \A k \in 1 .. Len(s) : (s \o f)[k] = s[k]
         /\ \A k \in 1 .. n : (s \o f)[Len(s) + k] = f[k]
<1>1. PICK S : s \in Seq(S)
  BY DEF IsSequence
<1> DEFINE T == S \cup {f[k] : k \in 1 .. n}
<1>2. f \in [1 .. n -> T]
  OBVIOUS
<1>3. s \in Seq(T)
  BY <1>1
<1> HIDE DEF T
<1>4. f \in Seq(T)
  BY <1>2
<1>5. Len(f) = n
  BY <1>4
<1>6. /\ s \o f \in Seq(T) /\ Len(s \o f) = Len(s) + Len(f)
      /\ \A k \in 1 .. Len(s) + Len(f) : (s \o f)[k] = IF k <= Len(s) THEN s[k] ELSE f[k - Len(s)]
  BY <1>3, <1>4, ConcatProperties
<1>7. Len(s) \in Nat
  BY <1>3
<1> DEFINE j == s \o f
           l == Len(s)
<1>8. /\ j \in Seq(T) /\ Len(j) = l + n
      /\ \A k \in 1 .. l + n : j[k] = IF k <= l THEN s[k] ELSE f[k - l]
  BY <1>5, <1>6
<1> HIDE DEF j, l
<1>9. l \in Nat
  BY <1>7 DEF l
<1>10. ASSUME NEW k \in 1 .. l PROVE j[k] = s[k]
  <2>1. k \in 1 .. l + n /\ k <= l
    BY <1>9
  <2> QED BY <1>8, <2>1
<1>11. ASSUME NEW k \in 1 .. n PROVE j[l + k] = f[k]
  <2>1. l + k \in 1 .. l + n /\ ~(l + k <= l) /\ (l + k) - l = k
    BY <1>9
  <2>2. j[l + k] = f[(l + k) - l]
    BY <1>8, <2>1
  <2> QED BY <2>1, <2>2
<1>12. IsSequence(j)
  BY <1>8, Zenon DEF IsSequence
<1> QED BY <1>8, <1>9, <1>10, <1>11, <1>12, Zenon DEF j, l

LEMMA RowAppended ==
  ASSUME JobOK, NEW s, IsSequence(s), StreamHolds(s), NEW p, NEW i, HasRow(p, i),
         Len(s) = BytesBefore(p) + i * RowLength(p),
         NEW out, DOMAIN out = 1 .. RowLength(p), out = [k \in 1 .. RowLength(p) |-> out[k]],
         NEW f \in 0 .. 4,
         \A k \in 0 .. RowLength(p) - 1 : out[k + 1] = Sent(f, RawRow(p, i), RowAbove(p, i), k)
  PROVE  StreamHolds(s \o out)
<1> DEFINE l == Len(s)
           n == RowLength(p)
           t == s \o out
<1>1. p \in Passes /\ i \in Nat /\ i < PassRows(p)
  BY DEF HasRow
<1>2. n \in Nat \ {0} /\ PassRows(p) \in Nat /\ i * n \in Nat
  BY <1>1, PassBytes
<1>3. /\ l \in Nat /\ Len(t) = l + n
      /\ \A k \in 1 .. l : t[k] = s[k]
      /\ \A k \in 1 .. n : t[l + k] = out[k]
  <2>1. n \in Nat
    BY <1>2
  <2> HIDE DEF n
  <2>2. DOMAIN out = 1 .. n /\ out = [k \in 1 .. n |-> out[k]]
    BY Zenon DEF n
  <2>3. /\ IsSequence(s \o out) /\ Len(s) \in Nat /\ Len(s \o out) = Len(s) + n
        /\ \A k \in 1 .. Len(s) : (s \o out)[k] = s[k]
        /\ \A k \in 1 .. n : (s \o out)[Len(s) + k] = out[k]
    <3> DEFINE o == out
    <3>1. DOMAIN o = 1 .. n /\ o = [k \in 1 .. n |-> o[k]]
      BY <2>2
    <3> HIDE DEF o
    <3>2. /\ IsSequence(s \o o) /\ Len(s) \in Nat /\ Len(s \o o) = Len(s) + n
          /\ \A k \in 1 .. Len(s) : (s \o o)[k] = s[k]
          /\ \A k \in 1 .. n : (s \o o)[Len(s) + k] = o[k]
      BY <2>1, <3>1, Joined
    <3> QED BY <3>2, Zenon DEF o
  <2> QED BY <2>3, Zenon
<1> HIDE DEF t
<1> SUFFICES ASSUME NEW q \in Passes, NEW j \in Nat, HasRow(q, j),
                    BytesBefore(q) + (j + 1) * RowLength(q) <= Len(t)
             PROVE  RowIsAt(t, BytesBefore(q) + j * RowLength(q), q, j)
  BY Zenon DEF StreamHolds, t
<1> DEFINE m == RowLength(q)
           b == BytesBefore(q)
<1>4. /\ m \in Nat \ {0} /\ PassRows(q) \in Nat /\ j < PassRows(q) /\ b \in Nat
      /\ j * m \in Nat /\ (j + 1) * m = j * m + m /\ (j + 1) * m <= PassRows(q) * m
      /\ PassRows(q) * m \in Nat
  <2>1. m \in Nat \ {0} /\ PassRows(q) \in Nat /\ j < PassRows(q)
    BY PassBytes DEF HasRow
  <2>2. b \in Nat
    BY BytesBeforeNext DEF Passes
  <2> HIDE DEF m
  <2>3. j + 1 \in Nat /\ j + 1 <= PassRows(q) /\ m \in Nat
    BY <2>1
  <2>4. (j + 1) * m <= PassRows(q) * m
    BY <2>1, <2>3, Longer
  <2>5. PassRows(q) * m \in Nat /\ j * m \in Nat /\ (j + 1) * m = j * m + m
    BY <2>1
  <2> QED BY <2>1, <2>2, <2>4, <2>5
<1>5. /\ BytesBefore(p) \in Nat /\ (i + 1) * n = i * n + n /\ (i + 1) * n <= PassRows(p) * n
      /\ PassRows(p) * n \in Nat /\ l = BytesBefore(p) + i * n
  <2>2. BytesBefore(p) \in Nat /\ l = BytesBefore(p) + i * n
    BY <1>1, BytesBeforeNext DEF Passes
  <2> HIDE DEF n
  <2>3. i + 1 \in Nat /\ i + 1 <= PassRows(p) /\ n \in Nat
    BY <1>1, <1>2
  <2>4. (i + 1) * n <= PassRows(p) * n
    BY <1>2, <2>3, Longer
  <2>5. PassRows(p) * n \in Nat /\ (i + 1) * n = i * n + n
    BY <1>1, <1>2
  <2> QED BY <2>2, <2>4, <2>5
<1>6. CASE b + (j + 1) * m <= l
  <2>1. RowIsAt(s, b + j * m, q, j)
    BY <1>6, Zenon DEF StreamHolds
  <2>2. PICK g \in 0 .. 4 : \A k \in 0 .. m - 1 : s[b + j * m + 1 + k] = Sent(g, RawRow(q, j), RowAbove(q, j), k)
    BY <2>1, Zenon DEF RowIsAt
  <2> DEFINE at == b + j * m
  <2>3. at \in Nat /\ at + m <= l
    BY <1>4, <1>6
  <2> HIDE DEF at, m
  <2>4. ASSUME NEW k \in 0 .. m - 1 PROVE t[at + 1 + k] = s[at + 1 + k]
    <3>1. at + 1 + k \in 1 .. l
      BY <1>3, <1>4, <2>3
    <3> QED BY <1>3, <3>1
  <2>5. \A k \in 0 .. m - 1 : t[at + 1 + k] = Sent(g, RawRow(q, j), RowAbove(q, j), k)
    BY <2>2, <2>4, Zenon DEF at
  <2> QED BY <2>5, Zenon DEF RowIsAt, at, m
<1>7. CASE ~(b + (j + 1) * m <= l)
  <2> DEFINE end == (j + 1) * m
             all == PassRows(q) * m
             here == PassRows(p) * n
             first == BytesBefore(p)
             done == i * n
             upTo == j * m
             more == (i + 1) * n
  <2>0. /\ b \in Nat /\ end \in Nat /\ all \in Nat /\ here \in Nat /\ first \in Nat /\ done \in Nat
        /\ n \in Nat /\ n > 0 /\ m > 0 /\ m \in Nat /\ upTo \in Nat
        /\ end = upTo + m /\ end <= all /\ more = done + n /\ more <= here /\ l = first + done
        /\ ~(b + end <= l) /\ b + end <= l + n
    <3>1. b + end <= l + n
      BY <1>3
    <3>2. /\ b \in Nat /\ all \in Nat /\ here \in Nat /\ first \in Nat /\ done \in Nat
          /\ n \in Nat /\ n > 0 /\ m > 0 /\ m \in Nat /\ upTo \in Nat
          /\ end = upTo + m /\ end <= all /\ more = done + n /\ more <= here /\ l = first + done
      <4>1. n > 0 /\ m > 0 /\ n \in Nat /\ m \in Nat
        <5>1. n \in Nat \ {0} /\ m \in Nat \ {0}
          BY <1>2, <1>4
        <5> HIDE DEF n, m
        <5> QED BY <5>1
      <4> QED BY <1>2, <1>4, <1>5, <4>1, Zenon
    <3>3. end \in Nat
      <4> HIDE DEF b, all, here, first, done, n, m, end, upTo
      <4> QED BY <3>2
    <3> QED BY <1>7, <3>1, <3>2, <3>3
  <2> HIDE DEF end, all, here, first, done, more, upTo
  <2>1. q = p
    <3>1. CASE q < p
      <4>1. b + all <= first
        BY <1>1, <3>1, PassesInOrder DEF all, first
      <4> HIDE DEF b, m, l, n
      <4> QED BY <2>0, <4>1
    <3>2. CASE p < q
      <4>1. first + here <= b
        BY <1>1, <3>2, PassesInOrder DEF first, here
      <4> HIDE DEF b, m, n, l
      <4> QED BY <2>0, <4>1
    <3> QED BY <1>1, <3>1, <3>2 DEF Passes
  <2>2. j = i
    <3>1. m = n /\ b = first
      BY <2>1 DEF first
    <3>2. CASE j < i
      <4>1. end <= done
        <5> HIDE DEF n
        <5>1. j + 1 \in Nat /\ j + 1 <= i /\ n \in Nat
          BY <1>1, <1>2, <3>2
        <5> QED BY <1>1, <3>1, <5>1, Longer DEF end, done
      <4> HIDE DEF b, m, n, l
      <4> QED BY <2>0, <3>1, <4>1
    <3>3. CASE i < j
      <4>1. more <= upTo
        <5> HIDE DEF n
        <5>1. i + 1 \in Nat /\ i + 1 <= j /\ n \in Nat
          BY <1>1, <1>2, <3>3
        <5> QED BY <3>1, <5>1, Longer DEF more, upTo
      <4> HIDE DEF b, m, n, l
      <4> QED BY <2>0, <3>1, <4>1
    <3> QED BY <1>1, <3>2, <3>3
  <2>3. b + j * m = l
    BY <1>5, <2>1, <2>2
  <2>4. ASSUME NEW k \in 0 .. n - 1 PROVE t[l + 1 + k] = Sent(f, RawRow(p, i), RowAbove(p, i), k)
    <3>0. out[k + 1] = Sent(f, RawRow(p, i), RowAbove(p, i), k)
      OBVIOUS
    <3> HIDE DEF n, l
    <3>1. k + 1 \in 1 .. n /\ l + 1 + k = l + (k + 1)
      BY <1>2, <1>3
    <3>2. t[l + (k + 1)] = out[k + 1]
      BY <1>3, <3>1
    <3> QED BY <3>0, <3>1, <3>2
  <2>5. RowIsAt(t, l, p, i)
    BY <2>4, Zenon DEF RowIsAt
  <2> QED BY <2>1, <2>2, <2>3, <2>5
<1> QED BY <1>6, <1>7

(* Where the writer stands when a row is written, which may be the first one. *)
LEMMA WriterStands ==
  ASSUME JobOK, WriterOK(wr, stream), ~Written,
         NEW w, w = IF wr.row_buf = NULL THEN png_write_start_row ELSE wr
  PROVE  /\ Writing(w) /\ w.row_number < w.num_rows /\ w.pass # 7
         /\ w.row_number = wr.row_number /\ w.pass = wr.pass
         /\ Len(stream) = StreamAt(job.writeHandling, w.pass, w.row_number)
<1> DEFINE h == job.writeHandling
<1>1. wr \in WriterType
  BY DEF WriterOK
<1>2. CASE wr.row_buf = NULL
  <2>1. w = png_write_start_row
    BY <1>2
  <2>2. Writing(w) /\ w.row_number = 0 /\ w.pass = 0 /\ w.row_number < w.num_rows
    BY <1>1, <2>1, StartWriting
  <2>3. stream = <<>> /\ wr.row_number = 0 /\ wr.pass = 0
    BY <1>2 DEF WriterOK
  <2>4. StreamAt(h, 0, 0) = 0
    BY StreamAtStart, BytesBeforeNext, Sizes
  <2> QED BY <2>2, <2>3, <2>4
<1>3. CASE wr.row_buf # NULL
  <2>1. w = wr /\ Writing(wr) /\ Len(stream) = StreamAt(h, wr.pass, wr.row_number)
    BY <1>3 DEF WriterOK
  <2>2. At(h, wr.pass, wr.row_number, wr.num_rows) /\ wr.pass \in 0 .. 7
        /\ wr.num_rows \in Nat /\ wr.row_number \in Nat
    BY <2>1 DEF Writing, WriterType
  <2>3. wr.pass # 7 /\ wr.row_number < wr.num_rows
    BY <2>2, Sizes DEF Written, At
  <2> QED BY <2>1, <2>3
<1> QED BY <1>2, <1>3

(* The row just sent is the one above the next. *)
Swapped(w, v) ==
  IF w.prev_row = NULL THEN v ELSE [v EXCEPT !.row_buf = w.prev_row, !.prev_row = w.row_buf]

LEMMA Swapping ==
  ASSUME JobOK, NEW w, NEW v, Writing(w), Pointers(w), Kept(v, w), v.do_filter = w.do_filter, Rooms(v),
         NEW u, u = Swapped(w, v)
  PROVE  /\ Writing(u) /\ Pointers(u) /\ u.pass = w.pass /\ u.row_number = w.row_number
         /\ u.num_rows = w.num_rows
         /\ IF w.prev_row = NULL THEN u.row_buf = w.row_buf /\ u.prev_row = NULL
            ELSE u.row_buf = w.prev_row /\ u.prev_row = w.row_buf
<1>1. /\ v \in WriterType /\ w.row_buf \in {1, 4} /\ w.prev_row \in {NULL, 1, 4} /\ w.prev_row # w.row_buf
      /\ v.row_number = w.row_number /\ v.pass = w.pass /\ v.num_rows = w.num_rows
      /\ v.usr_width = w.usr_width /\ v.row_buf = w.row_buf /\ v.prev_row = w.prev_row
  BY DEF Kept, Pointers
<1>2. CASE w.prev_row = NULL
  <2>1. u = v
    BY <1>2 DEF Swapped
  <2>2. Writing(u)
    BY <1>1, <2>1 DEF Writing, WriterWidth
  <2>3. Pointers(u)
    BY <1>1, <2>1, Zenon DEF Pointers
  <2> QED BY <1>1, <1>2, <2>1, <2>2, <2>3
<1>3. CASE w.prev_row # NULL
  <2>1. u = [v EXCEPT !.row_buf = w.prev_row, !.prev_row = w.row_buf] /\ w.prev_row \in {1, 4}
    BY <1>1, <1>3 DEF Swapped
  <2>2. /\ u \in WriterType /\ u.row_number = w.row_number /\ u.pass = w.pass /\ u.num_rows = w.num_rows
        /\ u.usr_width = w.usr_width /\ u.row_buf = w.prev_row /\ u.prev_row = w.row_buf
        /\ u.do_filter = v.do_filter /\ u.try_row = v.try_row /\ u.tst_row = v.tst_row
    BY <1>1, <2>1 DEF WriterType
  <2>3. Writing(u)
    BY <1>1, <2>1, <2>2 DEF Writing, WriterWidth, NULL
  <2>4. Rooms(u)
    <3>1. \A f : CanUse(f, v.prev_row) => CanUse(f, u.prev_row)
      BY <1>1, <2>2 DEF CanUse, NULL
    <3> QED BY <2>2, <3>1, Zenon DEF Rooms
  <2>5. Pointers(u)
    BY <1>1, <2>1, <2>2, <2>4 DEF Pointers
  <2> QED BY <1>3, <2>2, <2>3, <2>5
<1> QED BY <1>2, <1>3

(* Every row that is written goes into the stream, filtered, and the next one finds it
   above, where that row is the next of its pass. *)
LEMMA RowWritten ==
  ASSUME JobOK, WriterOK(wr, stream), MemoryOK(wr, mem), StreamHolds(stream), png_write_row
  PROVE  MemoryOK(wr', mem') /\ StreamHolds(stream')
<1> DEFINE first == wr.row_buf = NULL
           w == IF first THEN png_write_start_row ELSE wr
           buffers == IF first THEN StartBuffers ELSE mem
           picks == job.interlaced /\ job.writeHandling /\ w.pass < 6
           filled == Overwrite(buffers[w.row_buf], [GivenRow(w) EXCEPT ![0] = buffers[w.row_buf][0]])
           row == IF picks THEN png_do_write_interlace(filled, w.pass) ELSE filled
           n == PNG_ROWBYTES(depth, IF picks THEN PassWidth(width, w.pass) ELSE w.usr_width)
           m == [buffers EXCEPT ![w.row_buf] = row]
           found == png_write_find_filter(w, m, n)
           swapped == IF w.prev_row = NULL THEN found.w
                      ELSE [found.w EXCEPT !.row_buf = w.prev_row, !.prev_row = w.row_buf]
           out == [k \in 1 .. n + 1 |-> found.mem[found.best_row][k - 1]]
           h == job.writeHandling
           p == w.pass
           y == w.row_number
           i == RowsAmong(h, y, p)
<1>1. stream' = stream \o out /\ png_write_finish_row(swapped, found.mem)
  BY DEF png_write_row
<1>2. ~Written /\ ~(job.interlaced /\ h /\ SkipsRow(wr.row_number, width, wr.pass))
  BY DEF png_write_row
<1>3. wr \in WriterType /\ IsSequence(stream)
  BY DEF WriterOK
<1> HIDE DEF found, out
<1>4. /\ Writing(w) /\ y < w.num_rows /\ p # 7 /\ y = wr.row_number /\ p = wr.pass
      /\ Len(stream) = StreamAt(h, p, y)
  BY <1>2, WriterStands, Zenon
<1>5. Holds(w, buffers)
  <2>1. CASE first
    BY <1>3, <2>1, StartHolds
  <2>2. CASE ~first
    BY <2>2 DEF MemoryOK
  <2> QED BY <2>1, <2>2
<1> DEFINE old == buffers[w.row_buf]
<1>6. ~Skipped(h, p, y)
  BY <1>2, <1>4, Zenon DEF Skipped
<1>7. picks = (job.interlaced /\ job.writeHandling /\ w.pass < 6)
  OBVIOUS
<1> HIDE DEF w, buffers
<1>8. /\ w \in WriterType /\ w.row_buf \in {1, 4} /\ w.prev_row \in {NULL, 1, 4} /\ w.prev_row # w.row_buf
      /\ Pointers(w) /\ Buffers(buffers) /\ old \in [0 .. Longest -> Byte] /\ old[0] = 0
  BY <1>4, <1>5 DEF Writing, Holds, Pointers, Buffers
<1>9. /\ HasRow(p, i) /\ n = RowLength(p) - 1 /\ n \in Nat /\ n <= Longest
      /\ row \in [0 .. Longest -> Byte] /\ row[0] = 0
      /\ Agree(n, row, RawRow(p, i))
  <2>1. /\ p = w.pass /\ y = w.row_number /\ i = RowsAmong(job.writeHandling, y, p)
        /\ ~Skipped(job.writeHandling, p, y)
    BY <1>6
  <2>2. row = RowPut(w, old) /\ n = LengthPut(w)
    BY DEF RowPut, LengthPut, Filling, Picks
  <2>5. Writing(w) /\ w.pass # 7 /\ w.row_number < w.num_rows
    BY <1>4
  <2>6. old \in [0 .. Longest -> Byte] /\ old[0] = 0
    BY <1>8
  <2> HIDE DEF p, y, i, picks, filled, row, n, old
  <2> QED BY <2>1, <2>2, <2>5, <2>6, RowGiven
<1> HIDE DEF row, n, old, picks, i
<1>10. /\ p \in Passes /\ i \in Nat /\ y \in Nat /\ h \in BOOLEAN
  BY <1>8, <1>9, Sizes DEF HasRow, WriterType
<1>11. /\ Buffers(m) /\ m[w.row_buf] = row /\ (w.prev_row # NULL => m[w.prev_row] = buffers[w.prev_row])
  <2>1. DOMAIN buffers = 1 .. 4
    BY <1>8 DEF Buffers
  <2>2. /\ m[w.row_buf] = row /\ DOMAIN m = 1 .. 4
        /\ \A b \in 1 .. 4 : b # w.row_buf => m[b] = buffers[b]
    BY <1>8, <2>1
  <2>3. w.prev_row # NULL => m[w.prev_row] = buffers[w.prev_row]
    BY <1>8, <2>2
  <2> HIDE DEF m
  <2>4. \A b \in {1, 4} : m[b] \in [0 .. Longest -> Byte]
    BY <1>8, <1>9, <2>2 DEF Buffers
  <2>5. \A b \in 1 .. 4 : DOMAIN m[b] = 0 .. Longest
    <3> SUFFICES ASSUME NEW b \in 1 .. 4 PROVE DOMAIN m[b] = 0 .. Longest
      OBVIOUS
    <3>1. CASE b = w.row_buf
      BY <1>9, <2>2, <3>1
    <3>2. CASE b # w.row_buf
      BY <1>8, <2>2, <3>2 DEF Buffers
    <3> QED BY <3>1, <3>2
  <2> QED BY <2>2, <2>3, <2>4, <2>5 DEF Buffers
<1> HIDE DEF m
<1>12. /\ Kept(found.w, w) /\ found.w.do_filter = w.do_filter /\ Rooms(found.w)
       /\ Buffers(found.mem) /\ found.mem[1] = m[1] /\ found.mem[4] = m[4]
       /\ Carries(found, m[w.row_buf], m[w.prev_row], w.prev_row, n)
  <2>1. m[w.row_buf][0] = 0
    BY <1>9, <1>11
  <2>2. found = png_write_find_filter(w, m, n)
    BY DEF found
  <2>3. w \in WriterType /\ Pointers(w) /\ Buffers(m) /\ n \in Nat /\ n <= Longest
    BY <1>8, <1>9, <1>11
  <2> HIDE DEF h, p, y, swapped
  <2>4. Carries(found, m[w.row_buf], m[w.prev_row], w.prev_row, n)
    BY <2>1, <2>2, <2>3, FilterFound
  <2>5. Kept(found.w, w) /\ found.w.do_filter = w.do_filter /\ Rooms(found.w)
    BY <2>1, <2>2, <2>3, FilterFound
  <2>6. Buffers(found.mem) /\ found.mem[1] = m[1] /\ found.mem[4] = m[4]
    BY <2>1, <2>2, <2>3, FilterFound
  <2> QED BY <2>4, <2>5, <2>6
<1>13. w.prev_row # NULL => buffers[w.prev_row][0] = 0 /\ HoldsAbove(w, buffers)
  BY <1>4, <1>5, Zenon DEF Holds
<1>14. w.prev_row # NULL => \A k \in 1 .. n : m[w.prev_row][k] = RowAbove(p, i)[k]
  BY <1>9, <1>11, <1>13, Zenon DEF HoldsAbove, i
<1> HIDE DEF p, y, h
<1>15. PICK g \in 0 .. 4 :
         /\ CanUse(g, w.prev_row)
         /\ \A k \in 0 .. n : found.mem[found.best_row][k] = Sent(g, m[w.row_buf], m[w.prev_row], k)
  BY <1>12, Zenon DEF Carries
<1>16. \A k \in 0 .. n : found.mem[found.best_row][k] = Sent(g, RawRow(p, i), RowAbove(p, i), k)
  <2>1. g \in UsesPrevRow => \A k \in 1 .. n : m[w.prev_row][k] = RowAbove(p, i)[k]
    BY <1>14, <1>15, Zenon DEF CanUse
  <2>2. \A k \in 1 .. n : m[w.row_buf][k] = RawRow(p, i)[k]
    BY <1>9, <1>11, Zenon DEF Agree
  <2>3. \A k \in 0 .. n : Sent(g, m[w.row_buf], m[w.prev_row], k) = Sent(g, RawRow(p, i), RowAbove(p, i), k)
    <3> DEFINE raw == m[w.row_buf]
               prev == m[w.prev_row]
               raw2 == RawRow(p, i)
               prev2 == RowAbove(p, i)
    <3>1. n \in Nat /\ Agree(n, raw, raw2) /\ (g \in UsesPrevRow => Agree(n, prev, prev2))
      BY <1>9, <2>1, <2>2, Zenon DEF Agree
    <3> HIDE DEF raw, raw2, prev, prev2
    <3>2. ASSUME NEW k \in 0 .. n PROVE Sent(g, raw, prev, k) = Sent(g, raw2, prev2, k)
      <4>1. g \in 0 .. 4 /\ k \in 0 .. n /\ (g \in UsesPrevRow => Agree(n, prev, prev2))
        BY <1>15, <3>1
      <4> QED BY <3>1, <4>1, SentSame
    <3> QED BY <3>2, Zenon DEF raw, raw2, prev, prev2
  <2> QED BY <1>15, <2>3
<1>17. StreamHolds(stream')
  <2>1. DOMAIN out = 1 .. n + 1 /\ out = [k \in 1 .. n + 1 |-> out[k]]
    BY DEF out
  <2>2. \A k \in 0 .. n : out[k + 1] = found.mem[found.best_row][k]
    <3> SUFFICES ASSUME NEW k \in 0 .. n PROVE out[k + 1] = found.mem[found.best_row][k]
      OBVIOUS
    <3>1. k + 1 \in 1 .. n + 1 /\ (k + 1) - 1 = k
      BY <1>9
    <3>2. out[k + 1] = found.mem[found.best_row][(k + 1) - 1]
      BY <3>1 DEF out
    <3> QED BY <3>1, <3>2
  <2>3. n + 1 = RowLength(p)
    <3>1. RowLength(p) \in Nat
      BY <1>10, PassBytes
    <3> QED BY <1>9, <3>1
  <2>4. Len(stream) = BytesBefore(p) + i * RowLength(p)
    <3>1. p # 7
      BY <1>10 DEF Passes
    <3> QED BY <1>4, <3>1, Zenon DEF StreamAt, i, p, y, h
  <2> DEFINE o == out
  <2>5. DOMAIN o = 1 .. RowLength(p) /\ o = [k \in 1 .. RowLength(p) |-> o[k]]
    BY <2>1, <2>3, Zenon
  <2>6. \A k \in 0 .. RowLength(p) - 1 : o[k + 1] = Sent(g, RawRow(p, i), RowAbove(p, i), k)
    BY <1>9, <1>16, <2>2, Zenon
  <2> HIDE DEF o
  <2>8. HasRow(p, i)
    BY <1>9
  <2>7. StreamHolds(stream \o o)
    <3> HIDE DEF o, n, i, p, y, h, w
    <3> QED BY <1>3, <2>4, <2>5, <2>6, <2>8, RowAppended
  <2> QED BY <1>1, <2>7, Zenon DEF o
<1>18. /\ Writing(swapped) /\ Pointers(swapped) /\ swapped.pass = p /\ swapped.row_number = y
       /\ swapped.num_rows = w.num_rows
       /\ IF w.prev_row = NULL THEN swapped.row_buf = w.row_buf /\ swapped.prev_row = NULL
          ELSE swapped.row_buf = w.prev_row /\ swapped.prev_row = w.row_buf
  <2> DEFINE v == found.w
  <2>1. Writing(w) /\ Pointers(w) /\ Kept(v, w) /\ v.do_filter = w.do_filter /\ Rooms(v)
    BY <1>4, <1>8, <1>12
  <2>2. swapped = Swapped(w, v)
    BY DEF Swapped
  <2> HIDE DEF v, swapped
  <2>3. /\ Writing(swapped) /\ Pointers(swapped) /\ swapped.pass = w.pass /\ swapped.row_number = w.row_number
        /\ swapped.num_rows = w.num_rows
        /\ IF w.prev_row = NULL THEN swapped.row_buf = w.row_buf /\ swapped.prev_row = NULL
           ELSE swapped.row_buf = w.prev_row /\ swapped.prev_row = w.row_buf
    BY <2>1, <2>2, Swapping
  <2> QED BY <2>3 DEF p, y
<1> HIDE DEF swapped
<1>19. Holds(wr', mem')
  <2> DEFINE v == found.mem
  <2>1. Buffers(v) /\ v[1] = m[1] /\ v[4] = m[4] /\ png_write_finish_row(swapped, v)
    BY <1>1, <1>12
  <2> HIDE DEF v
  <2>2. v[w.row_buf] = row /\ (w.prev_row # NULL => v[w.prev_row] = buffers[w.prev_row])
    BY <1>8, <1>11, <2>1 DEF NULL
  <2>3. v[swapped.row_buf][0] = 0
    BY <1>9, <1>13, <1>18, <2>2
  <2>4. swapped.pass # 7 /\ swapped.row_number < swapped.num_rows
    BY <1>4, <1>18 DEF p, y
  <2>5. RowsAmong(h, swapped.row_number + 1, p) = i + 1
    BY <1>6, <1>10, <1>18, CountOne DEF i
  <2>6. swapped.prev_row # NULL =>
          /\ v[swapped.prev_row][0] = 0
          /\ \A k \in 1 .. RowLength(p) - 1 : v[swapped.prev_row][k] = RowAbove(p, i + 1)[k]
    <3> SUFFICES ASSUME swapped.prev_row # NULL
                 PROVE  /\ v[swapped.prev_row][0] = 0
                        /\ \A k \in 1 .. RowLength(p) - 1 : v[swapped.prev_row][k] = RowAbove(p, i + 1)[k]
      OBVIOUS
    <3>1. v[swapped.prev_row] = row
      BY <1>18, <2>2
    <3>2. RowAbove(p, i + 1) = RawRow(p, i)
      <4>1. i + 1 # 0 /\ (i + 1) - 1 = i
        BY <1>10
      <4> QED BY <4>1 DEF RowAbove
    <3> QED BY <1>9, <3>1, <3>2, Zenon DEF Agree
  <2>7. p = swapped.pass /\ i + 1 = RowsAmong(job.writeHandling, swapped.row_number + 1, p)
    BY <1>18, <2>5 DEF h
  <2> DEFINE j == i + 1
  <2> HIDE DEF j
  <2>8. /\ j = RowsAmong(job.writeHandling, swapped.row_number + 1, p)
        /\ swapped.prev_row # NULL =>
             /\ v[swapped.prev_row][0] = 0
             /\ \A k \in 1 .. RowLength(p) - 1 : v[swapped.prev_row][k] = RowAbove(p, j)[k]
    BY <2>6, <2>7, Zenon DEF j
  <2>9. Writing(swapped) /\ Pointers(swapped)
    BY <1>18
  <2> QED BY <2>1, <2>3, <2>4, <2>7, <2>8, <2>9, FinishHolds
<1> QED BY <1>17, <1>19 DEF MemoryOK

LEMMA SkipHolds ==
  ASSUME JobOK, WriterOK(wr, stream), MemoryOK(wr, mem), WriteRowSkipped
  PROVE  MemoryOK(wr', mem')
<1> DEFINE h == job.writeHandling
           w == wr
           m == mem
           p == w.pass
           y == w.row_number
<1>1. ~Written /\ job.interlaced /\ h /\ SkipsRow(y, width, p) /\ png_write_finish_row(w, m)
  BY DEF WriteRowSkipped
<1>2. w.row_buf # NULL
  <2> SUFFICES ASSUME w.row_buf = NULL PROVE FALSE
    OBVIOUS
  <2>1. y = 0 /\ p = 0
    BY DEF WriterOK
  <2> QED BY <1>1, <2>1 DEF SkipsRow
<1>3. Writing(w) /\ Holds(w, m)
  BY <1>2 DEF WriterOK, MemoryOK
<1>4. p # 7 /\ y < w.num_rows
  BY <1>1, <1>3 DEF Writing, At, WriterType, Written
<1>5. Skipped(h, p, y)
  BY <1>1, Zenon DEF Skipped
<1> HIDE DEF w, m
<1>6. p \in Passes /\ y \in Nat /\ h \in BOOLEAN
  BY <1>3, <1>4, Sizes DEF Writing, WriterType, Passes
<1>7. RowsAmong(h, y + 1, p) = RowsAmong(h, y, p)
  BY <1>5, <1>6, CountOne
<1> DEFINE i == RowsAmong(h, y, p)
<1>8. /\ Pointers(w) /\ Buffers(m) /\ m[w.row_buf][0] = 0
      /\ w.prev_row # NULL =>
           m[w.prev_row][0] = 0 /\ \A k \in 1 .. RowLength(p) - 1 : m[w.prev_row][k] = RowAbove(p, i)[k]
  BY <1>3, <1>4, Zenon DEF Holds, HoldsAbove
<1> HIDE DEF i
<1>9. i = RowsAmong(job.writeHandling, w.row_number + 1, p)
  BY <1>7, Zenon DEF i
<1>10. Holds(wr', mem')
  <2> HIDE DEF h, p, y
  <2>1. p = w.pass /\ w.pass # 7 /\ w.row_number < w.num_rows
    BY <1>4 DEF p, y
  <2> QED BY <1>1, <1>3, <1>8, <1>9, <2>1, FinishHolds
<1> QED BY <1>10 DEF MemoryOK

(* What the writer has written and what it will need: each row of each pass is in the
   stream, filtered, and prev_row is the row above. *)
StreamOK == MemoryOK(wr, mem) /\ StreamHolds(stream)

LEMMA NothingWritten ==
  ASSUME Init
  PROVE  StreamOK
<1>1. JobOK
  BY FirstJob
<1>2. wr.row_buf = NULL /\ stream = <<>>
  BY DEF Init
<1>3. ASSUME NEW p \in Passes, NEW i \in Nat PROVE ~(BytesBefore(p) + (i + 1) * RowLength(p) <= Len(stream))
  <2>1. BytesBefore(p) \in Nat /\ RowLength(p) \in Nat \ {0}
    BY <1>1, PassBytes, BytesBeforeNext DEF Passes
  <2>2. Len(stream) = 0
    BY <1>2
  <2> DEFINE l == RowLength(p)
  <2> HIDE DEF l
  <2>3. l \in Nat /\ l > 0 /\ i * l \in Nat /\ (i + 1) * l = i * l + l
    BY <2>1 DEF l
  <2> QED BY <2>1, <2>2, <2>3 DEF l
<1> QED BY <1>2, <1>3 DEF StreamOK, MemoryOK, StreamHolds

LEMMA WriterKeepsStream ==
  ASSUME RowsInv, StreamOK, WriteRowSkipped \/ png_write_row \/ png_set_filter
  PROVE  MemoryOK(wr', mem') /\ StreamHolds(stream')
<1>1. JobOK /\ WriterOK(wr, stream) /\ MemoryOK(wr, mem) /\ StreamHolds(stream)
  BY DEF RowsInv, StreamOK
<1>2. CASE png_write_row
  BY <1>1, <1>2, RowWritten
<1>3. CASE WriteRowSkipped
  <2>1. stream' = stream
    BY <1>3 DEF WriteRowSkipped
  <2> QED BY <1>1, <1>3, <2>1, SkipHolds
<1>4. CASE png_set_filter
  <2>1. stream' = stream
    BY <1>4 DEF png_set_filter
  <2> QED BY <1>1, <1>4, <2>1, FilterHolds
<1> QED BY <1>2, <1>3, <1>4

(* Both are about the job and what they are given alone. *)
LEMMA SameRows ==
  ASSUME job' = job
  PROVE  /\ width' = width /\ height' = height /\ depth' = depth /\ bpp' = bpp /\ Image' = Image
         /\ Longest' = Longest
BY Zenon DEF width, height, depth, bpp, Image, Longest

LEMMA SameRawRows ==
  ASSUME job' = job, NEW p, NEW i
  PROVE  /\ RowLength(p)' = RowLength(p) /\ PassRows(p)' = PassRows(p) /\ BytesBefore(p)' = BytesBefore(p)
         /\ (HasRow(p, i)' <=> HasRow(p, i)) /\ RawRow(p, i)' = RawRow(p, i)
         /\ RowAbove(p, i)' = RowAbove(p, i) /\ ImageRow(p, i)' = ImageRow(p, i)
<1>1. RowLength(p)' = RowLength(p) /\ BytesBefore(p)' = BytesBefore(p)
  BY SameLengths, SameBytes, Zenon DEF BytesBefore
<1>2. PassRows(p)' = PassRows(p)
  BY SameRows, Zenon DEF PassRows
<1>3. HasRow(p, i)' <=> HasRow(p, i)
  BY <1>2, Zenon DEF HasRow
<1>4. \A j : RawRow(p, j)' = RawRow(p, j)
  <2> SUFFICES ASSUME NEW j PROVE RawRow(p, j)' = RawRow(p, j)
    OBVIOUS
  <2>1. PassPixels(p, j)' = PassPixels(p, j)
    BY SameRows, Zenon DEF PassPixels, RowPixels, ImageRow, ImageCol
  <2> QED BY <1>1, <2>1, SameRows, Zenon DEF RawRow
<1>5. RowAbove(p, i)' = RowAbove(p, i)
  BY <1>1, <1>4, Zenon DEF RowAbove
<1>6. ImageRow(p, i)' = ImageRow(p, i)
  BY Zenon DEF ImageRow
<1> QED BY <1>1, <1>2, <1>3, <1>4, <1>5, <1>6

LEMMA SameStream ==
  ASSUME job' = job
  PROVE  /\ StreamHolds(stream)' <=> StreamHolds(stream')
         /\ MemoryOK(wr, mem)' <=> MemoryOK(wr', mem')
<1>1. ASSUME NEW f, NEW r, NEW above, NEW k PROVE Sent(f, r, above, k)' = Sent(f, r, above, k)
  BY SameRows, Zenon DEF Sent
<1>2. ASSUME NEW at, NEW p, NEW i PROVE RowIsAt(stream, at, p, i)' <=> RowIsAt(stream', at, p, i)
  BY <1>1, SameRawRows, Zenon DEF RowIsAt
<1>3. StreamHolds(stream)' <=> StreamHolds(stream')
  BY <1>2, SameRawRows, Zenon DEF StreamHolds
<1>4. Buffers(mem)' <=> Buffers(mem')
  BY SameRows, Zenon DEF Buffers
<1>5. HoldsAbove(wr, mem)' <=> HoldsAbove(wr', mem')
  <2>1. ASSUME NEW w, NEW m PROVE HoldsAbove(w, m)' <=> HoldsAbove(w, m)
    <3> DEFINE i == RowsAmong(job.writeHandling, w.row_number, w.pass)
    <3>1. i' = i
      BY SameRows, Zenon DEF RowsAmong
    <3>2. RowAbove(w.pass, i)' = RowAbove(w.pass, i)
      <4>1. \A j : RowAbove(w.pass, j)' = RowAbove(w.pass, j)
        BY SameRawRows
      <4> HIDE DEF i
      <4> QED BY <3>1, <4>1, Zenon
    <3>3. RowLength(w.pass)' = RowLength(w.pass)
      BY SameRawRows
    <3> QED BY <3>2, <3>3, Zenon DEF HoldsAbove
  <2> QED BY <2>1, Zenon
<1>6. Pointers(wr)' <=> Pointers(wr')
  BY Zenon DEF Pointers, Rooms, CanUse
<1> QED BY <1>3, <1>4, <1>5, <1>6, Zenon DEF MemoryOK, Holds

----------------------------------------------------------------------------
(* What the readers have in their buffers. *)

RowLast == PNG_ROWBYTES(depth, ((width + 7) \div 8) * 8) + bpp

RowBuffers(r) == r.row_buf \in [0 .. RowLast -> Byte] /\ r.prev_row \in [0 .. RowLast -> Byte]

(* In prev_row is what lies above row y of the pass. *)
HasAbove(r, y) ==
  LET p == r.pass
  IN  p # 7 => Agree(RowLength(p) - 1, r.prev_row, RowAbove(p, RowsAmong(job.readHandling, y, p)))

ReaderHolds(r) == RowBuffers(r) /\ HasAbove(r, r.row_number)

LEMMA RowLastIs ==
  ASSUME JobOK
  PROVE  RowLast \in Nat /\ Longest \in Nat /\ Longest <= RowLast
         /\ PNG_ROWBYTES(depth, ((width + 7) \div 8) * 8) <= RowLast
<1> DEFINE whole == ((width + 7) \div 8) * 8
<1>1. width \in Nat /\ depth \in Depths /\ bpp \in Nat
  BY Sizes, DepthIs, LooksBack
<1>2. whole \in Nat /\ width <= whole
  BY <1>1
<1> HIDE DEF whole
<1>3. PNG_ROWBYTES(depth, width) <= PNG_ROWBYTES(depth, whole)
  BY <1>1, <1>2, WiderIsLonger, Zenon
<1>4. PNG_ROWBYTES(depth, whole) \in Nat /\ PNG_ROWBYTES(depth, width) \in Nat
  BY <1>1, <1>2, RowBytesType
<1>5. RowLast = PNG_ROWBYTES(depth, whole) + bpp
  BY DEF RowLast, whole
<1> HIDE DEF bpp
<1> QED BY <1>1, <1>3, <1>4, <1>5 DEF whole, Longest

LEMMA BlackPrev ==
  ASSUME JobOK, NEW prev \in [0 .. RowLast -> Byte]
  PROVE  /\ Overwrite(prev, AppRow(0)) \in [0 .. RowLast -> Byte]
         /\ \A p \in Passes : Agree(RowLength(p) - 1, Overwrite(prev, AppRow(0)), RowAbove(p, 0))
<1>1. RowLast \in Nat /\ Longest \in Nat /\ Longest <= RowLast
  BY RowLastIs
<1>2. AppRow(0) \in [0 .. Longest -> Byte] /\ \A k \in 0 .. Longest : AppRow(0)[k] = 0
  BY BlackRow
<1> DEFINE black == AppRow(0)
<1> HIDE DEF black
<1>3. black \in [0 .. Longest -> Byte] /\ \A k \in 0 .. Longest : black[k] = 0
  BY <1>2 DEF black
<1>4. Overwrite(prev, black) \in [0 .. RowLast -> Byte]
      /\ \A k \in 0 .. Longest : Overwrite(prev, black)[k] = black[k]
  BY <1>1, <1>3, Overwritten
<1>5. ASSUME NEW p \in Passes
      PROVE  Agree(RowLength(p) - 1, Overwrite(prev, black), RowAbove(p, 0))
  <2> SUFFICES ASSUME NEW k \in 1 .. RowLength(p) - 1
               PROVE  Overwrite(prev, black)[k] = RowAbove(p, 0)[k]
    BY DEF Agree
  <2>1. RowAbove(p, 0)[k] = 0 /\ k \in 0 .. Longest
    BY BlackAbove
  <2> QED BY <1>3, <1>4, <2>1
<1> QED BY <1>4, <1>5 DEF black

LEMMA AtPassHolds ==
  ASSUME JobOK, NEW r, IsReader(r), RowBuffers(r), NEW q \in 0 .. 7
  PROVE  ReaderHolds(AtPass(r, q)) /\ AtPass(r, q).row_buf = r.row_buf
         /\ AtPass(r, q).pass = q /\ AtPass(r, q).row_number = 0
<1> DEFINE prev == Overwrite(r.prev_row, AppRow(0))
           iw == IF q = 7 THEN r.iwidth ELSE PassWidth(width, q)
           nr == IF q = 7 \/ job.readHandling THEN r.num_rows ELSE PassHeight(height, q)
           s == AtPass(r, q)
<1>1. s = [r EXCEPT !.row_number = 0, !.pass = q, !.prev_row = prev, !.iwidth = iw, !.num_rows = nr]
  BY DEF AtPass
<1> HIDE DEF s, prev, iw, nr
<1>2. s.prev_row = prev /\ s.row_buf = r.row_buf /\ s.pass = q /\ s.row_number = 0
  BY <1>1 DEF IsReader
<1>3. /\ prev \in [0 .. RowLast -> Byte]
      /\ \A p \in Passes : Agree(RowLength(p) - 1, prev, RowAbove(p, 0))
  <2> DEFINE old == r.prev_row
  <2>1. old \in [0 .. RowLast -> Byte]
    BY DEF RowBuffers
  <2> HIDE DEF old
  <2>2. /\ Overwrite(old, AppRow(0)) \in [0 .. RowLast -> Byte]
        /\ \A p \in Passes : Agree(RowLength(p) - 1, Overwrite(old, AppRow(0)), RowAbove(p, 0))
    BY <2>1, BlackPrev
  <2> QED BY <2>2 DEF prev, old
<1>4. q # 7 => RowsAmong(job.readHandling, 0, q) = 0 /\ q \in Passes
  <2> SUFFICES ASSUME q # 7 PROVE RowsAmong(job.readHandling, 0, q) = 0 /\ q \in Passes
    OBVIOUS
  <2>1. q \in Passes
    BY DEF Passes
  <2> QED BY <2>1, NoRowsYet, Zenon DEF RowsAmong
<1>5. HasAbove(s, 0)
  BY <1>2, <1>3, <1>4 DEF HasAbove
<1> QED BY <1>2, <1>3, <1>5 DEF ReaderHolds, RowBuffers, s

LEMMA StartReads ==
  ASSUME JobOK, ReaderOK, ~rd.started
  PROVE  ReaderHolds(png_read_start_row)
<1> DEFINE bytes == PNG_ROWBYTES(depth, ((width + 7) \div 8) * 8) + 1 + bpp
           n == IF ~job.interlaced \/ job.readHandling THEN height ELSE PassHeight(height, 0)
           iw == IF job.interlaced THEN PassWidth(width, 0) ELSE width
           byte == IF job.interlaced THEN 0 ELSE FreshByte
           rb == Filled(byte, bytes - 1)
           garbage == Filled(FreshByte, bytes - 1)
           pb == Overwrite(garbage, AppRow(0))
           r == png_read_start_row
<1>1. r = [rd EXCEPT !.started = TRUE, !.num_rows = n, !.iwidth = iw, !.row_buf = rb, !.prev_row = pb]
  BY SMT DEF png_read_start_row
<1>2. bytes - 1 = RowLast
  <2> DEFINE whole == ((width + 7) \div 8) * 8
  <2>1. whole \in Nat /\ bpp \in Nat
    BY Sizes, LooksBack
  <2> HIDE DEF whole
  <2>2. PNG_ROWBYTES(depth, whole) \in Nat
    BY <2>1, RowBytesType
  <2>3. \A x, c \in Nat : (x + 1 + c) - 1 = x + c
    OBVIOUS
  <2> QED BY <2>1, <2>2, <2>3, Zenon DEF RowLast, whole
<1>3. IsReader(rd) /\ rd.row_number = 0 /\ rd.pass = 0
  BY DEF ReaderOK
<1> HIDE DEF rb, pb, n, iw, r, bytes, garbage
<1>4. r.prev_row = pb /\ r.row_buf = rb /\ r.pass = 0 /\ r.row_number = 0
  BY <1>1, <1>3 DEF IsReader
<1>5. byte \in Byte /\ FreshByte \in Byte
  BY BytesAssumption DEF Byte
<1> HIDE DEF byte
<1>6. rb \in [0 .. RowLast -> Byte] /\ garbage \in [0 .. RowLast -> Byte]
  BY <1>2, <1>5 DEF rb, garbage, Filled
<1>7. /\ pb \in [0 .. RowLast -> Byte]
      /\ \A p \in Passes : Agree(RowLength(p) - 1, pb, RowAbove(p, 0))
  BY <1>6, BlackPrev DEF pb
<1>8. 0 \in Passes /\ RowsAmong(job.readHandling, 0, 0) = 0
  <2>1. 0 \in Passes
    BY DEF Passes
  <2> QED BY <2>1, NoRowsYet, Zenon DEF RowsAmong
<1>9. HasAbove(r, 0)
  BY <1>4, <1>7, <1>8 DEF HasAbove
<1> QED BY <1>4, <1>6, <1>7, <1>9 DEF ReaderHolds, RowBuffers, r

(* After the row that was read comes the next one of the pass, or the first of another. *)
LEMMA NextHolds ==
  ASSUME JobOK, NEW r, IsReader(r), r.pass # 7, RowBuffers(r), HasAbove(r, r.row_number + 1)
  PROVE  /\ ReaderHolds(png_read_finish_row(r)) /\ png_read_finish_row(r).row_buf = r.row_buf
         /\ ReaderHolds(png_read_push_finish_row(r)) /\ png_read_push_finish_row(r).row_buf = r.row_buf
<1> DEFINE y == r.row_number + 1
           s == [r EXCEPT !.row_number = y]
           more == y < r.num_rows \/ ~job.interlaced
           a == IF job.readHandling THEN r.pass + 1 ELSE NextPass(r.pass)
           b == IF job.readHandling THEN NextPushPass(r.pass) ELSE NextPass(r.pass)
<1>1. /\ png_read_finish_row(r) = IF more THEN s ELSE AtPass(r, a)
      /\ png_read_push_finish_row(r) = IF more THEN s ELSE AtPass(r, b)
  BY DEF png_read_finish_row, png_read_push_finish_row
<1>2. r.pass \in Passes
  BY DEF IsReader, Passes
<1>3. a \in 0 .. 7 /\ b \in 0 .. 7
  <2>1. NextPass(r.pass) \in r.pass + 1 .. 7 /\ NextPushPass(r.pass) \in 0 .. 7
    BY <1>2, NextPassIs, PassesOver
  <2>2. NextPass(r.pass) \in 0 .. 7 /\ r.pass + 1 \in 0 .. 7
    BY <1>2, <2>1 DEF Passes
  <2> QED BY <2>1, <2>2
<1> HIDE DEF a, b, more
<1>4. ReaderHolds(s) /\ s.row_buf = r.row_buf
  <2> HIDE DEF y
  <2>1. s.prev_row = r.prev_row /\ s.row_buf = r.row_buf /\ s.pass = r.pass /\ s.row_number = y
    BY DEF IsReader
  <2>2. HasAbove(r, y)
    BY DEF y
  <2> HIDE DEF s
  <2>3. HasAbove(s, y) /\ RowBuffers(s)
    BY <2>1, <2>2, Zenon DEF HasAbove, RowBuffers
  <2> QED BY <2>1, <2>3 DEF ReaderHolds
<1>5. ASSUME NEW q \in 0 .. 7
      PROVE  ReaderHolds(AtPass(r, q)) /\ AtPass(r, q).row_buf = r.row_buf
  BY AtPassHolds
<1> HIDE DEF s
<1> QED BY <1>1, <1>3, <1>4, <1>5

LEMMA AboveIsBytes ==
  ASSUME JobOK, NEW p, NEW i, HasRow(p, i)
  PROVE  \A k \in 1 .. RowLength(p) - 1 : RawRow(p, i)[k] \in Byte /\ RowAbove(p, i)[k] \in Byte
<1>1. RowLength(p) - 1 \in Nat
  BY PixelPlaces
<1> SUFFICES ASSUME NEW k \in 1 .. RowLength(p) - 1
             PROVE  RawRow(p, i)[k] \in Byte /\ RowAbove(p, i)[k] \in Byte
  OBVIOUS
<1>2. k \in 0 .. RowLength(p) - 1
  BY <1>1
<1>3. \A j : HasRow(p, j) => RawRow(p, j)[k] \in Byte
  <2> SUFFICES ASSUME NEW j, HasRow(p, j) PROVE RawRow(p, j)[k] \in Byte
    OBVIOUS
  <2>1. RawRow(p, j) \in [0 .. RowLength(p) - 1 -> Byte]
    BY RawRowIs
  <2> QED BY <1>2, <2>1
<1>4. CASE i = 0
  <2>1. RowAbove(p, i)[k] = 0
    BY <1>2, <1>4, Zenon DEF RowAbove, Filled
  <2> QED BY <1>3, <2>1 DEF Byte
<1>5. CASE i # 0
  <2>1. HasRow(p, i - 1)
    <3>1. PassRows(p) \in Nat
      BY PassBytes DEF HasRow
    <3> QED BY <1>5, <3>1 DEF HasRow
  <2>2. RowAbove(p, i) = RawRow(p, i - 1)
    BY <1>5, Zenon DEF RowAbove
  <2> QED BY <1>3, <2>1, <2>2
<1> QED BY <1>4, <1>5

(* The row that is read is the row that was written. *)
LEMMA RowIsRead ==
  ASSUME JobOK, WriterOK(wr, stream), Written, StreamHolds(stream),
         NEW r, Reading(r), r.pass # 7, r.row_number < r.num_rows,
         ~Skipped(job.readHandling, r.pass, r.row_number), ReaderHolds(r),
         NEW n, n = PNG_ROWBYTES(depth, r.iwidth), NEW row, row = RowRead(r, n),
         NEW p, p = r.pass, NEW i, i = RowsAmong(job.readHandling, r.row_number, p)
  PROVE  /\ HasRow(p, i) /\ n = RowLength(p) - 1 /\ n \in Nat /\ n <= RowLast
         /\ row \in [0 .. RowLast -> Byte] /\ Agree(n, row, RawRow(p, i))
<1> DEFINE h == job.readHandling
           y == r.row_number
           l == RowLength(p)
           s == r.next_in
           new == [k \in 0 .. n |-> stream[s + 1 + k]]
           row0 == Overwrite(r.row_buf, new)
           old == r.row_buf
<1>1. p \in Passes /\ p \in 0 .. 7 /\ h \in BOOLEAN /\ IsReader(r) /\ y \in Nat /\ At(h, p, y, r.num_rows)
      /\ y < r.num_rows /\ s = StreamAt(h, p, y) /\ ~Skipped(h, p, y)
  BY Sizes DEF Reading, Standing, IsReader, Passes
<1>2. HasRow(p, i)
  <2> DEFINE m == r.num_rows
  <2>1. At(h, p, y, m) /\ y < m
    BY <1>1
  <2> HIDE DEF h, y, m
  <2>2. HasRow(p, RowsAmong(h, y, p))
    BY <1>1, <2>1, AtRow
  <2> QED BY <2>2 DEF h, y
<1>3. n = l - 1 /\ n \in Nat /\ n <= RowLast /\ RowLast \in Nat /\ l \in Nat
  <2>1. n + 1 = l
    BY <1>1, Sizes DEF Reading, Standing, RowLength
  <2>2. l - 1 \in Nat /\ l - 1 <= Longest /\ Longest <= RowLast /\ RowLast \in Nat /\ Longest \in Nat
    BY <1>1, RowsFit, RowLastIs
  <2>3. n \in Nat
    BY <1>1, RowBytesType DEF IsReader
  <2> HIDE DEF l
  <2>4. l \in Nat
    BY <2>1, <2>3
  <2> QED BY <2>1, <2>2, <2>3, <2>4
<1>4. i \in Nat /\ s = BytesBefore(p) + i * l
  <2>1. i \in Nat
    BY <1>2 DEF HasRow
  <2>2. p # 7
    OBVIOUS
  <2> QED BY <1>1, <2>1, <2>2, Zenon DEF StreamAt
<1>5. BytesBefore(p) + (i + 1) * l <= Len(stream)
  <2>1. s + l <= Len(stream)
    BY Fits
  <2>2. BytesBefore(p) \in Nat
    BY <1>1, BytesBeforeNext
  <2> DEFINE b == BytesBefore(p)
             il == i * l
             jl == (i + 1) * l
  <2> HIDE DEF s, l
  <2>3. il \in Nat /\ jl = il + l
    BY <1>3, <1>4
  <2> HIDE DEF b, il, jl
  <2>4. s = b + il /\ b \in Nat
    BY <1>4, <2>2 DEF b, il
  <2>5. b + jl = s + l
    BY <1>3, <2>3, <2>4
  <2> QED BY <2>1, <2>5 DEF b, jl
<1>6. PICK f \in 0 .. 4 : \A k \in 0 .. l - 1 : stream[s + 1 + k] = Sent(f, RawRow(p, i), RowAbove(p, i), k)
  <2>1. RowIsAt(stream, BytesBefore(p) + i * RowLength(p), p, i)
    BY <1>1, <1>2, <1>4, <1>5, Zenon DEF StreamHolds
  <2>2. RowIsAt(stream, s, p, i)
    BY <1>4, <2>1, Zenon
  <2> QED BY <2>2, Zenon DEF RowIsAt
<1>7. old \in [0 .. RowLast -> Byte]
  BY DEF ReaderHolds, RowBuffers
<1>8. row0 = [k \in 0 .. RowLast |-> IF k \in 0 .. n THEN new[k] ELSE old[k]]
  <2>1. DOMAIN old = 0 .. RowLast /\ DOMAIN new = 0 .. n
    BY <1>7
  <2> HIDE DEF new
  <2> QED BY <2>1, Zenon DEF Overwrite
<1> HIDE DEF s, l, row0
<1>9. \A k \in 0 .. n : row0[k] = Sent(f, RawRow(p, i), RowAbove(p, i), k)
  <2> SUFFICES ASSUME NEW k \in 0 .. n PROVE row0[k] = Sent(f, RawRow(p, i), RowAbove(p, i), k)
    OBVIOUS
  <2>1. k \in 0 .. RowLast
    BY <1>3
  <2>2. row0[k] = new[k]
    <3> HIDE DEF new
    <3> QED BY <1>8, <2>1
  <2> QED BY <1>3, <1>6, <2>2
<1>10. IsRow(row0, RowLast)
  <2> HIDE DEF new, old
  <2>1. DOMAIN row0 = 0 .. RowLast /\ row0 = [k \in 0 .. RowLast |-> row0[k]]
    BY <1>8
  <2> DEFINE Values == {row0[k] : k \in 0 .. RowLast}
  <2>2. \A k \in 0 .. RowLast : row0[k] \in Values
    OBVIOUS
  <2> HIDE DEF Values
  <2>3. row0 \in [0 .. RowLast -> Values]
    BY <2>1, <2>2
  <2> QED BY <2>3 DEF Values, IsRow
<1> DEFINE raw == RawRow(p, i)
           above == RowAbove(p, i)
           prev == r.prev_row
<1>11. \A k \in 1 .. n : raw[k] \in Byte /\ above[k] \in Byte
  BY <1>2, <1>3, AboveIsBytes, Zenon DEF l
<1>12. \A k \in 1 .. n : prev[k] = above[k]
  <2>1. Agree(l - 1, prev, above)
    BY <1>1, Zenon DEF ReaderHolds, HasAbove, l
  <2> HIDE DEF prev, above
  <2> QED BY <1>3, <2>1, Zenon DEF Agree
<1>13. \A k \in 0 .. n : row0[k] = Sent(f, raw, above, k)
  BY <1>9
<1> HIDE DEF raw, above, prev, new, old
<1>14. png_read_filter_row(row0, prev, n) = [k \in 0 .. RowLast |-> IF k \in 1 .. n THEN raw[k] ELSE row0[k]]
  <2>5. DOMAIN row0 = 0 .. RowLast
    BY <1>8
  <2> HIDE DEF row0
  <2>1. JobOK /\ n \in Nat /\ RowLast \in Nat /\ n <= RowLast /\ f \in 0 .. 4
    BY <1>3, <1>6
  <2>2. f \in 0 .. 4
    BY <1>6
  <2>3. BothBytes(n, raw, above) /\ Filtered(row0, f, raw, above, n) /\ Agree(n, prev, above)
    BY <1>11, <1>12, <1>13, Zenon DEF BothBytes, Filtered, Agree
  <2>4. png_read_filter_row(row0, prev, n) = Restored(row0, raw, n)
    BY <2>1, <2>2, <2>3, <1>10, FilterIsUndone
  <2> QED BY <2>5, <2>4 DEF Restored
<1>15. row = [k \in 0 .. RowLast |-> IF k \in 1 .. n THEN raw[k] ELSE row0[k]]
  <2>1. row = png_read_filter_row(row0, prev, n)
    BY Zenon DEF RowRead, row0, new, prev, s
  <2> QED BY <1>14, <2>1
<1>16. Agree(n, row, raw)
  <2>1. \A k \in 1 .. n : k \in 0 .. RowLast
    BY <1>3
  <2> QED BY <1>15, <2>1 DEF Agree
<1>17. row \in [0 .. RowLast -> Byte]
  <2>1. ASSUME NEW k \in 0 .. RowLast PROVE row[k] \in Byte
    <3>1. CASE k \in 1 .. n
      BY <1>11, <1>15, <3>1
    <3>2. CASE k = 0
      <4>1. row[k] = row0[0]
        BY <1>15, <3>2
      <4>2. row0[0] = f
        BY <1>3, <1>13 DEF Sent
      <4> QED BY <1>6, <4>1, <4>2 DEF Byte
    <3>3. CASE k \notin 0 .. n
      <4>1. row[k] = row0[k]
        BY <1>3, <1>15, <3>3
      <4>2. row0[k] = old[k]
        BY <1>8, <3>3
      <4> QED BY <1>7, <4>1, <4>2
    <3> QED BY <1>3, <3>1, <3>2, <3>3
  <2>2. DOMAIN row = 0 .. RowLast /\ row = [k \in 0 .. RowLast |-> row[k]]
    BY <1>15
  <2> QED BY <2>1, <2>2
<1> QED BY <1>2, <1>3, <1>16, <1>17 DEF raw, l

(* It is kept, for the row below. *)
Stored(prev_row, row, n) == Overwrite(prev_row, [k \in 0 .. n |-> row[k]])

(* The struct once a row is taken from the stream. *)
Taken(r, n, x, prev) == [r EXCEPT !.next_in = @ + n + 1, !.row_buf = x, !.prev_row = prev]

LEMMA RowStored ==
  ASSUME JobOK, NEW r, Reading(r), r.pass # 7, ReaderHolds(r),
         NEW p, p = r.pass, NEW y, y = r.row_number, ~Skipped(job.readHandling, p, y),
         NEW i, i = RowsAmong(job.readHandling, y, p), HasRow(p, i),
         NEW n \in Nat, n = RowLength(p) - 1, n <= RowLast,
         NEW row \in [0 .. RowLast -> Byte], Agree(n, row, RawRow(p, i)), NEW x \in [0 .. RowLast -> Byte],
         NEW prev, prev = Stored(r.prev_row, row, n), NEW done, done = Taken(r, n, x, prev)
  PROVE  RowBuffers(done) /\ HasAbove(done, y + 1) /\ done.row_buf = x
<1> DEFINE new == [k \in 0 .. n |-> row[k]]
           old == r.prev_row
<1>1. RowLast \in Nat
  BY RowLastIs
<1>2. new \in [0 .. n -> Byte] /\ \A k \in 0 .. n : new[k] = row[k]
  <2>1. \A k \in 0 .. n : k \in 0 .. RowLast
    BY <1>1
  <2> QED BY <2>1
<1>3. old \in [0 .. RowLast -> Byte]
  BY DEF ReaderHolds, RowBuffers
<1>4. prev = Overwrite(old, new)
  BY DEF Stored
<1> HIDE DEF new, old
<1>5. prev \in [0 .. RowLast -> Byte] /\ \A k \in 0 .. n : prev[k] = row[k]
  <2>1. Overwrite(old, new) \in [0 .. RowLast -> Byte]
        /\ \A k \in 0 .. n : Overwrite(old, new)[k] = new[k]
    <3>1. new \in [0 .. n -> Byte] /\ n <= RowLast
      BY <1>2
    <3> HIDE DEF Overwrite
    <3>2. Overwrite(old, new) \in [0 .. RowLast -> Byte]
      BY <1>1, <1>3, <3>1, Overwritten
    <3>3. ASSUME NEW k \in 0 .. n PROVE Overwrite(old, new)[k] = new[k]
      <4>1. k \in DOMAIN old /\ k \in DOMAIN new
        BY <1>1, <1>3, <3>1
      <4> QED BY <4>1 DEF Overwrite
    <3> QED BY <3>2, <3>3
  <2> QED BY <1>2, <1>4, <2>1
<1>6. done.row_buf = x /\ done.prev_row = prev /\ done.pass = p
  BY DEF Reading, Standing, IsReader, Taken
<1>7. RowsAmong(job.readHandling, y + 1, p) = i + 1 /\ i \in Nat
  <2>1. p \in Passes /\ y \in Nat /\ job.readHandling \in BOOLEAN
    BY Sizes DEF HasRow, Reading, Standing, IsReader
  <2> QED BY <2>1, CountOne
<1>8. RowAbove(p, i + 1) = RawRow(p, i)
  <2>1. i + 1 # 0 /\ (i + 1) - 1 = i
    BY <1>7
  <2> QED BY <2>1 DEF RowAbove
<1>9. Agree(RowLength(p) - 1, prev, RowAbove(p, i + 1))
  <2>1. \A k \in 1 .. n : k \in 0 .. n
    OBVIOUS
  <2>2. Agree(n, prev, RawRow(p, i))
    BY <1>5, <2>1, Zenon DEF Agree
  <2> QED BY <1>8, <2>2
<1>10. HasAbove(done, y + 1)
  BY <1>6, <1>7, <1>9, Zenon DEF HasAbove
<1> QED BY <1>5, <1>6, <1>10 DEF RowBuffers

----------------------------------------------------------------------------
(* The pixels of a row that is read. *)

LEMMA PixelFits ==
  ASSUME JobOK, NEW x \in 0 .. width - 1
  PROVE  PNG_ROWBYTES(depth, x + 1) <= Longest /\ PNG_ROWBYTES(depth, x + 1) <= RowLast
         /\ PNG_ROWBYTES(depth, x + 1) \in Nat
<1>1. width \in Nat /\ x + 1 \in Nat /\ x + 1 <= width /\ depth \in Depths
  BY Sizes, DepthIs
<1>2. PNG_ROWBYTES(depth, x + 1) <= PNG_ROWBYTES(depth, width)
  BY <1>1, WiderIsLonger, Zenon
<1>3. PNG_ROWBYTES(depth, x + 1) \in Nat
  BY <1>1, RowBytesType
<1> QED BY <1>2, <1>3, RowLastIs DEF Longest

LEMMA PixelsRead ==
  ASSUME JobOK, NEW p, NEW i, HasRow(p, i), NEW row, Agree(RowLength(p) - 1, row, RawRow(p, i)),
         NEW k \in 0 .. RowPixels(p) - 1
  PROVE  PixelAt(row, k, depth) = Image[ImageRow(p, i)][ImageCol(p, k)]
<1>1. RowPixels(p) \in Nat /\ RowPixels(p) <= width /\ k \in 0 .. width - 1 /\ k \in Nat
  <2>1. RowPixels(p) \in Nat /\ RowPixels(p) <= width /\ width \in Nat
    BY RowsFit, Sizes DEF HasRow
  <2> QED BY <2>1
<1>2. PNG_ROWBYTES(depth, k + 1) <= RowLength(p) - 1
      /\ PixelAt(RawRow(p, i), k, depth) = Image[ImageRow(p, i)][ImageCol(p, k)]
  BY RawRowIs
<1>3. RowLength(p) - 1 \in Nat /\ PNG_ROWBYTES(depth, k + 1) \in Nat
  BY <1>1, PixelPlaces, PixelFits
<1> DEFINE raw == RawRow(p, i)
           n == PNG_ROWBYTES(depth, k + 1)
<1>4. \A j \in 1 .. n : row[j] = raw[j]
  <2> HIDE DEF n, raw
  <2>1. \A j \in 1 .. n : j \in 1 .. RowLength(p) - 1
    BY <1>2, <1>3 DEF n
  <2>2. Agree(RowLength(p) - 1, row, raw)
    BY DEF raw
  <2> QED BY <2>1, <2>2, Zenon DEF Agree
<1>5. depth \in Depths
  BY DepthIs
<1> HIDE DEF raw
<1>6. PixelAt(row, k, depth) = PixelAt(raw, k, depth)
  BY <1>1, <1>4, <1>5, SamePixel, Zenon
<1> QED BY <1>2, <1>6 DEF raw

(* The column of the pass whose pixel png_do_read_interlace puts at x. *)
Source(x, p) == (x \div png_pass_inc[p]) * png_pass_inc[p] + png_pass_start[p]

Expanded(row, p, y) ==
  \A x \in 0 .. width - 1 : Source(x, p) < width => PixelAt(row, x, depth) = Image[y][Source(x, p)]

LEMMA SourceIs ==
  ASSUME JobOK, NEW x \in Nat, NEW p \in Passes, Source(x, p) < width
  PROVE  LET k == x \div png_pass_inc[p]
         IN  /\ k \in 0 .. PassWidth(width, p) - 1 /\ k \in Nat
             /\ PNG_COL_FROM_PASS_COL(k, p) = Source(x, p)
             /\ x < PassWidth(width, p) * png_pass_inc[p]
             /\ p = 6 => k = x
<1> DEFINE inc == png_pass_inc[p]
           k == x \div inc
           w == PassWidth(width, p)
<1>1. inc \in 1 .. 8 /\ (p = 6 => inc = 1)
  BY EachPass, Columns
<1>2. k \in Nat /\ k * inc <= x /\ x < k * inc + inc /\ (p = 6 => k = x)
  <2> HIDE DEF inc
  <2>1. inc = 1 \/ inc = 2 \/ inc = 3 \/ inc = 4 \/ inc = 5 \/ inc = 6 \/ inc = 7 \/ inc = 8
    BY <1>1
  <2> QED BY <1>1, <2>1
<1>3. PNG_COL_FROM_PASS_COL(k, p) = Source(x, p)
  BY MacrosMatchTables, Zenon DEF PNG_COL_FROM_PASS_COL, Source
<1>4. width \in Nat /\ w \in Nat
  BY Sizes, PassSizes
<1> HIDE DEF k, inc
<1>5. k < w
  BY <1>2, <1>3, <1>4, PassHoldsItsColumns
<1>6. x < w * inc
  <2> HIDE DEF w
  <2>1. k + 1 <= w /\ k + 1 \in Nat /\ inc \in Nat
    BY <1>1, <1>2, <1>4, <1>5
  <2>2. (k + 1) * inc <= w * inc
    BY <1>4, <2>1, Longer
  <2>3. (k + 1) * inc = k * inc + inc
    BY <1>2, <2>1
  <2> DEFINE a == k * inc
             b == w * inc
             c == (k + 1) * inc
  <2>4. a \in Int /\ b \in Int /\ c = a + inc /\ c <= b /\ x < a + inc
    BY <1>2, <1>4, <2>1, <2>2, <2>3
  <2> HIDE DEF a, b, c
  <2>5. x < b
    BY <1>1, <2>4
  <2> QED BY <2>5 DEF b
<1> HIDE DEF w
<1> QED BY <1>2, <1>3, <1>4, <1>5, <1>6 DEF k, inc, w

(* Wherever the pass has a column, the expanded row has its pixel from there to the
   next one. *)
LEMMA RowExpanded ==
  ASSUME JobOK, job.interlaced, NEW p, NEW i, HasRow(p, i), NEW row \in [0 .. RowLast -> Byte],
         Agree(RowLength(p) - 1, row, RawRow(p, i)), NEW iw, iw = PassWidth(width, p),
         NEW new, new = IF p < 6 THEN png_do_read_interlace(row, iw, p) ELSE row
  PROVE  new \in [0 .. RowLast -> Byte] /\ Expanded(new, p, ImageRow(p, i))
<1> DEFINE inc == png_pass_inc[p]
           d == depth
           y == ImageRow(p, i)
<1>1. p \in Passes /\ width \in Nat /\ iw \in Nat /\ RowPixels(p) = iw /\ inc \in 1 .. 8 /\ d \in Depths
      /\ RowLast \in Nat
  <2>1. p \in Passes
    BY DEF HasRow
  <2>2. width \in Nat /\ RowPixels(p) = iw /\ d \in Depths /\ RowLast \in Nat
    BY Sizes, DepthIs, RowLastIs, Zenon DEF RowPixels
  <2>3. iw \in Nat
    BY <2>1, <2>2, PassSizes
  <2>4. inc \in 1 .. 8
    BY <2>1, EachPass, Columns
  <2> QED BY <2>1, <2>2, <2>3, <2>4
<1> HIDE DEF inc, d
<1>2. ASSUME NEW k \in 0 .. iw - 1
      PROVE  PixelAt(row, k, d) = Image[y][PNG_COL_FROM_PASS_COL(k, p)] /\ PixelAt(row, k, d) \in Pixels(d)
  <2>1. k \in 0 .. RowPixels(p) - 1
    BY <1>1
  <2>2. PixelAt(row, k, depth) = Image[y][ImageCol(p, k)]
    BY <2>1, PixelsRead
  <2>3. ImageCol(p, k) = PNG_COL_FROM_PASS_COL(k, p)
    BY DEF ImageCol
  <2>4. y \in 0 .. height - 1 /\ ImageCol(p, k) \in 0 .. width - 1
    BY <2>1, PixelPlaces
  <2>5. Image[y][ImageCol(p, k)] \in Pixels(depth)
    BY <2>4, ImagePixel
  <2> QED BY <2>2, <2>3, <2>5 DEF d
<1>3. ASSUME NEW x \in 0 .. width - 1, Source(x, p) < width
      PROVE  /\ x \in Nat /\ PNG_ROWBYTES(d, x + 1) <= RowLast
             /\ PixelAt(row, x \div inc, d) = Image[y][Source(x, p)]
             /\ x \in 0 .. iw * inc - 1 /\ (p = 6 => x \div inc = x)
  <2>1. x \in Nat /\ PNG_ROWBYTES(d, x + 1) <= RowLast
    BY <1>1, PixelFits DEF d
  <2>2. /\ x \div inc \in 0 .. PassWidth(width, p) - 1
        /\ PNG_COL_FROM_PASS_COL(x \div inc, p) = Source(x, p)
        /\ x < PassWidth(width, p) * inc
        /\ p = 6 => x \div inc = x
    BY <1>1, <1>3, <2>1, SourceIs, Zenon DEF inc
  <2>3. PixelAt(row, x \div inc, d) = Image[y][Source(x, p)]
    BY <1>2, <2>2, Zenon
  <2>4. x \in 0 .. iw * inc - 1
    <3> DEFINE a == iw * inc
    <3>1. a \in Int /\ x < a
      BY <1>1, <2>2
    <3> HIDE DEF a
    <3>2. x \in 0 .. a - 1
      BY <2>1, <3>1
    <3> QED BY <3>2 DEF a
  <2> QED BY <2>1, <2>2, <2>3, <2>4, Zenon
<1>4. CASE p < 6
  <2> DEFINE px == [x \in 0 .. iw * inc - 1 |-> PixelAt(row, x \div inc, d)]
  <2>1. new = WithPixels(row, px, d)
    BY <1>4, Zenon DEF png_do_read_interlace, inc, d
  <2>2. ArePixels(px, d)
    <3> SUFFICES ASSUME NEW x \in 0 .. iw * inc - 1
                 PROVE  x \in Nat /\ PixelAt(row, x \div inc, d) \in Pixels(d)
      BY DEF ArePixels
    <3>1. x \in Nat /\ x \div inc \in 0 .. iw - 1
      BY <1>1
    <3> QED BY <1>2, <3>1, Zenon
  <2>3. DOMAIN px = 0 .. iw * inc - 1 /\ \A x \in 0 .. iw * inc - 1 : px[x] = PixelAt(row, x \div inc, d)
    BY Zenon
  <2> HIDE DEF px
  <2>4. /\ WithPixels(row, px, d) \in [0 .. RowLast -> Byte]
        /\ \A x \in Nat : PNG_ROWBYTES(d, x + 1) <= RowLast =>
             PixelAt(WithPixels(row, px, d), x, d) = NewPixel(row, px, x, d)
    BY <1>1, <2>2, PixelWritten, SMT
  <2>5. ASSUME NEW x \in 0 .. width - 1, Source(x, p) < width
        PROVE  PixelAt(new, x, depth) = Image[y][Source(x, p)]
    <3>1. PixelAt(new, x, d) = NewPixel(row, px, x, d)
      BY <1>3, <2>1, <2>4, <2>5, Zenon
    <3>2. NewPixel(row, px, x, d) = px[x]
      BY <1>3, <2>3, <2>5, Zenon DEF NewPixel
    <3> QED BY <1>3, <2>3, <2>5, <3>1, <3>2, Zenon DEF d
  <2> QED BY <2>1, <2>4, <2>5, Zenon DEF Expanded
<1>5. CASE ~(p < 6)
  <2>1. new = row /\ p = 6
    BY <1>1, <1>5 DEF Passes
  <2>2. ASSUME NEW x \in 0 .. width - 1, Source(x, p) < width
        PROVE  PixelAt(new, x, depth) = Image[y][Source(x, p)]
    BY <1>3, <2>1, <2>2, Zenon DEF d
  <2> QED BY <2>1, <2>2, Zenon DEF Expanded
<1> QED BY <1>4, <1>5

----------------------------------------------------------------------------
(* The application's images. *)

IsImage(image) == image \in [0 .. height - 1 -> [0 .. Longest -> Byte]]

(* Row y of an image replaced. *)
WithRow(image, y, row) == [image EXCEPT ![y] = row]

(* Nothing but row y has changed. *)
OtherRowsSame(new, image, y) ==
  \A z \in 0 .. height - 1, x \in 0 .. width - 1 : z # y => Shows(new, x, z) = Shows(image, x, z)

(* Row y shows the pixels of a row. *)
RowIs(image, y, row) == \A x \in 0 .. width - 1 : Shows(image, x, y) = PixelAt(row, x, depth)

LEMMA RowReplaced ==
  ASSUME JobOK, NEW image, IsImage(image), NEW y \in 0 .. height - 1, NEW row \in [0 .. Longest -> Byte],
         NEW new, new = WithRow(image, y, row)
  PROVE  IsImage(new) /\ OtherRowsSame(new, image, y) /\ RowIs(new, y, row)
<1>1. new = [image EXCEPT ![y] = row]
  BY DEF WithRow
<1>2. IsImage(new) /\ new[y] = row /\ \A z \in 0 .. height - 1 : z # y => new[z] = image[z]
  BY <1>1 DEF IsImage
<1> QED BY <1>2, Zenon DEF OtherRowsSame, RowIs, Shows

LEMMA NothingShown ==
  ASSUME JobOK
  PROVE  /\ IsImage(EmptyImage)
         /\ \A y \in 0 .. height - 1, x \in 0 .. width - 1 : Shows(EmptyImage, x, y) = BlankPixel(x)
<1> DEFINE row == AppRow(Blank)
           empty == [row EXCEPT ![0] = 0]
<1>1. row \in [0 .. Longest -> Byte] /\ Longest \in Nat
  BY RowLastIs, BytesAssumption DEF AppRow, Filled, Longest
<1>2. EmptyImage = [y \in 0 .. height - 1 |-> empty]
  BY Zenon DEF EmptyImage
<1> HIDE DEF row
<1>3. /\ empty \in [0 .. Longest -> Byte]
      /\ \A k \in 1 .. Longest : empty[k] = row[k]
  <2>1. 0 \in Byte
    BY DEF Byte
  <2> QED BY <1>1, <2>1, FirstByteSet
<1> HIDE DEF empty
<1>4. IsImage(EmptyImage)
  BY <1>2, <1>3, Zenon DEF IsImage
<1>5. ASSUME NEW y \in 0 .. height - 1, NEW x \in 0 .. width - 1
      PROVE  Shows(EmptyImage, x, y) = BlankPixel(x)
  <2> DEFINE n == PNG_ROWBYTES(depth, x + 1)
  <2>1. n \in Nat /\ n <= Longest /\ x \in Nat /\ depth \in Depths
    BY Sizes, PixelFits, DepthIs
  <2>2. \A k \in 1 .. n : empty[k] = row[k]
    <3> HIDE DEF n
    <3> QED BY <1>1, <1>3, <2>1
  <2>3. PixelAt(empty, x, depth) = PixelAt(row, x, depth)
    BY <2>1, <2>2, SamePixel, Zenon
  <2> QED BY <1>2, <2>3, Zenon DEF Shows, BlankPixel, row
<1> QED BY <1>4, <1>5

(* png_combine_row takes the pixels it copies from the row read. *)
(* The pixels in C are those of a row, the others those of dp. *)
Merged(new, row, dp, C) ==
  /\ new \in [0 .. Longest -> Byte]
  /\ \A x \in 0 .. width - 1 :
       /\ x \in C => PixelAt(new, x, depth) = PixelAt(row, x, depth)
       /\ x \notin C => PixelAt(new, x, depth) = PixelAt(dp, x, depth)

LEMMA Combined ==
  ASSUME JobOK, NEW row \in [0 .. RowLast -> Byte], NEW dp \in [0 .. Longest -> Byte], NEW p, NEW shown,
         NEW new, new = png_combine_row(row, p, dp, shown)
  PROVE  Merged(new, row, dp, Copied(p, shown))
<1> DEFINE C == Copied(p, shown)
           px == [x \in C |-> PixelAt(row, x, depth)]
           d == depth
<1>1. new = WithPixels(dp, px, d)
  BY Zenon DEF png_combine_row
<1>2. C \subseteq 0 .. width - 1
  BY DEF Copied
<1> HIDE DEF C, d
<1>3. d \in Depths /\ Longest \in Nat /\ RowLast \in Nat
  BY DepthIs, RowLastIs DEF d
<1>4. ASSUME NEW x \in 0 .. width - 1
      PROVE  x \in Nat /\ PixelAt(row, x, d) \in Pixels(d) /\ PNG_ROWBYTES(d, x + 1) <= Longest
  <2>1. x \in Nat /\ PNG_ROWBYTES(d, x + 1) <= RowLast /\ PNG_ROWBYTES(d, x + 1) <= Longest
    BY Sizes, PixelFits DEF d
  <2> QED BY <1>3, <2>1, PixelType
<1>5. DOMAIN px = C /\ \A x \in C : px[x] = PixelAt(row, x, d)
  BY Zenon DEF d
<1> HIDE DEF px
<1>6. ArePixels(px, d)
  BY <1>2, <1>4, <1>5, Zenon DEF ArePixels
<1>7. /\ WithPixels(dp, px, d) \in [0 .. Longest -> Byte]
      /\ \A x \in Nat : PNG_ROWBYTES(d, x + 1) <= Longest =>
           PixelAt(WithPixels(dp, px, d), x, d) = NewPixel(dp, px, x, d)
  BY <1>3, <1>6, PixelWritten, SMT
<1>8. ASSUME NEW x \in 0 .. width - 1
      PROVE  /\ x \in C => PixelAt(new, x, d) = PixelAt(row, x, d)
             /\ x \notin C => PixelAt(new, x, d) = PixelAt(dp, x, d)
  <2>1. PixelAt(new, x, d) = NewPixel(dp, px, x, d)
    BY <1>1, <1>4, <1>7, Zenon
  <2>2. x \in C => NewPixel(dp, px, x, d) = px[x]
    BY <1>5, Zenon DEF NewPixel
  <2>3. x \notin C => NewPixel(dp, px, x, d) = PixelAt(dp, x, d)
    BY <1>5, Zenon DEF NewPixel
  <2> QED BY <1>5, <2>1, <2>2, <2>3, Zenon
<1> QED BY <1>1, <1>7, <1>8, Zenon DEF C, d, Merged

(* The pixels of row and pass that a stream row has. *)
InRow(x, p) == job.interlaced => ColInPass(x, p)

LEMMA Offsets ==
  /\ PNG_PASS_COL_OFFSET(0) = 8 /\ PNG_PASS_COL_OFFSET(1) = 8 /\ PNG_PASS_COL_OFFSET(2) = 4
  /\ PNG_PASS_COL_OFFSET(3) = 4 /\ PNG_PASS_COL_OFFSET(4) = 2 /\ PNG_PASS_COL_OFFSET(5) = 2
  /\ PNG_PASS_START_COL(0) = 0 /\ PNG_PASS_START_COL(1) = 4 /\ PNG_PASS_START_COL(2) = 0
  /\ PNG_PASS_START_COL(3) = 2 /\ PNG_PASS_START_COL(4) = 0 /\ PNG_PASS_START_COL(5) = 1
BY Powers, MacroColumns DEF PNG_PASS_COL_OFFSET, PNG_PASS_START_COL

(* Columns that are eight apart are in the same passes. *)
LEMMA SameTile ==
  ASSUME NEW x \in Nat, NEW p \in 0 .. 5
  PROVE  /\ x % 8 \in 0 .. 7 /\ (ColInPass(x % 8, p) <=> ColInPass(x, p))
         /\ ColInPass(x, p) <=> x >= PNG_PASS_START_COL(p)
                                /\ (x - PNG_PASS_START_COL(p)) % PNG_PASS_COL_OFFSET(p) = 0
<1>1. CASE p = 0 BY <1>1, Columns, Offsets DEF ColInPass
<1>2. CASE p = 1 BY <1>2, Columns, Offsets DEF ColInPass
<1>3. CASE p = 2 BY <1>3, Columns, Offsets DEF ColInPass
<1>4. CASE p = 3 BY <1>4, Columns, Offsets DEF ColInPass
<1>5. CASE p = 4 BY <1>5, Columns, Offsets DEF ColInPass
<1>6. CASE p = 5 BY <1>6, Columns, Offsets DEF ColInPass
<1> QED BY <1>1, <1>2, <1>3, <1>4, <1>5, <1>6

LEMMA CopiedSparkle ==
  ASSUME JobOK, deinterlaces \/ ~job.interlaced, NEW p \in Passes, NEW x \in 0 .. width - 1
  PROVE  x \in Copied(p, FALSE) <=> InRow(x, p)
<1>1. x \in Nat /\ width \in Nat /\ x < width /\ depth \in Nat
  BY Sizes, DepthIs, EachDepth
<1>2. CASE ~job.interlaced
  BY <1>2 DEF Copied, deinterlaces, InRow
<1>3. CASE deinterlaces /\ p = 6
  BY <1>1, <1>3, Columns DEF Copied, deinterlaces, InRow, ColInPass
<1>4. CASE deinterlaces /\ p # 6
  <2> DEFINE first == PNG_PASS_START_COL(p)
             off == PNG_PASS_COL_OFFSET(p)
  <2>1. p \in 0 .. 5 /\ job.interlaced
    BY <1>4 DEF Passes, deinterlaces
  <2>2. S_COPY(p, x % 8) <=> ColInPass(x, p)
    BY <1>1, <2>1, SameTile, CombineMasks
  <2>3. ColInPass(x, p) <=> x >= first /\ (x - first) % off = 0
    BY <1>1, <2>1, SameTile
  <2>4. (x - first) % off < 1 <=> (x - first) % off = 0
    <3>1. (x - first) \in Int /\ off \in Nat \ {0}
      BY <1>1, <2>1, Offsets
    <3> QED BY <3>1, Remainder
  <2>5. x \in Copied(p, FALSE) <=>
          \/ depth < 8 /\ width > first /\ S_COPY(p, x % 8)
          \/ depth >= 8 /\ x >= first /\ (x - first) % off < 1
    BY <1>4, Zenon DEF Copied
  <2>6. x >= first => width > first
    BY <1>1, <2>1, Offsets
  <2> HIDE DEF first, off
  <2>7. depth < 8 \/ depth >= 8
    BY <1>1
  <2> QED BY <2>1, <2>2, <2>3, <2>4, <2>5, <2>6, <2>7, Zenon DEF InRow
<1> QED BY <1>2, <1>3, <1>4

(* A block is what lies between a column of the pass and the next that is filled. *)
InBlock(x, p) ==
  \/ p \in {0, 2, 4, 6}
  \/ p = 1 /\ x % 8 >= 4
  \/ p = 3 /\ x % 4 >= 2
  \/ p = 5 /\ x % 2 = 1

LEMMA CopiedBlocks ==
  ASSUME JobOK, deinterlaces, NEW p \in Passes, NEW x \in 0 .. width - 1
  PROVE  x \in Copied(p, TRUE) <=> InBlock(x, p)
<1> DEFINE first == PNG_PASS_START_COL(p)
           off == PNG_PASS_COL_OFFSET(p)
           block == Power[(6 - p) \div 2]
<1>1. x \in Nat /\ width \in Nat /\ x < width /\ depth \in Nat
  BY Sizes, DepthIs, EachDepth
<1>2. CASE p \in {0, 2, 4, 6}
  BY <1>2, <1>1 DEF Copied, deinterlaces, InBlock
<1>3. x \in Copied(p, TRUE) <=>
          \/ p = 6 \/ p % 2 = 0
          \/ depth < 8 /\ width > first /\ B_COPY(p, x % 8)
          \/ depth >= 8 /\ x >= first /\ (x - first) % off < block
  BY Zenon DEF Copied
<1>4. depth < 8 \/ depth >= 8
  BY <1>1
<1>5. CASE p = 1
  <2>1. B_COPY(p, x % 8) <=> x % 8 >= 4
    BY <1>1, <1>5, CombineMasks
  <2>2. first = 4 /\ off = 8 /\ block = 4
    BY <1>5, Offsets, Powers
  <2>3. x % 8 >= 4 => width > 4
    BY <1>1
  <2>4. x >= 4 /\ (x - 4) % 8 < 4 <=> x % 8 >= 4
    BY <1>1
  <2>5. p # 6 /\ p % 2 # 0 /\ (InBlock(x, p) <=> x % 8 >= 4)
    BY <1>5 DEF InBlock
  <2>6. x \in Copied(p, TRUE) <=>
          \/ depth < 8 /\ width > 4 /\ B_COPY(p, x % 8)
          \/ depth >= 8 /\ x >= 4 /\ (x - 4) % 8 < 4
    <3> HIDE DEF first, off, block
    <3> QED BY <1>3, <2>2, <2>5, Zenon
  <2> QED BY <1>4, <2>1, <2>3, <2>4, <2>5, <2>6, Zenon
<1>6. CASE p = 3
  <2>1. B_COPY(p, x % 8) <=> x % 4 >= 2
    <3>1. x % 8 \in 0 .. 7 /\ (x % 8) % 4 = x % 4
      BY <1>1
    <3> QED BY <3>1, <1>6, CombineMasks
  <2>2. first = 2 /\ off = 4 /\ block = 2
    BY <1>6, Offsets, Powers
  <2>3. x % 4 >= 2 => width > 2
    BY <1>1
  <2>4. x >= 2 /\ (x - 2) % 4 < 2 <=> x % 4 >= 2
    BY <1>1
  <2>5. p # 6 /\ p % 2 # 0 /\ (InBlock(x, p) <=> x % 4 >= 2)
    BY <1>6 DEF InBlock
  <2>6. x \in Copied(p, TRUE) <=>
          \/ depth < 8 /\ width > 2 /\ B_COPY(p, x % 8)
          \/ depth >= 8 /\ x >= 2 /\ (x - 2) % 4 < 2
    <3> HIDE DEF first, off, block
    <3> QED BY <1>3, <2>2, <2>5, Zenon
  <2> QED BY <1>4, <2>1, <2>3, <2>4, <2>5, <2>6, Zenon
<1>7. CASE p = 5
  <2>1. B_COPY(p, x % 8) <=> x % 2 = 1
    <3>1. x % 8 \in 0 .. 7 /\ (x % 8) % 2 = x % 2
      BY <1>1
    <3> QED BY <3>1, <1>7, CombineMasks
  <2>2. first = 1 /\ off = 2 /\ block = 1
    BY <1>7, Offsets, Powers
  <2>3. x % 2 = 1 => width > 1
    BY <1>1
  <2>4. x >= 1 /\ (x - 1) % 2 < 1 <=> x % 2 = 1
    BY <1>1
  <2>5. p # 6 /\ p % 2 # 0 /\ (InBlock(x, p) <=> x % 2 = 1)
    BY <1>7 DEF InBlock
  <2>6. x \in Copied(p, TRUE) <=>
          \/ depth < 8 /\ width > 1 /\ B_COPY(p, x % 8)
          \/ depth >= 8 /\ x >= 1 /\ (x - 1) % 2 < 1
    <3> HIDE DEF first, off, block
    <3> QED BY <1>3, <2>2, <2>5, Zenon
  <2> QED BY <1>4, <2>1, <2>3, <2>4, <2>5, <2>6, Zenon
<1> QED BY <1>2, <1>5, <1>6, <1>7, EachPass

----------------------------------------------------------------------------
(* The pixels that the rows read so far have: `n' rows of pass p and the passes before it. *)
Got(p, n, x, z) ==
  IF ~job.interlaced THEN z < n
  ELSE \E q \in Passes : /\ ColInPass(x, q) /\ RowInPass(z, q)
                         /\ q < p \/ (q = p /\ PassHeight(z, q) < n)

RowsShow(image, p, n) ==
  /\ IsImage(image)
  /\ \A x \in 0 .. width - 1, z \in 0 .. height - 1 :
       /\ Got(p, n, x, z) => Shows(image, x, z) = Image[z][x]
       /\ ~Got(p, n, x, z) => Shows(image, x, z) = BlankPixel(x)

(* Row i of pass p is where the macros put it. *)
LEMMA RowPlace ==
  ASSUME NEW p \in Passes, NEW i \in Nat
  PROVE  LET z == PNG_ROW_FROM_PASS_ROW(i, p)
         IN  RowInPass(z, p) /\ PassHeight(z, p) = i
<1> DEFINE a == png_pass_yinc[p]
           b == png_pass_ystart[p]
           z == PNG_ROW_FROM_PASS_ROW(i, p)
<1>1. z = i * a + b
  BY MacrosMatchTables DEF PNG_ROW_FROM_PASS_ROW
<1>2. a \in {2, 4, 8} /\ b \in 0 .. a - 1
  BY EachPass, Rows
<1> HIDE DEF a, b, z
<1>3. z >= b /\ (z - b) % a = 0 /\ (z + a - 1 - b) \div a = i
  <2>1. CASE a = 2
    BY <1>1, <1>2, <2>1
  <2>2. CASE a = 4
    BY <1>1, <1>2, <2>2
  <2>3. CASE a = 8
    BY <1>1, <1>2, <2>3
  <2> QED BY <1>2, <2>1, <2>2, <2>3
<1> QED BY <1>3 DEF RowInPass, PassHeight, a, b, z

(* A row of the image that is in the pass is counted among its rows. *)
LEMMA RowIsCounted ==
  ASSUME JobOK, NEW p \in Passes, NEW x \in 0 .. width - 1, NEW z \in 0 .. height - 1,
         ColInPass(x, p), RowInPass(z, p)
  PROVE  PassWidth(width, p) > 0 /\ PassHeight(z, p) < PassHeight(height, p) /\ PassHeight(z, p) \in Nat
<1>1. width \in Nat /\ height \in Nat /\ x \in Nat /\ x < width /\ z \in Nat /\ z + 1 \in Nat /\ z + 1 <= height
  BY Sizes
<1>2. PassHeight(z + 1, p) = PassHeight(z, p) + 1
  BY <1>1, OneMoreRow
<1>3. PassHeight(z + 1, p) <= PassHeight(height, p)
  BY <1>1, Monotone
<1>4. PassHeight(z, p) \in Nat /\ PassHeight(height, p) \in Nat
  BY <1>1, PassSizes
<1>5. PassWidth(width, p) > 0
  <2>1. CASE p = 0 BY <1>1, <2>1, Columns DEF PassWidth, ColInPass
  <2>2. CASE p = 1 BY <1>1, <2>2, Columns DEF PassWidth, ColInPass
  <2>3. CASE p = 2 BY <1>1, <2>3, Columns DEF PassWidth, ColInPass
  <2>4. CASE p = 3 BY <1>1, <2>4, Columns DEF PassWidth, ColInPass
  <2>5. CASE p = 4 BY <1>1, <2>5, Columns DEF PassWidth, ColInPass
  <2>6. CASE p = 5 BY <1>1, <2>6, Columns DEF PassWidth, ColInPass
  <2>7. CASE p = 6 BY <1>1, <2>7, Columns DEF PassWidth, ColInPass
  <2> QED BY <2>1, <2>2, <2>3, <2>4, <2>5, <2>6, <2>7, EachPass
<1> QED BY <1>2, <1>3, <1>4, <1>5

LEMMA GotOneMore ==
  ASSUME JobOK, NEW p, NEW i, HasRow(p, i), NEW x \in 0 .. width - 1, NEW z \in 0 .. height - 1
  PROVE  Got(p, i + 1, x, z) <=> Got(p, i, x, z) \/ (z = ImageRow(p, i) /\ InRow(x, p))
<1>1. i \in Nat /\ p \in Passes /\ z \in Nat
  BY Sizes DEF HasRow
<1>2. CASE ~job.interlaced
  BY <1>1, <1>2 DEF Got, ImageRow, InRow
<1>3. CASE job.interlaced
  <2>1. RowInPass(z, p) => (PassHeight(z, p) < i + 1 <=> PassHeight(z, p) < i \/ z = ImageRow(p, i))
    <3>1. PassHeight(z, p) \in Nat
      BY <1>1, PassSizes
    <3>2. RowInPass(z, p) /\ PassHeight(z, p) = i => z = ImageRow(p, i)
      BY <1>1, <1>3, RowOfImage
    <3>3. z = ImageRow(p, i) => PassHeight(z, p) = i
      BY <1>1, <1>3, RowPlace, Zenon DEF ImageRow
    <3> QED BY <1>1, <3>1, <3>2, <3>3
  <2>2. z = ImageRow(p, i) => RowInPass(z, p)
    BY <1>1, <1>3, RowPlace, Zenon DEF ImageRow
  <2>3. InRow(x, p) <=> ColInPass(x, p)
    BY <1>3 DEF InRow
  <2> QED BY <1>1, <1>3, <2>1, <2>2, <2>3, Zenon DEF Got
<1> QED BY <1>2, <1>3

(* From the last row of a pass to the next, with nothing in between. *)
LEMMA GotNext ==
  ASSUME JobOK, job.interlaced, NEW p \in Passes, NEW q \in p + 1 .. 7,
         \A k \in Passes : p < k /\ k < q => PassWidth(width, k) = 0 \/ PassHeight(height, k) = 0,
         NEW x \in 0 .. width - 1, NEW z \in 0 .. height - 1
  PROVE  Got(q, 0, x, z) <=> Got(p, PassRows(p), x, z)
<1>1. p \in Nat /\ q \in Nat /\ p < q /\ z \in Nat
  BY Sizes DEF Passes
<1>2. ASSUME NEW k \in Passes, ColInPass(x, k), RowInPass(z, k)
      PROVE  (k < q \/ (k = q /\ PassHeight(z, k) < 0)) <=> (k < p \/ (k = p /\ PassHeight(z, k) < PassRows(p)))
  <2>1. PassWidth(width, k) > 0 /\ PassHeight(z, k) < PassHeight(height, k) /\ PassHeight(z, k) \in Nat
    BY <1>2, RowIsCounted
  <2>2. PassWidth(width, k) \in Nat /\ PassHeight(height, k) \in Nat
    BY Sizes, PassSizes
  <2>3. k = p => PassHeight(z, k) < PassRows(p)
    BY <2>1, <2>2 DEF PassRows
  <2>4. ~(p < k /\ k < q)
    BY <2>1, <2>2
  <2>5. k \in Nat
    BY DEF Passes
  <2> QED BY <1>1, <2>1, <2>3, <2>4, <2>5
<1> QED BY <1>2, Zenon DEF Got

LEMMA ShowsNext ==
  ASSUME JobOK, job.interlaced, NEW p \in Passes, NEW q \in p + 1 .. 7,
         \A k \in Passes : p < k /\ k < q => PassWidth(width, k) = 0 \/ PassHeight(height, k) = 0,
         NEW image, RowsShow(image, p, PassRows(p))
  PROVE  RowsShow(image, q, 0)
<1>1. ASSUME NEW x \in 0 .. width - 1, NEW z \in 0 .. height - 1
      PROVE  Got(q, 0, x, z) <=> Got(p, PassRows(p), x, z)
  BY GotNext
<1> QED BY <1>1, Zenon DEF RowsShow

(* Row z has the pixels of pass p, and all else is as it was. *)
RowPlaced(new, image, p, z) ==
  /\ IsImage(new) /\ OtherRowsSame(new, image, z)
  /\ \A x \in 0 .. width - 1 :
       /\ InRow(x, p) => Shows(new, x, z) = Image[z][x]
       /\ ~InRow(x, p) => Shows(new, x, z) = Shows(image, x, z)

LEMMA ShowsOneMore ==
  ASSUME JobOK, NEW p, NEW i, HasRow(p, i), NEW image, RowsShow(image, p, i),
         NEW new, NEW y, y = ImageRow(p, i), RowPlaced(new, image, p, y)
  PROVE  RowsShow(new, p, i + 1)
<1>1. ASSUME NEW x \in 0 .. width - 1, NEW z \in 0 .. height - 1
      PROVE  /\ Got(p, i + 1, x, z) => Shows(new, x, z) = Image[z][x]
             /\ ~Got(p, i + 1, x, z) => Shows(new, x, z) = BlankPixel(x)
  <2>1. Got(p, i + 1, x, z) <=> Got(p, i, x, z) \/ (z = y /\ InRow(x, p))
    BY GotOneMore
  <2>2. /\ Got(p, i, x, z) => Shows(image, x, z) = Image[z][x]
        /\ ~Got(p, i, x, z) => Shows(image, x, z) = BlankPixel(x)
    BY Zenon DEF RowsShow
  <2>3. z # y => Shows(new, x, z) = Shows(image, x, z)
    BY Zenon DEF RowPlaced, OtherRowsSame
  <2>4. z = y => /\ InRow(x, p) => Shows(new, x, z) = Image[z][x]
                 /\ ~InRow(x, p) => Shows(new, x, z) = Shows(image, x, z)
    BY Zenon DEF RowPlaced
  <2> QED BY <2>1, <2>2, <2>3, <2>4, Zenon
<1> QED BY <1>1, Zenon DEF RowsShow, RowPlaced

(* Columns of a pass are where the macros put them, and come from themselves. *)
LEMMA ColumnPlace ==
  ASSUME NEW p \in Passes, NEW k \in Nat
  PROVE  ColInPass(PNG_COL_FROM_PASS_COL(k, p), p)
<1> DEFINE a == png_pass_inc[p]
           b == png_pass_start[p]
           x == PNG_COL_FROM_PASS_COL(k, p)
<1>1. x = k * a + b
  BY MacrosMatchTables DEF PNG_COL_FROM_PASS_COL
<1>2. a \in {1, 2, 4, 8} /\ b \in 0 .. a - 1
  BY EachPass, Columns
<1> HIDE DEF a, b, x
<1>3. x >= b /\ (x - b) % a = 0
  <2>1. CASE a = 1
    BY <1>1, <1>2, <2>1
  <2>2. CASE a = 2
    BY <1>1, <1>2, <2>2
  <2>3. CASE a = 4
    BY <1>1, <1>2, <2>3
  <2>4. CASE a = 8
    BY <1>1, <1>2, <2>4
  <2> QED BY <1>2, <2>1, <2>2, <2>3, <2>4
<1> QED BY <1>3 DEF ColInPass, a, b, x

LEMMA ColumnIsSource ==
  ASSUME NEW p \in Passes, NEW x \in Nat, ColInPass(x, p)
  PROVE  Source(x, p) = x
<1>1. CASE p = 0 BY <1>1, Columns DEF Source, ColInPass
<1>2. CASE p = 1 BY <1>2, Columns DEF Source, ColInPass
<1>3. CASE p = 2 BY <1>3, Columns DEF Source, ColInPass
<1>4. CASE p = 3 BY <1>4, Columns DEF Source, ColInPass
<1>5. CASE p = 4 BY <1>5, Columns DEF Source, ColInPass
<1>6. CASE p = 5 BY <1>6, Columns DEF Source, ColInPass
<1>7. CASE p = 6 BY <1>7, Columns DEF Source, ColInPass
<1> QED BY <1>1, <1>2, <1>3, <1>4, <1>5, <1>6, <1>7, EachPass

(* The three ways in which a row comes into `rows'. *)

LEMMA PlacedPlain ==
  ASSUME JobOK, ~job.interlaced, NEW p, NEW i, HasRow(p, i), NEW row \in [0 .. RowLast -> Byte],
         Agree(RowLength(p) - 1, row, RawRow(p, i)), NEW image, IsImage(image),
         NEW r, r.pass = p, r.row_number = i, NEW new, new = Placed(image, r, row)
  PROVE  RowPlaced(new, image, p, ImageRow(p, i))
<1> DEFINE y == ImageRow(p, i)
           dp == image[y]
           no == FALSE
           x0 == png_combine_row(row, p, dp, no)
<1>1. y = i /\ y \in 0 .. height - 1 /\ p \in Passes
  BY PixelPlaces DEF ImageRow, HasRow
<1>2. dp \in [0 .. Longest -> Byte]
  BY <1>1 DEF IsImage
<1>3. new = WithRow(image, y, x0)
  BY <1>1, Zenon DEF Placed, WithRow
<1> HIDE DEF y, dp, no
<1>4. Merged(x0, row, dp, Copied(p, no)) /\ x0 \in [0 .. Longest -> Byte]
  <2>1. Merged(x0, row, dp, Copied(p, no))
    BY <1>2, Combined, SMT
  <2> QED BY <2>1, Zenon DEF Merged
<1> HIDE DEF x0
<1>5. /\ IsImage(new) /\ OtherRowsSame(new, image, y)
      /\ RowIs(new, y, x0)
  BY <1>1, <1>3, <1>4, RowReplaced
<1>6. ASSUME NEW x \in 0 .. width - 1
      PROVE  InRow(x, p) /\ Shows(new, x, y) = Image[y][x]
  <2>1. InRow(x, p)
    BY DEF InRow
  <2>2. x \in Copied(p, no)
    BY <1>1, <2>1, CopiedSparkle DEF no
  <2>3. x \in 0 .. RowPixels(p) - 1 /\ ImageCol(p, x) = x
    BY DEF RowPixels, ImageCol
  <2>4. PixelAt(row, x, depth) = Image[y][x]
    BY <2>3, PixelsRead DEF y
  <2> QED BY <1>4, <1>5, <2>1, <2>2, <2>4, Zenon DEF Merged, RowIs
<1> QED BY <1>5, <1>6, Zenon DEF RowPlaced, y

LEMMA PlacedByMacros ==
  ASSUME JobOK, job.interlaced, NEW p, NEW i, HasRow(p, i), NEW row \in [0 .. RowLast -> Byte],
         Agree(RowLength(p) - 1, row, RawRow(p, i)), NEW image, IsImage(image),
         NEW r, r.pass = p, r.row_number = i, r.iwidth = PassWidth(width, p),
         NEW new, new = Placed(image, r, row)
  PROVE  RowPlaced(new, image, p, ImageRow(p, i))
<1> DEFINE y == ImageRow(p, i)
           dp == image[y]
           w == PassWidth(width, p)
           d == depth
           Column(k) == PNG_COL_FROM_PASS_COL(k, p)
           places == {Column(k) : k \in 0 .. w - 1}
           Which(x) == CHOOSE k \in 0 .. w - 1 : Column(k) = x
           px == [x \in places |-> PixelAt(row, Which(x), d)]
           x0 == WithPixels(dp, px, d)
<1>1. y = PNG_ROW_FROM_PASS_ROW(i, p) /\ y \in 0 .. height - 1 /\ p \in Passes
  BY PixelPlaces DEF ImageRow, HasRow
<1>2. dp \in [0 .. Longest -> Byte]
  BY <1>1 DEF IsImage
<1>3. new = WithRow(image, y, x0)
  <2> DEFINE Way(n, q, v) ==
        [image EXCEPT ![PNG_ROW_FROM_PASS_ROW(n, q)] =
          LET spots == {PNG_COL_FROM_PASS_COL(x, q) : x \in 0 .. v - 1}
          IN  WithPixels(@, [k \in spots |->
                PixelAt(row, CHOOSE x \in 0 .. v - 1 : PNG_COL_FROM_PASS_COL(x, q) = k, depth)], depth)]
  <2>1. new = Way(r.row_number, r.pass, r.iwidth)
    BY Zenon DEF Placed
  <2>2. Way(i, p, w) = [image EXCEPT ![PNG_ROW_FROM_PASS_ROW(i, p)] =
                          WithPixels(image[PNG_ROW_FROM_PASS_ROW(i, p)], px, d)]
    BY Zenon
  <2>3. Way(i, p, w) = WithRow(image, y, x0)
    <3> HIDE DEF Way, px
    <3> QED BY <1>1, <2>2, Zenon DEF WithRow
  <2>4. w = r.iwidth
    OBVIOUS
  <2> HIDE DEF Way, x0, w
  <2> QED BY <2>1, <2>3, <2>4, Zenon
<1>4. w \in Nat /\ width \in Nat /\ d \in Depths /\ Longest \in Nat
  BY <1>1, Sizes, PassSizes, DepthIs, RowLastIs
<1>5. ASSUME NEW k \in 0 .. w - 1
      PROVE  /\ Column(k) \in 0 .. width - 1 /\ Column(k) \in Nat
             /\ PixelAt(row, k, d) = Image[y][Column(k)] /\ PixelAt(row, k, d) \in Pixels(d)
  <2>1. k \in 0 .. RowPixels(p) - 1 /\ ImageCol(p, k) = Column(k)
    BY DEF RowPixels, ImageCol
  <2>2. ImageCol(p, k) \in 0 .. width - 1
    BY <2>1, PixelPlaces
  <2>3. PixelAt(row, k, depth) = Image[y][ImageCol(p, k)]
    BY <2>1, PixelsRead
  <2>4. Image[y][ImageCol(p, k)] \in Pixels(depth)
    BY <1>1, <2>2, ImagePixel
  <2>5. Column(k) \in Nat
    BY <2>1, <2>2, <1>4
  <2> QED BY <2>1, <2>2, <2>3, <2>4, <2>5, Zenon
<1>6. ASSUME NEW x \in places
      PROVE  /\ x \in 0 .. width - 1 /\ x \in Nat
             /\ PixelAt(row, Which(x), d) = Image[y][x] /\ PixelAt(row, Which(x), d) \in Pixels(d)
  <2>1. \E k \in 0 .. w - 1 : Column(k) = x
    BY Zenon
  <2>2. Which(x) \in 0 .. w - 1 /\ Column(Which(x)) = x
    <3> HIDE DEF w, Column
    <3> QED BY <2>1, Zenon
  <2> HIDE DEF w, Column, Which, y, d
  <2> QED BY <1>5, <2>2, Zenon
<1>7. ASSUME NEW x \in 0 .. width - 1
      PROVE  x \in places <=> InRow(x, p)
  <2>1. x \in places <=> \E k \in 0 .. w - 1 : Column(k) = x
    BY Zenon
  <2>2. ColInPass(x, p) => \E k \in 0 .. w - 1 : Column(k) = x
    <3> SUFFICES ASSUME ColInPass(x, p) PROVE \E k \in 0 .. w - 1 : Column(k) = x
      OBVIOUS
    <3>1. x \in Nat /\ x < width
      BY <1>4
    <3>2. Source(x, p) = x
      BY <1>1, <3>1, ColumnIsSource
    <3>3. x \div png_pass_inc[p] \in 0 .. w - 1 /\ Column(x \div png_pass_inc[p]) = x
      BY <1>1, <3>1, <3>2, SourceIs, Zenon
    <3> QED BY <3>3, Zenon
  <2>3. ASSUME NEW k \in 0 .. w - 1, Column(k) = x
        PROVE  ColInPass(x, p)
    <3>1. k \in Nat
      BY <1>4
    <3>2. ColInPass(Column(k), p)
      BY <1>1, <3>1, ColumnPlace, Zenon
    <3> QED BY <2>3, <3>2
  <2> QED BY <2>1, <2>2, <2>3, Zenon DEF InRow
<1> HIDE DEF y, dp, w, d, Column, places, Which
<1>8. DOMAIN px = places /\ \A x \in places : px[x] = PixelAt(row, Which(x), d)
  BY Zenon
<1> HIDE DEF px
<1>9. ArePixels(px, d)
  BY <1>6, <1>8, Zenon DEF ArePixels
<1>10. /\ x0 \in [0 .. Longest -> Byte]
       /\ \A x \in Nat : PNG_ROWBYTES(d, x + 1) <= Longest => PixelAt(x0, x, d) = NewPixel(dp, px, x, d)
  BY <1>2, <1>4, <1>9, PixelWritten, SMT
<1> HIDE DEF x0
<1>11. /\ IsImage(new) /\ OtherRowsSame(new, image, y)
       /\ RowIs(new, y, x0)
  BY <1>1, <1>3, <1>10, RowReplaced
<1>12. ASSUME NEW x \in 0 .. width - 1
       PROVE  /\ InRow(x, p) => Shows(new, x, y) = Image[y][x]
              /\ ~InRow(x, p) => Shows(new, x, y) = Shows(image, x, y)
  <2>1. x \in Nat /\ PNG_ROWBYTES(depth, x + 1) <= Longest
    BY <1>4, PixelFits
  <2>2. Shows(new, x, y) = NewPixel(dp, px, x, d)
    BY <1>10, <1>11, <2>1, Zenon DEF d, RowIs
  <2>3. x \in places => NewPixel(dp, px, x, d) = px[x]
    BY <1>8, Zenon DEF NewPixel
  <2>4. x \notin places => NewPixel(dp, px, x, d) = PixelAt(dp, x, d)
    BY <1>8, Zenon DEF NewPixel
  <2>5. PixelAt(dp, x, d) = Shows(image, x, y)
    BY Zenon DEF Shows, dp, d
  <2> QED BY <1>6, <1>7, <1>8, <2>2, <2>3, <2>4, <2>5, Zenon
<1> QED BY <1>11, <1>12, Zenon DEF RowPlaced, y

LEMMA PlacedByCombine ==
  ASSUME JobOK, deinterlaces, NEW p \in Passes, NEW y \in 0 .. height - 1, NEW row \in [0 .. RowLast -> Byte],
         Expanded(row, p, y), NEW image, IsImage(image), NEW dp, dp = image[y],
         NEW x0, x0 = png_combine_row(row, p, dp, FALSE), NEW new, new = WithRow(image, y, x0)
  PROVE  RowPlaced(new, image, p, y)
<1> DEFINE no == FALSE
<1>1. dp \in [0 .. Longest -> Byte] /\ x0 = png_combine_row(row, p, dp, no)
  BY DEF IsImage
<1> HIDE DEF no
<1>2. Merged(x0, row, dp, Copied(p, no)) /\ x0 \in [0 .. Longest -> Byte]
  <2>1. Merged(x0, row, dp, Copied(p, no))
    BY <1>1, Combined, Zenon
  <2> QED BY <2>1, Zenon DEF Merged
<1>3. /\ IsImage(new) /\ OtherRowsSame(new, image, y)
      /\ RowIs(new, y, x0)
  BY <1>2, RowReplaced, Zenon
<1>4. ASSUME NEW x \in 0 .. width - 1
      PROVE  /\ InRow(x, p) => Shows(new, x, y) = Image[y][x]
             /\ ~InRow(x, p) => Shows(new, x, y) = Shows(image, x, y)
  <2>1. x \in Copied(p, no) <=> InRow(x, p)
    BY CopiedSparkle DEF no
  <2>2. InRow(x, p) => PixelAt(row, x, depth) = Image[y][x]
    <3> SUFFICES ASSUME InRow(x, p) PROVE PixelAt(row, x, depth) = Image[y][x]
      OBVIOUS
    <3>1. x \in Nat /\ x < width
      BY Sizes
    <3>2. ColInPass(x, p)
      BY DEF InRow, deinterlaces
    <3>3. Source(x, p) = x
      BY <3>1, <3>2, ColumnIsSource
    <3> QED BY <3>1, <3>3, Zenon DEF Expanded
  <2>3. PixelAt(dp, x, depth) = Shows(image, x, y)
    BY Zenon DEF Shows
  <2> QED BY <1>2, <1>3, <2>1, <2>2, <2>3, Zenon DEF Merged, RowIs
<1> QED BY <1>3, <1>4, Zenon DEF RowPlaced

(* The reader's place and what `rows' shows. *)
RowsAt(image, r) ==
  RowsShow(image, r.pass, IF r.pass = 7 THEN 0 ELSE RowsAmong(job.readHandling, r.row_number, r.pass))

LEMMA FinishShows ==
  ASSUME JobOK, NEW r, Ahead(r), NEW image,
         RowsShow(image, r.pass, RowsAmong(job.readHandling, r.row_number + 1, r.pass))
  PROVE  RowsAt(image, png_read_finish_row(r))
<1> DEFINE h == job.readHandling
           next == png_read_finish_row(r)
<1>1. h \in BOOLEAN /\ IsReader(r) /\ r.pass \in Passes /\ r.pass # 7 /\ r.row_number \in Nat
      /\ r.num_rows \in Nat
      /\ At(h, r.pass, r.row_number, r.num_rows) /\ r.row_number < r.num_rows
  BY Sizes DEF Ahead, Standing, IsReader, Passes
<1>2. CASE r.row_number + 1 < r.num_rows \/ ~job.interlaced
  <2>1. next = [r EXCEPT !.row_number = @ + 1]
    BY <1>2 DEF png_read_finish_row
  <2>2. next.row_number = r.row_number + 1 /\ next.pass = r.pass
    BY <1>1, <2>1 DEF IsReader
  <2> HIDE DEF next
  <2> QED BY <1>1, <2>2, Zenon DEF RowsAt, next
<1>3. CASE ~(r.row_number + 1 < r.num_rows \/ ~job.interlaced)
  <2> DEFINE q == IF h THEN r.pass + 1 ELSE NextPass(r.pass)
  <2>1. r.row_number + 1 = r.num_rows /\ job.interlaced
    BY <1>1, <1>3, Sizes
  <2>2. /\ q \in r.pass + 1 .. 7
        /\ \A k \in Passes : r.pass < k /\ k < q
             => PassWidth(width, k) = 0 \/ PassHeight(height, k) = 0
    BY <1>1, NextPassIs DEF Passes
  <2>3. next = AtPass(r, q)
    BY <1>3 DEF png_read_finish_row
  <2> HIDE DEF q, next
  <2>4. next.row_number = 0 /\ next.pass = q
    <3>1. AtPass(r, q).row_number = 0 /\ AtPass(r, q).pass = q
      BY <1>1 DEF AtPass, IsReader
    <3> QED BY <2>3, <3>1
  <2>5. RowsAmong(h, r.num_rows, r.pass) = PassRows(r.pass)
    BY <1>1, CountAll
  <2>6. RowsShow(image, r.pass, PassRows(r.pass))
    BY <2>1, <2>5
  <2>7. RowsShow(image, q, 0)
    BY <1>1, <2>1, <2>2, <2>6, ShowsNext
  <2>8. q # 7 => RowsAmong(h, 0, q) = 0
    <3>1. q # 7 => q \in Passes
      BY <1>1, <2>2 DEF Passes
    <3> QED BY <3>1, NoRowsYet DEF RowsAmong
  <2> HIDE DEF h
  <2>9. (IF q = 7 THEN 0 ELSE RowsAmong(h, 0, q)) = 0
    BY <2>8
  <2> QED BY <2>4, <2>7, <2>9 DEF RowsAt, next, h
<1> QED BY <1>2, <1>3

(* One more row of the pass. *)
LEMMA RowsGrow ==
  ASSUME JobOK, NEW r, Reading(r), r.pass # 7, r.row_number < r.num_rows,
         NEW p, p = r.pass, NEW y, y = r.row_number, ~Skipped(job.readHandling, p, y),
         NEW i, i = RowsAmong(job.readHandling, y, p), HasRow(p, i),
         NEW row \in [0 .. RowLast -> Byte], Agree(RowLength(p) - 1, row, RawRow(p, i)),
         NEW x \in [0 .. RowLast -> Byte], deinterlaces => Expanded(x, p, ImageRow(p, i)),
         ~deinterlaces => x = row,
         NEW image, RowsShow(image, p, i), NEW dp, dp = image[y], NEW x0, x0 = png_combine_row(x, p, dp, FALSE),
         NEW new, deinterlaces => new = WithRow(image, y, x0), ~deinterlaces => new = Placed(image, r, x)
  PROVE  RowsShow(new, p, RowsAmong(job.readHandling, y + 1, p))
<1>1. /\ job.readHandling \in BOOLEAN /\ job.interlaced \in BOOLEAN /\ p \in Passes /\ y \in Nat /\ IsImage(image)
      /\ y < r.num_rows /\ r.num_rows \in Nat /\ height \in Nat
      /\ At(job.readHandling, p, y, r.num_rows)
      /\ r.iwidth = (IF job.interlaced THEN PassWidth(width, p) ELSE width)
  BY Sizes DEF Reading, Standing, IsReader, Passes, RowsShow
<1>2. RowsAmong(job.readHandling, y + 1, p) = i + 1
  BY <1>1, CountOne
<1>3. RowPlaced(new, image, p, ImageRow(p, i))
  <2>1. CASE deinterlaces
    <3>1. job.interlaced /\ job.readHandling /\ y \in 0 .. height - 1
      BY <1>1, <2>1 DEF deinterlaces, At, Passes
    <3>2. ImageRow(p, i) = y
      BY <1>1, <3>1, RowHandled
    <3>3. Expanded(x, p, y)
      BY <2>1, <3>2
    <3> QED BY <1>1, <2>1, <3>1, <3>2, <3>3, PlacedByCombine
  <2>2. CASE ~deinterlaces
    <3>1. i = y
      BY <2>2 DEF RowsAmong, deinterlaces
    <3>2. CASE job.interlaced
      BY <1>1, <2>2, <3>1, <3>2, PlacedByMacros
    <3>3. CASE ~job.interlaced
      BY <1>1, <2>2, <3>1, <3>3, PlacedPlain
    <3> QED BY <3>2, <3>3
  <2> QED BY <2>1, <2>2
<1>4. RowsShow(new, p, i + 1)
  BY <1>3, ShowsOneMore
<1> QED BY <1>2, <1>4

----------------------------------------------------------------------------
(* The display: after L passes, blocks of BlockWidth(L) by BlockHeight(L). *)

BlockWidth(L) == <<8, 4, 4, 2, 2, 1, 1>>[L]
BlockHeight(L) == <<8, 8, 4, 4, 2, 2, 1>>[L]

RowBlocky(image, z, L) ==
  L > 0 => \A x \in 0 .. width - 1 :
             Shows(image, x, z) = Image[z - (z % BlockHeight(L))][x - (x % BlockWidth(L))]

(* The reader is at row y of pass p: the rows above show the blocks of this pass, the
   others those of the pass before. *)
DisplayAt(image, p, y) ==
  \A z \in 0 .. height - 1 : /\ z < y => RowBlocky(image, z, p + 1)
                             /\ z >= y => RowBlocky(image, z, p)

(* Row b of pass p stands for row z. *)
Covers(p, b, z) == ~SkipsRow(b, width, p) /\ z >= b /\ z < b + BlockHeight(p + 1)

(* Where a pixel that is copied comes from. *)
LEMMA SourceOfBlock ==
  ASSUME NEW p \in Passes, NEW x \in Nat, InBlock(x, p)
  PROVE  Source(x, p) = x - (x % BlockWidth(p + 1)) /\ Source(x, p) \in Nat /\ Source(x, p) <= x
<1> USE DEF Source, InBlock, BlockWidth
<1>1. CASE p = 0 BY <1>1, Columns
<1>2. CASE p = 1 BY <1>2, Columns
<1>3. CASE p = 2 BY <1>3, Columns
<1>4. CASE p = 3 BY <1>4, Columns
<1>5. CASE p = 4 BY <1>5, Columns
<1>6. CASE p = 5 BY <1>6, Columns
<1>7. CASE p = 6 BY <1>7, Columns
<1> QED BY <1>1, <1>2, <1>3, <1>4, <1>5, <1>6, <1>7, EachPass

LEMMA RowOfBlock ==
  ASSUME NEW p \in Passes, NEW b \in Nat, NEW z \in Nat, Covers(p, b, z)
  PROVE  z - (z % BlockHeight(p + 1)) = b
<1> USE DEF Covers, SkipsRow, BlockHeight
<1>1. CASE p = 0 BY <1>1
<1>2. CASE p = 1 BY <1>2
<1>3. CASE p = 2 BY <1>3
<1>4. CASE p = 3 BY <1>4
<1>5. CASE p = 4 BY <1>5
<1>6. CASE p = 5 BY <1>6
<1>7. CASE p = 6 BY <1>7
<1> QED BY <1>1, <1>2, <1>3, <1>4, <1>5, <1>6, <1>7, EachPass

(* A pixel that is not copied already has the colour of its smaller block. *)
LEMMA SameBlock ==
  ASSUME NEW p \in Passes, NEW x \in Nat, NEW z \in Nat, ~InBlock(x, p)
  PROVE  p > 0 /\ p \in Nat /\ z % BlockHeight(p) = z % BlockHeight(p + 1)
         /\ x % BlockWidth(p) = x % BlockWidth(p + 1)
<1> USE DEF InBlock, BlockWidth, BlockHeight
<1>1. CASE p = 1
  <2>1. x % 8 < 4
    BY <1>1
  <2> QED BY <1>1, <2>1
<1>2. CASE p = 3
  <2>1. x % 4 < 2
    BY <1>2
  <2> QED BY <1>2, <2>1
<1>3. CASE p = 5
  <2>1. x % 2 = 0
    BY <1>3
  <2> QED BY <1>3, <2>1
<1> QED BY <1>1, <1>2, <1>3, EachPass

(* In a pass without columns no pixel is copied. *)
LEMMA NothingCopied ==
  ASSUME JobOK, NEW p \in Passes, PassWidth(width, p) = 0, NEW x \in 0 .. width - 1
  PROVE  ~InBlock(x, p)
<1>1. width \in Nat /\ width > 0 /\ x \in Nat /\ x < width
  BY Sizes
<1> USE DEF InBlock, PassWidth
<1>2. CASE p = 0 BY <1>1, <1>2, Columns
<1>3. CASE p = 1 BY <1>1, <1>3, Columns
<1>4. CASE p = 2 BY <1>1, <1>4, Columns
<1>5. CASE p = 3 BY <1>1, <1>5, Columns
<1>6. CASE p = 4 BY <1>1, <1>6, Columns
<1>7. CASE p = 5 BY <1>1, <1>7, Columns
<1>8. CASE p = 6 BY <1>1, <1>8, Columns
<1> QED BY <1>2, <1>3, <1>4, <1>5, <1>6, <1>7, <1>8, EachPass

(* Nor is one of a row that no block covers. *)
LEMMA SameRowBlock ==
  ASSUME JobOK, NEW p \in Passes, PassWidth(width, p) # 0, NEW z \in Nat, \A b \in Nat : ~Covers(p, b, z)
  PROVE  p > 0 /\ p \in Nat /\ z % BlockHeight(p) = z % BlockHeight(p + 1)
         /\ BlockWidth(p) = BlockWidth(p + 1)
<1>1. width \in Nat /\ width > 0
  BY Sizes
<1> DEFINE n == BlockHeight(p + 1)
           b == z - (z % n)
<1>2. n \in 1 .. 8
  BY EachPass DEF BlockHeight
<1>3. b \in Nat /\ z >= b /\ z < b + n
  BY <1>2
<1>4. SkipsRow(b, width, p)
  BY <1>3 DEF Covers
<1> HIDE DEF b, n
<1>5. RowInPass(b, p) => FALSE
  BY <1>1, <1>3, <1>4, SkippedRows
<1> USE DEF RowInPass, BlockHeight, BlockWidth, b, n
<1>6. CASE p = 0 BY <1>5, <1>6, Rows
<1>7. CASE p = 1 BY <1>5, <1>7, Rows
<1>8. CASE p = 2
  <2>1. z % 8 < 4
    BY <1>5, <1>8, Rows
  <2> QED BY <1>8, <2>1
<1>9. CASE p = 3 BY <1>5, <1>9, Rows
<1>10. CASE p = 4
  <2>1. z % 4 < 2
    BY <1>5, <1>10, Rows
  <2> QED BY <1>10, <2>1
<1>11. CASE p = 5 BY <1>5, <1>11, Rows
<1>12. CASE p = 6
  <2>1. z % 2 = 0
    BY <1>5, <1>12, Rows
  <2> QED BY <1>12, <2>1
<1> QED BY <1>6, <1>7, <1>8, <1>9, <1>10, <1>11, <1>12, EachPass

(* What the row in the buffer must be for row z to be shown, and when it is not shown. *)
Due(p, z, held, show) ==
  PassWidth(width, p) # 0 =>
    /\ show => \E b \in Nat : Covers(p, b, z) /\ Expanded(held, p, b)
    /\ ~show => \A b \in Nat : ~Covers(p, b, z)

LEMMA RowDrawn ==
  ASSUME JobOK, deinterlaces, NEW p \in Passes, NEW z \in 0 .. height - 1, NEW held \in [0 .. RowLast -> Byte],
         Due(p, z, held, TRUE), NEW image, IsImage(image), RowBlocky(image, z, p),
         NEW dp, dp = image[z], NEW x0, x0 = png_combine_row(held, p, dp, TRUE), NEW new, new = WithRow(image, z, x0)
  PROVE  IsImage(new) /\ OtherRowsSame(new, image, z) /\ RowBlocky(new, z, p + 1)
<1> DEFINE show == TRUE
<1>1. dp \in [0 .. Longest -> Byte] /\ x0 = png_combine_row(held, p, dp, show) /\ z \in Nat
  BY Sizes DEF IsImage
<1> HIDE DEF show
<1>2. Merged(x0, held, dp, Copied(p, show)) /\ x0 \in [0 .. Longest -> Byte]
  <2>1. Merged(x0, held, dp, Copied(p, show))
    BY <1>1, Combined, Zenon
  <2> QED BY <2>1, Zenon DEF Merged
<1>3. IsImage(new) /\ OtherRowsSame(new, image, z) /\ RowIs(new, z, x0)
  BY <1>2, RowReplaced, Zenon
<1>4. ASSUME NEW x \in 0 .. width - 1
      PROVE  Shows(new, x, z) = Image[z - (z % BlockHeight(p + 1))][x - (x % BlockWidth(p + 1))]
  <2>1. x \in Nat /\ x < width /\ width \in Nat
    BY Sizes
  <2>2. x \in Copied(p, show) <=> InBlock(x, p)
    BY CopiedBlocks DEF show
  <2>3. CASE InBlock(x, p)
    <3>1. PassWidth(width, p) # 0
      BY <2>3, NothingCopied
    <3>2. PICK b \in Nat : Covers(p, b, z) /\ Expanded(held, p, b)
      BY <3>1, Zenon DEF Due
    <3>3. Source(x, p) = x - (x % BlockWidth(p + 1)) /\ Source(x, p) < width
      <4>1. Source(x, p) = x - (x % BlockWidth(p + 1)) /\ Source(x, p) \in Nat /\ Source(x, p) <= x
        BY <2>1, <2>3, SourceOfBlock, Zenon
      <4> DEFINE sx == Source(x, p)
      <4>2. sx \in Nat /\ sx <= x
        BY <4>1
      <4> HIDE DEF sx
      <4>3. sx < width
        BY <2>1, <4>2
      <4> QED BY <4>1, <4>3 DEF sx
    <3>4. z - (z % BlockHeight(p + 1)) = b
      BY <1>1, <3>2, RowOfBlock, Zenon
    <3>5. PixelAt(held, x, depth) = Image[b][Source(x, p)]
      BY <3>2, <3>3, Zenon DEF Expanded
    <3>6. Shows(new, x, z) = PixelAt(held, x, depth)
      BY <1>2, <1>3, <2>2, <2>3, Zenon DEF Merged, RowIs
    <3> QED BY <3>3, <3>4, <3>5, <3>6, Zenon
  <2>4. CASE ~InBlock(x, p)
    <3>1. p > 0 /\ z % BlockHeight(p) = z % BlockHeight(p + 1) /\ x % BlockWidth(p) = x % BlockWidth(p + 1)
      BY <1>1, <2>1, <2>4, SameBlock, Zenon
    <3>2. Shows(new, x, z) = PixelAt(dp, x, depth)
      BY <1>2, <1>3, <2>2, <2>4, Zenon DEF Merged, RowIs
    <3>3. PixelAt(dp, x, depth) = Shows(image, x, z)
      BY Zenon DEF Shows
    <3>4. Shows(image, x, z) = Image[z - (z % BlockHeight(p))][x - (x % BlockWidth(p))]
      BY <3>1, Zenon DEF RowBlocky
    <3> QED BY <3>1, <3>2, <3>3, <3>4, Zenon
  <2> QED BY <2>3, <2>4
<1> QED BY <1>3, <1>4, Zenon DEF RowBlocky

LEMMA RowKept ==
  ASSUME JobOK, NEW p \in Passes, NEW z \in 0 .. height - 1, NEW held, Due(p, z, held, FALSE),
         NEW image, RowBlocky(image, z, p)
  PROVE  RowBlocky(image, z, p + 1)
<1>1. z \in Nat
  BY Sizes
<1>2. ASSUME NEW x \in 0 .. width - 1
      PROVE  p > 0 /\ z % BlockHeight(p) = z % BlockHeight(p + 1) /\ x % BlockWidth(p) = x % BlockWidth(p + 1)
  <2>1. x \in Nat
    BY Sizes
  <2>2. CASE PassWidth(width, p) = 0
    <3>1. ~InBlock(x, p)
      BY <2>2, NothingCopied
    <3> QED BY <1>1, <2>1, <3>1, SameBlock, Zenon
  <2>3. CASE PassWidth(width, p) # 0
    <3>1. \A b \in Nat : ~Covers(p, b, z)
      BY <2>3, Zenon DEF Due
    <3> QED BY <1>1, <2>3, <3>1, SameRowBlock, Zenon
  <2> QED BY <2>2, <2>3
<1>3. ASSUME NEW x \in 0 .. width - 1
      PROVE  Shows(image, x, z) = Image[z - (z % BlockHeight(p + 1))][x - (x % BlockWidth(p + 1))]
  <2>1. p > 0 /\ z % BlockHeight(p) = z % BlockHeight(p + 1) /\ x % BlockWidth(p) = x % BlockWidth(p + 1)
    BY <1>2
  <2>2. Shows(image, x, z) = Image[z - (z % BlockHeight(p))][x - (x % BlockWidth(p))]
    BY <2>1, Zenon DEF RowBlocky
  <2> QED BY <2>1, <2>2, Zenon
<1> QED BY <1>3, Zenon DEF RowBlocky

(* Row y is shown, or passed over. *)
LEMMA DisplayGrows ==
  ASSUME JobOK, deinterlaces, NEW p \in Passes, NEW y \in 0 .. height - 1, NEW held \in [0 .. RowLast -> Byte],
         NEW show \in BOOLEAN, Due(p, y, held, show), NEW image, IsImage(image), DisplayAt(image, p, y),
         NEW dp, dp = image[y], NEW x0, x0 = png_combine_row(held, p, dp, TRUE),
         NEW new, show => new = WithRow(image, y, x0), ~show => new = image
  PROVE  IsImage(new) /\ DisplayAt(new, p, y + 1)
<1>1. y \in Nat /\ height \in Nat /\ y >= y
  BY Sizes
<1>2. RowBlocky(image, y, p)
  BY <1>1, Zenon DEF DisplayAt
<1>3. IsImage(new) /\ OtherRowsSame(new, image, y) /\ RowBlocky(new, y, p + 1)
  <2>1. CASE show
    <3>1. Due(p, y, held, TRUE) /\ new = WithRow(image, y, x0)
      BY <2>1 DEF Due
    <3> QED BY <1>2, <3>1, RowDrawn, Zenon
  <2>2. CASE ~show
    <3>1. Due(p, y, held, FALSE) /\ new = image
      BY <2>2 DEF Due
    <3>2. RowBlocky(image, y, p + 1)
      BY <1>2, <3>1, RowKept, Zenon
    <3>3. OtherRowsSame(image, image, y)
      BY Zenon DEF OtherRowsSame
    <3> QED BY <3>1, <3>2, <3>3
  <2> QED BY <2>1, <2>2
<1>4. ASSUME NEW z \in 0 .. height - 1, z # y, NEW L, RowBlocky(image, z, L)
      PROVE  RowBlocky(new, z, L)
  BY <1>3, <1>4, Zenon DEF RowBlocky, OtherRowsSame
<1>5. ASSUME NEW z \in 0 .. height - 1
      PROVE  (z < y + 1 => RowBlocky(new, z, p + 1)) /\ (z >= y + 1 => RowBlocky(new, z, p))
  <2>1. z \in Nat /\ (z # y => ((z < y + 1 => z < y) /\ (z >= y + 1 => z >= y))) /\ ~(y >= y + 1)
    BY <1>1
  <2>2. (z < y => RowBlocky(image, z, p + 1)) /\ (z >= y => RowBlocky(image, z, p))
    BY Zenon DEF DisplayAt
  <2> QED BY <1>3, <1>4, <2>1, <2>2, Zenon
<1> QED BY <1>3, <1>5, Zenon DEF DisplayAt

(* After its last row the display is that of the pass. *)
LEMMA PassShown ==
  ASSUME JobOK, NEW p \in 0 .. 7, NEW image, DisplayAt(image, p, height)
  PROVE  DisplayAt(image, p + 1, 0)
<1>1. \A z \in 0 .. height - 1 : z < height /\ ~(z < 0) /\ height \in Nat
  BY Sizes
<1> QED BY <1>1, Zenon DEF DisplayAt

(* A pass without columns shows nothing new. *)
LEMMA EmptyPass ==
  ASSUME JobOK, NEW p \in Passes, PassWidth(width, p) = 0, NEW image, DisplayAt(image, p, 0)
  PROVE  DisplayAt(image, p + 1, 0)
<1>1. \A z \in 0 .. height - 1 : z >= 0 /\ ~(z < 0)
  BY Sizes
<1>2. ASSUME NEW z \in 0 .. height - 1
      PROVE  RowBlocky(image, z, p + 1)
  <2> DEFINE held == 0
  <2>1. Due(p, z, held, FALSE)
    BY DEF Due
  <2>2. RowBlocky(image, z, p)
    BY <1>1, Zenon DEF DisplayAt
  <2> HIDE DEF held
  <2> QED BY <2>1, <2>2, RowKept, Zenon
<1> QED BY <1>1, <1>2, Zenon DEF DisplayAt

(* The pass that the progressive reader comes to. *)
LEMMA NextPassShown ==
  ASSUME JobOK, NEW p \in Passes, NEW image, DisplayAt(image, p, height)
  PROVE  DisplayAt(image, NextPushPass(p), 0) /\ DisplayAt(image, p + 1, 0)
<1>1. width \in Nat /\ p \in 0 .. 7
  BY Sizes DEF Passes
<1>2. DisplayAt(image, p + 1, 0)
  BY <1>1, PassShown
<1>3. CASE NextPushPass(p) = p + 1
  BY <1>2, <1>3
<1>4. CASE NextPushPass(p) # p + 1
  <2>1. NextPushPass(p) = (p + 1) + 1 /\ p + 1 \in Passes /\ PassWidth(width, p + 1) = 0
    <3>1. \/ p = 0 /\ width < 5
          \/ p = 2 /\ width < 3
          \/ p = 4 /\ width < 2
      BY <1>4 DEF NextPushPass
    <3>2. CASE p = 0 /\ width < 5
      BY <1>1, <3>2, Columns DEF NextPushPass, Passes, PassWidth
    <3>3. CASE p = 2 /\ width < 3
      BY <1>1, <3>3, Columns DEF NextPushPass, Passes, PassWidth
    <3>4. CASE p = 4 /\ width < 2
      BY <1>1, <3>4, Columns DEF NextPushPass, Passes, PassWidth
    <3> QED BY <3>1, <3>2, <3>3, <3>4
  <2> DEFINE q == p + 1
  <2>2. NextPushPass(p) = q + 1 /\ q \in Passes /\ PassWidth(width, q) = 0 /\ DisplayAt(image, q, 0)
    BY <1>2, <2>1
  <2> HIDE DEF q
  <2>3. DisplayAt(image, q + 1, 0)
    BY <2>2, EmptyPass
  <2> QED BY <1>2, <2>2, <2>3
<1> QED BY <1>3, <1>4

----------------------------------------------------------------------------
(* The progressive reader's display: `t' is the struct, the image and the calls. *)

Drawing(t) ==
  IsImage(t.image) /\ DisplayAt(t.image, t.r.pass, t.r.row_number) /\ RowBuffers(t.r)

Drawn(t) == Drawing(t) /\ HasAbove(t.r, t.r.row_number)

(* One row, shown or passed over. *)
LEMMA DrawOne ==
  ASSUME JobOK, deinterlaces, NEW t, Ahead(t.r), Drawing(t), HasAbove(t.r, t.r.row_number + 1),
         NEW show \in BOOLEAN, Due(t.r.pass, t.r.row_number, t.r.row_buf, show)
  PROVE  LET u == png_push_have_row(t, show)
         IN  Drawn(u) /\ u.r.row_buf = t.r.row_buf
<1> DEFINE r == t.r
           p == r.pass
           y == r.row_number
           held == r.row_buf
           u == png_push_have_row(t, show)
           dp == t.image[y]
           x0 == png_combine_row(held, p, dp, TRUE)
<1>1. /\ p \in Passes /\ p # 7 /\ y \in Nat /\ height \in Nat /\ y < height /\ IsReader(r)
      /\ y \in 0 .. height - 1
  BY Sizes DEF Ahead, Standing, IsReader, Passes, At, deinterlaces
<1>2. u.r = png_read_push_finish_row(r)
  BY DEF png_push_have_row
<1>3. (show => u.image = WithRow(t.image, y, x0)) /\ (~show => u.image = t.image)
  BY Zenon DEF png_push_have_row, WithRow
<1>4. /\ IsImage(t.image) /\ DisplayAt(t.image, p, y) /\ RowBuffers(r) /\ HasAbove(r, y + 1)
      /\ held \in [0 .. RowLast -> Byte] /\ Due(p, y, held, show) /\ Ahead(r)
  BY Zenon DEF Drawing, RowBuffers
<1> HIDE DEF u, r
<1>5. IsImage(u.image) /\ DisplayAt(u.image, p, y + 1)
  <2> DEFINE new == u.image
             image == t.image
  <2>1. dp = image[y] /\ x0 = png_combine_row(held, p, dp, TRUE)
        /\ (show => new = WithRow(image, y, x0)) /\ (~show => new = image)
        /\ IsImage(image) /\ DisplayAt(image, p, y)
    BY <1>3, <1>4
  <2> HIDE DEF new, image, dp, x0, held, p, y
  <2>2. IsImage(new) /\ DisplayAt(new, p, y + 1)
    BY <1>1, <1>4, <2>1, DisplayGrows
  <2> QED BY <2>2 DEF new
<1>6. ReaderHolds(u.r) /\ u.r.row_buf = held
  BY <1>1, <1>2, <1>4, NextHolds
<1>7. DisplayAt(u.image, u.r.pass, u.r.row_number)
  <2>1. IF y + 1 < height THEN u.r.pass = p /\ u.r.row_number = y + 1
        ELSE u.r.pass = NextPushPass(p) /\ u.r.row_number = 0
    BY <1>2, <1>4, FinishPush
  <2>2. CASE y + 1 < height
    BY <1>5, <2>1, <2>2
  <2>3. CASE ~(y + 1 < height)
    <3>1. y + 1 = height /\ u.r.pass = NextPushPass(p) /\ u.r.row_number = 0
      BY <1>1, <2>1, <2>3
    <3>2. DisplayAt(u.image, p, height)
      BY <1>5, <3>1
    <3>3. DisplayAt(u.image, NextPushPass(p), 0)
      BY <1>1, <3>2, NextPassShown
    <3> QED BY <3>1, <3>3
  <2> QED BY <2>2, <2>3
<1>8. Drawn(u) /\ u.r.row_buf = held
  BY <1>5, <1>6, <1>7, Zenon DEF Drawn, Drawing, ReaderHolds
<1> QED BY <1>8 DEF u, r

(* The row that is passed over has the same one above it as the next. *)
LEMMA StillAbove ==
  ASSUME JobOK, deinterlaces, NEW r, r.pass \in Passes, r.row_number \in Nat,
         SkipsRow(r.row_number, width, r.pass), HasAbove(r, r.row_number)
  PROVE  HasAbove(r, r.row_number + 1)
<1> DEFINE p == r.pass
           y == r.row_number
<1>1. job.readHandling \in BOOLEAN /\ Skipped(job.readHandling, p, y)
  BY Sizes DEF Skipped, deinterlaces
<1>2. RowsAmong(job.readHandling, y + 1, p) = RowsAmong(job.readHandling, y, p)
  BY <1>1, CountOne
<1> QED BY <1>2, Zenon DEF HasAbove

LEMMA HopsDrawn ==
  ASSUME JobOK, deinterlaces, NEW s, Ahead(s.r), Drawing(s), HasAbove(s.r, s.r.row_number + 1),
         NEW n \in Nat \ {0}, NEW p, p = s.r.pass, NEW y, y = s.r.row_number,
         NEW show \in BOOLEAN, \A i \in 1 .. n - 1 : SkipsRow(y + i, width, p),
         NEW held, held = s.r.row_buf, \A i \in 0 .. n - 1 : y + i < height => Due(p, y + i, held, show)
  PROVE  Drawn(Repeat(s, n, p, show))
<1>1. PICK after : /\ Repeat(s, n, p, show) = after[n] /\ after[0] = s
                   /\ \A i \in 0 .. n - 1 : after[i + 1] = Call(after[i], p, show)
                   /\ \A i \in 1 .. n : Lands(after[i].r, p, y, i)
  BY HopByHop
<1>2. p \in Passes /\ y \in Nat /\ height \in Nat /\ y < height
  BY Sizes DEF Ahead, Standing, IsReader, Passes, At, deinterlaces
<1>3. NextPushPass(p) # p
  BY <1>2 DEF NextPushPass, Passes
<1> DEFINE Good(i) == Drawing(after[i]) /\ after[i].r.row_buf = held
                      /\ (i # 0 => HasAbove(after[i].r, after[i].r.row_number))
           S == {i \in 0 .. n : Good(i)}
<1>4. ASSUME NEW i \in 0 .. n - 1, Good(i) PROVE Good(i + 1)
  <2> DEFINE t == after[i]
  <2>1. after[i + 1] = Call(t, p, show)
    BY <1>1
  <2>2. i = 0 \/ Lands(t.r, p, y, i)
    <3>1. i # 0 => i \in 1 .. n
      OBVIOUS
    <3> QED BY <1>1, <3>1
  <2>3. i = 0 => t = s
    BY <1>1
  <2>4. Drawing(t) /\ t.r.row_buf = held /\ (i # 0 => HasAbove(t.r, t.r.row_number))
    BY <1>4
  <2>5. t.r.pass # p => i # 0
    BY <2>3
  <2> HIDE DEF t, Good
  <2>6. CASE t.r.pass # p
    <3>1. after[i + 1] = t
      BY <2>1, <2>6 DEF Call
    <3> QED BY <2>4, <2>5, <2>6, <3>1, Zenon DEF Good
  <2>7. CASE t.r.pass = p
    <3>1. t.r.row_number = y + i /\ y + i < height /\ Ahead(t.r) /\ HasAbove(t.r, t.r.row_number + 1)
      <4>1. CASE i = 0
        BY <1>2, <2>3, <4>1
      <4>2. CASE i # 0
        <5>1. y + i < height /\ t.r.row_number = y + i /\ Reading(t.r)
          BY <1>3, <2>2, <2>7, <4>2 DEF Lands
        <5>2. SkipsRow(y + i, width, p) /\ y + i \in Nat
          BY <1>2, <4>2
        <5> DEFINE r == t.r
        <5>3. Reading(r) /\ r.pass \in Passes /\ SkipsRow(r.row_number, width, r.pass)
              /\ r.row_number \in Nat /\ HasAbove(r, r.row_number)
          BY <1>2, <2>4, <2>7, <4>2, <5>1, <5>2
        <5>4. Ahead(r) /\ HasAbove(r, r.row_number + 1)
          <6> HIDE DEF r
          <6> QED BY <5>3, PassedOver, StillAbove
        <5> QED BY <5>1, <5>4
      <4> QED BY <4>1, <4>2
    <3>2. Due(t.r.pass, t.r.row_number, t.r.row_buf, show)
      BY <2>4, <2>7, <3>1
    <3> DEFINE u == png_push_have_row(t, show)
    <3>3. Drawn(u) /\ u.r.row_buf = held
      BY <2>4, <3>1, <3>2, DrawOne
    <3>4. after[i + 1] = u
      BY <2>1, <2>7 DEF Call
    <3> HIDE DEF u
    <3> QED BY <3>3, <3>4, Zenon DEF Good, Drawn
  <2> QED BY <2>6, <2>7
<1>5. Good(0)
  BY <1>1
<1> HIDE DEF Good
<1>6. n \in S
  <2>1. 0 \in S /\ \A i \in 0 .. n - 1 : i \in S => i + 1 \in S
    BY <1>4, <1>5
  <2>2. n \in Nat
    OBVIOUS
  <2> HIDE DEF S
  <2> QED BY <2>1, <2>2, Climbs
<1>7. Good(n) /\ n # 0
  BY <1>6
<1> QED BY <1>1, <1>7, Zenon DEF Good, Drawn

LEMMA BlockDrawn ==
  ASSUME JobOK, deinterlaces, NEW s, Ahead(s.r), Drawing(s), HasAbove(s.r, s.r.row_number + 1),
         NEW p \in Passes, p = s.r.pass,
         NEW y, y = s.r.row_number, ~SkipsRow(y, width, p), Expanded(s.r.row_buf, p, y),
         NEW n, n = <<8, 8, 4, 4, 2, 2, 1>>[p + 1]
  PROVE  Drawn(Repeat(s, n, p, TRUE))
<1> DEFINE show == TRUE
           held == s.r.row_buf
<1>1. y \in Nat /\ n \in Nat /\ BlockHeight(p + 1) = n
  BY EachPass DEF Ahead, Standing, IsReader, BlockHeight
<1>2. /\ n \in Nat \ {0} /\ \A i \in 1 .. n - 1 : SkipsRow(y + i, width, p)
  BY <1>1, BlockOfRow
<1>3. ASSUME NEW i \in 0 .. n - 1
      PROVE  Due(p, y + i, held, show)
  <2>1. y + i >= y /\ y + i < y + n
    BY <1>1
  <2>2. Covers(p, y, y + i)
    BY <1>1, <2>1, Zenon DEF Covers
  <2> QED BY <1>1, <2>2, Zenon DEF Due
<1>4. show \in BOOLEAN /\ held = s.r.row_buf
  OBVIOUS
<1>5. show = TRUE
  OBVIOUS
<1> HIDE DEF show, held
<1>6. Drawn(Repeat(s, n, p, show))
  BY <1>2, <1>3, <1>4, HopsDrawn
<1> QED BY <1>5, <1>6

(* No block of pass q covers the rows above its first one. *)
LEMMA Uncovered ==
  ASSUME NEW q, NEW k, (q = 2 /\ k = 4) \/ (q = 4 /\ k = 2) \/ (q = 6 /\ k = 1),
         NEW y \in Nat, Above(y, q), NEW i \in 0 .. k - 1, NEW b \in Nat
  PROVE  ~Covers(q, b, y + i)
<1> SUFFICES ASSUME Covers(q, b, y + i) PROVE FALSE
  OBVIOUS
<1>1. CASE q = 2 /\ k = 4
  <2>1. b % 8 = 4 /\ y % 8 = 0 /\ y + i >= b /\ y + i < b + 4 /\ i \in 0 .. 3
    BY <1>1 DEF Covers, SkipsRow, Above, BlockHeight
  <2> QED BY <2>1
<1>2. CASE q = 4 /\ k = 2
  <2>1. b % 4 = 2 /\ y % 4 = 0 /\ y + i >= b /\ y + i < b + 2 /\ i \in 0 .. 1
    BY <1>2 DEF Covers, SkipsRow, Above, BlockHeight
  <2> QED BY <2>1
<1>3. CASE q = 6 /\ k = 1
  <2>1. b % 2 = 1 /\ y % 2 = 0 /\ y + i >= b /\ y + i < b + 1 /\ i = 0
    BY <1>3 DEF Covers, SkipsRow, Above, BlockHeight
  <2> QED BY <2>1
<1> QED BY <1>1, <1>2, <1>3

LEMMA GeneratedDrawn ==
  ASSUME JobOK, deinterlaces, NEW t, NEW q, NEW k,
         (q = 2 /\ k = 4) \/ (q = 4 /\ k = 2) \/ (q = 6 /\ k = 1), Loose(t.r, q), Drawn(t)
  PROVE  Loose(Repeat(t, k, q, FALSE).r, q + 2) /\ Drawn(Repeat(t, k, q, FALSE))
<1> DEFINE show == FALSE
           y == t.r.row_number
           held == t.r.row_buf
<1>1. k \in Nat \ {0} /\ q \in Passes
  BY DEF Passes
<1>2. Loose(Repeat(t, k, q, show).r, q + 2)
  <2> HIDE DEF show
  <2> QED BY RowsAreGenerated
<1>3. Reading(t.r) /\ y \in Nat /\ width \in Nat /\ (t.r.pass = q => Above(y, q))
  BY Sizes DEF Loose, Reading, Standing, IsReader
<1>4. CASE t.r.pass # q
  <2> HIDE DEF show
  <2>1. Repeat(t, k, q, show) = t
    <3>1. k \in Nat
      BY <1>1
    <3> QED BY <1>4, <3>1, RepeatNot
  <2> QED BY <1>2, <2>1 DEF show
<1>5. CASE t.r.pass = q
  <2>1. Above(y, q) /\ \A i \in 0 .. k - 1 : SkipsRow(y + i, width, q)
    <3>1. Above(y, q) /\ y \in Nat
      BY <1>3, <1>5
    <3> HIDE DEF y
    <3> QED BY <1>3, <3>1 DEF SkipsRow, Above
  <2>2. ASSUME NEW i \in 0 .. k - 1
        PROVE  Due(q, y + i, held, show)
    <3>1. \A b \in Nat : ~Covers(q, b, y + i)
      <4> HIDE DEF y
      <4> QED BY <1>3, <2>1, Uncovered
    <3> QED BY <3>1, Zenon DEF Due
  <2>3. SkipsRow(y, width, q)
    <3>1. 0 \in 0 .. k - 1 /\ y + 0 = y
      BY <1>3
    <3> HIDE DEF y
    <3> QED BY <2>1, <3>1
  <2>5. Ahead(t.r) /\ HasAbove(t.r, t.r.row_number + 1)
    <3> DEFINE r == t.r
    <3>1. Reading(r) /\ r.pass \in Passes /\ SkipsRow(r.row_number, width, r.pass)
          /\ r.row_number \in Nat /\ HasAbove(r, r.row_number)
      BY <1>1, <1>3, <1>5, <2>3 DEF Drawn
    <3>2. Ahead(r) /\ HasAbove(r, r.row_number + 1)
      <4> HIDE DEF r
      <4> QED BY <3>1, PassedOver, StillAbove
    <3> QED BY <3>2
  <2>6. \A i \in 1 .. k - 1 : SkipsRow(y + i, width, q)
    BY <2>1
  <2>7. y = t.r.row_number /\ q = t.r.pass /\ held = t.r.row_buf /\ show \in BOOLEAN /\ Drawing(t)
    BY <1>5 DEF Drawn
  <2> HIDE DEF y, show, held
  <2>8. Drawn(Repeat(t, k, q, show))
    BY <1>1, <2>2, <2>5, <2>6, <2>7, HopsDrawn
  <2> QED BY <1>2, <2>8 DEF show
<1> QED BY <1>4, <1>5

(* All the calls that follow from one row. *)
LEMMA PushedDrawn ==
  ASSUME JobOK, deinterlaces, NEW s, Ahead(s.r), Drawing(s), HasAbove(s.r, s.r.row_number + 1),
         ~SkipsRow(s.r.row_number, width, s.r.pass), Expanded(s.r.row_buf, s.r.pass, s.r.row_number)
  PROVE  Drawn(PushRows(s))
<1> DEFINE p == s.r.pass
           Two(t) == Repeat(t, 4, 2, FALSE)
           Four(t) == Repeat(t, 2, 4, FALSE)
           Six(t) == Repeat(t, 1, 6, FALSE)
           Block(n) == Repeat(s, n, p, TRUE)
<1>1. p \in Passes
  BY DEF Ahead, Standing, IsReader, Passes
<1>2. ASSUME NEW t, Loose(t.r, 2), Drawn(t)
      PROVE  Loose(Two(t).r, 4) /\ Drawn(Two(t))
  <2> DEFINE q == 2
             k == 4
  <2>1. ((q = 2 /\ k = 4) \/ (q = 4 /\ k = 2) \/ (q = 6 /\ k = 1)) /\ Loose(t.r, q) /\ q + 2 = 4
    BY <1>2
  <2> HIDE DEF q, k
  <2>2. Loose(Repeat(t, k, q, FALSE).r, q + 2) /\ Drawn(Repeat(t, k, q, FALSE))
    BY <1>2, <2>1, GeneratedDrawn
  <2> QED BY <2>1, <2>2 DEF q, k
<1>3. ASSUME NEW t, Loose(t.r, 4), Drawn(t)
      PROVE  Loose(Four(t).r, 6) /\ Drawn(Four(t))
  <2> DEFINE q == 4
             k == 2
  <2>1. ((q = 2 /\ k = 4) \/ (q = 4 /\ k = 2) \/ (q = 6 /\ k = 1)) /\ Loose(t.r, q) /\ q + 2 = 6
    BY <1>3
  <2> HIDE DEF q, k
  <2>2. Loose(Repeat(t, k, q, FALSE).r, q + 2) /\ Drawn(Repeat(t, k, q, FALSE))
    BY <1>3, <2>1, GeneratedDrawn
  <2> QED BY <2>1, <2>2 DEF q, k
<1>4. ASSUME NEW t, Loose(t.r, 6), Drawn(t)
      PROVE  Drawn(Six(t))
  <2> DEFINE q == 6
             k == 1
  <2>1. ((q = 2 /\ k = 4) \/ (q = 4 /\ k = 2) \/ (q = 6 /\ k = 1)) /\ Loose(t.r, q)
    BY <1>4
  <2> HIDE DEF q, k
  <2>2. Drawn(Repeat(t, k, q, FALSE))
    BY <1>4, <2>1, GeneratedDrawn
  <2> QED BY <2>1, <2>2 DEF q, k
<1>5. ASSUME NEW n, n = <<8, 8, 4, 4, 2, 2, 1>>[p + 1], NEW q, q = <<2, 2, 2, 4, 4, 6, 6>>[p + 1]
      PROVE  Loose(Block(n).r, q) /\ Drawn(Block(n))
  <2> DEFINE y == s.r.row_number
             new_row == TRUE
  <2>1. p = s.r.pass /\ y = s.r.row_number /\ ~SkipsRow(y, width, p) /\ new_row = TRUE
        /\ Expanded(s.r.row_buf, p, y)
    OBVIOUS
  <2> HIDE DEF p, y, new_row
  <2>2. Loose(Repeat(s, n, p, new_row).r, q)
    BY <1>1, <1>5, <2>1, BlockIsCalled
  <2>3. Drawn(Repeat(s, n, p, TRUE))
    BY <1>1, <1>5, <2>1, BlockDrawn
  <2> QED BY <2>1, <2>2, <2>3
<1>6. CASE p = 0
  <2>1. Loose(Block(8).r, 2) /\ Drawn(Block(8))
    <3>1. 8 = <<8, 8, 4, 4, 2, 2, 1>>[p + 1] /\ 2 = <<2, 2, 2, 4, 4, 6, 6>>[p + 1]
      BY <1>6
    <3> HIDE DEF Block
    <3> QED BY <1>5, <3>1
  <2>2. PushRows(s) = IF height <= 4 THEN Six(Four(Two(Block(8)))) ELSE Two(Block(8))
    BY <1>6 DEF PushRows
  <2> HIDE DEF Two, Four, Six, Block
  <2> QED BY <1>2, <1>3, <1>4, <2>1, <2>2
<1>7. CASE p = 1
  <2>1. Loose(Block(8).r, 2) /\ Drawn(Block(8))
    <3>1. 8 = <<8, 8, 4, 4, 2, 2, 1>>[p + 1] /\ 2 = <<2, 2, 2, 4, 4, 6, 6>>[p + 1]
      BY <1>7
    <3> HIDE DEF Block
    <3> QED BY <1>5, <3>1
  <2>2. PushRows(s) = Two(Block(8))
    BY <1>7 DEF PushRows
  <2> HIDE DEF Two, Block
  <2> QED BY <1>2, <2>1, <2>2
<1>8. CASE p = 2
  <2>1. Loose(Block(4).r, 2) /\ Drawn(Block(4))
    <3>1. 4 = <<8, 8, 4, 4, 2, 2, 1>>[p + 1] /\ 2 = <<2, 2, 2, 4, 4, 6, 6>>[p + 1]
      BY <1>8
    <3> HIDE DEF Block
    <3> QED BY <1>5, <3>1
  <2>2. PushRows(s) = Four(Two(Block(4)))
    BY <1>8 DEF PushRows
  <2> HIDE DEF Two, Four, Block
  <2> QED BY <1>2, <1>3, <2>1, <2>2
<1>9. CASE p = 3
  <2>1. Loose(Block(4).r, 4) /\ Drawn(Block(4))
    <3>1. 4 = <<8, 8, 4, 4, 2, 2, 1>>[p + 1] /\ 4 = <<2, 2, 2, 4, 4, 6, 6>>[p + 1]
      BY <1>9
    <3> HIDE DEF Block
    <3> QED BY <1>5, <3>1
  <2>2. PushRows(s) = Four(Block(4))
    BY <1>9 DEF PushRows
  <2> HIDE DEF Four, Block
  <2> QED BY <1>3, <2>1, <2>2
<1>10. CASE p = 4
  <2>1. Loose(Block(2).r, 4) /\ Drawn(Block(2))
    <3>1. 2 = <<8, 8, 4, 4, 2, 2, 1>>[p + 1] /\ 4 = <<2, 2, 2, 4, 4, 6, 6>>[p + 1]
      BY <1>10
    <3> HIDE DEF Block
    <3> QED BY <1>5, <3>1
  <2>2. PushRows(s) = Six(Four(Block(2)))
    BY <1>10 DEF PushRows
  <2> HIDE DEF Four, Six, Block
  <2> QED BY <1>3, <1>4, <2>1, <2>2
<1>11. CASE p = 5
  <2>1. Loose(Block(2).r, 6) /\ Drawn(Block(2))
    <3>1. 2 = <<8, 8, 4, 4, 2, 2, 1>>[p + 1] /\ 6 = <<2, 2, 2, 4, 4, 6, 6>>[p + 1]
      BY <1>11
    <3> HIDE DEF Block
    <3> QED BY <1>5, <3>1
  <2>2. PushRows(s) = Six(Block(2))
    BY <1>11 DEF PushRows
  <2> HIDE DEF Six, Block
  <2> QED BY <1>4, <2>1, <2>2
<1>12. CASE p = 6
  <2>1. Loose(Block(1).r, 6) /\ Drawn(Block(1))
    <3>1. 1 = <<8, 8, 4, 4, 2, 2, 1>>[p + 1] /\ 6 = <<2, 2, 2, 4, 4, 6, 6>>[p + 1]
      BY <1>12
    <3> HIDE DEF Block
    <3> QED BY <1>5, <3>1
  <2>2. PushRows(s) = Six(Block(1))
    BY <1>12 DEF PushRows
  <2> HIDE DEF Six, Block
  <2> QED BY <1>4, <2>1, <2>2
<1> QED BY <1>1, <1>6, <1>7, <1>8, <1>9, <1>10, <1>11, <1>12, EachPass

----------------------------------------------------------------------------
(* The sequential reader's display. *)

(* If a row above in the pass stands for the row that comes next, it is in row_buf. *)
InBuffer(r) ==
  \A b \in Nat : r.pass # 7 /\ b < r.row_number /\ Covers(r.pass, b, r.row_number)
                   => Expanded(r.row_buf, r.pass, b)

LEMMA NextPlace ==
  ASSUME JobOK, deinterlaces, NEW r, Ahead(r), NEW next, next = png_read_finish_row(r)
  PROVE  IF r.row_number + 1 < height
         THEN next.pass = r.pass /\ next.row_number = r.row_number + 1
         ELSE next.pass = r.pass + 1 /\ next.row_number = 0 /\ r.row_number + 1 = height
<1>1. /\ job.interlaced /\ job.readHandling /\ r.pass \in Passes /\ r.row_number \in Nat
      /\ r.num_rows = height /\ height \in Nat /\ r.row_number < height /\ IsReader(r)
  BY Sizes DEF Ahead, Standing, IsReader, Passes, At, deinterlaces
<1>2. CASE r.row_number + 1 < height
  <2>1. next = [r EXCEPT !.row_number = @ + 1]
    BY <1>1, <1>2 DEF png_read_finish_row
  <2> QED BY <1>1, <1>2, <2>1 DEF IsReader
<1>3. CASE ~(r.row_number + 1 < height)
  <2>1. next = AtPass(r, r.pass + 1)
    BY <1>1, <1>3 DEF png_read_finish_row
  <2>2. AtPass(r, r.pass + 1).pass = r.pass + 1 /\ AtPass(r, r.pass + 1).row_number = 0
    BY <1>1 DEF AtPass, IsReader
  <2>3. r.row_number + 1 = height
    BY <1>1, <1>3
  <2> QED BY <1>3, <2>1, <2>2, <2>3
<1> QED BY <1>2, <1>3

LEMMA FinishDisplay ==
  ASSUME JobOK, deinterlaces, NEW r, Ahead(r), NEW next, next = png_read_finish_row(r),
         next.row_buf = r.row_buf, NEW image, DisplayAt(image, r.pass, r.row_number + 1),
         \A b \in Nat : b <= r.row_number /\ Covers(r.pass, b, r.row_number + 1) => Expanded(r.row_buf, r.pass, b)
  PROVE  DisplayAt(image, next.pass, next.row_number) /\ InBuffer(next)
<1>1. IF r.row_number + 1 < height
      THEN next.pass = r.pass /\ next.row_number = r.row_number + 1
      ELSE next.pass = r.pass + 1 /\ next.row_number = 0 /\ r.row_number + 1 = height
  BY NextPlace
<1>2. r.pass \in Passes /\ r.row_number \in Nat
  BY DEF Ahead, Standing, IsReader, Passes
<1>3. CASE r.row_number + 1 < height
  <2>1. next.pass = r.pass /\ next.row_number = r.row_number + 1
    BY <1>1, <1>3
  <2>2. \A b \in Nat : b < r.row_number + 1 => b <= r.row_number
    BY <1>2
  <2> QED BY <2>1, <2>2, Zenon DEF InBuffer
<1>4. CASE ~(r.row_number + 1 < height)
  <2>1. next.pass = r.pass + 1 /\ next.row_number = 0 /\ r.row_number + 1 = height
    BY <1>1, <1>4
  <2>2. DisplayAt(image, r.pass, height)
    BY <2>1
  <2>3. DisplayAt(image, r.pass + 1, 0)
    BY <1>2, <2>2, NextPassShown
  <2>4. \A b \in Nat : ~(b < 0)
    OBVIOUS
  <2> QED BY <2>1, <2>3, <2>4, Zenon DEF InBuffer
<1> QED BY <1>3, <1>4

(* A row that is read stands for those below it. *)
LEMMA ReadForNext ==
  ASSUME NEW p \in Passes, NEW y \in Nat, ~SkipsRow(y, width, p), NEW held, Expanded(held, p, y)
  PROVE  \A b \in Nat : b <= y /\ Covers(p, b, y + 1) => Expanded(held, p, b)
<1> SUFFICES ASSUME NEW b \in Nat, b <= y, Covers(p, b, y + 1), b # y PROVE FALSE
  OBVIOUS
<1> DEFINE n == BlockHeight(p + 1)
<1>1. n = <<8, 8, 4, 4, 2, 2, 1>>[p + 1] /\ ~SkipsRow(b, width, p) /\ y + 1 < b + n
  BY Zenon DEF BlockHeight, Covers
<1>2. n \in Nat \ {0} /\ \A i \in 1 .. n - 1 : SkipsRow(b + i, width, p)
  BY <1>1, BlockOfRow
<1> HIDE DEF n
<1>3. y - b \in 1 .. n - 1 /\ b + (y - b) = y
  BY <1>1, <1>2
<1>4. SkipsRow(b + (y - b), width, p)
  BY <1>2, <1>3, Zenon
<1> QED BY <1>3, <1>4, Zenon

LEMMA KeptForNext ==
  ASSUME NEW r, r.pass \in Passes, r.row_number \in Nat, SkipsRow(r.row_number, width, r.pass), InBuffer(r)
  PROVE  \A b \in Nat : b <= r.row_number /\ Covers(r.pass, b, r.row_number + 1) => Expanded(r.row_buf, r.pass, b)
<1> DEFINE p == r.pass
           y == r.row_number
<1> SUFFICES ASSUME NEW b \in Nat, b <= y, Covers(p, b, y + 1) PROVE Expanded(r.row_buf, p, b)
  OBVIOUS
<1>1. p # 7 /\ y \in Nat /\ BlockHeight(p + 1) \in Nat
  BY EachPass DEF Passes, BlockHeight
<1>2. ~SkipsRow(b, width, p) /\ y + 1 < b + BlockHeight(p + 1)
  BY DEF Covers
<1>3. b # y
  BY <1>2
<1>4. b < y /\ y >= b /\ y < b + BlockHeight(p + 1)
  BY <1>1, <1>2, <1>3
<1>5. Covers(p, b, y)
  BY <1>2, <1>4, Zenon DEF Covers
<1> QED BY <1>1, <1>4, <1>5, Zenon DEF InBuffer

(* A row that is passed over is shown again if one above stands for it. *)
LEMMA SkippedDue ==
  ASSUME JobOK, NEW r, r.pass \in Passes, r.row_number \in Nat, SkipsRow(r.row_number, width, r.pass), InBuffer(r)
  PROVE  ShownAgain(r) \in BOOLEAN /\ Due(r.pass, r.row_number, r.row_buf, ShownAgain(r))
<1> DEFINE p == r.pass
           y == r.row_number
           n == BlockHeight(p + 1)
           b == y - (y % n)
<1>1. n \in 1 .. 8 /\ p # 7 /\ width \in Nat /\ width > 0
  BY EachPass, Sizes DEF BlockHeight, Passes
<1>2. b \in Nat /\ y >= b /\ y < b + n
  BY <1>1
<1>3. SkipsRow(y, width, p) /\ p \in Passes /\ y \in Nat
  OBVIOUS
<1>4. ASSUME ShownAgain(r), PassWidth(width, p) # 0
      PROVE  ~SkipsRow(b, width, p)
  <2>1. \/ p \in {0, 1, 3, 5}
        \/ p = 2 /\ (y \div 4) % 2 = 1
        \/ p = 4 /\ (y \div 2) % 2 = 1
    BY <1>4 DEF ShownAgain
  <2>2. ~(p = 1 /\ width < 5) /\ ~(p = 3 /\ width < 3) /\ ~(p = 5 /\ width < 2)
    BY <1>1, <1>4, Columns DEF PassWidth
  <2> HIDE DEF p, y
  <2>3. CASE p = 0 BY <1>1, <1>3, <2>3 DEF SkipsRow, BlockHeight
  <2>4. CASE p = 1 BY <1>1, <1>3, <2>2, <2>4 DEF SkipsRow, BlockHeight
  <2>5. CASE p = 2
    <3>1. b = y - (y % 4) /\ (y \div 4) % 2 = 1
      BY <2>1, <2>5 DEF BlockHeight
    <3>2. b % 8 = 4
      BY <1>3, <3>1
    <3> QED BY <2>5, <3>2 DEF SkipsRow
  <2>6. CASE p = 3 BY <1>1, <1>3, <2>2, <2>6 DEF SkipsRow, BlockHeight
  <2>7. CASE p = 4
    <3>1. b = y - (y % 2) /\ (y \div 2) % 2 = 1
      BY <2>1, <2>7 DEF BlockHeight
    <3>2. b % 4 = 2
      BY <1>3, <3>1
    <3> QED BY <2>7, <3>2 DEF SkipsRow
  <2>8. CASE p = 5 BY <1>1, <1>3, <2>2, <2>8 DEF SkipsRow, BlockHeight
  <2> QED BY <2>1, <2>3, <2>4, <2>5, <2>6, <2>7, <2>8
<1>5. ASSUME ~ShownAgain(r), NEW c \in Nat, Covers(p, c, y)
      PROVE  FALSE
  <2>1. ~(\/ p \in {0, 1, 3, 5}
          \/ p = 2 /\ (y \div 4) % 2 = 1
          \/ p = 4 /\ (y \div 2) % 2 = 1)
    BY <1>5 DEF ShownAgain
  <2>2. ~SkipsRow(c, width, p) /\ y >= c /\ y < c + n /\ n = BlockHeight(p + 1)
    BY <1>5 DEF Covers
  <2> HIDE DEF p, y, n
  <2>3. p = 2 \/ p = 4 \/ p = 6
    BY <1>3, <2>1, EachPass
  <2>4. CASE p = 2
    <3>1. c % 8 = 4 /\ n = 4 /\ (y \div 4) % 2 # 1
      BY <2>1, <2>2, <2>4 DEF SkipsRow, BlockHeight
    <3> QED BY <1>3, <2>2, <3>1
  <2>5. CASE p = 4
    <3>1. c % 4 = 2 /\ n = 2 /\ (y \div 2) % 2 # 1
      BY <2>1, <2>2, <2>5 DEF SkipsRow, BlockHeight
    <3> QED BY <1>3, <2>2, <3>1
  <2>6. CASE p = 6
    <3>1. n = 1 /\ c % 2 # 0 /\ y % 2 = 0
      BY <1>3, <2>2, <2>6 DEF SkipsRow, BlockHeight
    <3> QED BY <1>3, <2>2, <3>1
  <2> QED BY <2>3, <2>4, <2>5, <2>6
<1>6. ASSUME ShownAgain(r), PassWidth(width, p) # 0
      PROVE  Covers(p, b, y) /\ Expanded(r.row_buf, p, b)
  <2>1. ~SkipsRow(b, width, p)
    BY <1>4, <1>6
  <2>2. Covers(p, b, y)
    BY <1>2, <2>1, Zenon DEF Covers
  <2>3. b < y
    <3>1. b # y
      BY <1>3, <2>1
    <3> QED BY <1>2, <1>3, <3>1
  <2> QED BY <1>1, <1>2, <2>2, <2>3, Zenon DEF InBuffer
<1>7. ShownAgain(r) \in BOOLEAN
  BY DEF ShownAgain
<1> HIDE DEF b
<1> QED BY <1>2, <1>5, <1>6, <1>7, Zenon DEF Due

----------------------------------------------------------------------------
(* A row of the stream as it is left in row_buf. *)
Widened(row, iw, p) ==
  IF deinterlaces /\ p < 6 THEN png_do_read_interlace(row, iw, p) ELSE row

(* What either reader does first. *)
LEMMA OneRow ==
  ASSUME JobOK, WriterOK(wr, stream), Written, StreamHolds(stream),
         NEW r, Reading(r), r.pass # 7, r.row_number < r.num_rows,
         ~Skipped(job.readHandling, r.pass, r.row_number), ReaderHolds(r),
         NEW n, n = PNG_ROWBYTES(depth, r.iwidth), NEW row, row = RowRead(r, n),
         NEW p, p = r.pass, NEW y, y = r.row_number, NEW i, i = RowsAmong(job.readHandling, y, p),
         NEW x, x = Widened(row, r.iwidth, p),
         NEW prev, prev = Stored(r.prev_row, row, n), NEW done, done = Taken(r, n, x, prev)
  PROVE  /\ HasRow(p, i) /\ row \in [0 .. RowLast -> Byte] /\ Agree(RowLength(p) - 1, row, RawRow(p, i))
         /\ x \in [0 .. RowLast -> Byte]
         /\ (deinterlaces => Expanded(x, p, ImageRow(p, i)) /\ ImageRow(p, i) = y /\ y \in 0 .. height - 1)
         /\ (~deinterlaces => x = row)
         /\ ~TooShort(r, n) /\ Ahead(done) /\ done.pass = p /\ done.row_number = y
         /\ RowBuffers(done) /\ HasAbove(done, y + 1) /\ done.row_buf = x
<1>1. /\ HasRow(p, i) /\ n = RowLength(p) - 1 /\ n \in Nat /\ n <= RowLast
      /\ row \in [0 .. RowLast -> Byte] /\ Agree(n, row, RawRow(p, i))
  BY RowIsRead
<1>2. job.readHandling \in BOOLEAN /\ job.interlaced \in BOOLEAN /\ p \in Passes /\ y \in Nat
      /\ r.num_rows \in Nat /\ y < r.num_rows /\ At(job.readHandling, p, y, r.num_rows)
      /\ r.iwidth = (IF job.interlaced THEN PassWidth(width, p) ELSE width)
  BY Sizes DEF Reading, Standing, IsReader, Passes
<1>3. ASSUME deinterlaces
      PROVE  x \in [0 .. RowLast -> Byte] /\ Expanded(x, p, ImageRow(p, i)) /\ ImageRow(p, i) = y
             /\ y \in 0 .. height - 1
  <2>1. job.interlaced /\ job.readHandling /\ y \in 0 .. height - 1
    BY <1>2, <1>3 DEF deinterlaces, At, Passes
  <2>2. ImageRow(p, i) = y
    BY <1>2, <2>1, RowHandled
  <2>3. x = IF p < 6 THEN png_do_read_interlace(row, r.iwidth, p) ELSE row
    BY <1>3 DEF Widened
  <2>4. r.iwidth = PassWidth(width, p)
    BY <1>2, <2>1
  <2>5. Agree(RowLength(p) - 1, row, RawRow(p, i))
    BY <1>1
  <2>6. x \in [0 .. RowLast -> Byte] /\ Expanded(x, p, ImageRow(p, i))
    <3> DEFINE iw == r.iwidth
    <3>1. iw = PassWidth(width, p) /\ x = IF p < 6 THEN png_do_read_interlace(row, iw, p) ELSE row
      BY <2>3, <2>4
    <3> HIDE DEF iw
    <3> QED BY <1>1, <2>1, <2>5, <3>1, RowExpanded
  <2> QED BY <1>3, <2>1, <2>2, <2>6
<1>4. ASSUME ~deinterlaces PROVE x = row
  BY <1>4 DEF Widened
<1>5. x \in [0 .. RowLast -> Byte]
  BY <1>1, <1>3, <1>4
<1>6. ~TooShort(r, n) /\ Ahead(done) /\ done.pass = r.pass /\ done.row_number = r.row_number
  <2> DEFINE d == [r EXCEPT !.next_in = @ + n + 1, !.row_buf = x, !.prev_row = prev]
  <2>1. done = d
    BY DEF Taken
  <2>2. ~TooShort(r, n) /\ Ahead(d)
    BY RowTaken
  <2>3. IsReader(r)
    BY DEF Reading, Standing
  <2>4. done.pass = r.pass /\ done.row_number = r.row_number
    BY <2>1, <2>3 DEF IsReader
  <2> HIDE DEF d
  <2> QED BY <2>1, <2>2, <2>4
<1>7. RowBuffers(done) /\ HasAbove(done, y + 1) /\ done.row_buf = x
  <2>1. ~Skipped(job.readHandling, p, y)
    OBVIOUS
  <2> QED BY <1>1, <1>5, <2>1, RowStored
<1> QED BY <1>1, <1>3, <1>4, <1>5, <1>6, <1>7

(* What the reader has in its buffers and has put into the application's images. *)
PixelsOK(r, image, shown) ==
  /\ ReaderHolds(r)
  /\ ~(job.progressive /\ deinterlaces) => RowsAt(image, r)
  /\ deinterlaces => IsImage(shown) /\ DisplayAt(shown, r.pass, r.row_number)
  /\ deinterlaces /\ ~job.progressive => InBuffer(r)

LEMMA NothingRead ==
  ASSUME JobOK, NEW r, ReaderHolds(r), r.pass = 0, r.row_number = 0
  PROVE  PixelsOK(r, EmptyImage, EmptyImage)
<1>1. IsImage(EmptyImage)
      /\ \A y \in 0 .. height - 1, x \in 0 .. width - 1 : Shows(EmptyImage, x, y) = BlankPixel(x)
  BY NothingShown
<1>2. 0 \in Passes
  BY DEF Passes
<1>3. RowsAmong(job.readHandling, 0, 0) = 0
  BY <1>2, NoRowsYet DEF RowsAmong
<1>4. ASSUME NEW x \in 0 .. width - 1, NEW z \in 0 .. height - 1 PROVE ~Got(0, 0, x, z)
  <2>1. z \in Nat /\ z >= 0
    BY Sizes
  <2>2. ASSUME NEW q \in Passes PROVE q \in Nat /\ PassHeight(z, q) \in Nat
    <3>1. q \in Nat
      BY DEF Passes
    <3>2. PassHeight(z, q) \in Nat
      BY <2>1, PassSizes
    <3> QED BY <3>1, <3>2
  <2>3. ASSUME NEW q \in Passes PROVE ~(q < 0 \/ (q = 0 /\ PassHeight(z, q) < 0))
    BY <2>2
  <2>4. CASE job.interlaced
    BY <2>3, <2>4, Zenon DEF Got
  <2>5. CASE ~job.interlaced
    BY <2>1, <2>5 DEF Got
  <2> QED BY <2>4, <2>5
<1>5. RowsShow(EmptyImage, 0, 0)
  BY <1>1, <1>4, Zenon DEF RowsShow
<1>6. RowsAt(EmptyImage, r)
  BY <1>3, <1>5 DEF RowsAt
<1>7. DisplayAt(EmptyImage, 0, 0)
  <2>1. ASSUME NEW z \in 0 .. height - 1 PROVE ~(z < 0)
    BY Sizes
  <2>2. ASSUME NEW z \in 0 .. height - 1 PROVE RowBlocky(EmptyImage, z, 0)
    BY DEF RowBlocky
  <2> QED BY <2>1, <2>2, Zenon DEF DisplayAt
<1>8. InBuffer(r)
  <2>1. \A b \in Nat : ~(b < 0)
    OBVIOUS
  <2> QED BY <2>1 DEF InBuffer
<1> QED BY <1>1, <1>6, <1>7, <1>8 DEF PixelsOK

PixelsKnown ==
  /\ rd.started => PixelsOK(rd, rows, display)
  /\ ~rd.started => rows = EmptyImage /\ display = EmptyImage

LEMMA ReaderReady ==
  ASSUME JobOK, ReaderOK, PixelsKnown
  PROVE  PixelsOK(reader, rows, display)
<1>1. CASE rd.started
  BY <1>1 DEF reader, PixelsKnown
<1>2. CASE ~rd.started
  <2>1. reader = png_read_start_row /\ rows = EmptyImage /\ display = EmptyImage
    BY <1>2 DEF reader, PixelsKnown
  <2>2. ReaderHolds(png_read_start_row)
    BY <1>2, StartReads
  <2>3. png_read_start_row.row_number = 0 /\ png_read_start_row.pass = 0
    BY <1>2, StartReading
  <2>4. PixelsOK(png_read_start_row, EmptyImage, EmptyImage)
    BY <2>2, <2>3, NothingRead
  <2> QED BY <2>1, <2>4
<1> QED BY <1>1, <1>2

(* The row read is put into `rows', and shown in the display. *)
RowInto(new, image, r, x) ==
  /\ deinterlaces => new = WithRow(image, r.row_number, png_combine_row(x, r.pass, image[r.row_number], FALSE))
  /\ ~deinterlaces => new = Placed(image, r, x)

ShownInto(new, image, r, x) ==
  deinterlaces => new = WithRow(image, r.row_number, png_combine_row(x, r.pass, image[r.row_number], TRUE))

(* Row i of its pass has been read, and widened to x. *)
RowKnown(r, i, row, x) ==
  /\ Reading(r) /\ r.pass # 7 /\ r.row_number < r.num_rows /\ ~Skipped(job.readHandling, r.pass, r.row_number)
  /\ i = RowsAmong(job.readHandling, r.row_number, r.pass) /\ HasRow(r.pass, i)
  /\ row \in [0 .. RowLast -> Byte] /\ Agree(RowLength(r.pass) - 1, row, RawRow(r.pass, i))
  /\ x \in [0 .. RowLast -> Byte] /\ (~deinterlaces => x = row)
  /\ deinterlaces => Expanded(x, r.pass, ImageRow(r.pass, i))

LEMMA RowsGrew ==
  ASSUME JobOK, NEW r, NEW i, NEW row, NEW x, RowKnown(r, i, row, x), NEW image, RowsShow(image, r.pass, i),
         NEW new, RowInto(new, image, r, x)
  PROVE  RowsShow(new, r.pass, RowsAmong(job.readHandling, r.row_number + 1, r.pass))
<1> DEFINE p == r.pass
           y == r.row_number
           dp == image[y]
           x0 == png_combine_row(x, p, dp, FALSE)
<1>1. p = r.pass /\ y = r.row_number /\ dp = image[y] /\ x0 = png_combine_row(x, p, dp, FALSE)
  OBVIOUS
<1>2. /\ deinterlaces => new = WithRow(image, y, x0)
      /\ ~deinterlaces => new = Placed(image, r, x)
  BY DEF RowInto
<1>3. /\ Reading(r) /\ r.pass # 7 /\ r.row_number < r.num_rows /\ ~Skipped(job.readHandling, p, y)
      /\ i = RowsAmong(job.readHandling, y, p) /\ HasRow(p, i)
      /\ row \in [0 .. RowLast -> Byte] /\ Agree(RowLength(p) - 1, row, RawRow(p, i))
      /\ x \in [0 .. RowLast -> Byte] /\ (~deinterlaces => x = row)
      /\ (deinterlaces => Expanded(x, p, ImageRow(p, i))) /\ RowsShow(image, p, i)
  BY DEF RowKnown
<1> HIDE DEF p, y, dp, x0
<1>4. RowsShow(new, p, RowsAmong(job.readHandling, y + 1, p))
  BY <1>1, <1>2, <1>3, RowsGrow
<1> QED BY <1>4 DEF p, y

(* A row that is read is shown in the rows that it stands for, of which it is the first. *)
LEMMA RowShown ==
  ASSUME JobOK, deinterlaces, NEW p \in Passes, NEW y \in 0 .. height - 1, NEW x \in [0 .. RowLast -> Byte],
         ~SkipsRow(y, width, p), Expanded(x, p, y), NEW image, IsImage(image), DisplayAt(image, p, y),
         NEW dp, dp = image[y], NEW x0, x0 = png_combine_row(x, p, dp, TRUE), NEW new, new = WithRow(image, y, x0)
  PROVE  IsImage(new) /\ DisplayAt(new, p, y + 1)
<1>1. y \in Nat
  BY Sizes
<1>3. Covers(p, y, y)
  <2>1. BlockHeight(p + 1) \in Nat \ {0}
    BY DEF BlockHeight, Passes
  <2> QED BY <1>1, <2>1 DEF Covers
<1> DEFINE show == TRUE
<1>4. show /\ show \in BOOLEAN
  OBVIOUS
<1> HIDE DEF show
<1>5. Due(p, y, x, show)
  BY <1>1, <1>3, <1>4, Zenon DEF Due
<1>7. (show => new = WithRow(image, y, x0)) /\ (~show => new = image)
  BY <1>4
<1>8. IsImage(new) /\ DisplayAt(new, p, y + 1)
  BY <1>4, <1>5, <1>7, DisplayGrows
<1> QED BY <1>8

LEMMA ShownToo ==
  ASSUME JobOK, deinterlaces, NEW r, NEW x \in [0 .. RowLast -> Byte],
         r.pass \in Passes, r.row_number \in 0 .. height - 1,
         ~SkipsRow(r.row_number, width, r.pass), Expanded(x, r.pass, r.row_number), NEW image, IsImage(image),
         DisplayAt(image, r.pass, r.row_number), NEW new, ShownInto(new, image, r, x)
  PROVE  IsImage(new) /\ DisplayAt(new, r.pass, r.row_number + 1)
<1> DEFINE p == r.pass
           y == r.row_number
           dp == image[y]
           x0 == png_combine_row(x, p, dp, TRUE)
<1>1. p \in Passes /\ y \in 0 .. height - 1 /\ ~SkipsRow(y, width, p) /\ Expanded(x, p, y)
      /\ DisplayAt(image, p, y) /\ dp = image[y] /\ x0 = png_combine_row(x, p, dp, TRUE)
  OBVIOUS
<1>2. new = WithRow(image, y, x0)
  BY DEF ShownInto
<1> HIDE DEF p, y, dp, x0
<1>3. IsImage(new) /\ DisplayAt(new, p, y + 1)
  BY <1>1, <1>2, RowShown
<1> QED BY <1>3 DEF p, y

(* One row is taken from the stream and shown. *)
LEMMA ReadOn ==
  ASSUME JobOK, WriterOK(wr, stream), Written, StreamHolds(stream),
         NEW r, Reading(r), r.pass # 7, r.row_number < r.num_rows,
         ~Skipped(job.readHandling, r.pass, r.row_number),
         NEW image, NEW shown, PixelsOK(r, image, shown), ~(job.progressive /\ deinterlaces),
         NEW n, n = PNG_ROWBYTES(depth, r.iwidth), NEW row, row = RowRead(r, n),
         NEW x, x = Widened(row, r.iwidth, r.pass),
         NEW prev, prev = Stored(r.prev_row, row, n), NEW done, done = Taken(r, n, x, prev),
         NEW image2, RowInto(image2, image, r, x), NEW shown2, ShownInto(shown2, shown, r, x)
  PROVE  PixelsOK(png_read_finish_row(done), image2, shown2)
<1> DEFINE p == r.pass
           y == r.row_number
           i == RowsAmong(job.readHandling, y, p)
           next == png_read_finish_row(done)
<1>1. ReaderHolds(r) /\ RowsAt(image, r)
      /\ (deinterlaces => IsImage(shown) /\ DisplayAt(shown, r.pass, r.row_number))
  BY DEF PixelsOK
<1>2. p = r.pass /\ y = r.row_number /\ i = RowsAmong(job.readHandling, y, p)
  OBVIOUS
<1>3. /\ HasRow(p, i) /\ row \in [0 .. RowLast -> Byte] /\ Agree(RowLength(p) - 1, row, RawRow(p, i))
      /\ x \in [0 .. RowLast -> Byte]
      /\ (deinterlaces => Expanded(x, p, ImageRow(p, i)) /\ ImageRow(p, i) = y /\ y \in 0 .. height - 1)
      /\ (~deinterlaces => x = row)
      /\ ~TooShort(r, n) /\ Ahead(done) /\ done.pass = p /\ done.row_number = y
      /\ RowBuffers(done) /\ HasAbove(done, y + 1) /\ done.row_buf = x
  <2> HIDE DEF p, y, i
  <2>1. x = Widened(row, r.iwidth, p)
    BY <1>2
  <2> QED BY <1>1, <1>2, <2>1, OneRow
<1> HIDE DEF i
<1>4. RowsShow(image, r.pass, i)
  BY <1>1, <1>2 DEF RowsAt
<1>5. RowKnown(r, i, row, x)
  BY <1>2, <1>3 DEF RowKnown
<1>6. RowsShow(image2, r.pass, RowsAmong(job.readHandling, r.row_number + 1, r.pass))
  BY <1>4, <1>5, RowsGrew
<1>7. RowsAt(image2, next)
  <2>1. RowsShow(image2, done.pass, RowsAmong(job.readHandling, done.row_number + 1, done.pass))
    BY <1>3, <1>6
  <2> QED BY <1>3, <2>1, FinishShows
<1>8. ReaderHolds(next) /\ next.row_buf = done.row_buf
  <2>1. IsReader(done) /\ done.pass # 7
    BY <1>3 DEF Ahead, Standing
  <2> QED BY <1>3, <2>1, NextHolds
<1>9. ASSUME deinterlaces
      PROVE  IsImage(shown2) /\ DisplayAt(shown2, next.pass, next.row_number) /\ InBuffer(next)
  <2>1. p \in Passes /\ y \in 0 .. height - 1 /\ y \in Nat /\ Expanded(x, p, y)
    BY <1>3, <1>9, Sizes DEF HasRow
  <2>2. ~SkipsRow(y, width, p)
    BY <1>9 DEF Skipped, deinterlaces
  <2>3. IsImage(shown2) /\ DisplayAt(shown2, p, y + 1)
    BY <1>1, <1>3, <1>9, <2>1, <2>2, ShownToo
  <2>4. \A b \in Nat : b <= done.row_number /\ Covers(done.pass, b, done.row_number + 1)
                         => Expanded(done.row_buf, done.pass, b)
    <3> HIDE DEF p, y
    <3>1. \A b \in Nat : b <= y /\ Covers(p, b, y + 1) => Expanded(x, p, b)
      BY <2>1, <2>2, ReadForNext
    <3> QED BY <1>3, <3>1, Zenon
  <2>5. DisplayAt(shown2, done.pass, done.row_number + 1)
    BY <1>3, <2>3
  <2> DEFINE q == png_read_finish_row(done)
  <2>6. q = png_read_finish_row(done) /\ q.row_buf = done.row_buf /\ q = next
    BY <1>8
  <2> HIDE DEF q, next
  <2>7. DisplayAt(shown2, q.pass, q.row_number) /\ InBuffer(q)
    BY <1>3, <1>9, <2>4, <2>5, <2>6, FinishDisplay
  <2> QED BY <2>3, <2>6, <2>7
<1> QED BY <1>7, <1>8, <1>9 DEF PixelsOK

(* The two readers' steps. *)
LEMMA ReadPixels ==
  ASSUME RowsInv, StreamOK, PixelsKnown, png_read_row
  PROVE  PixelsOK(rd', rows', display')
<1>1. Written /\ ~AllRead /\ ~job.progressive /\ JobOK /\ WriterOK(wr, stream) /\ ReaderOK
      /\ StreamHolds(stream) /\ ~(rd.started /\ deinterlaces /\ SkipsRow(rd.row_number, width, rd.pass))
  BY DEF png_read_row, RowsInv, StreamOK
<1> DEFINE r == reader
           n == PNG_ROWBYTES(depth, r.iwidth)
           row == RowRead(r, n)
           x == Widened(row, r.iwidth, r.pass)
           prev == Stored(r.prev_row, row, n)
           done == Taken(r, n, x, prev)
           y == r.row_number
           both == deinterlaces
           image2 == IF both THEN WithRow(rows, y, png_combine_row(x, r.pass, rows[y], FALSE))
                     ELSE Placed(rows, r, x)
           shown2 == IF both THEN WithRow(display, y, png_combine_row(x, r.pass, display[y], TRUE))
                     ELSE display
<1>2. /\ Reading(r) /\ r.pass # 7 /\ r.row_number < r.num_rows
      /\ ~Skipped(job.readHandling, r.pass, r.row_number)
  <2>1. rd.started => r = rd
    BY DEF reader
  <2>2. /\ Reading(r) /\ r.pass # 7 /\ r.row_number < r.num_rows
        /\ ~rd.started => ~Skipped(job.readHandling, r.pass, r.row_number)
    BY <1>1, ReaderStands
  <2> HIDE DEF r
  <2> QED BY <1>1, <2>1, <2>2 DEF Skipped, deinterlaces
<1>3. PixelsOK(r, rows, display)
  BY <1>1, ReaderReady
<1>4. IF TooShort(r, n) THEN TRUE
      ELSE rd' = png_read_finish_row(done) /\ rows' = image2 /\ display' = shown2
  <2>1. IF TooShort(r, n) THEN TRUE ELSE rd' = png_read_finish_row(done)
    BY Zenon DEF png_read_row, Widened, Stored, Taken
  <2>2. IF TooShort(r, n) THEN TRUE
        ELSE IF both
        THEN /\ display' = WithRow(display, y, png_combine_row(x, r.pass, display[y], TRUE))
             /\ rows' = WithRow(rows, y, png_combine_row(x, r.pass, rows[y], FALSE))
        ELSE rows' = Placed(rows, r, x) /\ display' = display
    BY Zenon DEF png_read_row, Widened, Stored, Taken, WithRow
  <2> HIDE DEF r, n, row, x, prev, done, y, both
  <2> QED BY <2>1, <2>2
<1>5. n = PNG_ROWBYTES(depth, r.iwidth) /\ row = RowRead(r, n) /\ x = Widened(row, r.iwidth, r.pass)
      /\ prev = Stored(r.prev_row, row, n) /\ done = Taken(r, n, x, prev)
  OBVIOUS
<1> HIDE DEF r, n, row, x, prev, done
<1>6. RowInto(image2, rows, r, x) /\ ShownInto(shown2, display, r, x)
  BY Zenon DEF RowInto, ShownInto
<1> HIDE DEF y, image2, shown2, both
<1>7. ~(job.progressive /\ deinterlaces)
  BY <1>1
<1>8. PixelsOK(png_read_finish_row(done), image2, shown2)
  BY <1>1, <1>2, <1>3, <1>5, <1>6, <1>7, ReadOn
<1>9. ~TooShort(r, n)
  BY <1>1, <1>2, <1>5, RowTaken
<1> QED BY <1>4, <1>8, <1>9

LEMMA SkipOn ==
  ASSUME JobOK, deinterlaces, ~job.progressive, NEW r, Ahead(r), SkipsRow(r.row_number, width, r.pass),
         NEW image, NEW shown, PixelsOK(r, image, shown),
         NEW shown2, ShownAgain(r) => ShownInto(shown2, shown, r, r.row_buf), ~ShownAgain(r) => shown2 = shown
  PROVE  PixelsOK(png_read_finish_row(r), image, shown2)
<1> DEFINE p == r.pass
           y == r.row_number
           held == r.row_buf
           next == png_read_finish_row(r)
           dp == shown[y]
           x0 == png_combine_row(held, p, dp, TRUE)
           show == ShownAgain(r)
<1>1. /\ ReaderHolds(r) /\ RowsAt(image, r) /\ IsImage(shown) /\ DisplayAt(shown, p, y) /\ InBuffer(r)
      /\ RowBuffers(r) /\ HasAbove(r, r.row_number)
  BY DEF PixelsOK, ReaderHolds
<1>2. /\ job.readHandling \in BOOLEAN /\ IsReader(r) /\ r.pass # 7 /\ p \in Passes /\ y \in Nat
      /\ y \in 0 .. height - 1
  BY Sizes DEF Ahead, Standing, IsReader, Passes, At, deinterlaces
<1>3. RowsAmong(job.readHandling, y + 1, p) = RowsAmong(job.readHandling, y, p)
  <2>1. Skipped(job.readHandling, p, y)
    BY DEF Skipped, deinterlaces
  <2>2. RowsAmong(job.readHandling, y, p) \in Nat
        /\ RowsAmong(job.readHandling, y + 1, p)
           = RowsAmong(job.readHandling, y, p) + (IF Skipped(job.readHandling, p, y) THEN 0 ELSE 1)
    BY <1>2, CountOne
  <2> QED BY <2>1, <2>2
<1>4. RowsAt(image, next)
  <2>1. RowsShow(image, r.pass, RowsAmong(job.readHandling, r.row_number + 1, r.pass))
    BY <1>1, <1>2, <1>3 DEF RowsAt
  <2> QED BY <2>1, FinishShows
<1>5. ReaderHolds(next) /\ next.row_buf = r.row_buf
  <2>1. r.pass \in Passes /\ r.row_number \in Nat
    BY <1>2
  <2>2. HasAbove(r, r.row_number + 1)
    BY <1>1, <2>1, StillAbove
  <2> QED BY <1>1, <1>2, <2>2, NextHolds
<1>6. show \in BOOLEAN /\ Due(p, y, held, show)
  BY <1>1, <1>2, SkippedDue
<1>7. \A b \in Nat : b <= r.row_number /\ Covers(r.pass, b, r.row_number + 1) => Expanded(r.row_buf, r.pass, b)
  BY <1>1, <1>2, KeptForNext
<1>8. (show => shown2 = WithRow(shown, y, x0)) /\ (~show => shown2 = shown)
  BY DEF ShownInto
<1>9. dp = shown[y] /\ x0 = png_combine_row(held, p, dp, TRUE) /\ held \in [0 .. RowLast -> Byte]
  BY <1>1 DEF RowBuffers
<1>10. IsImage(shown2) /\ DisplayAt(shown2, p, y + 1)
  <2> HIDE DEF show, p, y, held, dp, x0, next
  <2> QED BY <1>1, <1>2, <1>6, <1>8, <1>9, DisplayGrows
<1>11. DisplayAt(shown2, next.pass, next.row_number) /\ InBuffer(next)
  <2>1. DisplayAt(shown2, r.pass, r.row_number + 1) /\ next = png_read_finish_row(r)
    BY <1>10
  <2> HIDE DEF show, p, y, held, dp, x0, next
  <2> QED BY <1>5, <1>7, <2>1, FinishDisplay
<1> QED BY <1>4, <1>5, <1>10, <1>11 DEF PixelsOK

LEMMA SkipPixels ==
  ASSUME RowsInv, PixelsKnown, ReadRowSkipped
  PROVE  PixelsOK(rd', rows', display')
<1>1. ~AllRead /\ ~job.progressive /\ rd.started /\ deinterlaces /\ SkipsRow(rd.row_number, width, rd.pass)
      /\ rd' = png_read_finish_row(rd) /\ rows' = rows /\ JobOK /\ ReaderOK
  BY DEF ReadRowSkipped, RowsInv
<1>2. Reading(rd) /\ rd.pass # 7 /\ rd.row_number < rd.num_rows
  BY <1>1, ReaderStands DEF reader
<1>3. Ahead(rd)
  <2>1. rd.next_in \in Nat
    BY <1>2 DEF Reading, Standing, IsReader
  <2>2. Step(job.readHandling, rd.pass, rd.row_number) = 0
    BY <1>1 DEF Step, Skipped, deinterlaces
  <2> QED BY <1>2, <2>1, <2>2 DEF Ahead, Reading
<1> DEFINE r == rd
           show == ShownAgain(r)
           y == r.row_number
           shown2 == IF show THEN WithRow(display, y, png_combine_row(r.row_buf, r.pass, display[y], TRUE))
                     ELSE display
<1>4. display' = shown2
  BY Zenon DEF ReadRowSkipped, WithRow
<1>5. Ahead(r) /\ PixelsOK(r, rows, display) /\ SkipsRow(r.row_number, width, r.pass)
      /\ rd' = png_read_finish_row(r)
  BY <1>1, <1>3 DEF PixelsKnown
<1>6. (ShownAgain(r) => ShownInto(shown2, display, r, r.row_buf)) /\ (~ShownAgain(r) => shown2 = display)
  <2> HIDE DEF r
  <2> QED BY Zenon DEF ShownInto
<1> HIDE DEF r, shown2, show
<1>7. PixelsOK(png_read_finish_row(r), rows, shown2)
  BY <1>1, <1>5, <1>6, SkipOn
<1> QED BY <1>1, <1>4, <1>5, <1>7

(* The rows that a progressive reader shows for the one it has read. *)
LEMMA PushOn ==
  ASSUME JobOK, WriterOK(wr, stream), Written, StreamHolds(stream), deinterlaces, job.progressive,
         NEW r, Reading(r), r.pass # 7, r.row_number < r.num_rows,
         ~Skipped(job.readHandling, r.pass, r.row_number),
         NEW image, NEW shown, PixelsOK(r, image, shown),
         NEW n, n = PNG_ROWBYTES(depth, r.iwidth), NEW row, row = RowRead(r, n),
         NEW x, x = Widened(row, r.iwidth, r.pass),
         NEW prev, prev = Stored(r.prev_row, row, n), NEW done, done = Taken(r, n, x, prev),
         NEW s, s.r = done, s.image = shown
  PROVE  PixelsOK(PushRows(s).r, image, PushRows(s).image)
<1> DEFINE p == r.pass
           y == r.row_number
           i == RowsAmong(job.readHandling, y, p)
<1>1. ReaderHolds(r) /\ IsImage(shown) /\ DisplayAt(shown, r.pass, r.row_number)
  BY DEF PixelsOK
<1>2. p = r.pass /\ y = r.row_number /\ i = RowsAmong(job.readHandling, y, p)
  OBVIOUS
<1>3. /\ HasRow(p, i) /\ row \in [0 .. RowLast -> Byte] /\ Agree(RowLength(p) - 1, row, RawRow(p, i))
      /\ x \in [0 .. RowLast -> Byte]
      /\ (deinterlaces => Expanded(x, p, ImageRow(p, i)) /\ ImageRow(p, i) = y /\ y \in 0 .. height - 1)
      /\ (~deinterlaces => x = row)
      /\ ~TooShort(r, n) /\ Ahead(done) /\ done.pass = p /\ done.row_number = y
      /\ RowBuffers(done) /\ HasAbove(done, y + 1) /\ done.row_buf = x
  <2> HIDE DEF p, y, i
  <2>1. x = Widened(row, r.iwidth, p)
    BY <1>2
  <2> QED BY <1>1, <1>2, <2>1, OneRow
<1> HIDE DEF i
<1>4. ~SkipsRow(s.r.row_number, width, s.r.pass)
  BY <1>3 DEF Skipped, deinterlaces
<1>5. Expanded(s.r.row_buf, s.r.pass, s.r.row_number)
  BY <1>3
<1>6. Ahead(s.r) /\ HasAbove(s.r, s.r.row_number + 1)
  BY <1>3
<1>7. Drawing(s)
  BY <1>1, <1>3 DEF Drawing
<1>8. Drawn(PushRows(s))
  BY <1>4, <1>5, <1>6, <1>7, PushedDrawn
<1> DEFINE u == PushRows(s)
<1>9. Drawn(u)
  BY <1>8
<1> HIDE DEF u
<1>10. PixelsOK(u.r, image, u.image)
  BY <1>9 DEF PixelsOK, Drawn, Drawing, ReaderHolds
<1> QED BY <1>10 DEF u

LEMMA PushPixels ==
  ASSUME RowsInv, StreamOK, PixelsKnown, png_push_process_row
  PROVE  PixelsOK(rd', rows', display')
<1>1. Written /\ ~AllRead /\ job.progressive /\ JobOK /\ WriterOK(wr, stream) /\ ReaderOK
      /\ StreamHolds(stream)
  BY DEF png_push_process_row, RowsInv, StreamOK
<1> DEFINE r == reader
           n == PNG_ROWBYTES(depth, r.iwidth)
           row == RowRead(r, n)
           x == Widened(row, r.iwidth, r.pass)
           prev == Stored(r.prev_row, row, n)
           done == Taken(r, n, x, prev)
           s == [r |-> done, calls |-> calls, image |-> display]
           image2 == Placed(rows, r, x)
<1>2. /\ Reading(r) /\ r.pass # 7 /\ r.row_number < r.num_rows
      /\ ~Skipped(job.readHandling, r.pass, r.row_number)
  <2>1. rd.started => r = rd
    BY DEF reader
  <2>2. /\ Reading(r) /\ r.pass # 7 /\ r.row_number < r.num_rows
        /\ ~rd.started => ~Skipped(job.readHandling, r.pass, r.row_number)
    BY <1>1, ReaderStands
  <2>3. rd.started => (deinterlaces => Rests(rd))
    BY <1>1 DEF ReaderOK
  <2> HIDE DEF r
  <2> QED BY <1>1, <2>1, <2>2, <2>3 DEF Skipped, deinterlaces, Rests
<1>3. PixelsOK(r, rows, display)
  BY <1>1, ReaderReady
<1>4. IF TooShort(r, n) THEN TRUE
      ELSE IF deinterlaces
      THEN rd' = PushRows(s).r /\ display' = PushRows(s).image /\ rows' = rows
      ELSE rd' = png_read_push_finish_row(done) /\ rows' = image2 /\ display' = display
  BY Zenon DEF png_push_process_row, Widened, Stored, Taken
<1>5. n = PNG_ROWBYTES(depth, r.iwidth) /\ row = RowRead(r, n) /\ x = Widened(row, r.iwidth, r.pass)
      /\ prev = Stored(r.prev_row, row, n) /\ done = Taken(r, n, x, prev)
      /\ s.r = done /\ s.image = display /\ image2 = Placed(rows, r, x)
  OBVIOUS
<1> HIDE DEF r, n, row, x, prev, done, s, image2
<1>6. ~TooShort(r, n)
  BY <1>1, <1>2, <1>5, RowTaken
<1>7. CASE deinterlaces
  <2>1. PixelsOK(PushRows(s).r, rows, PushRows(s).image)
    BY <1>1, <1>2, <1>3, <1>5, <1>7, PushOn
  <2> QED BY <1>4, <1>6, <1>7, <2>1
<1>8. CASE ~deinterlaces
  <2>1. png_read_push_finish_row(done) = png_read_finish_row(done)
    BY <1>1, <1>8, Sizes DEF png_read_push_finish_row, png_read_finish_row, deinterlaces
  <2>2. RowInto(image2, rows, r, x) /\ ShownInto(display, display, r, x) /\ ~(job.progressive /\ deinterlaces)
    BY <1>5, <1>8 DEF RowInto, ShownInto
  <2>3. PixelsOK(png_read_finish_row(done), image2, display)
    BY <1>1, <1>2, <1>3, <1>5, <2>2, ReadOn
  <2> QED BY <1>4, <1>6, <1>8, <2>1, <2>3
<1> QED BY <1>7, <1>8

(* Like the invariants of the rows, what is known of the pixels is about the job and
   what it is given alone. *)
LEMMA SamePixels ==
  ASSUME job' = job
  PROVE  PixelsOK(rd, rows, display)' <=> PixelsOK(rd', rows', display')
<1>1. RowLast' = RowLast
  BY SameRows, Zenon DEF RowLast
<1>2. RowBuffers(rd)' <=> RowBuffers(rd')
  BY <1>1, Zenon DEF RowBuffers
<1>3. ASSUME NEW p, NEW y PROVE RowsAmong(job.readHandling, y, p)' = RowsAmong(job.readHandling, y, p)
  BY SameRows, Zenon DEF RowsAmong
<1>4. HasAbove(rd, rd.row_number)' <=> HasAbove(rd', rd'.row_number)
  <2>1. ASSUME NEW r, NEW y PROVE HasAbove(r, y)' <=> HasAbove(r, y)
    <3> DEFINE i == RowsAmong(job.readHandling, y, r.pass)
    <3>1. i' = i
      BY <1>3
    <3>2. RowAbove(r.pass, i)' = RowAbove(r.pass, i)
      <4>1. \A j : RowAbove(r.pass, j)' = RowAbove(r.pass, j)
        BY SameRawRows
      <4> HIDE DEF i
      <4> QED BY <3>1, <4>1, Zenon
    <3>3. RowLength(r.pass)' = RowLength(r.pass)
      BY SameRawRows
    <3> QED BY <3>2, <3>3, Zenon DEF HasAbove, Agree
  <2> QED BY <2>1, Zenon
<1>5. ASSUME NEW image, NEW x, NEW z PROVE Shows(image, x, z)' = Shows(image, x, z)
  BY SameRows, Zenon DEF Shows
<1>6. ASSUME NEW image PROVE IsImage(image)' <=> IsImage(image)
  BY SameRows, Zenon DEF IsImage
<1>7. RowsAt(rows, rd)' <=> RowsAt(rows', rd')
  <2>1. ASSUME NEW image, NEW r PROVE RowsAt(image, r)' <=> RowsAt(image, r)
    <3>1. ASSUME NEW p, NEW n, NEW x, NEW z PROVE Got(p, n, x, z)' <=> Got(p, n, x, z)
      BY Zenon DEF Got
    <3>2. ASSUME NEW x PROVE BlankPixel(x)' = BlankPixel(x)
      BY SameRows, Zenon DEF BlankPixel, AppRow
    <3>3. ASSUME NEW p, NEW n PROVE RowsShow(image, p, n)' <=> RowsShow(image, p, n)
      BY <1>5, <1>6, <3>1, <3>2, SameRows, Zenon DEF RowsShow
    <3> QED BY <1>3, <3>3, Zenon DEF RowsAt
  <2> QED BY <2>1, Zenon
<1>8. DisplayAt(display, rd.pass, rd.row_number)' <=> DisplayAt(display', rd'.pass, rd'.row_number)
  <2>1. ASSUME NEW image, NEW z, NEW p PROVE RowBlocky(image, z, p)' <=> RowBlocky(image, z, p)
    BY <1>5, SameRows, Zenon DEF RowBlocky
  <2> QED BY <2>1, SameRows, Zenon DEF DisplayAt
<1>9. InBuffer(rd)' <=> InBuffer(rd')
  <2>1. ASSUME NEW row, NEW p, NEW y PROVE Expanded(row, p, y)' <=> Expanded(row, p, y)
    BY SameRows, Zenon DEF Expanded
  <2>2. ASSUME NEW p, NEW b, NEW z PROVE Covers(p, b, z)' <=> Covers(p, b, z)
    BY SameRows, Zenon DEF Covers
  <2> QED BY <2>1, <2>2, Zenon DEF InBuffer
<1>10. deinterlaces' <=> deinterlaces
  BY DEF deinterlaces
<1>11. IsImage(display)' <=> IsImage(display')
  BY <1>6
<1>12. ReaderHolds(rd)' <=> ReaderHolds(rd')
  BY <1>2, <1>4 DEF ReaderHolds
<1> QED BY <1>7, <1>8, <1>9, <1>10, <1>11, <1>12 DEF PixelsOK

PixelsInv == RowsInv /\ StreamOK /\ PixelsKnown

LEMMA PixelsKept ==
  ASSUME PixelsKnown, job' = job, rd' = rd, rows' = rows, display' = display
  PROVE  PixelsKnown'
<1>1. EmptyImage' = EmptyImage
  BY SameRows, Zenon DEF EmptyImage, AppRow
<1> QED BY <1>1, SamePixels DEF PixelsKnown

LEMMA StreamKept ==
  ASSUME StreamOK, job' = job, wr' = wr, mem' = mem, stream' = stream
  PROVE  StreamOK'
BY SameStream DEF StreamOK

LEMMA PixelsMove ==
  ASSUME PixelsInv, ReadRowSkipped \/ png_read_row \/ png_push_process_row
  PROVE  PixelsInv'
<1>1. job' = job /\ wr' = wr /\ mem' = mem /\ stream' = stream
  BY DEF ReadRowSkipped, png_read_row, png_push_process_row
<1>2. RowsInv'
  BY ReaderMoves DEF PixelsInv
<1>3. StreamOK'
  BY <1>1, StreamKept DEF PixelsInv
<1>4. PixelsOK(rd', rows', display')
  BY SkipPixels, ReadPixels, PushPixels DEF PixelsInv
<1>5. rd'.started
  <2>1. Reading(rd')
    BY SkipStep, ReadStep, PushStep DEF PixelsInv, RowsInv
  <2> QED BY <2>1 DEF Reading, Standing
<1>6. PixelsKnown'
  BY <1>1, <1>4, <1>5, SamePixels DEF PixelsKnown
<1> QED BY <1>2, <1>3, <1>6 DEF PixelsInv

LEMMA PixelsStart ==
  ASSUME Init
  PROVE  PixelsInv
<1>1. PixelsKnown
  BY DEF Init, PixelsKnown
<1> QED BY <1>1, NoRows, NothingWritten DEF PixelsInv

LEMMA PixelsNext ==
  ASSUME PixelsInv, [ProgressiveNext]_<<vars, pushVars, delivery>>
  PROVE  PixelsInv'
<1>1. CASE UNCHANGED vars
  <2>1. job' = job /\ rd' = rd /\ rows' = rows /\ display' = display /\ wr' = wr /\ mem' = mem /\ stream' = stream
    BY <1>1 DEF vars
  <2> QED BY <1>1, <2>1, NothingMoves, StreamKept, PixelsKept DEF PixelsInv
<1>2. CASE Sequential
  <2>1. CASE WriteRowSkipped \/ png_write_row \/ png_set_filter
    <3>1. job' = job /\ rd' = rd /\ rows' = rows /\ display' = display
      BY <2>1 DEF WriteRowSkipped, png_write_row, png_set_filter
    <3>2. MemoryOK(wr', mem') /\ StreamHolds(stream')
      BY <2>1, WriterKeepsStream DEF PixelsInv
    <3>3. StreamOK'
      BY <3>1, <3>2, SameStream DEF StreamOK
    <3> QED BY <2>1, <3>1, <3>3, WriterMoves, PixelsKept DEF PixelsInv
  <2>2. CASE ReadRowSkipped \/ png_read_row
    BY <2>2, PixelsMove
  <2> QED BY <1>2, <2>1, <2>2 DEF Sequential
<1>3. CASE ProcessRow
  BY <1>3, PixelsMove DEF ProcessRow
<1>4. CASE OpenFile \/ GivePiece \/ ProcessPiece \/ Stay
  BY <1>1, <1>4, Zenon DEF OpenFile, GivePiece, ProcessPiece, Stay
<1> QED BY <1>1, <1>2, <1>3, <1>4, Zenon DEF ProgressiveNext

----------------------------------------------------------------------------
(* Every pixel of the image has been read. *)
LEMMA InvRestores ==
  ASSUME PixelsInv
  PROVE  ImageIsRestored
<1>1. JobOK /\ ReaderOK
  BY DEF PixelsInv, RowsInv
<1>2. SUFFICES ASSUME AllRead, NEW y \in 0 .. height - 1, NEW x \in 0 .. width - 1
               PROVE  Shows(IF job.progressive /\ deinterlaces THEN display ELSE rows, x, y) = Image[y][x]
  BY Zenon DEF ImageIsRestored
<1>3. rd.started
  BY <1>1, <1>2 DEF ReaderOK, AllRead
<1>4. Reading(rd) /\ PixelsOK(rd, rows, display)
  BY <1>1, <1>3 DEF ReaderOK, PixelsInv, PixelsKnown
<1>5. x \in Nat /\ y \in Nat /\ y >= 0
  BY <1>1, Sizes
<1>6. CASE job.progressive /\ deinterlaces
  <2>1. rd.pass = 7 /\ rd.row_number = 0
    BY <1>2, <1>4, <1>6 DEF AllRead, deinterlaces, Reading, Standing, At
  <2>2. DisplayAt(display, 7, 0)
    BY <1>4, <1>6, <2>1 DEF PixelsOK
  <2>3. RowBlocky(display, y, 7)
    BY <1>5, <2>2, Zenon DEF DisplayAt
  <2>4. BlockHeight(7) = 1 /\ BlockWidth(7) = 1 /\ 7 > 0
    BY DEF BlockHeight, BlockWidth
  <2>5. Shows(display, x, y) = Image[y - (y % 1)][x - (x % 1)]
    BY <2>3, <2>4, Zenon DEF RowBlocky
  <2>6. y - (y % 1) = y /\ x - (x % 1) = x
    BY <1>5
  <2>7. Shows(display, x, y) = Image[y][x]
    BY <2>5, <2>6
  <2> QED BY <1>6, <2>7
<1>7. CASE ~(job.progressive /\ deinterlaces)
  <2>1. RowsAt(rows, rd)
    BY <1>4, <1>7 DEF PixelsOK
  <2>2. CASE job.interlaced
    <3>1. rd.pass = 7
      BY <1>2, <2>2 DEF AllRead
    <3>2. RowsShow(rows, 7, 0)
      BY <2>1, <3>1 DEF RowsAt
    <3>3. \E q \in Passes : ColInPass(x, q) /\ RowInPass(y, q)
      BY <1>5, EveryPixelInOnePass
    <3>4. \A q \in Passes : q < 7
      BY DEF Passes
    <3>5. Got(7, 0, x, y)
      BY <2>2, <3>3, <3>4, Zenon DEF Got
    <3>6. Shows(rows, x, y) = Image[y][x]
      BY <3>2, <3>5, Zenon DEF RowsShow
    <3> QED BY <1>7, <3>6
  <2>3. CASE ~job.interlaced
    <3>1. rd.pass = 0 /\ rd.row_number = height
      BY <1>2, <1>4, <2>3 DEF AllRead, Reading, Standing, At
    <3>2. RowsShow(rows, 0, height)
      BY <2>1, <2>3, <3>1 DEF RowsAt, RowsAmong
    <3>3. Got(0, height, x, y)
      BY <1>1, <2>3, Sizes DEF Got
    <3>4. Shows(rows, x, y) = Image[y][x]
      BY <3>2, <3>3, Zenon DEF RowsShow
    <3> QED BY <1>7, <3>4
  <2> QED BY <2>2, <2>3
<1> QED BY <1>6, <1>7

LEMMA InvBlocky ==
  ASSUME PixelsInv
  PROVE  DisplayIsBlocky
<1>1. JobOK /\ ReaderOK
  BY DEF PixelsInv, RowsInv
<1>2. SUFFICES ASSUME deinterlaces, rd.row_number = 0, rd.pass > 0,
                      NEW y \in 0 .. height - 1, NEW x \in 0 .. width - 1
               PROVE  Shows(display, x, y) = Image[y - (y % BlockHeight(rd.pass))][x - (x % BlockWidth(rd.pass))]
  BY Zenon DEF DisplayIsBlocky, BlockHeight, BlockWidth
<1>3. rd.started
  BY <1>1, <1>2 DEF ReaderOK
<1>4. DisplayAt(display, rd.pass, 0)
  BY <1>2, <1>3 DEF PixelsInv, PixelsKnown, PixelsOK
<1>5. y >= 0
  BY <1>1, Sizes
<1>6. RowBlocky(display, y, rd.pass)
  BY <1>4, <1>5, Zenon DEF DisplayAt
<1> QED BY <1>2, <1>6, Zenon DEF RowBlocky

(* The tiles of the columns of a pass, and its rows. *)
LEMMA InPassIs ==
  ASSUME JobOK, NEW p \in Passes, NEW x \in 0 .. width - 1, NEW y \in 0 .. height - 1
  PROVE  InPass(x, y, p) <=> ColInPass(x, p) /\ RowInPass(y, p)
<1>1. x \in Nat /\ y \in Nat /\ width \in Nat /\ width > 0
  BY Sizes
<1> DEFINE a == png_pass_inc[p]
           b == png_pass_start[p]
           m == x % 8
<1>2. \A k \in 0 .. 7 : PNG_COL_FROM_PASS_COL(k, p) = k * a + b
  BY MacrosMatchTables DEF PNG_COL_FROM_PASS_COL
<1>3. a \in {1, 2, 4, 8} /\ b \in 0 .. a - 1
  BY EachPass, Columns
<1>4. ColInPass(x, p) <=> x >= b /\ (x - b) % a = 0
  BY DEF ColInPass
<1>5. (\E k \in 0 .. 7 : m = k * a + b) <=> ColInPass(x, p)
  <2> HIDE DEF a, b
  <2>1. CASE a = 1
    BY <1>1, <1>3, <1>4, <2>1
  <2>2. CASE a = 2
    BY <1>1, <1>3, <1>4, <2>2
  <2>3. CASE a = 4
    BY <1>1, <1>3, <1>4, <2>3
  <2>4. CASE a = 8
    BY <1>1, <1>3, <1>4, <2>4
  <2> QED BY <1>3, <2>1, <2>2, <2>3, <2>4
<1>6. x % 8 \in {PNG_COL_FROM_PASS_COL(k, p) : k \in 0 .. 7} <=> ColInPass(x, p)
  <2>1. x % 8 \in {PNG_COL_FROM_PASS_COL(k, p) : k \in 0 .. 7}
        <=> \E k \in 0 .. 7 : m = PNG_COL_FROM_PASS_COL(k, p)
    OBVIOUS
  <2>2. (\E k \in 0 .. 7 : m = PNG_COL_FROM_PASS_COL(k, p)) <=> \E k \in 0 .. 7 : m = k * a + b
    BY <1>2, Zenon
  <2> QED BY <1>5, <2>1, <2>2
<1>7. SkipsRow(y, width, p) <=> ~RowInPass(y, p) \/ PassWidth(width, p) = 0
  BY <1>1, SkippedRows
<1>8. ColInPass(x, p) /\ RowInPass(y, p) => PassWidth(width, p) # 0
  BY RowIsCounted
<1> QED BY <1>6, <1>7, <1>8, Zenon DEF InPass

LEMMA InvSparkles ==
  ASSUME PixelsInv
  PROVE  RowsSparkle
<1>1. JobOK /\ ReaderOK
  BY DEF PixelsInv, RowsInv
<1>2. SUFFICES ASSUME ~job.progressive, job.interlaced, rd.row_number = 0,
                      NEW y \in 0 .. height - 1, NEW x \in 0 .. width - 1
               PROVE  LET p == CHOOSE q \in Passes : InPass(x, y, q)
                      IN  Shows(rows, x, y) = IF p < rd.pass THEN Image[y][x] ELSE BlankPixel(x)
  BY Zenon DEF RowsSparkle
<1> DEFINE p == CHOOSE q \in Passes : InPass(x, y, q)
<1>3. x \in Nat /\ y \in Nat
  BY <1>1, Sizes
<1>4. p \in Passes /\ ColInPass(x, p) /\ RowInPass(y, p)
      /\ \A q \in Passes : ColInPass(x, q) /\ RowInPass(y, q) => q = p
  <2>1. PICK k \in Passes : /\ ColInPass(x, k) /\ RowInPass(y, k)
                            /\ \A q \in Passes : ColInPass(x, q) /\ RowInPass(y, q) => q = k
    BY <1>3, EveryPixelInOnePass
  <2>2. \A q \in Passes : InPass(x, y, q) <=> ColInPass(x, q) /\ RowInPass(y, q)
    BY <1>1, <1>2, InPassIs
  <2>3. InPass(x, y, k)
    BY <2>1, <2>2
  <2>4. p \in Passes /\ InPass(x, y, p)
    BY <2>1, <2>3, Zenon
  <2> QED BY <2>1, <2>2, <2>4, Zenon
<1> HIDE DEF p
<1>5. PassHeight(y, p) \in Nat
  BY <1>3, <1>4, PassSizes
<1>6. Got(rd.pass, 0, x, y) <=> p < rd.pass
  <2>1. \A q \in Passes : ColInPass(x, q) /\ RowInPass(y, q) <=> q = p
    BY <1>4
  <2>2. ~(PassHeight(y, p) < 0)
    BY <1>5
  <2>3. Got(rd.pass, 0, x, y) <=> (p < rd.pass \/ (p = rd.pass /\ PassHeight(y, p) < 0))
    BY <1>2, <1>4, <2>1, Zenon DEF Got
  <2> QED BY <2>2, <2>3
<1>7. RowsShow(rows, rd.pass, 0) \/ (~rd.started /\ rows = EmptyImage /\ rd.pass = 0)
  <2>1. CASE rd.started
    <3>1. RowsAt(rows, rd) /\ rd.pass \in 0 .. 7
      BY <1>1, <1>2, <2>1 DEF PixelsInv, PixelsKnown, PixelsOK, ReaderOK, Reading, Standing, IsReader
    <3>2. rd.pass # 7 => RowsAmong(job.readHandling, 0, rd.pass) = 0
      <4>1. rd.pass # 7 => rd.pass \in Passes
        BY <3>1 DEF Passes
      <4> QED BY <4>1, NoRowsYet DEF RowsAmong
    <3>3. (IF rd.pass = 7 THEN 0 ELSE RowsAmong(job.readHandling, rd.row_number, rd.pass)) = 0
      BY <1>2, <3>2
    <3> QED BY <3>1, <3>3 DEF RowsAt
  <2>2. CASE ~rd.started
    BY <1>1, <2>2 DEF PixelsInv, PixelsKnown, ReaderOK
  <2> QED BY <2>1, <2>2
<1>8. (p < rd.pass => Shows(rows, x, y) = Image[y][x]) /\ (~(p < rd.pass) => Shows(rows, x, y) = BlankPixel(x))
  <2>1. CASE RowsShow(rows, rd.pass, 0)
    BY <1>6, <2>1, Zenon DEF RowsShow
  <2>2. CASE ~rd.started /\ rows = EmptyImage /\ rd.pass = 0
    <3>1. ~(p < rd.pass)
      BY <1>4, <2>2 DEF Passes
    <3>2. Shows(EmptyImage, x, y) = BlankPixel(x)
      BY <1>1, NothingShown
    <3> QED BY <2>2, <3>1, <3>2
  <2> QED BY <1>7, <2>1, <2>2
<1>9. Shows(rows, x, y) = IF p < rd.pass THEN Image[y][x] ELSE BlankPixel(x)
  BY <1>8
<1> QED BY <1>9, Zenon DEF p

(* Whatever the size and the depth of the image, the filters chosen and the ways in
   which writer and readers handle interlacing, what is read is what was written: the
   filters look at the rows that both sides have, the best row outlives the next try,
   and each pixel of a pass finds its place. *)
THEOREM ImageComesBack == ProgressiveSpec => []ImageIsRestored
<1>1. ProgressiveInit => PixelsInv
  BY PixelsStart DEF ProgressiveInit
<1>2. PixelsInv /\ [ProgressiveNext]_<<vars, pushVars, delivery>> => PixelsInv'
  BY PixelsNext
<1> QED BY <1>1, <1>2, InvRestores, PTL DEF ProgressiveSpec

(* Between two passes `rows' has the pixels of the passes read, and nothing else. *)
THEOREM OnlyPixelsRead == ProgressiveSpec => []RowsSparkle
<1>1. ProgressiveInit => PixelsInv
  BY PixelsStart DEF ProgressiveInit
<1>2. PixelsInv /\ [ProgressiveNext]_<<vars, pushVars, delivery>> => PixelsInv'
  BY PixelsNext
<1> QED BY <1>1, <1>2, InvSparkles, PTL DEF ProgressiveSpec

(* Between two passes the display has the blocks that the passes read allow, whether
   the rows come one by one or with the calls of row_fn. *)
THEOREM BlocksGetFiner == ProgressiveSpec => []DisplayIsBlocky
<1>1. ProgressiveInit => PixelsInv
  BY PixelsStart DEF ProgressiveInit
<1>2. PixelsInv /\ [ProgressiveNext]_<<vars, pushVars, delivery>> => PixelsInv'
  BY PixelsNext
<1> QED BY <1>1, <1>2, InvBlocky, PTL DEF ProgressiveSpec

----------------------------------------------------------------------------
(* The file around the stream. *)

(* PngPushProof speaks of the same operators as PngProgressive's PngPush. *)
LEMMA SameBuffers ==
  /\ \A m, n : Push!Lesser(m, n) = PushProof!Lesser(m, n)
  /\ \A b : Push!Unread(b) = PushProof!Unread(b)
  /\ \A b : Push!Emptied(b) = PushProof!Emptied(b)
  /\ \A b, n : Push!Bytes(b, n) = PushProof!Bytes(b, n)
  /\ \A b, n : Push!png_push_fill_buffer(b, n) = PushProof!png_push_fill_buffer(b, n)
  /\ \A b : Push!png_push_save_buffer(b) = PushProof!png_push_save_buffer(b)
BY Zenon DEF Push!Lesser, PushProof!Lesser, Push!Unread, PushProof!Unread, Push!Emptied,
PushProof!Emptied,
   Push!Bytes, PushProof!Bytes, Push!png_push_fill_buffer, PushProof!png_push_fill_buffer,
   Push!png_push_save_buffer, PushProof!png_push_save_buffer, Push!Moved, PushProof!Moved,
   Push!Garbage, PushProof!Garbage

LEMMA SameHeader ==
  /\ Push!Busy <=> PushProof!Busy
  /\ Push!HasHeader <=> PushProof!HasHeader
  /\ Push!HeaderIsThere <=> PushProof!HeaderIsThere
  /\ Push!header = PushProof!header
  /\ Push!afterHeader = PushProof!afterHeader
  /\ Push!full <=> PushProof!full
  /\ Push!ReadHeader <=> PushProof!ReadHeader
  /\ Push!png_error <=> PushProof!png_error
  /\ \A name : Push!OutOfPlace(name) <=> PushProof!OutOfPlace(name)
  /\ \A name, crc : Push!CRCError(name, crc) <=> PushProof!CRCError(name, crc)
  /\ \A name : Push!Handled(name) = PushProof!Handled(name)
  /\ \A b, pause : Push!Callback(b, pause) <=> PushProof!Callback(b, pause)
<1>1. Push!header = PushProof!header /\ Push!afterHeader = PushProof!afterHeader
  BY Zenon, SameBuffers DEF Push!header, PushProof!header, Push!afterHeader,
  PushProof!afterHeader,
     Push!HasHeader, PushProof!HasHeader, Push!HeaderAt, PushProof!HeaderAt, Push!NoChunk, PushProof!NoChunk
<1>2. \A b, pause : Push!Callback(b, pause) <=> PushProof!Callback(b, pause)
  BY Zenon, SameBuffers DEF Push!Callback, PushProof!Callback
<1>3.
  /\ Push!Busy <=> PushProof!Busy
  /\ Push!HasHeader <=> PushProof!HasHeader
  /\ Push!HeaderIsThere <=> PushProof!HeaderIsThere
  /\ Push!png_error <=> PushProof!png_error
  /\ \A name : Push!OutOfPlace(name) <=> PushProof!OutOfPlace(name)
  /\ \A name, crc : Push!CRCError(name, crc) <=> PushProof!CRCError(name, crc)
  /\ \A name : Push!Handled(name) = PushProof!Handled(name)
  BY Zenon DEF Push!Busy, PushProof!Busy, Push!HasHeader, PushProof!HasHeader,
  Push!HeaderIsThere, PushProof!HeaderIsThere,
    Push!png_error, PushProof!png_error, Push!OutOfPlace, PushProof!OutOfPlace, Push!CRCError, PushProof!CRCError,
    Push!Handled, PushProof!Handled
<1>4. (Push!full <=> PushProof!full) /\ (Push!ReadHeader <=> PushProof!ReadHeader)
  BY <1>1, Zenon DEF Push!full, PushProof!full, Push!ReadHeader, PushProof!ReadHeader
<1> QED BY <1>1, <1>2, <1>3, <1>4

LEMMA ChunkStep == ASSUME NEW x, Push!HandleChunk(x) PROVE PushProof!HandleChunk(x)
BY SameBuffers, SameHeader, ZenonT(60) DEF Push!HandleChunk, PushProof!HandleChunk
LEMMA BeginStep == ASSUME NEW x, Push!BeginIDAT(x) PROVE PushProof!BeginIDAT(x)
BY SameBuffers, SameHeader DEF Push!BeginIDAT, PushProof!BeginIDAT
LEMMA InflateStep == ASSUME Push!png_push_read_IDAT PROVE PushProof!png_push_read_IDAT
BY SameBuffers, SameHeader DEF Push!png_push_read_IDAT, PushProof!png_push_read_IDAT
LEMMA SignatureStep == ASSUME Push!png_push_read_sig PROVE PushProof!png_push_read_sig
BY SameBuffers, SameHeader, Zenon DEF Push!png_push_read_sig, PushProof!png_push_read_sig,
                                      Push!Lesser, PushProof!Lesser

LEMMA WaitStep == ASSUME Push!WaitForHeader PROVE PushProof!WaitForHeader
BY SameBuffers, SameHeader, Zenon DEF Push!WaitForHeader, PushProof!WaitForHeader

LEMMA EndStep == ASSUME Push!EndIDAT PROVE PushProof!EndIDAT
BY SameBuffers, SameHeader, Zenon DEF Push!EndIDAT, PushProof!EndIDAT, Push!Ended,
                                      PushProof!Ended

LEMMA DiscardStep == ASSUME Push!Discard PROVE PushProof!Discard
BY SameBuffers, SameHeader, Zenon DEF Push!Discard, PushProof!Discard

LEMMA PieceStep == ASSUME Push!png_process_some_data PROVE PushProof!Next
<1>1. ASSUME NEW pause \in Pauses, Push!HandleChunk(pause) PROVE PushProof!HandleChunk(pause)
  BY <1>1, ChunkStep
<1>2. ASSUME NEW pause \in Pauses, Push!BeginIDAT(pause) PROVE PushProof!BeginIDAT(pause)
  BY <1>2, BeginStep
<1> QED
  BY <1>1, <1>2, InflateStep, SignatureStep, WaitStep, EndStep, DiscardStep, Zenon
  DEF Push!png_process_some_data, PushProof!png_process_some_data, PushProof!Next

LEMMA OpenStep == ASSUME NEW f, Push!OpenFile(f) PROVE PushProof!OpenFile(f)
BY Zenon DEF Push!OpenFile, PushProof!OpenFile, Push!IsFile, PushProof!IsFile, Push!NoFile,
             PushProof!NoFile, Push!ChunkNames, PushProof!ChunkNames

LEMMA GiveStep == ASSUME NEW n, Push!png_process_data(n) PROVE PushProof!png_process_data(n)
BY SameBuffers, Zenon DEF Push!png_process_data, PushProof!png_process_data, Push!NoFile,
PushProof!NoFile,
   Push!png_push_restore_buffer, PushProof!png_push_restore_buffer

LEMMA InitStep == ASSUME Push!Init PROVE PushProof!Init
BY Zenon DEF Push!Init, PushProof!Init, Push!NoFile, PushProof!NoFile, Push!EmptyBuffers,
             PushProof!EmptyBuffers

LEMMA StayStep == ASSUME UNCHANGED pushVars PROVE UNCHANGED PushProof!pushVars
BY Zenon DEF pushVars, PushProof!pushVars

LEMMA SamePlace == Push!start = PushProof!start /\ Push!position = PushProof!position
BY Zenon DEF Push!start, PushProof!start, Push!position, PushProof!position, Push!HasHeader,
             PushProof!HasHeader

LEMMA SameFile ==
  /\ Push!File!vars = PushProof!File!vars
  /\ Push!File!Chunk = PushProof!File!Chunk
  /\ Push!File!CRC = PushProof!File!CRC
  /\ Push!File!OutOfPlace <=> PushProof!File!OutOfPlace
  /\ Push!File!CRCError <=> PushProof!File!CRCError
  /\ Push!File!Ended <=> PushProof!File!Ended
  /\ \A name : Push!File!Now(name) = PushProof!File!Now(name)
  /\ \A n : Push!File!ForZlib(n) = PushProof!File!ForZlib(n)
  /\ \A p, n : Push!File!Interval(p, n) = PushProof!File!Interval(p, n)
<1>1. Push!File!vars = PushProof!File!vars
  BY SamePlace, Zenon DEF Push!File!vars, PushProof!File!vars, Push!HasHeader,
                          PushProof!HasHeader
<1>2. Push!File!Chunk = PushProof!File!Chunk
  BY SamePlace, Zenon DEF Push!File!Chunk, PushProof!File!Chunk, Push!File!HeaderAt,
                          PushProof!File!HeaderAt, Push!File!NoChunk, PushProof!File!NoChunk
<1>3. Push!File!CRC = PushProof!File!CRC
  BY SamePlace, <1>2, Zenon DEF Push!File!CRC, PushProof!File!CRC
<1>4.
  /\ Push!File!OutOfPlace <=> PushProof!File!OutOfPlace
  /\ Push!File!CRCError <=> PushProof!File!CRCError
  /\ Push!File!Ended <=> PushProof!File!Ended
  BY <1>2, <1>3, Zenon DEF Push!File!OutOfPlace, PushProof!File!OutOfPlace, Push!File!CRCError,
                           PushProof!File!CRCError, Push!File!Ended, PushProof!File!Ended
<1>5.
  /\ \A name : Push!File!Now(name) = PushProof!File!Now(name)
  /\ \A n : Push!File!ForZlib(n) = PushProof!File!ForZlib(n)
  /\ \A p, n : Push!File!Interval(p, n) = PushProof!File!Interval(p, n)
  BY Zenon DEF Push!File!Now, PushProof!File!Now, Push!File!ForZlib, PushProof!File!ForZlib,
               Push!File!Interval, PushProof!File!Interval
<1> QED BY <1>1, <1>2, <1>3, <1>4, <1>5

LEMMA SameActions ==
  /\ Push!File!Open <=> PushProof!File!Open
  /\ Push!File!Signature <=> PushProof!File!Signature
  /\ Push!File!HandleChunk <=> PushProof!File!HandleChunk
  /\ Push!File!BeginIDAT <=> PushProof!File!BeginIDAT
  /\ \A n : Push!File!Inflate(n) <=> PushProof!File!Inflate(n)
  /\ Push!File!EndIDAT <=> PushProof!File!EndIDAT
  /\ Push!File!Fail <=> PushProof!File!Fail
  /\ Push!File!Discard <=> PushProof!File!Discard
<1>1. Push!File!Open <=> PushProof!File!Open
  BY SamePlace, SameFile, Zenon DEF Push!File!Open, PushProof!File!Open, Push!File!NoFile,
                                    PushProof!File!NoFile, Push!HasHeader, PushProof!HasHeader,
                                    Push!position, PushProof!position, Push!start,
                                    PushProof!start
<1>2. Push!File!Signature <=> PushProof!File!Signature
  BY SamePlace, SameFile, Zenon DEF Push!File!Signature, PushProof!File!Signature,
                                    Push!HasHeader, PushProof!HasHeader, Push!position,
                                    PushProof!position, Push!start, PushProof!start
<1>3. Push!File!HandleChunk <=> PushProof!File!HandleChunk
  BY SamePlace, SameFile, Zenon DEF Push!File!HandleChunk, PushProof!File!HandleChunk,
                                    Push!HasHeader, PushProof!HasHeader, Push!position,
                                    PushProof!position, Push!start, PushProof!start
<1>4. Push!File!BeginIDAT <=> PushProof!File!BeginIDAT
  BY SamePlace, SameFile, Zenon DEF Push!File!BeginIDAT, PushProof!File!BeginIDAT,
                                    Push!HasHeader, PushProof!HasHeader, Push!position,
                                    PushProof!position, Push!start, PushProof!start
<1>5. \A n : Push!File!Inflate(n) <=> PushProof!File!Inflate(n)
  BY SamePlace, SameFile, Zenon DEF Push!File!Inflate, PushProof!File!Inflate, Push!HasHeader,
                                    PushProof!HasHeader, Push!position, PushProof!position,
                                    Push!start, PushProof!start
<1>6. Push!File!EndIDAT <=> PushProof!File!EndIDAT
  BY SamePlace, SameFile, Zenon DEF Push!File!EndIDAT, PushProof!File!EndIDAT, Push!HasHeader,
                                    PushProof!HasHeader, Push!position, PushProof!position,
                                    Push!start, PushProof!start
<1>7. Push!File!Fail <=> PushProof!File!Fail
  BY SamePlace, SameFile, Zenon DEF Push!File!Fail, PushProof!File!Fail, Push!HasHeader,
                                    PushProof!HasHeader, Push!position, PushProof!position,
                                    Push!start, PushProof!start
<1>8. Push!File!Discard <=> PushProof!File!Discard
  BY SamePlace, SameFile, Zenon DEF Push!File!Discard, PushProof!File!Discard, Push!HasHeader,
                                    PushProof!HasHeader, Push!position, PushProof!position,
                                    Push!start, PushProof!start
<1> QED BY <1>1, <1>2, <1>3, <1>4, <1>5, <1>6, <1>7, <1>8

LEMMA SameNext == ASSUME PushProof!Good PROVE [Push!File!Next]_(Push!File!vars)
<1>1. [PushProof!File!Next]_(PushProof!File!vars)
  BY DEF PushProof!Good
<1>2. CASE UNCHANGED PushProof!File!vars
  BY <1>2, SameFile, SamePlace, Zenon DEF Push!File!vars, PushProof!File!vars, Push!HasHeader,
                                          PushProof!HasHeader, Push!position,
                                          PushProof!position, Push!start, PushProof!start
<1>3. CASE PushProof!File!Next
  BY <1>3, SameFile, SameActions, Zenon DEF Push!File!Next, PushProof!File!Next
<1> QED BY <1>1, <1>2, <1>3

LEMMA PushSteps ==
  ASSUME PushProof!IInv, [ProgressiveNext]_<<vars, pushVars, delivery>>
  PROVE  PushProof!Good
<1>0. Spare \in Nat
  BY DeliveriesAssumption
<1>1. CASE UNCHANGED pushVars
  BY <1>0, <1>1, StayStep, PushProof!NextGood
<1>2. CASE OpenFile
  BY <1>2, OpenStep, PushProof!OpenFileGood DEF OpenFile
<1>3. CASE GivePiece
  BY <1>3, GiveStep, PushProof!GiveGood DEF GivePiece
<1>4. CASE ProcessPiece
  BY <1>0, <1>4, PieceStep, PushProof!NextGood DEF ProcessPiece
<1>5. CASE Sequential \/ ProcessRow \/ Stay \/ UNCHANGED <<vars, pushVars, delivery>>
  BY <1>1, <1>5, Zenon DEF Sequential, ProcessRow, Stay
<1> QED BY <1>1, <1>2, <1>3, <1>4, <1>5 DEF ProgressiveNext

(* The file with this image in it is taken apart as PngFile says, however it is
   cut into pieces and wherever callbacks pause (png_process_data), while rows are
   processed in between. *)
THEOREM FileIsTakenApart == ProgressiveSpec => ImplementsPngFile
<1>1. ProgressiveInit => PushProof!IInv /\ Push!File!Init
  <2> SUFFICES ASSUME ProgressiveInit PROVE PushProof!IInv /\ Push!File!Init
    OBVIOUS
  <2>1. PushProof!IInv /\ PushProof!File!Init
    BY InitStep, PushProof!InitGood DEF ProgressiveInit
  <2>2. PushProof!File!Init => Push!File!Init
    BY SamePlace, Zenon DEF Push!File!Init, PushProof!File!Init, Push!File!NoFile,
                            PushProof!File!NoFile, Push!HasHeader, PushProof!HasHeader,
                            Push!position, PushProof!position, Push!start, PushProof!start
  <2> QED BY <2>1, <2>2
<1>2. PushProof!IInv /\ [ProgressiveNext]_<<vars, pushVars, delivery>>
        => PushProof!IInv' /\ [Push!File!Next]_(Push!File!vars)
  BY PushSteps, SameNext DEF PushProof!Good
<1> QED BY <1>1, <1>2, PTL DEF ProgressiveSpec, ImplementsPngFile, Push!ImplementsPngFile,
                               Push!File!Spec

(* When png_process_data returns and nobody has paused, what it keeps is less than
   it needs to go on. *)
THEOREM NothingIsKept == ProgressiveSpec => []NothingHeldBack
<1>1. ProgressiveInit => PushProof!IInv
  BY InitStep, PushProof!InitGood DEF ProgressiveInit
<1>2. PushProof!IInv /\ [ProgressiveNext]_<<vars, pushVars, delivery>> => PushProof!IInv'
  BY PushSteps DEF PushProof!Good
<1>3. PushProof!IInv => NothingHeldBack
  BY Zenon DEF PushProof!IInv, PushProof!NothingHeldBack, NothingHeldBack, Push!NothingHeldBack,
               Push!HasHeader, PushProof!HasHeader
<1> QED BY <1>1, <1>2, <1>3, PTL DEF ProgressiveSpec
=============================================================================
