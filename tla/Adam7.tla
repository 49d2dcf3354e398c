------------------------------- MODULE Adam7 -------------------------------
(* Which pixels of an image belong to which pass of an interlaced PNG.  libpng
   says it several times over: in tables that the row code copies from function
   to function, in the macros of png.h that applications use, in the tests by
   which rows are skipped, and in the masks of png_combine_row.  PngRowsProof
   shows that they all say the same, for images of every size.
   `1 << k` is Power[k]; `x & 7` is x % 8; a 32-bit mask is its list of nibbles
   or bytes, the highest first, since only shifted pieces of it are used. *)
EXTENDS Integers

Passes == 0 .. 6

Power == [k \in 0 .. 3 |-> <<1, 2, 4, 8>>[k + 1]]

----------------------------------------------------------------------------
(* The tables of the row code. *)

png_pass_start  == [p \in Passes |-> <<0, 4, 0, 2, 0, 1, 0>>[p + 1]]
png_pass_inc    == [p \in Passes |-> <<8, 8, 4, 4, 2, 2, 1>>[p + 1]]
png_pass_ystart == [p \in Passes |-> <<0, 0, 4, 0, 2, 0, 1>>[p + 1]]
png_pass_yinc   == [p \in Passes |-> <<8, 8, 8, 4, 4, 2, 2>>[p + 1]]

PassWidth(width, p) ==
  (width + png_pass_inc[p] - 1 - png_pass_start[p]) \div png_pass_inc[p]

PassHeight(height, p) ==
  (height + png_pass_yinc[p] - 1 - png_pass_ystart[p]) \div png_pass_yinc[p]

(* The rows of a pass that png_write_row and png_read_row pass over. *)
SkipsRow(row_number, width, pass) ==
  \/ pass = 0 /\ row_number % 8 # 0
  \/ pass = 1 /\ (row_number % 8 # 0 \/ width < 5)
  \/ pass = 2 /\ row_number % 8 # 4
  \/ pass = 3 /\ (row_number % 4 # 0 \/ width < 3)
  \/ pass = 4 /\ row_number % 4 # 2
  \/ pass = 5 /\ (row_number % 2 # 0 \/ width < 2)
  \/ pass = 6 /\ row_number % 2 = 0

----------------------------------------------------------------------------
(* The macros of png.h. *)

PNG_PASS_START_ROW(p) ==
  (IF p % 2 = 0 THEN Power[3 - (p \div 2)] ELSE 0) % 8

PNG_PASS_START_COL(p) ==
  (IF p % 2 = 1 THEN Power[3 - ((p + 1) \div 2)] ELSE 0) % 8

PNG_PASS_COL_OFFSET(p) == Power[(7 - p) \div 2]

PNG_PASS_ROW_SHIFT(p) == IF p > 2 THEN (8 - p) \div 2 ELSE 3
PNG_PASS_COL_SHIFT(p) == IF p > 1 THEN (7 - p) \div 2 ELSE 3

PNG_PASS_ROWS(height, p) ==
  LET block == Power[PNG_PASS_ROW_SHIFT(p)]
  IN  (height + (block - 1 - PNG_PASS_START_ROW(p))) \div block

PNG_PASS_COLS(width, p) ==
  LET block == Power[PNG_PASS_COL_SHIFT(p)]
  IN  (width + (block - 1 - PNG_PASS_START_COL(p))) \div block

PNG_ROW_FROM_PASS_ROW(y, p) ==
  y * Power[PNG_PASS_ROW_SHIFT(p)] + PNG_PASS_START_ROW(p)

PNG_COL_FROM_PASS_COL(x, p) ==
  x * Power[PNG_PASS_COL_SHIFT(p)] + PNG_PASS_START_COL(p)

(* 0x110145AF and 0x01145AF0, a nibble each for the two halves of the tile. *)
MaskLow  == <<1, 1, 0, 1, 4, 5, 10, 15>>
MaskHigh == <<0, 1, 1, 4, 5, 10, 15, 0>>

(* Bit b of PNG_PASS_MASK(p, off): shifting right by 7 - off - p nibbles
   leaves, in the lowest nibble, the one at place off + p + 1 from the top;
   of the second constant the nibble above it is kept. *)
PNG_PASS_MASK(p, off, b) ==
  IF b < 4 THEN (MaskLow[off + p + 1] \div Power[b]) % 2
  ELSE (IF off + p = 0 THEN 0 ELSE MaskHigh[off + p] \div Power[b - 4]) % 2

PNG_ROW_IN_INTERLACE_PASS(y, p) == PNG_PASS_MASK(p, 0, y % 8) = 1
PNG_COL_IN_INTERLACE_PASS(x, p) == PNG_PASS_MASK(p, 1, x % 8) = 1

----------------------------------------------------------------------------
(* The masks of png_combine_row for pixels smaller than a byte, one byte for
   each pass: S for the pixels of the pass, B for the blocks of the display. *)
S_Bytes == <<128, 8, 136, 34, 170, 85, 255, 0>>
B_Bytes == <<255, 15, 255, 51, 255, 85, 255, 0>>

Bit == [k \in 0 .. 7 |-> <<1, 2, 4, 8, 16, 32, 64, 128>>[k + 1]]

S_COPY(p, x) == (S_Bytes[p + 1] \div Bit[7 - x]) % 2 = 1
B_COPY(p, x) == (B_Bytes[p + 1] \div Bit[7 - x]) % 2 = 1
============================================================================
