----------------------------- MODULE PngFilter -----------------------------
(* The row filters of libpng.  The writer (pngwutil.c) replaces each byte of a
   row by its difference from a prediction, made from the byte `bpp' to its
   left and the two above; the reader (pngrutil.c) undoes it in place, from
   left to right, with predictions made from bytes it has already restored.
   The two sides are written separately and differ in how they say the same:
   in the first pixel, which has nothing to its left, and in the order of the
   tests of Paeth's predictor.

   PngRowsProof shows for rows of any length, any pixel size and any content that
   png_read_filter_row makes of a row sent with any filter the row that it was
   made of (FilterIsUndone). *)
EXTENDS Integers

Byte == 0 .. 255

PNG_FILTER_VALUE_NONE  == 0
PNG_FILTER_VALUE_SUB   == 1
PNG_FILTER_VALUE_UP    == 2
PNG_FILTER_VALUE_AVG   == 3
PNG_FILTER_VALUE_PAETH == 4

Distance(x) == IF x < 0 THEN -x ELSE x

----------------------------------------------------------------------------
(* The writer. *)

WriterPaeth(a, b, c) ==
  LET pa == Distance(b - c)
      pb == Distance(a - c)
      pc == Distance((b - c) + (a - c))
  IN  IF pa <= pb /\ pa <= pc THEN a ELSE IF pb <= pc THEN b ELSE c

SubByte(row, prev, bpp, i) ==
  IF i <= bpp THEN row[i] ELSE (row[i] - row[i - bpp]) % 256

UpByte(row, prev, bpp, i) == (row[i] - prev[i]) % 256

AvgByte(row, prev, bpp, i) ==
  IF i <= bpp THEN (row[i] - (prev[i] \div 2)) % 256
  ELSE (row[i] - ((prev[i] + row[i - bpp]) \div 2)) % 256

PaethByte(row, prev, bpp, i) ==
  IF i <= bpp THEN (row[i] - prev[i]) % 256
  ELSE (row[i] - WriterPaeth(row[i - bpp], prev[i], prev[i - bpp])) % 256

FilteredByte(filter, row, prev, bpp, i) ==
  IF filter = PNG_FILTER_VALUE_SUB THEN SubByte(row, prev, bpp, i)
  ELSE IF filter = PNG_FILTER_VALUE_UP THEN UpByte(row, prev, bpp, i)
  ELSE IF filter = PNG_FILTER_VALUE_AVG THEN AvgByte(row, prev, bpp, i)
  ELSE PaethByte(row, prev, bpp, i)

----------------------------------------------------------------------------
(* The reader.  `row' is decoded up to byte i - 1. *)

ReaderPaeth(a, b, c) ==
  LET pa == Distance(b - c)
      pb == Distance(a - c)
      pc == Distance((b - c) + (a - c))
      closer  == IF pb < pa THEN b ELSE a
      closest == IF pb < pa THEN pb ELSE pa
  IN  IF pc < closest THEN c ELSE closer

UnSub(row, prev, bpp, i) == (row[i] + row[i - bpp]) % 256

UnUp(row, prev, bpp, i) == (row[i] + prev[i]) % 256

UnAvg(row, prev, bpp, i) ==
  IF i <= bpp THEN (row[i] + (prev[i] \div 2)) % 256
  ELSE (row[i] + ((prev[i] + row[i - bpp]) \div 2)) % 256

UnPaeth(row, prev, bpp, i) ==
  IF i <= bpp THEN (row[i] + prev[i]) % 256
  ELSE (row[i] + ReaderPaeth(row[i - bpp], prev[i], prev[i - bpp])) % 256

DecodedByte(filter, row, prev, bpp, i) ==
  IF filter = PNG_FILTER_VALUE_SUB THEN UnSub(row, prev, bpp, i)
  ELSE IF filter = PNG_FILTER_VALUE_UP THEN UnUp(row, prev, bpp, i)
  ELSE IF filter = PNG_FILTER_VALUE_AVG THEN UnAvg(row, prev, bpp, i)
  ELSE UnPaeth(row, prev, bpp, i)

(* png_read_filter_row_sub leaves the first pixel as it is. *)
FirstByte(filter, bpp) == IF filter = PNG_FILTER_VALUE_SUB THEN bpp + 1 ELSE 1
============================================================================
