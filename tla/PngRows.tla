------------------------------ MODULE PngRows ------------------------------
(* An image goes row by row through libpng's writer into the data that is
   compressed, and through one of its two readers back into memory: the
   sequential one (png_read_row) or the progressive one, which calls the
   application for every row (png_push_process_row).  Compression and chunks are
   left out: `stream' is what the writer hands to png_compress_IDAT and what
   inflate hands to the reader, byte by byte, so both sides must agree on which
   rows are there and how long each of them is.

   `wr' and `rd' are the two png_structs.  The writer's row buffers are kept in
   `mem', and wr.row_buf, wr.prev_row, wr.try_row and wr.tst_row are pointers to
   them, which the writer swaps.  A row has a filter byte at 0 and its pixels
   from 1 on.  A pixel of 8 bits or more is the function of its bytes, a smaller
   one a number; PixelAt and WithPixels do what the shifts and masks do.

   Bounds: the sizes, depths and images of Jobs, and for each job the number of
   calls of png_set_filter once rows are being written.  Transformations other
   than PNG_INTERLACE are left out, and so are the writer's tests for rows that
   are longer than a 64th of the address space. *)
EXTENDS Adam7, PngFilter, SequencesExt, FiniteSetsExt

CONSTANTS Jobs,           \* the images and how each is written and read, see JobType
          FilterChoices,  \* the sets of filters that png_set_filter is called with
          Shades,         \* tell pictures apart that are of one size and depth
          Picture(_),     \* the pixels of a job's picture, row by row
          FreshByte,      \* the byte that stands for what png_malloc leaves in a buffer
          Blank           \* and for what is in the application's rows before libpng fills them

NULL == 0
UsesPrevRow == {PNG_FILTER_VALUE_UP, PNG_FILTER_VALUE_AVG, PNG_FILTER_VALUE_PAETH}
UsesLeft    == {PNG_FILTER_VALUE_SUB, PNG_FILTER_VALUE_AVG, PNG_FILTER_VALUE_PAETH}

JobType ==
  [width : Nat \ {0}, height : Nat \ {0}, depth : {1, 2, 4} \cup {8 * k : k \in 1 .. 8},
   shade : Shades, interlaced : BOOLEAN,
   writeHandling : BOOLEAN,   \* png_set_interlace_handling was called, by the writer
   readHandling : BOOLEAN,    \* and by the reader
   progressive : BOOLEAN,
   filters : SUBSET (0 .. 4), \* what png_set_filter was given before the first row
   filterCalls : Nat]         \* how often it may be called later

Pixels(d) == IF d < 8 THEN 0 .. Bit[d] - 1 ELSE [1 .. d \div 8 -> Byte]

ASSUME JobsAssumption == Jobs \subseteq JobType /\ FilterChoices \subseteq SUBSET (0 .. 4)
ASSUME PicturesAssumption ==
  \A j \in Jobs : Picture(j) \in [0 .. j.height - 1 -> [0 .. j.width - 1 -> Pixels(j.depth)]]
ASSUME BytesAssumption == FreshByte \in Byte /\ Blank \in Byte

VARIABLES job,          \* the image and how it is written and read
          wr, mem,      \* the writer's png_struct and the buffers it points to
          filterCalls,  \* calls of png_set_filter since the first row
          stream,       \* the filtered rows
          rd,           \* the reader's png_struct
          rows,         \* the application's image: each pixel once it is known
          display,      \* the same with `display_row': blocks that get finer
          calls         \* the progressive reader's calls of row_fn

vars == <<job, wr, mem, filterCalls, stream, rd, rows, display, calls>>

width == job.width
height == job.height
depth == job.depth

----------------------------------------------------------------------------
(* Rows of bytes and of pixels. *)

PNG_ROWBYTES(d, w) == IF d >= 8 THEN w * (d \div 8) ELSE (w * d + 7) \div 8

bpp == (depth + 7) \div 8     \* how far a filter looks back

(* What pixel x is multiplied by in its byte, the first pixel being the highest. *)
Place(x, d) == Bit[8 - d - d * (x % (8 \div d))]

PixelAt(row, x, d) ==
  IF d < 8 THEN (row[1 + x \div (8 \div d)] \div Place(x, d)) % Bit[d]
  ELSE [k \in 1 .. d \div 8 |-> row[x * (d \div 8) + k]]

(* What the numbers a[1] to a[k] come to, for k up to n. *)
Sums(a, n) ==
  LET sum[k \in 0 .. n] == IF k = 0 THEN 0 ELSE sum[k - 1] + a[k] IN sum

(* The row with pixels x of DOMAIN px replaced, every other bit kept. *)
WithPixels(row, px, d) ==
  LET per == 8 \div d
      size == d \div 8
      Pixel(x) == IF x \in DOMAIN px THEN px[x] ELSE PixelAt(row, x, d)
      Small(k) == LET bits == [i \in 1 .. per |-> LET x == (k - 1) * per + i - 1 IN Place(x, d) * Pixel(x)]
                  IN  Sums(bits, per)[per]
      Large(k) == LET x == (k - 1) \div size
                  IN  IF x \in DOMAIN px THEN px[x][((k - 1) % size) + 1] ELSE row[k]
  IN  [k \in DOMAIN row |-> IF k = 0 THEN row[0] ELSE IF d < 8 THEN Small(k) ELSE Large(k)]

(* The row with its first bytes replaced. *)
Overwrite(row, bytes) ==
  [k \in DOMAIN row |-> IF k \in DOMAIN bytes THEN bytes[k] ELSE row[k]]

Filled(byte, n) == [k \in 0 .. n |-> byte]

Image == Picture(job)

AppRow(byte) == Filled(byte, PNG_ROWBYTES(depth, width))

----------------------------------------------------------------------------
(* The writer. *)

(* The rows the application writes: those of the image if the writer picks the
   pixels of a pass, else rows that hold the pixels of the pass alone. *)
GivenRow(w) ==
  LET whole == ~job.interlaced \/ job.writeHandling
      y == IF whole THEN w.row_number ELSE PNG_ROW_FROM_PASS_ROW(w.row_number, w.pass)
      pixels == IF whole THEN Image[y]
                ELSE [x \in 0 .. w.usr_width - 1 |-> Image[y][PNG_COL_FROM_PASS_COL(x, w.pass)]]
  IN  WithPixels(Filled(0, PNG_ROWBYTES(depth, w.usr_width)), pixels, depth)

(* Filters that look at a row above or a pixel to the left are of no use in an
   image of one row or one column. *)
Useful(filters) ==
  (filters \ (IF height = 1 THEN UsesPrevRow ELSE {})) \ (IF width = 1 THEN UsesLeft ELSE {})

(* Two rows are needed to compare a filtered row with the best so far. *)
Several(filters) == Cardinality(filters \ {PNG_FILTER_VALUE_NONE}) > 1

png_write_start_row ==
  LET useful  == Useful(wr.do_filter)
      filters == IF useful = {} THEN {PNG_FILTER_VALUE_NONE} ELSE useful
      whole   == ~job.interlaced \/ job.writeHandling
  IN  [row_number |-> 0, pass |-> 0, do_filter |-> filters,
       row_buf  |-> 1,
       try_row  |-> IF filters # {PNG_FILTER_VALUE_NONE} THEN 2 ELSE NULL,
       tst_row  |-> IF Several(filters) THEN 3 ELSE NULL,
       prev_row |-> IF filters \cap UsesPrevRow # {} THEN 4 ELSE NULL,
       num_rows  |-> IF whole THEN height ELSE PassHeight(height, 0),
       usr_width |-> IF whole THEN width ELSE PassWidth(width, 0)]

(* Allocated buffers hold garbage, the row above the image is black. *)
StartBuffers ==
  [b \in 1 .. 4 |-> [AppRow(IF b = 4 THEN 0 ELSE FreshByte) EXCEPT ![0] = IF b \in {1, 4} THEN 0 ELSE FreshByte]]

(* A pass that is not the last one leaves its pixels at the start of the row. *)
png_do_write_interlace(row, pass) ==
  LET pixels == [x \in 0 .. PassWidth(width, pass) - 1 |->
                   PixelAt(row, PNG_COL_FROM_PASS_COL(x, pass), depth)]
      bytes == WithPixels(Filled(0, PNG_ROWBYTES(depth, PassWidth(width, pass))), pixels, depth)
  IN  Overwrite(row, [bytes EXCEPT ![0] = row[0]])

(* How far a filtered byte is from zero, 128 and above being negative. *)
Weight(v) == IF v < 128 THEN v ELSE 256 - v

(* The weights of a row's bytes, added up. *)
Weights(bytes, n) == Sums([k \in 1 .. n |-> Weight(bytes[k])], n)

(* png_setup_*_row: the filtered bytes up to the one at which the sum exceeds
   `lmins', and the sum.  Only png_setup_up_row looks at the sum in the first
   pixel. *)
Setup(f, row, prev, n, lmins) ==
  LET filtered == [k \in 1 .. n |-> FilteredByte(f, row, prev, bpp, k)]
      sum == Weights(filtered, n)
      tested == IF f = PNG_FILTER_VALUE_UP THEN 1 .. n ELSE bpp + 1 .. n
      worse == {k \in tested : sum[k] > lmins}
      stop == IF worse = {} THEN n ELSE Min(worse)
  IN  [bytes |-> [k \in 0 .. stop |-> IF k = 0 THEN f ELSE filtered[k]], sum |-> sum[stop]]

(* One of the four filters in turn: `c' holds the struct with its two rows for
   filtered bytes, the buffers, the best row so far and its sum. *)
SetupRow(c, f) ==
  Setup(f, c.mem[c.w.row_buf], c.mem[c.w.prev_row], c.n,
        IF c.w.do_filter = {f} THEN c.most ELSE c.mins)
Tried(c, f) == [c.mem EXCEPT ![c.w.try_row] = Overwrite(@, SetupRow(c, f).bytes)]

Exchanged(w) ==
  IF w.tst_row = NULL THEN w ELSE [w EXCEPT !.try_row = w.tst_row, !.tst_row = w.try_row]

(* Mutant: the best row stays where the next filter is tried. *)
TryFilter_InPlace(c, f) ==
  LET try == c.w.try_row
      sum == SetupRow(c, f).sum
  IN  IF f \notin c.w.do_filter THEN c
      ELSE IF c.w.do_filter = {f} \/ sum < c.mins
      THEN [c EXCEPT !.mem = Tried(c, f), !.best_row = try, !.mins = sum]
      ELSE [c EXCEPT !.mem = Tried(c, f)]

TryFilter(c, f) ==
  LET try == c.w.try_row
      sum == SetupRow(c, f).sum
  IN  IF f \notin c.w.do_filter THEN c
      ELSE IF c.w.do_filter = {f} THEN [c EXCEPT !.mem = Tried(c, f), !.best_row = try]
      ELSE IF sum >= c.mins THEN [c EXCEPT !.mem = Tried(c, f)]
      ELSE [c EXCEPT !.w = Exchanged(@), !.mem = Tried(c, f), !.best_row = try, !.mins = sum]

(* The row with the smallest sum, among the filters chosen. *)
png_write_find_filter(w, buffers, n) ==
  LET most == 256 * (n + 1)
      compared == /\ PNG_FILTER_VALUE_NONE \in w.do_filter
                  /\ w.do_filter # {PNG_FILTER_VALUE_NONE}
      plain == Weights(buffers[w.row_buf], n)[n]
      c == [w |-> w, mem |-> buffers, best_row |-> w.row_buf, n |-> n, most |-> most,
            mins |-> IF compared THEN plain ELSE most]
  IN  TryFilter(TryFilter(TryFilter(TryFilter(c, PNG_FILTER_VALUE_SUB), PNG_FILTER_VALUE_UP),
                          PNG_FILTER_VALUE_AVG), PNG_FILTER_VALUE_PAETH)

(* The next pass that has pixels; 7 is the end. *)
NextPass(pass) ==
  Min({q \in pass + 1 .. 7 :
         q = 7 \/ (PassWidth(width, q) > 0 /\ PassHeight(height, q) > 0)})

(* What png_write_finish_row does to the struct `w' and the buffers `m'. *)
png_write_finish_row(w, m) ==
  LET next == IF job.writeHandling THEN w.pass + 1 ELSE NextPass(w.pass)
      last == w.row_number + 1 >= w.num_rows
      moved == [w EXCEPT !.row_number = 0, !.pass = next,
                  !.usr_width = IF job.writeHandling \/ next = 7 THEN @ ELSE PassWidth(width, next),
                  !.num_rows  = IF job.writeHandling \/ next = 7 THEN @ ELSE PassHeight(height, next)]
  IN  /\ wr' = IF last /\ job.interlaced THEN moved ELSE [w EXCEPT !.row_number = @ + 1]
      /\ mem' = IF last /\ job.interlaced /\ next < 7 /\ w.prev_row # NULL
                THEN [m EXCEPT ![w.prev_row] = AppRow(0)] ELSE m

Written == IF job.interlaced THEN wr.pass = 7 ELSE wr.row_number = wr.num_rows /\ wr.num_rows > 0

(* A row that has no pixels in this pass. *)
WriteRowSkipped ==
  /\ ~Written
  /\ job.interlaced /\ job.writeHandling /\ SkipsRow(wr.row_number, width, wr.pass)
  /\ png_write_finish_row(wr, mem)
  /\ UNCHANGED <<job, filterCalls, stream, rd, rows, display, calls>>

png_write_row ==
  /\ ~Written
  /\ ~(job.interlaced /\ job.writeHandling /\ SkipsRow(wr.row_number, width, wr.pass))
  /\ LET first == wr.row_buf = NULL
         w == IF first THEN png_write_start_row ELSE wr
         buffers == IF first THEN StartBuffers ELSE mem
         picks == job.interlaced /\ job.writeHandling /\ w.pass < 6
         given == Overwrite(buffers[w.row_buf], [GivenRow(w) EXCEPT ![0] = buffers[w.row_buf][0]])
         row == IF picks THEN png_do_write_interlace(given, w.pass) ELSE given
         n == PNG_ROWBYTES(depth, IF picks THEN PassWidth(width, w.pass) ELSE w.usr_width)
         found == png_write_find_filter(w, [buffers EXCEPT ![w.row_buf] = row], n)
         swapped == IF w.prev_row = NULL THEN found.w
                    ELSE [found.w EXCEPT !.row_buf = w.prev_row, !.prev_row = w.row_buf]
     IN  /\ stream' = stream \o [k \in 1 .. n + 1 |-> found.mem[found.best_row][k - 1]]
         /\ png_write_finish_row(swapped, found.mem)
  /\ UNCHANGED <<job, filterCalls, rd, rows, display, calls>>

(* The application changes its choice of filters between two rows. *)
png_set_filter ==
  /\ wr.row_buf # NULL /\ ~Written /\ filterCalls < job.filterCalls
  /\ \E filters \in FilterChoices :
       LET useful == Useful(filters)
           usable == IF wr.prev_row = NULL THEN useful \ UsesPrevRow ELSE useful
       IN  wr' = [wr EXCEPT !.do_filter = usable,
                            !.try_row = IF @ = NULL THEN 2 ELSE @,
                            !.tst_row = IF @ = NULL /\ Several(usable) THEN 3 ELSE @]
  /\ filterCalls' = filterCalls + 1
  /\ UNCHANGED <<job, mem, stream, rd, rows, display, calls>>

----------------------------------------------------------------------------
(* What the two readers share. *)

deinterlaces == job.interlaced /\ job.readHandling

(* Mutant: an image that is not interlaced has the width of a first pass. *)
png_read_start_row_FirstPass ==
  LET row_bytes == PNG_ROWBYTES(depth, ((width + 7) \div 8) * 8) + 1 + bpp
  IN  [rd EXCEPT !.started = TRUE, !.iwidth = PassWidth(width, 0),
         !.num_rows = IF ~job.interlaced \/ job.readHandling THEN height ELSE PassHeight(height, 0),
         !.row_buf = Filled(0, row_bytes - 1), !.prev_row = Filled(0, row_bytes - 1)]

(* Rows are as wide as whole blocks of a pass, for png_do_read_interlace. *)
png_read_start_row ==
  LET row_bytes == PNG_ROWBYTES(depth, ((width + 7) \div 8) * 8) + 1 + bpp
      whole == ~job.interlaced \/ job.readHandling
  IN  [rd EXCEPT !.started = TRUE,
         !.num_rows = IF whole THEN height ELSE PassHeight(height, 0),
         !.iwidth = IF job.interlaced THEN PassWidth(width, 0) ELSE width,
         !.row_buf = Filled(IF job.interlaced THEN 0 ELSE FreshByte, row_bytes - 1),
         !.prev_row = Overwrite(Filled(FreshByte, row_bytes - 1), AppRow(0))]

(* A row of `n' bytes behind its filter byte, undone in place from left to right. *)
png_read_filter_row(row, prev_row, n) ==
  LET Undo(bytes, k) == [bytes EXCEPT ![k] = DecodedByte(row[0], bytes, prev_row, bpp, k)]
      undone[k \in 0 .. n] ==
        IF k < FirstByte(row[0], bpp) THEN row ELSE Undo(undone[k - 1], k)
  IN  IF row[0] = PNG_FILTER_VALUE_NONE THEN row ELSE undone[n]

(* The next row of the stream. *)
RowRead(r, n) ==
  png_read_filter_row(Overwrite(r.row_buf, [k \in 0 .. n |-> stream[r.next_in + 1 + k]]),
                      r.prev_row, n)

(* Each pixel of the pass in as many places as the pass's columns are apart. *)
png_do_read_interlace(row, iwidth, pass) ==
  WithPixels(row, [x \in 0 .. iwidth * png_pass_inc[pass] - 1 |->
                     PixelAt(row, x \div png_pass_inc[pass], depth)], depth)

(* Mutant: the masks of the display in place of those of the pass. *)
Copied_Blocks(pass, shown) ==
  LET first == PNG_PASS_START_COL(pass)
      block == IF shown THEN Power[(6 - pass) \div 2] ELSE 1
  IN  {x \in 0 .. width - 1 :
         \/ ~deinterlaces \/ pass = 6 \/ (shown /\ pass % 2 = 0)
         \/ depth < 8 /\ width > first /\ B_COPY(pass, x % 8)
         \/ depth >= 8 /\ x >= first /\ (x - first) % PNG_PASS_COL_OFFSET(pass) < block}

(* The pixels that png_combine_row copies: those of the pass, or with `shown'
   (`display' in the code) the blocks that they stand for.  An even pass is
   shown as a whole row, since its blocks are next to each other. *)
Copied(pass, shown) ==
  LET first == PNG_PASS_START_COL(pass)
      block == IF shown THEN Power[(6 - pass) \div 2] ELSE 1
  IN  {x \in 0 .. width - 1 :
         \/ ~deinterlaces \/ pass = 6 \/ (shown /\ pass % 2 = 0)
         \/ depth < 8 /\ width > first /\ (IF shown THEN B_COPY(pass, x % 8) ELSE S_COPY(pass, x % 8))
         \/ depth >= 8 /\ x >= first /\ (x - first) % PNG_PASS_COL_OFFSET(pass) < block}

png_combine_row(row_buf, pass, dp, shown) ==
  WithPixels(dp, [x \in Copied(pass, shown) |-> PixelAt(row_buf, x, depth)], depth)

(* Without interlace handling the application puts a pass's pixels where png.h's
   macros say. *)
Placed(image, r, row_buf) ==
  IF job.interlaced
  THEN [image EXCEPT ![PNG_ROW_FROM_PASS_ROW(r.row_number, r.pass)] =
          LET places == {PNG_COL_FROM_PASS_COL(x, r.pass) : x \in 0 .. r.iwidth - 1}
          IN  WithPixels(@, [p \in places |->
                PixelAt(row_buf, CHOOSE x \in 0 .. r.iwidth - 1 : PNG_COL_FROM_PASS_COL(x, r.pass) = p, depth)], depth)]
  ELSE [image EXCEPT ![r.row_number] = png_combine_row(row_buf, r.pass, @, FALSE)]

(* The struct at the start of pass `next'. *)
AtPass(r, next) ==
  [r EXCEPT !.row_number = 0, !.pass = next,
            !.prev_row = Overwrite(@, AppRow(0)),
            !.iwidth = IF next = 7 THEN @ ELSE PassWidth(width, next),
            !.num_rows = IF next = 7 \/ job.readHandling THEN @ ELSE PassHeight(height, next)]

AllRead == IF job.interlaced THEN rd.pass = 7 ELSE rd.started /\ rd.row_number = rd.num_rows

reader == IF rd.started THEN rd ELSE png_read_start_row

(* png_read_IDAT_data and inflate want more than the writer has written. *)
TooShort(r, n) == Len(stream) < r.next_in + n + 1

----------------------------------------------------------------------------
(* The sequential reader: png_read_rows gives png_read_row a row of each of the
   application's two images, in every pass. *)

png_read_finish_row(r) ==
  IF r.row_number + 1 < r.num_rows \/ ~job.interlaced
  THEN [r EXCEPT !.row_number = @ + 1]
  ELSE AtPass(r, IF job.readHandling THEN r.pass + 1 ELSE NextPass(r.pass))

(* Mutant: the rows above the first of pass 2 are shown again. *)
ShownAgain_Above(r) ==
  r.pass \in {0, 1, 2, 3, 5} \/ (r.pass = 4 /\ (r.row_number \div 2) % 2 = 1)

(* A row passed over is shown again where it lies in a block of the row before;
   the rows above the first of pass 2 or 4 already show something finer. *)
ShownAgain(r) ==
  \/ r.pass \in {0, 1, 3, 5}
  \/ r.pass = 2 /\ (r.row_number \div 4) % 2 = 1
  \/ r.pass = 4 /\ (r.row_number \div 2) % 2 = 1

ReadRowSkipped ==
  /\ Written /\ ~AllRead /\ ~job.progressive /\ rd.started
  /\ deinterlaces /\ SkipsRow(rd.row_number, width, rd.pass)
  /\ display' = IF ShownAgain(rd)
                THEN [display EXCEPT ![rd.row_number] = png_combine_row(rd.row_buf, rd.pass, @, TRUE)]
                ELSE display
  /\ rd' = png_read_finish_row(rd)
  /\ UNCHANGED <<job, wr, mem, filterCalls, stream, rows, calls>>

png_read_row ==
  /\ Written /\ ~AllRead /\ ~job.progressive /\ ~rd.error
  /\ ~(rd.started /\ deinterlaces /\ SkipsRow(rd.row_number, width, rd.pass))
  /\ LET r == reader
         n == PNG_ROWBYTES(depth, r.iwidth)
         row == RowRead(r, n)
         y == r.row_number
         expanded == IF deinterlaces /\ r.pass < 6
                     THEN png_do_read_interlace(row, r.iwidth, r.pass) ELSE row
         done == [r EXCEPT !.next_in = @ + n + 1, !.row_buf = expanded,
                           !.prev_row = Overwrite(@, [k \in 0 .. n |-> row[k]])]
     IN  IF TooShort(r, n)
         THEN rd' = [r EXCEPT !.error = TRUE] /\ UNCHANGED <<rows, display>>
         ELSE /\ rd' = png_read_finish_row(done)
              /\ IF deinterlaces
                 THEN /\ display' = [display EXCEPT ![y] = png_combine_row(expanded, r.pass, @, TRUE)]
                      /\ rows' = [rows EXCEPT ![y] = png_combine_row(expanded, r.pass, @, FALSE)]
                 ELSE rows' = Placed(rows, r, expanded) /\ UNCHANGED display
  /\ UNCHANGED <<job, wr, mem, filterCalls, stream, calls>>

----------------------------------------------------------------------------
(* The progressive reader: one row of the stream and every call of row_fn that
   follows from it, the empty ones for rows that no stream row will bring.  The
   application's row_fn is the one the manual gives: it calls
   png_progressive_combine_row. *)

(* Passes 1, 3 and 5 of a narrow image have no columns. *)
NextPushPass(pass) ==
  IF \/ pass = 0 /\ width < 5
     \/ pass = 2 /\ width < 3
     \/ pass = 4 /\ width < 2
  THEN pass + 2 ELSE pass + 1

png_read_push_finish_row(r) ==
  IF r.row_number + 1 < r.num_rows \/ ~job.interlaced
  THEN [r EXCEPT !.row_number = @ + 1]
  ELSE AtPass(r, IF job.readHandling THEN NextPushPass(r.pass) ELSE NextPass(r.pass))

(* `s' is the struct, the application's image and the calls so far. *)
png_push_have_row(s, new_row) ==
  [r |-> png_read_push_finish_row(s.r),
   calls |-> Append(s.calls, [pass |-> s.r.pass, row |-> s.r.row_number, new |-> new_row]),
   image |-> IF ~new_row THEN s.image
             ELSE [s.image EXCEPT ![s.r.row_number] = png_combine_row(s.r.row_buf, s.r.pass, @, TRUE)]]

(* for (i = 0; i < n && pass == p; i++) *)
Repeat(s, n, p, new_row) ==
  LET Once(t) == IF t.r.pass = p THEN png_push_have_row(t, new_row) ELSE t
      after[i \in 0 .. n] == IF i = 0 THEN s ELSE Once(after[i - 1])
  IN  after[n]

(* Mutant: the generated rows above the first of pass 2 or 4 come with data. *)
PushRows_NeverNull(s) ==
  LET n == <<8, 8, 4, 4, 2, 2, 1>>[s.r.pass + 1]
      two == Repeat(Repeat(s, n, s.r.pass, TRUE), 4, 2, TRUE)
      four == IF s.r.pass = 0 /\ height > 4 THEN two ELSE Repeat(two, 2, 4, TRUE)
  IN  IF s.r.pass = 0 /\ height > 4 THEN four ELSE Repeat(four, 1, 6, TRUE)

(* The calls that follow from one row, by its pass. *)
PushRows(s) ==
  LET pass == s.r.pass
      Low(t, p, n) == IF height <= 4 THEN Repeat(t, n, p, FALSE) ELSE t
  IN  CASE pass = 0 -> Low(Low(Repeat(Repeat(s, 8, 0, TRUE), 4, 2, FALSE), 4, 2), 6, 1)
        [] pass = 1 -> Repeat(Repeat(s, 8, 1, TRUE), 4, 2, FALSE)
        [] pass = 2 -> Repeat(Repeat(Repeat(s, 4, 2, TRUE), 4, 2, FALSE), 2, 4, FALSE)
        [] pass = 3 -> Repeat(Repeat(s, 4, 3, TRUE), 2, 4, FALSE)
        [] pass = 4 -> Repeat(Repeat(Repeat(s, 2, 4, TRUE), 2, 4, FALSE), 1, 6, FALSE)
        [] pass = 5 -> Repeat(Repeat(s, 2, 5, TRUE), 1, 6, FALSE)
        [] pass = 6 -> Repeat(Repeat(s, 1, 6, TRUE), 1, 6, FALSE)

png_push_process_row ==
  /\ Written /\ ~AllRead /\ job.progressive /\ ~rd.error
  /\ LET r == reader
         n == PNG_ROWBYTES(depth, r.iwidth)
         row == RowRead(r, n)
         expanded == IF deinterlaces /\ r.pass < 6
                     THEN png_do_read_interlace(row, r.iwidth, r.pass) ELSE row
         done == [r EXCEPT !.next_in = @ + n + 1, !.row_buf = expanded,
                           !.prev_row = Overwrite(@, [k \in 0 .. n |-> row[k]])]
         pushed == PushRows([r |-> done, calls |-> calls, image |-> display])
     IN  IF TooShort(r, n)
         THEN rd' = [r EXCEPT !.error = TRUE] /\ UNCHANGED <<rows, display, calls>>
         ELSE IF deinterlaces
         THEN /\ rd' = pushed.r /\ calls' = pushed.calls /\ display' = pushed.image
              /\ UNCHANGED rows
         ELSE /\ rd' = png_read_push_finish_row(done)
              /\ rows' = Placed(rows, r, expanded)
              /\ calls' = Append(calls, [pass |-> r.pass, row |-> r.row_number, new |-> TRUE])
              /\ UNCHANGED display
  /\ UNCHANGED <<job, wr, mem, filterCalls, stream>>

----------------------------------------------------------------------------
EmptyImage == [y \in 0 .. height - 1 |-> [AppRow(Blank) EXCEPT ![0] = 0]]

Init ==
  /\ job \in Jobs
  /\ wr = [row_number |-> 0, pass |-> 0, num_rows |-> 0, usr_width |-> 0, do_filter |-> job.filters,
           row_buf |-> NULL, prev_row |-> NULL, try_row |-> NULL, tst_row |-> NULL]
  /\ mem = <<>> /\ stream = <<>> /\ calls = <<>> /\ filterCalls = 0
  /\ rd = [started |-> FALSE, error |-> FALSE, row_number |-> 0, pass |-> 0, num_rows |-> 0,
           iwidth |-> 0, next_in |-> 0, row_buf |-> <<>>, prev_row |-> <<>>]
  /\ rows = EmptyImage /\ display = EmptyImage

----------------------------------------------------------------------------
(* Properties. *)

BlankPixel(x) == PixelAt(AppRow(Blank), x, depth)

(* The pixel (x, y) of the application's image. *)
Shows(image, x, y) == PixelAt(image[y], x, depth)

(* Whatever the size of the image, the filters chosen for each row and the ways
   in which writer and reader handle interlacing: what is read is what was
   written.  A filter computed on a row that the reader does not have, a buffer
   overwritten while it is the best row, a pixel in the wrong pass: all of them
   end here. *)
ImageIsRestored ==
  AllRead =>
    \A y \in 0 .. height - 1, x \in 0 .. width - 1 :
      Shows(IF job.progressive /\ deinterlaces THEN display ELSE rows, x, y) = Image[y][x]

(* Both sides agree on which rows there are and on their lengths: the reader
   never lacks data, and none is left (png_read_IDAT_data's "Not enough image
   data" and "Too much image data"). *)
StreamFits ==
  /\ ~rd.error
  /\ AllRead => rd.next_in = Len(stream)

(* When the reader is between two passes, the display shows the image in blocks,
   each with the colour of its upper left pixel, as fine as the passes read
   allow ("blocky" in the manual): no block is missing, none covers a finer one. *)
DisplayIsBlocky ==
  deinterlaces /\ rd.row_number = 0 /\ rd.pass > 0 =>
    LET blockWidth  == <<8, 4, 4, 2, 2, 1, 1>>[rd.pass]
        blockHeight == <<8, 8, 4, 4, 2, 2, 1>>[rd.pass]
    IN  \A y \in 0 .. height - 1, x \in 0 .. width - 1 :
          Shows(display, x, y) = Image[y - (y % blockHeight)][x - (x % blockWidth)]

InPass(x, y, p) ==
  x % 8 \in {PNG_COL_FROM_PASS_COL(k, p) : k \in 0 .. 7} /\ ~SkipsRow(y, width, p)

(* Between two passes, `rows' has the pixels of the passes read, and every other
   pixel is as the application left it ("sparkle" in the manual). *)
RowsSparkle ==
  ~job.progressive /\ job.interlaced /\ rd.row_number = 0 =>
    \A y \in 0 .. height - 1, x \in 0 .. width - 1 :
      LET p == CHOOSE q \in Passes : InPass(x, y, q)
      IN  Shows(rows, x, y) = IF p < rd.pass THEN Image[y][x] ELSE BlankPixel(x)

(* Row y of pass p, with NULL for a row that no block of this pass covers. *)
CallOf(p, y) ==
  [pass |-> p, row |-> y,
   new |-> \E first \in 0 .. height - 1 :
             /\ ~SkipsRow(first, width, p)
             /\ y \in first .. first + <<8, 8, 4, 4, 2, 2, 1>>[p + 1] - 1]

PassCalls(p) ==
  IF PassWidth(width, p) = 0 THEN <<>> ELSE [k \in 1 .. height |-> CallOf(p, k - 1)]

(* The calls of row_fn the manual promises: in each pass that has columns, every
   row of the image, in order. *)
ExpectedCalls ==
  PassCalls(0) \o PassCalls(1) \o PassCalls(2) \o PassCalls(3)
  \o PassCalls(4) \o PassCalls(5) \o PassCalls(6)

EveryRowIsCalled ==
  job.progressive /\ deinterlaces =>
    IF AllRead THEN calls = ExpectedCalls
    ELSE IsPrefix(calls, ExpectedCalls)
============================================================================
