---------------------------- MODULE PngPushProof ----------------------------
(* The progressive reader implements PngFile, for every file, every sequence of
   pieces and every choice of where callbacks pause, and holds nothing back.  The
   invariant says where in the file the unread bytes come from: the saved ones
   and then the rest of the piece are those from `position' on. *)
EXTENDS PngPush, TLAPS

(* The saved bytes are those from position p of the file on. *)
Saved(b, p) ==
  /\ b.save_size \in Nat /\ b.save_ptr \in Nat /\ b.save_max \in Nat
  /\ \A i \in Nat : i < b.save_size => b.save[b.save_ptr + i] = p + i

(* And the piece goes on where they end. *)
At(b, p) ==
  /\ Saved(b, p)
  /\ b.current_size \in Nat /\ b.current_ptr \in Nat
  /\ b.buffer_size = b.save_size + b.current_size
  /\ \A i \in Nat : i < b.current_size => b.current[b.current_ptr + i] = p + b.save_size + i

(* Buffers of which g bytes of the file have been given, and p used. *)
Holds(b, g, p) ==
  IF b.buffer_size = 0 THEN Saved(b, p) /\ g = p + b.save_size
  ELSE At(b, p) /\ g = p + Unread(b)

----------------------------------------------------------------------------
(* The operations on the buffers. *)

(* Filling takes the next bytes ... *)
LEMMA Filled ==
  ASSUME NEW b, NEW p \in Nat, At(b, p), NEW n \in Nat, n <= Unread(b)
  PROVE  /\ At(png_push_fill_buffer(b, n), p + n)
         /\ Unread(png_push_fill_buffer(b, n)) = Unread(b) - n
  <1> DEFINE c == png_push_fill_buffer(b, n)
             saved == Lesser(n, b.save_size)
             taken == Lesser(n - saved, b.current_size)
  <1>1. /\ b.save_size \in Nat /\ b.current_size \in Nat /\ b.save_ptr \in Nat
        /\ b.current_ptr \in Nat /\ b.save_max \in Nat
        /\ b.buffer_size = b.save_size + b.current_size
    BY DEF At, Saved
  <1>2. /\ saved \in Nat /\ saved <= b.save_size /\ taken \in Nat /\ taken <= b.current_size
        /\ saved + taken = n /\ (saved < b.save_size => taken = 0)
    BY <1>1 DEF Lesser, Unread
  <1>3. /\ c.save = b.save /\ c.save_ptr = b.save_ptr + saved /\ c.save_size = b.save_size - saved
        /\ c.save_max = b.save_max /\ c.current = b.current
        /\ c.current_ptr = b.current_ptr + taken /\ c.current_size = b.current_size - taken
        /\ c.buffer_size = b.buffer_size - saved - taken
    BY DEF png_push_fill_buffer
  <1> HIDE DEF c, saved, taken
  <1>4. Saved(c, p + n)
    <2>1. ASSUME NEW i \in Nat, i < c.save_size PROVE c.save[c.save_ptr + i] = (p + n) + i
      <3>1. taken = 0 /\ saved = n /\ i + n \in Nat /\ i + n < b.save_size
        BY <1>1, <1>2, <1>3, <2>1
      <3>2. b.save[b.save_ptr + (i + n)] = p + (i + n)
        BY <3>1 DEF At, Saved
      <3>3. c.save_ptr + i = b.save_ptr + (i + n)
        BY <1>1, <1>3, <3>1
      <3> QED BY <1>3, <3>2, <3>3
    <2> QED BY <1>1, <1>2, <1>3, <2>1 DEF Saved
  <1>5. ASSUME NEW i \in Nat, i < c.current_size
        PROVE c.current[c.current_ptr + i] = (p + n) + c.save_size + i
    <2>1. i + taken \in Nat /\ i + taken < b.current_size
      BY <1>1, <1>2, <1>3, <1>5
    <2>2. b.current[b.current_ptr + (i + taken)] = p + b.save_size + (i + taken)
      BY <2>1 DEF At
    <2>3. c.current_ptr + i = b.current_ptr + (i + taken)
      BY <1>1, <1>2, <1>3
    <2>4. p + b.save_size + (i + taken) = (p + n) + c.save_size + i
      BY <1>1, <1>2, <1>3
    <2> QED BY <1>3, <2>2, <2>3, <2>4
  <1>6. At(c, p + n)
    BY <1>1, <1>2, <1>3, <1>4, <1>5 DEF At
  <1>7. Unread(c) = Unread(b) - n
    BY <1>1, <1>2, <1>3 DEF Unread
  <1> QED BY <1>6, <1>7 DEF c

(* ... which are those of the file. *)
LEMMA BytesOfFile ==
  ASSUME NEW b, NEW p \in Nat, At(b, p), NEW n \in Nat, n <= Unread(b)
  PROVE  Bytes(b, n) = [i \in 1 .. n |-> p + i - 1]
  <1>1. /\ b.save_size \in Nat /\ b.current_size \in Nat /\ b.save_ptr \in Nat /\ b.current_ptr \in Nat
    BY DEF At, Saved
  <1>2. Lesser(n, Unread(b)) = n
    BY <1>1 DEF Lesser, Unread
  <1>3. ASSUME NEW i \in 1 .. n
        PROVE (IF i <= b.save_size THEN b.save[b.save_ptr + i - 1]
               ELSE b.current[b.current_ptr + i - 1 - b.save_size]) = p + i - 1
    <2>1. CASE i <= b.save_size
      <3>1. i - 1 \in Nat /\ i - 1 < b.save_size /\ b.save_ptr + (i - 1) = b.save_ptr + i - 1
        BY <1>1, <2>1
      <3>2. b.save[b.save_ptr + (i - 1)] = p + (i - 1)
        BY <3>1 DEF At, Saved
      <3> QED BY <2>1, <3>1, <3>2
    <2>2. CASE ~(i <= b.save_size)
      <3> DEFINE k == i - 1 - b.save_size
      <3>1. k \in Nat /\ k < b.current_size /\ b.current_ptr + k = b.current_ptr + i - 1 - b.save_size
        BY <1>1, <2>2 DEF Unread
      <3>2. b.current[b.current_ptr + k] = p + b.save_size + k
        BY <3>1 DEF At
      <3>3. p + b.save_size + k = p + i - 1
        BY <1>1
      <3> HIDE DEF k
      <3> QED BY <2>2, <3>1, <3>2, <3>3
    <2> QED BY <2>1, <2>2
  <1> QED BY <1>2, <1>3 DEF Bytes

(* Saving keeps all of them. *)
LEMMA SavedAll ==
  ASSUME Spare \in Nat, NEW b, NEW p \in Nat, At(b, p)
  PROVE  LET c == png_push_save_buffer(b)
         IN  Saved(c, p) /\ c.save_size = Unread(b) /\ c.buffer_size = 0
  <1> DEFINE c == png_push_save_buffer(b)
             max == IF Unread(b) > b.save_max THEN Unread(b) + Spare ELSE b.save_max
             Byte(i) == IF i < b.save_size THEN Moved(b, i)
                        ELSE IF i < Unread(b) THEN b.current[b.current_ptr + i - b.save_size]
                        ELSE IF i < b.save_max /\ max = b.save_max THEN b.save[i]
                        ELSE Garbage
  <1>1. /\ b.save_size \in Nat /\ b.current_size \in Nat /\ b.save_ptr \in Nat
        /\ b.current_ptr \in Nat /\ b.save_max \in Nat
        /\ Unread(b) = b.save_size + b.current_size
    BY DEF At, Saved, Unread
  <1>2. max \in Nat /\ Unread(b) <= max
    BY <1>1
  <1>3. /\ c.save = [i \in 0 .. max - 1 |-> Byte(i)] /\ c.save_ptr = 0 /\ c.save_max = max
        /\ c.save_size = Unread(b) /\ c.buffer_size = 0
    BY DEF png_push_save_buffer
  <1>4. ASSUME NEW i \in Nat, i < Unread(b) PROVE Byte(i) = p + i
    <2>1. CASE i < b.save_size
      <3>1. b.save[b.save_ptr + i] = p + i
        BY <2>1 DEF At, Saved
      <3> QED BY <2>1, <3>1 DEF Moved
    <2>2. CASE ~(i < b.save_size)
      <3> DEFINE k == i - b.save_size
      <3>1. k \in Nat /\ k < b.current_size /\ b.current_ptr + k = b.current_ptr + i - b.save_size
        BY <1>1, <1>4, <2>2
      <3>2. b.current[b.current_ptr + k] = p + b.save_size + k
        BY <3>1 DEF At
      <3>3. p + b.save_size + k = p + i
        BY <1>1
      <3> HIDE DEF k
      <3> QED BY <1>4, <2>2, <3>1, <3>2, <3>3
    <2> QED BY <2>1, <2>2
  <1> HIDE DEF c, max, Byte
  <1>5. ASSUME NEW i \in Nat, i < c.save_size PROVE c.save[c.save_ptr + i] = p + i
    <2>1. i \in 0 .. max - 1 /\ c.save_ptr + i = i /\ i < Unread(b)
      BY <1>1, <1>2, <1>3, <1>5
    <2>2. c.save[i] = Byte(i)
      BY <1>3, <2>1
    <2> QED BY <1>4, <2>1, <2>2
  <1>6. c.save_size \in Nat /\ c.save_ptr \in Nat /\ c.save_max \in Nat
    BY <1>1, <1>2, <1>3
  <1>7. Saved(c, p)
    BY <1>5, <1>6 DEF Saved
  <1> QED BY <1>3, <1>7 DEF c

(* A new piece goes behind them. *)
LEMMA Restored ==
  ASSUME NEW b, NEW p \in Nat, Saved(b, p), NEW n \in Nat
  PROVE  LET c == png_push_restore_buffer(b, [i \in 0 .. n - 1 |-> (p + b.save_size) + i], n)
         IN  At(c, p) /\ Unread(c) = b.save_size + n /\ c.save_size = b.save_size
  <1> DEFINE piece == [i \in 0 .. n - 1 |-> (p + b.save_size) + i]
             c == png_push_restore_buffer(b, piece, n)
  <1>1. /\ c.save = b.save /\ c.save_ptr = b.save_ptr /\ c.save_size = b.save_size /\ c.save_max = b.save_max
        /\ c.current = piece /\ c.current_ptr = 0 /\ c.current_size = n
        /\ c.buffer_size = n + b.save_size
    BY DEF png_push_restore_buffer
  <1>2. b.save_size \in Nat /\ b.save_ptr \in Nat
    BY DEF Saved
  <1>3. ASSUME NEW i \in Nat, i < n PROVE piece[0 + i] = p + b.save_size + i
    BY <1>2, <1>3
  <1> HIDE DEF c, piece
  <1>4. Saved(c, p)
    BY <1>1 DEF Saved
  <1>5. At(c, p)
    BY <1>1, <1>2, <1>3, <1>4 DEF At
  <1> QED BY <1>1, <1>2, <1>5 DEF c, piece, Unread

(* A callback, wherever it pauses, leaves the reader at p; it is in the middle of
   a piece only if it has not paused. *)
LEMMA CalledBack ==
  ASSUME Spare \in Nat, NEW b, NEW p \in Nat, At(b, p), given = p + Unread(b),
         NEW pause, Callback(b, pause)
  PROVE  /\ Holds(buf', given', p) /\ given' \in Nat /\ given' <= given
         /\ ~paused' => buf' = b
  <1>1. /\ b.save_size \in Nat /\ b.current_size \in Nat
        /\ Unread(b) = b.save_size + b.current_size /\ b.buffer_size = Unread(b)
    BY DEF At, Saved, Unread
  <1>2. CASE pause = "save"
    <2>1. buf' = png_push_save_buffer(b) /\ given' = given /\ paused'
      BY <1>2 DEF Callback
    <2>2. Saved(buf', p) /\ buf'.save_size = Unread(b) /\ buf'.buffer_size = 0
      BY <2>1, SavedAll
    <2> QED BY <1>1, <2>1, <2>2 DEF Holds
  <1>3. CASE pause = "return"
    <2>1. buf' = Emptied(b) /\ paused'
      BY <1>3 DEF Callback
    <2>2. given' = p + b.save_size
      BY <1>1, <1>3 DEF Callback
    <2>3. /\ buf'.save = b.save /\ buf'.save_ptr = b.save_ptr /\ buf'.save_size = b.save_size
          /\ buf'.save_max = b.save_max /\ buf'.buffer_size = 0
      BY <2>1 DEF Emptied
    <2>4. Saved(buf', p)
      BY <2>3 DEF At, Saved
    <2> QED BY <1>1, <2>1, <2>2, <2>3, <2>4 DEF Holds
  <1>4. CASE pause \notin {"save", "return"}
    <2>1. buf' = b /\ given' = given
      BY <1>4 DEF Callback
    <2>2. Holds(b, given, p)
      BY <1>1 DEF Holds, At
    <2> QED BY <1>1, <2>1, <2>2
  <1> QED BY <1>2, <1>3, <1>4

(* In the middle of a piece, being at p and holding the bytes from p on are one. *)
LEMMA HoldsAt ==
  ASSUME NEW b, NEW g, NEW p \in Nat, At(b, p), g = p + Unread(b)
  PROVE  Holds(b, g, p)
  BY DEF Holds, At, Saved, Unread

(* The place that `position' computes is the one the buffers hold. *)
LEMMA PositionIs ==
  ASSUME NEW b, NEW g, NEW p \in Nat, Holds(b, g, p)
  PROVE  g - b.save_size - (IF b.buffer_size = 0 THEN 0 ELSE b.current_size) = p
  BY DEF Holds, At, Saved, Unread

----------------------------------------------------------------------------
(* The invariant. *)

Numbers ==
  /\ IsFile(file) /\ given \in Nat /\ given <= file.length
  /\ sig_bytes \in Nat /\ push_length \in Nat /\ idat_size \in Nat
  /\ zlib \in Seq(Int) /\ Len(zlib) <= file.zlength
  /\ process_mode \in {"SIG", "CHUNK", "IDAT", "DONE", "ERROR"}

NothingYet ==
  file = NoFile => buf.buffer_size = 0 /\ given = 0 /\ zlib = <<>> /\ process_mode = "SIG"

Buffers ==
  /\ process_mode \in {"SIG", "CHUNK", "IDAT"} => position \in Nat /\ Holds(buf, given, position)
  /\ process_mode = "DONE" =>
       /\ buf.save_size \in Nat /\ buf.buffer_size \in Nat
       /\ buf.buffer_size # 0 => buf.current_size \in Nat /\ buf.buffer_size = Unread(buf)

Places ==
  /\ process_mode = "SIG" => sig_bytes < 8 /\ position = sig_bytes /\ ~HasHeader
  /\ process_mode \in {"CHUNK", "IDAT", "DONE"} => sig_bytes = 8
  /\ process_mode = "DONE" => ~HasHeader

Headers ==
  process_mode \in {"CHUNK", "IDAT"} /\ HasHeader =>
    /\ chunk_name = HeaderAt(start).name /\ push_length = HeaderAt(start).length
    /\ (chunk_name = "IDAT") <=> (process_mode = "IDAT")
    /\ process_mode = "IDAT" => idat_size <= push_length

Flags ==
  /\ process_mode = "SIG" => mode = {}
  /\ process_mode = "CHUNK" /\ "HAVE_IDAT" \in mode => "AFTER_IDAT" \in mode
  /\ process_mode = "IDAT" /\ ~HasHeader => "AFTER_IDAT" \in mode

IInv == Numbers /\ NothingYet /\ Buffers /\ Places /\ Headers /\ Flags /\ NothingHeldBack

Idat == IF HasHeader /\ chunk_name = "IDAT" THEN push_length - idat_size ELSE 0

(* Whatever is read as a header has a name and a length. *)
LEMMA HeaderTypes ==
  ASSUME IsFile(file), NEW p
  PROVE  HeaderAt(p).name \in ChunkNames /\ HeaderAt(p).length \in Nat
  BY DEF IsFile, HeaderAt, NoChunk, ChunkNames

(* When a header is there, it is that of the chunk, and what is left of the chunk
   is in the buffers. *)
LEMMA AtHeader ==
  ASSUME IInv, Busy, process_mode \in {"CHUNK", "IDAT"}, HeaderIsThere
  PROVE  /\ header.name = HeaderAt(start).name /\ header.length = HeaderAt(start).length
         /\ header.name \in ChunkNames /\ header.length \in Nat
         /\ Idat \in Nat /\ Idat <= header.length
         /\ process_mode = "CHUNK" => Idat = 0
         /\ start \in Int /\ start + 8 + Idat \in Nat
         /\ At(afterHeader, start + 8 + Idat)
         /\ given = start + 8 + Idat + Unread(afterHeader)
         /\ afterHeader.buffer_size = Unread(afterHeader) /\ Unread(afterHeader) \in Nat
  <1>1. position \in Nat /\ At(buf, position) /\ given = position + Unread(buf)
    BY DEF IInv, Buffers, Busy, Holds
  <1>2. buf.buffer_size = Unread(buf) /\ Unread(buf) \in Nat
    BY <1>1 DEF At, Saved, Unread
  <1>3. sig_bytes = 8 /\ push_length \in Nat /\ idat_size \in Nat /\ IsFile(file)
    BY DEF IInv, Places, Numbers
  <1>4. CASE HasHeader
    <2>1. header = [name |-> chunk_name, length |-> push_length] /\ afterHeader = buf
      BY <1>4 DEF header, afterHeader
    <2>2. position = start + 8 + Idat /\ start \in Int
      BY <1>1, <1>3, <1>4 DEF start, Idat
    <2>3. /\ chunk_name = HeaderAt(start).name /\ push_length = HeaderAt(start).length
          /\ (chunk_name = "IDAT") <=> (process_mode = "IDAT")
          /\ process_mode = "IDAT" => idat_size <= push_length
      BY <1>4 DEF IInv, Headers
    <2>4. Idat \in Nat /\ Idat <= push_length /\ (process_mode = "CHUNK" => Idat = 0)
      BY <1>3, <2>3 DEF Idat
    <2> QED BY <1>1, <1>2, <1>3, <2>1, <2>2, <2>3, <2>4, HeaderTypes
  <1>5. CASE ~HasHeader
    <2>1. 8 <= Unread(buf)
      BY <1>2, <1>5 DEF HeaderIsThere
    <2>2. Bytes(buf, 8)[1] = position
      <3>1. Bytes(buf, 8) = [i \in 1 .. 8 |-> position + i - 1]
        BY <1>1, <2>1, BytesOfFile
      <3> QED BY <1>1, <3>1
    <2>3. header = HeaderAt(position) /\ afterHeader = png_push_fill_buffer(buf, 8)
      BY <1>5, <2>2 DEF header, afterHeader
    <2>4. At(afterHeader, position + 8) /\ Unread(afterHeader) = Unread(buf) - 8
      BY <1>1, <2>1, <2>3, Filled
    <2>5. start = position /\ Idat = 0
      BY <1>3, <1>5 DEF start, Idat
    <2>6. afterHeader.buffer_size = Unread(afterHeader)
      BY <2>4 DEF At, Unread
    <2>7. header.name \in ChunkNames /\ header.length \in Nat
      BY <1>3, <2>3, HeaderTypes
    <2> QED BY <1>1, <1>2, <2>1, <2>3, <2>4, <2>5, <2>6, <2>7
  <1> QED BY <1>4, <1>5

----------------------------------------------------------------------------
(* Every step keeps the invariant, and is one of a reader of the whole file or
   none. *)

Good == IInv' /\ [File!Next]_File!vars

(* The application opens a file. *)
LEMMA OpenFileGood ==
  ASSUME IInv, NEW f, OpenFile(f)
  PROVE  Good
  <1> USE DEF OpenFile
  <1>1. process_mode = "SIG" /\ buf.buffer_size = 0 /\ given = 0 /\ zlib = <<>> /\ file = NoFile
    BY DEF IInv, NothingYet
  <1>2. position' = position
    BY DEF position
  <1>3. ~HasHeader /\ ~HasHeader' /\ sig_bytes < 8
    BY <1>1 DEF IInv, Places, HasHeader
  <1>4. start' = start
    BY <1>3 DEF start
  <1>5. Numbers'
    <2>1. f.length \in Nat /\ f.zlength \in Nat \ {0} /\ Len(zlib) = 0
      BY <1>1 DEF IsFile
    <2> QED BY <1>1, <2>1 DEF IInv, Numbers
  <1>6. NothingYet'
    BY <1>1 DEF NothingYet
  <1>7. Buffers' /\ Places'
    BY <1>1, <1>2, <1>3 DEF IInv, Buffers, Places, Holds, At, Saved, Unread
  <1>8. Headers' /\ Flags'
    BY <1>1 DEF IInv, Headers, Flags
  <1>9. NothingHeldBack'
    BY <1>1, <1>3 DEF IInv, NothingHeldBack, HasHeader
  <1>10. IInv'
    BY <1>5, <1>6, <1>7, <1>8, <1>9 DEF IInv
  <1>11. [File!Next]_File!vars
    <2>1. CASE f = NoFile
      BY <1>3, <1>4, <2>1 DEF File!vars, HasHeader
    <2>2. CASE f # NoFile
      <3>1. File!Open
        BY <1>3, <1>4, <2>2 DEF File!Open, File!NoFile, NoFile, HasHeader
      <3> QED BY <3>1 DEF File!Next
    <2> QED BY <2>1, <2>2
  <1> QED BY <1>10, <1>11 DEF Good

(* png_process_data is given a piece. *)
LEMMA GiveGood ==
  ASSUME IInv, NEW n, png_process_data(n)
  PROVE  Good
  <1> DEFINE size == Lesser(n, file.length - given)
  <1>1. /\ file # NoFile /\ n \in Nat /\ buf.buffer_size = 0 /\ process_mode # "ERROR"
        /\ size > 0 \/ paused
        /\ buf' = png_push_restore_buffer(buf, [i \in 0 .. size - 1 |-> given + i], size)
        /\ given' = given + size /\ paused' = FALSE
        /\ UNCHANGED <<file, process_mode, mode, sig_bytes, push_length, chunk_name, idat_size,
                       handled, zlib>>
    BY DEF png_process_data
  <1>2. size \in Nat /\ given + size <= file.length /\ given \in Nat /\ file.length \in Nat
    BY <1>1 DEF IInv, Numbers, IsFile, Lesser
  <1> HIDE DEF size
  <1>3. buf'.save_size = buf.save_size /\ buf'.current_size = size /\ buf'.buffer_size = size + buf.save_size
    BY <1>1 DEF png_push_restore_buffer
  <1>4. CASE process_mode = "DONE"
    <2>1. buf.save_size \in Nat
      BY <1>4 DEF IInv, Buffers
    <2>2. position' = position
      BY <1>1, <1>2, <1>3, <2>1 DEF position
    <2>3. start' = start
      BY <1>1, <2>2 DEF start, HasHeader
    <2>4. Buffers'
      BY <1>1, <1>2, <1>3, <1>4, <2>1 DEF Buffers, Unread
    <2>5. Numbers' /\ NothingYet' /\ Places' /\ Headers' /\ Flags'
      BY <1>1, <1>2, <1>4 DEF IInv, Numbers, NothingYet, Places, Headers, Flags, HasHeader
    <2>6. NothingHeldBack'
      BY <1>1, <1>4 DEF NothingHeldBack
    <2>7. IInv'
      BY <2>4, <2>5, <2>6 DEF IInv
    <2>8. UNCHANGED File!vars
      BY <1>1, <2>3 DEF File!vars, HasHeader
    <2> QED BY <2>7, <2>8 DEF Good
  <1>5. CASE process_mode # "DONE"
    <2>1. process_mode \in {"SIG", "CHUNK", "IDAT"}
      BY <1>1, <1>5 DEF IInv, Numbers
    <2>2. position \in Nat /\ Saved(buf, position) /\ given = position + buf.save_size
      BY <1>1, <2>1 DEF IInv, Buffers, Holds
    <2>3. buf.save_size \in Nat
      BY <2>2 DEF Saved
    <2>4. At(buf', position) /\ Unread(buf') = buf.save_size + size
      BY <1>1, <1>2, <2>2, Restored
    <2>5. given' = position + Unread(buf')
      BY <1>1, <1>2, <2>2, <2>3, <2>4
    <2>6. Holds(buf', given', position)
      BY <2>2, <2>4, <2>5, HoldsAt
    <2>7. position' = position
      BY <2>2, <2>6, PositionIs DEF position
    <2>8. start' = start
      BY <1>1, <2>7 DEF start, HasHeader
    <2>9. Buffers'
      BY <1>1, <2>1, <2>2, <2>6, <2>7 DEF Buffers
    <2>10. Numbers' /\ NothingYet' /\ Places' /\ Flags'
      BY <1>1, <1>2, <2>7 DEF IInv, Numbers, NothingYet, Places, Flags, HasHeader
    <2>11. Headers'
      BY <1>1, <2>8 DEF IInv, Headers, HasHeader, HeaderAt
    <2>12. NothingHeldBack'
      BY <1>1, <1>2, <1>3, <2>1, <2>3 DEF IInv, NothingHeldBack, HasHeader, Numbers
    <2>13. IInv'
      BY <2>9, <2>10, <2>11, <2>12 DEF IInv
    <2>14. UNCHANGED File!vars
      BY <1>1, <2>8 DEF File!vars, HasHeader
    <2> QED BY <2>13, <2>14 DEF Good
  <1> QED BY <1>4, <1>5

(* What is left to show of a step that leaves the reader, not at the end and
   without an error, at position p: nothing about the buffers. *)
LEMMA Reached ==
  ASSUME NEW p \in Nat, Holds(buf', given', p)
  PROVE  position' = p /\ (process_mode' # "DONE" => Buffers')
  <1>1. position' = p
    BY PositionIs DEF position
  <1> QED BY <1>1 DEF Buffers

(* What is kept after the buffers have been saved, or used up. *)
LEMMA UsedUp ==
  ASSUME NEW b, NEW p \in Nat, At(b, p), b.buffer_size = 0
  PROVE  b.save_size = 0
  BY DEF At, Saved

(* png_push_read_sig. *)
LEMMA SignatureGood ==
  ASSUME IInv, png_push_read_sig
  PROVE  Good
  <1> DEFINE n == Lesser(8 - sig_bytes, buf.buffer_size)
             bytes == Bytes(buf, n)
             wrong == \E i \in 1 .. n : bytes[i] \in file.damaged
  <1>1. /\ Busy /\ process_mode = "SIG"
        /\ wrong => process_mode' = "ERROR" /\ UNCHANGED <<buf, sig_bytes>>
        /\ ~wrong => /\ buf' = png_push_fill_buffer(buf, n) /\ sig_bytes' = sig_bytes + n
                     /\ process_mode' = IF sig_bytes + n >= 8 THEN "CHUNK" ELSE "SIG"
        /\ UNCHANGED <<file, given, mode, push_length, chunk_name, idat_size, handled, zlib, paused>>
    BY DEF png_push_read_sig, png_error
  <1>2. /\ sig_bytes < 8 /\ sig_bytes \in Nat /\ position = sig_bytes /\ ~HasHeader /\ file # NoFile
        /\ At(buf, sig_bytes) /\ given = sig_bytes + Unread(buf) /\ IsFile(file)
    BY <1>1 DEF IInv, Numbers, NothingYet, Places, Buffers, Busy, Holds
  <1>3. n \in Nat /\ n <= Unread(buf) /\ n <= 8 - sig_bytes /\ n > 0 /\ Unread(buf) \in Nat
    BY <1>1, <1>2 DEF Lesser, At, Saved, Unread, Busy
  <1>4. bytes = [i \in 1 .. n |-> sig_bytes + i - 1]
    BY <1>2, <1>3, BytesOfFile
  <1> HIDE DEF n, bytes
  <1>5. CASE wrong
    <2>1. start' = start
      BY <1>1, <1>5 DEF start, position, HasHeader
    <2>2. PICK i \in 1 .. n : bytes[i] \in file.damaged
      BY <1>5
    <2>3. sig_bytes + i - 1 \in 0 .. 7 /\ bytes[i] = sig_bytes + i - 1
      BY <1>2, <1>3, <1>4
    <2>4. File!Fail
      BY <1>1, <1>5, <2>1, <2>2, <2>3 DEF File!Fail, HasHeader
    <2>5. IInv'
      BY <1>1, <1>2, <1>5 DEF IInv, Numbers, NothingYet, Buffers, Places, Headers, Flags, NothingHeldBack
    <2> QED BY <2>4, <2>5 DEF Good, File!Next
  <1>6. CASE ~wrong
    <2>1. /\ buf' = png_push_fill_buffer(buf, n) /\ sig_bytes' = sig_bytes + n
          /\ process_mode' = IF sig_bytes + n >= 8 THEN "CHUNK" ELSE "SIG"
      BY <1>1, <1>6
    <2> DEFINE p == sig_bytes + n
    <2>2. p \in Nat /\ p <= 8
      BY <1>2, <1>3
    <2>3. At(buf', p) /\ given' = p + Unread(buf')
      BY <1>1, <1>2, <1>3, <2>1, Filled
    <2>4. Holds(buf', given', p)
      BY <2>2, <2>3, HoldsAt
    <2>5. position' = p /\ Buffers'
      BY <2>1, <2>2, <2>4, Reached
    <2>6. NothingHeldBack'
      BY <1>1, <1>2, <2>1, <2>2, <2>3, UsedUp DEF NothingHeldBack, HasHeader
    <2>7. ~HasHeader'
      BY <1>1, <1>2 DEF HasHeader
    <2>8. Numbers' /\ NothingYet' /\ Places'
      BY <1>1, <1>2, <2>1, <2>2, <2>5, <2>7 DEF IInv, Numbers, NothingYet, Places
    <2>9. Headers'
      BY <2>7 DEF Headers
    <2>10. Flags'
      BY <1>1, <2>1 DEF IInv, Flags
    <2>11. IInv'
      BY <2>5, <2>6, <2>8, <2>9, <2>10, <2>1, <2>2 DEF IInv
    <2>12. UNCHANGED <<mode, handled, zlib, file>> /\ Idat' = Idat
      BY <1>1, <1>2, <2>7 DEF Idat
    <2>13. CASE p >= 8
      <3>1. start = 0 /\ start' = 8
        BY <1>2, <2>1, <2>2, <2>5, <2>7, <2>13 DEF start
      <3>2. File!Signature
        BY <1>1, <2>1, <2>12, <2>13, <3>1 DEF File!Signature, Idat
      <3> QED BY <2>11, <3>2 DEF Good, File!Next
    <2>14. CASE ~(p >= 8)
      <3>1. start = 0 /\ start' = 0
        BY <1>2, <2>1, <2>2, <2>14 DEF start
      <3>2. UNCHANGED File!vars
        BY <1>1, <2>1, <2>12, <2>14, <3>1 DEF File!vars, Idat
      <3> QED BY <2>11, <3>2 DEF Good
    <2> QED BY <2>13, <2>14
  <1> QED BY <1>5, <1>6

(* png_error ends everything. *)
LEMMA ErrorKeeps ==
  ASSUME IInv, Busy, process_mode' = "ERROR", UNCHANGED <<file, given, sig_bytes>>,
         push_length' \in Nat, idat_size' \in Nat, zlib' \in Seq(Int), Len(zlib') <= file.zlength
  PROVE  IInv'
  <1>1. file # NoFile
    BY DEF IInv, NothingYet, Busy
  <1> QED BY <1>1 DEF IInv, Numbers, NothingYet, Buffers, Places, Headers, Flags, NothingHeldBack

(* Waiting for eight bytes keeps all that there is. *)
LEMMA WaitGood ==
  ASSUME Spare \in Nat, IInv, WaitForHeader
  PROVE  Good
  <1>1. /\ Busy /\ process_mode \in {"CHUNK", "IDAT"} /\ ~HasHeader /\ buf.buffer_size < 8
        /\ buf' = png_push_save_buffer(buf)
        /\ UNCHANGED <<file, given, process_mode, mode, sig_bytes, push_length, chunk_name,
                       idat_size, handled, zlib, paused>>
    BY DEF WaitForHeader
  <1>2. /\ position \in Nat /\ At(buf, position) /\ given = position + Unread(buf) /\ file # NoFile
        /\ sig_bytes = 8
    BY <1>1 DEF IInv, Buffers, Busy, Holds, NothingYet, Places
  <1>3. Saved(buf', position) /\ buf'.save_size = Unread(buf) /\ buf'.buffer_size = 0
    BY <1>1, <1>2, SavedAll
  <1>4. Holds(buf', given', position)
    BY <1>1, <1>2, <1>3 DEF Holds
  <1>5. position' = position /\ Buffers'
    BY <1>1, <1>2, <1>4, Reached
  <1>6. start' = start /\ ~HasHeader'
    BY <1>1, <1>2, <1>5 DEF start, HasHeader
  <1>7. Numbers' /\ NothingYet' /\ Places' /\ Headers' /\ Flags'
    BY <1>1, <1>2, <1>6 DEF IInv, Numbers, NothingYet, Places, Headers, Flags, HasHeader
  <1>8. buf'.save_size < 8
    BY <1>1, <1>2, <1>3 DEF At, Unread
  <1>9. NothingHeldBack'
    BY <1>1, <1>6, <1>8 DEF NothingHeldBack
  <1>10. IInv'
    BY <1>5, <1>7, <1>9 DEF IInv
  <1>11. UNCHANGED File!vars
    BY <1>1, <1>6 DEF File!vars, HasHeader
  <1> QED BY <1>10, <1>11 DEF Good

(* png_push_read_chunk waits for a chunk, handles it or fails. *)
LEMMA HandleGood ==
  ASSUME Spare \in Nat, IInv, NEW pause, HandleChunk(pause)
  PROVE  Good
  <1> DEFINE name == header.name
             length == header.length
             bytes == Bytes(afterHeader, length + 4)
             behind == png_push_fill_buffer(afterHeader, length + 4)
             wrong == \/ name = "IHDR" /\ length # 13
                      \/ ~full /\ (OutOfPlace(name) \/ CRCError(name, bytes[length + 1]))
             p == start + 8
  <1>1. /\ Busy /\ process_mode = "CHUNK" /\ HeaderIsThere /\ name # "IDAT"
        /\ UNCHANGED <<file, sig_bytes, idat_size, zlib>>
    BY DEF HandleChunk
  <1>2. /\ name = HeaderAt(start).name /\ length = HeaderAt(start).length
        /\ name \in ChunkNames /\ length \in Nat /\ Idat = 0
        /\ p \in Nat /\ At(afterHeader, p) /\ given = p + Unread(afterHeader)
        /\ afterHeader.buffer_size = Unread(afterHeader) /\ Unread(afterHeader) \in Nat
    BY <1>1, AtHeader
  <1>3. /\ file # NoFile /\ sig_bytes = 8 /\ start \in Int /\ IsFile(file) /\ position \in Nat
        /\ push_length \in Nat /\ idat_size \in Nat /\ zlib \in Seq(Int) /\ Len(zlib) <= file.zlength
    BY <1>1, AtHeader DEF IInv, NothingYet, Busy, Places, Numbers, Buffers
  <1>4. File!Chunk.name = name /\ File!Chunk.length = length /\ File!CRC = p + length
    BY <1>2, <1>3 DEF File!Chunk, File!CRC, File!HeaderAt, HeaderAt, File!NoChunk, NoChunk
  <1>5. full <=> length + 4 > Unread(afterHeader)
    BY <1>2 DEF full
  <1>6. ASSUME ~full PROVE bytes = [i \in 1 .. length + 4 |-> p + i - 1]
    <2>1. length + 4 \in Nat /\ length + 4 <= Unread(afterHeader)
      BY <1>2, <1>5, <1>6
    <2> DEFINE m == length + 4
    <2>2. bytes = Bytes(afterHeader, m)
      OBVIOUS
    <2>3. m \in Nat /\ m <= Unread(afterHeader)
      BY <2>1
    <2> HIDE DEF p, m, bytes
    <2>4. Bytes(afterHeader, m) = [i \in 1 .. m |-> p + i - 1]
      BY <1>2, <2>3, BytesOfFile
    <2> QED BY <2>2, <2>4 DEF m
  <1>7. ASSUME ~full PROVE bytes[length + 1] = p + length
    BY <1>2, <1>6, <1>7
  <1>8. OutOfPlace(name) <=> File!OutOfPlace
    BY <1>1, <1>4 DEF OutOfPlace, File!OutOfPlace
  <1>9. ASSUME ~full PROVE CRCError(name, bytes[length + 1]) <=> File!CRCError
    BY <1>4, <1>7, <1>9 DEF CRCError, File!CRCError
  <1>10. CASE wrong
    <2>1. process_mode' = "ERROR" /\ UNCHANGED <<buf, given, paused, mode, push_length, chunk_name, handled>>
      BY <1>10 DEF HandleChunk, png_error
    <2>2. start' = start /\ Idat' = Idat
      BY <1>1, <2>1 DEF start, position, HasHeader, Idat
    <2>3. IInv'
      BY <1>1, <1>3, <2>1, ErrorKeeps
    <2>4. File!Fail
      BY <1>1, <1>4, <1>8, <1>9, <1>10, <2>1, <2>2 DEF File!Fail, Idat
    <2> QED BY <2>3, <2>4 DEF Good, File!Next
  <1>11. CASE ~wrong /\ full
    <2>1. /\ chunk_name' = name /\ push_length' = length /\ mode' = mode \cup {"HAVE_CHUNK_HEADER"}
          /\ buf' = png_push_save_buffer(afterHeader)
          /\ UNCHANGED <<given, paused, process_mode, handled>>
      BY <1>11 DEF HandleChunk, ReadHeader
    <2>2. Saved(buf', p) /\ buf'.save_size = Unread(afterHeader) /\ buf'.buffer_size = 0
      BY <1>2, <2>1, SavedAll
    <2>3. Holds(buf', given', p)
      BY <1>2, <2>1, <2>2 DEF Holds
    <2>4. position' = p /\ Buffers'
      BY <1>1, <1>2, <2>1, <2>3, Reached
    <2>5. HasHeader'
      BY <2>1 DEF HasHeader
    <2>6. start' = start /\ Idat' = Idat
      BY <1>1, <1>2, <1>3, <2>1, <2>4, <2>5 DEF start, Idat
    <2>7. Numbers' /\ NothingYet' /\ Places' /\ Flags'
      BY <1>1, <1>2, <1>3, <2>1 DEF IInv, Numbers, NothingYet, Places, Flags
    <2>8. Headers'
      BY <1>1, <1>2, <2>1, <2>6 DEF Headers, HeaderAt
    <2>9. buf'.save_size < push_length' + 4
      BY <1>5, <1>11, <2>1, <2>2
    <2>10. NothingHeldBack'
      BY <1>1, <2>1, <2>5, <2>9 DEF NothingHeldBack
    <2>11. IInv'
      BY <2>4, <2>7, <2>8, <2>10, <1>1, <2>1 DEF IInv
    <2>12. UNCHANGED File!vars
      BY <1>1, <2>1, <2>6 DEF File!vars, Idat
    <2> QED BY <2>11, <2>12 DEF Good
  <1>12. CASE ~wrong /\ ~full
    <2>1. /\ chunk_name' = name /\ push_length' = length
          /\ mode' = (mode \cup Handled(name)) \ {"HAVE_CHUNK_HEADER"}
          /\ handled' = Append(handled, [name |-> name, bytes |-> bytes])
          /\ process_mode' = IF name = "IEND" THEN "DONE" ELSE "CHUNK"
          /\ Callback(behind, IF name = "IEND" THEN pause ELSE "none")
      BY <1>12 DEF HandleChunk, ReadHeader
    <2> DEFINE q == p + (length + 4)
    <2>2. q \in Nat /\ At(behind, q) /\ given = q + Unread(behind)
      <3>1. length + 4 \in Nat /\ length + 4 <= Unread(afterHeader)
        BY <1>2, <1>5, <1>12
      <3> HIDE DEF p, length
      <3>2. At(behind, q) /\ Unread(behind) = Unread(afterHeader) - (length + 4)
        BY <1>2, <3>1, Filled
      <3> QED BY <1>2, <3>1, <3>2
    <2>3. /\ Holds(buf', given', q) /\ given' \in Nat /\ given' <= given
          /\ ~paused' => buf' = behind
      BY <2>1, <2>2, CalledBack
    <2>4. position' = q
      BY <2>2, <2>3, Reached
    <2>5. ~HasHeader'
      BY <2>1 DEF HasHeader
    <2>6. start' = q /\ Idat' = 0
      BY <1>1, <1>3, <2>4, <2>5 DEF start, Idat
    <2>7. Buffers'
      <3>1. buf'.save_size \in Nat
        BY <2>3 DEF Holds, At, Saved
      <3>2. /\ buf'.buffer_size \in Nat
            /\ buf'.buffer_size # 0 => buf'.current_size \in Nat /\ buf'.buffer_size = Unread(buf')
        BY <2>3, <3>1 DEF Holds, At, Unread
      <3> QED BY <2>1, <2>2, <2>3, <2>4, <3>1, <3>2 DEF Buffers
    <2>8. Numbers'
      <3>1. given <= file.length /\ given \in Nat /\ sig_bytes \in Nat /\ file.length \in Nat
        BY DEF IInv, Numbers, IsFile
      <3> QED BY <1>1, <1>2, <1>3, <2>1, <2>3, <3>1 DEF Numbers
    <2>13. NothingYet' /\ Places' /\ Headers'
      BY <1>1, <1>3, <2>1, <2>5 DEF NothingYet, Places, Headers
    <2>9. Flags'
      BY <1>1, <2>1 DEF IInv, Flags, Handled
    <2>10. NothingHeldBack'
      <3>1. ASSUME buf'.buffer_size = 0, ~paused' PROVE buf'.save_size = 0
        BY <2>2, <2>3, <3>1, UsedUp
      <3> QED BY <2>1, <2>5, <3>1 DEF NothingHeldBack
    <2>11. IInv'
      BY <2>7, <2>8, <2>13, <2>9, <2>10 DEF IInv
    <2>12. File!HandleChunk
      <3>1. bytes = File!Interval(start + 8, length + 4)
        BY <1>6, <1>12 DEF File!Interval
      <3>2. mode' \cap {"HAVE_IHDR", "HAVE_PLTE", "HAVE_IDAT"}
              = (mode \cap {"HAVE_IHDR", "HAVE_PLTE", "HAVE_IDAT"}) \cup File!Now(name)
        BY <2>1 DEF Handled, File!Now
      <3>3. start' = File!CRC + 4
        BY <1>2, <1>4, <2>6
      <3>4. ~File!OutOfPlace /\ ~File!CRCError /\ (name = "IHDR" => length = 13)
        BY <1>8, <1>9, <1>12
      <3>5. Idat' = Idat
        BY <1>2, <2>6
      <3> QED BY <1>1, <1>4, <2>1, <3>1, <3>2, <3>3, <3>4, <3>5 DEF File!HandleChunk, Idat
    <2> QED BY <2>11, <2>12 DEF Good, File!Next
  <1> QED BY <1>10, <1>11, <1>12

(* The first IDAT of a run; the branch `empty' is never taken. *)
LEMMA BeginGood ==
  ASSUME Spare \in Nat, IInv, NEW pause, BeginIDAT(pause)
  PROVE  Good
  <1> DEFINE again == IF "AFTER_IDAT" \in mode THEN {"HAVE_CHUNK_AFTER_IDAT"} ELSE {}
             empty == /\ "HAVE_IDAT" \in mode /\ "HAVE_CHUNK_AFTER_IDAT" \notin mode \cup again
                      /\ header.length = 0
             wrong == "HAVE_IHDR" \notin mode \/ (file.palette /\ "HAVE_PLTE" \notin mode)
             p == start + 8
  <1>1. /\ Busy /\ process_mode = "CHUNK" /\ HeaderIsThere /\ header.name = "IDAT"
        /\ UNCHANGED <<file, sig_bytes, handled, zlib>>
    BY DEF BeginIDAT
  <1>2. /\ header.name = HeaderAt(start).name /\ header.length = HeaderAt(start).length
        /\ header.length \in Nat /\ Idat = 0 /\ start \in Int
        /\ p \in Nat /\ At(afterHeader, p) /\ given = p + Unread(afterHeader)
    BY <1>1, AtHeader
  <1>3. /\ file # NoFile /\ sig_bytes = 8 /\ IsFile(file) /\ position \in Nat
        /\ push_length \in Nat /\ idat_size \in Nat /\ zlib \in Seq(Int) /\ Len(zlib) <= file.zlength
    BY <1>1 DEF IInv, NothingYet, Busy, Places, Numbers, Buffers
  <1>4. File!Chunk.name = "IDAT"
    BY <1>1, <1>2 DEF File!Chunk, File!HeaderAt, HeaderAt, File!NoChunk, NoChunk
  <1>5. wrong <=> File!OutOfPlace
    BY <1>4 DEF File!OutOfPlace
  <1>6. ~empty
    BY <1>1 DEF IInv, Flags
  <1>7. CASE wrong
    <2>1. process_mode' = "ERROR" /\ UNCHANGED <<buf, given, paused, mode, push_length, chunk_name, idat_size>>
      BY <1>7 DEF BeginIDAT, png_error
    <2>2. start' = start /\ Idat' = Idat
      BY <1>1, <2>1 DEF start, position, HasHeader, Idat
    <2>3. IInv'
      BY <1>1, <1>3, <2>1, ErrorKeeps
    <2>4. File!Fail
      BY <1>1, <1>5, <1>7, <2>1, <2>2 DEF File!Fail, Idat
    <2> QED BY <2>3, <2>4 DEF Good, File!Next
  <1>8. CASE ~wrong
    <2>1. /\ chunk_name' = "IDAT" /\ push_length' = header.length /\ process_mode' = "IDAT"
          /\ mode' = mode \cup {"HAVE_CHUNK_HEADER"} \cup again \cup {"HAVE_IDAT"}
          /\ idat_size' = header.length
          /\ Callback(afterHeader, pause)
      BY <1>1, <1>6, <1>8 DEF BeginIDAT, ReadHeader
    <2>2. /\ Holds(buf', given', p) /\ given' \in Nat /\ given' <= given
          /\ ~paused' => buf' = afterHeader
      BY <1>2, <2>1, CalledBack
    <2>3. position' = p /\ Buffers'
      BY <1>2, <2>1, <2>2, Reached
    <2>4. HasHeader'
      BY <2>1 DEF HasHeader
    <2>5. start' = start /\ Idat' = 0
      BY <1>1, <1>2, <1>3, <2>1, <2>3, <2>4 DEF start, Idat
    <2>6. Numbers'
      <3>1. given <= file.length /\ given \in Nat /\ sig_bytes \in Nat /\ file.length \in Nat
        BY DEF IInv, Numbers, IsFile
      <3> QED BY <1>1, <1>2, <1>3, <2>1, <2>2, <3>1 DEF Numbers
    <2>7. NothingYet' /\ Places' /\ Flags'
      BY <1>1, <1>3, <2>1, <2>4 DEF NothingYet, Places, Flags
    <2>8. Headers'
      BY <1>1, <1>2, <2>1, <2>5 DEF Headers, HeaderAt
    <2>9. NothingHeldBack'
      <3>1. ASSUME buf'.buffer_size = 0, ~paused' PROVE buf'.save_size = 0
        BY <1>2, <2>2, <3>1, UsedUp
      <3> QED BY <1>2, <2>1, <2>4, <3>1 DEF NothingHeldBack
    <2>10. IInv'
      BY <2>3, <2>6, <2>7, <2>8, <2>9, <2>1 DEF IInv
    <2>11. mode' \cap {"HAVE_IHDR", "HAVE_PLTE", "HAVE_IDAT"}
             = (mode \cap {"HAVE_IHDR", "HAVE_PLTE", "HAVE_IDAT"}) \cup {"HAVE_IDAT"}
      BY <2>1
    <2>12. File!BeginIDAT
      BY <1>1, <1>2, <1>4, <1>5, <1>8, <2>1, <2>5, <2>11 DEF File!BeginIDAT, Idat
    <2> QED BY <2>10, <2>12 DEF Good, File!Next
  <1> QED BY <1>7, <1>8

(* The header behind the last IDAT. *)
LEMMA EndGood ==
  ASSUME IInv, EndIDAT
  PROVE  Good
  <1> DEFINE p == start + 8
  <1>1. /\ Busy /\ process_mode = "IDAT" /\ ~HasHeader /\ HeaderIsThere /\ header.name # "IDAT"
        /\ chunk_name' = header.name /\ push_length' = header.length
        /\ mode' = mode \cup {"HAVE_CHUNK_HEADER"} /\ buf' = afterHeader
        /\ process_mode' = IF Ended THEN "CHUNK" ELSE "ERROR"
        /\ UNCHANGED <<file, given, sig_bytes, idat_size, handled, zlib, paused>>
    BY DEF EndIDAT, ReadHeader, HeaderIsThere
  <1>2. /\ header.name = HeaderAt(start).name /\ header.length = HeaderAt(start).length
        /\ header.length \in Nat /\ start \in Int /\ Idat = 0
        /\ p \in Nat /\ At(afterHeader, p) /\ given = p + Unread(afterHeader)
    BY <1>1, AtHeader DEF Idat
  <1>3. /\ file # NoFile /\ sig_bytes = 8 /\ IsFile(file)
        /\ idat_size \in Nat /\ zlib \in Seq(Int) /\ Len(zlib) <= file.zlength
    BY <1>1 DEF IInv, NothingYet, Busy, Places, Numbers
  <1>4. File!Chunk.name = header.name
    BY <1>2 DEF File!Chunk, File!HeaderAt, HeaderAt, File!NoChunk, NoChunk
  <1>5. Holds(buf', given', p)
    BY <1>1, <1>2, HoldsAt
  <1>6. position' = p /\ HasHeader'
    BY <1>1, <1>2, <1>5, Reached DEF HasHeader
  <1>7. start' = start /\ Idat' = 0
    BY <1>1, <1>2, <1>3, <1>6 DEF start, Idat
  <1>8. mode' \cap {"HAVE_IHDR", "HAVE_PLTE", "HAVE_IDAT"}
          = mode \cap {"HAVE_IHDR", "HAVE_PLTE", "HAVE_IDAT"}
    BY <1>1
  <1>9. CASE Ended
    <2>1. Buffers'
      BY <1>1, <1>2, <1>5, <1>9, Reached
    <2>2. Numbers' /\ NothingYet' /\ Places'
      BY <1>1, <1>2, <1>3, <1>9 DEF IInv, Numbers, NothingYet, Places
    <2>3. Flags'
      BY <1>1, <1>9 DEF IInv, Flags
    <2>4. Headers'
      BY <1>1, <1>2, <1>7, <1>9 DEF Headers, HeaderAt
    <2>5. NothingHeldBack'
      <3>1. ASSUME buf'.buffer_size = 0 PROVE buf'.save_size = 0
        BY <1>1, <1>2, <3>1, UsedUp
      <3> QED BY <1>1, <1>2, <1>6, <1>9, <3>1 DEF NothingHeldBack
    <2>6. IInv'
      BY <2>1, <2>2, <2>3, <2>4, <2>5 DEF IInv
    <2>7. File!EndIDAT
      BY <1>1, <1>2, <1>4, <1>7, <1>8, <1>9 DEF File!EndIDAT, File!Ended, Ended, Idat
    <2> QED BY <2>6, <2>7 DEF Good, File!Next
  <1>10. CASE ~Ended
    <2>1. IInv'
      BY <1>1, <1>2, <1>3, <1>10, ErrorKeeps
    <2>2. File!Fail
      BY <1>1, <1>2, <1>4, <1>7, <1>8, <1>10 DEF File!Fail, File!Ended, Ended, Idat
    <2> QED BY <2>1, <2>2 DEF Good, File!Next
  <1> QED BY <1>9, <1>10

(* What comes behind the end. *)
LEMMA DiscardGood ==
  ASSUME IInv, Discard
  PROVE  Good
  <1>1. /\ Busy /\ process_mode = "DONE" /\ buf' = Emptied(buf)
        /\ UNCHANGED <<file, given, process_mode, mode, sig_bytes, push_length, chunk_name,
                       idat_size, handled, zlib, paused>>
    BY DEF Discard
  <1>2. /\ buf.save_size \in Nat /\ buf.current_size \in Nat /\ given \in Nat /\ sig_bytes = 8
        /\ ~HasHeader /\ buf.buffer_size # 0 /\ file # NoFile
    BY <1>1 DEF IInv, Buffers, Busy, Numbers, Places, NothingYet
  <1>3. buf'.save_size = buf.save_size /\ buf'.buffer_size = 0
    BY <1>1 DEF Emptied
  <1>4. position' >= position
    BY <1>1, <1>2, <1>3 DEF position
  <1>5. start' >= start
    BY <1>1, <1>2, <1>4 DEF start, HasHeader
  <1>6. Numbers' /\ NothingYet' /\ Places' /\ Headers' /\ Flags'
    BY <1>1, <1>2 DEF IInv, Numbers, NothingYet, Places, Headers, Flags, HasHeader
  <1>7. Buffers' /\ NothingHeldBack'
    BY <1>1, <1>2, <1>3 DEF Buffers, NothingHeldBack
  <1>8. File!Discard
    BY <1>1, <1>5 DEF File!Discard, HasHeader
  <1> QED BY <1>6, <1>7, <1>8 DEF Good, IInv, File!Next

(* png_push_read_IDAT: data to zlib, then the CRC. *)
LEMMA IDATGood ==
  ASSUME Spare \in Nat, IInv, png_push_read_IDAT
  PROVE  Good
  <1> DEFINE left == IF HasHeader THEN idat_size ELSE header.length
             n == Lesser(left, Unread(afterHeader))
             bytes == Bytes(afterHeader, n)
             behind == png_push_fill_buffer(afterHeader, n)
             crc == Bytes(behind, 4)
             p == start + 8 + Idat
             m == Lesser(n, file.zlength - Len(zlib))
  <1>1. /\ Busy /\ process_mode = "IDAT" /\ HeaderIsThere /\ header.name = "IDAT"
        /\ chunk_name' = "IDAT" /\ push_length' = header.length /\ idat_size' = left - n
        /\ zlib' = zlib \o SubSeq(bytes, 1, m)
        /\ UNCHANGED <<file, given, sig_bytes, handled, paused>>
    BY DEF png_push_read_IDAT, ReadHeader
  <1> DEFINE bad == CRCError("IDAT", crc[1])
  <1>2. IF left > n
        THEN /\ buf' = behind /\ mode' = mode \cup {"HAVE_CHUNK_HEADER"} /\ process_mode' = "IDAT"
        ELSE IF behind.buffer_size < 4
        THEN /\ buf' = png_push_save_buffer(behind) /\ mode' = mode \cup {"HAVE_CHUNK_HEADER"}
             /\ process_mode' = "IDAT"
        ELSE IF bad
        THEN buf' = behind /\ mode' = mode \cup {"HAVE_CHUNK_HEADER"} /\ process_mode' = "ERROR"
        ELSE /\ buf' = png_push_fill_buffer(behind, 4) /\ process_mode' = "IDAT"
             /\ mode' = (mode \cup {"AFTER_IDAT"}) \ {"HAVE_CHUNK_HEADER"}
    BY <1>1 DEF png_push_read_IDAT, png_error
  <1>3. /\ header.name = HeaderAt(start).name /\ header.length = HeaderAt(start).length
        /\ header.length \in Nat /\ start \in Int /\ Idat \in Nat /\ Idat <= header.length
        /\ p \in Nat /\ At(afterHeader, p) /\ given = p + Unread(afterHeader)
        /\ Unread(afterHeader) \in Nat
    BY <1>1, AtHeader
  <1>4. /\ file # NoFile /\ sig_bytes = 8 /\ IsFile(file) /\ push_length \in Nat /\ idat_size \in Nat
        /\ zlib \in Seq(Int) /\ Len(zlib) <= file.zlength /\ file.zlength \in Nat
    BY <1>1 DEF IInv, NothingYet, Busy, Places, Numbers, IsFile
  <1>5. left = header.length - Idat
    <2>1. CASE HasHeader
      <3>1. chunk_name = "IDAT" /\ header.length = push_length
        BY <1>1, <2>1 DEF header
      <3> QED BY <1>4, <2>1, <3>1 DEF Idat
    <2>2. CASE ~HasHeader
      BY <1>3, <2>2 DEF Idat
    <2> QED BY <2>1, <2>2
  <1>6. left \in Nat /\ n \in Nat /\ n <= left /\ n <= Unread(afterHeader) /\ (left > n => n = Unread(afterHeader))
    BY <1>3, <1>5 DEF Lesser
  <1>7. m \in Nat /\ m <= n /\ m <= file.zlength - Len(zlib)
    BY <1>4, <1>6 DEF Lesser
  <1> HIDE DEF left, n, m, p
  <1>8. bytes = [i \in 1 .. n |-> p + i - 1]
    BY <1>3, <1>6, BytesOfFile
  <1>9. At(behind, p + n) /\ Unread(behind) = Unread(afterHeader) - n
    BY <1>3, <1>6, Filled
  <1>10. p + n \in Nat /\ given = p + n + Unread(behind) /\ behind.buffer_size = Unread(behind) /\ Unread(behind) \in Nat
    BY <1>3, <1>6, <1>9 DEF At, Unread
  <1> HIDE DEF bytes, behind
  <1>11. SubSeq(bytes, 1, m) = [i \in 1 .. m |-> p + i - 1]
    <2>1. bytes \in Seq(Int) /\ Len(bytes) = n
      BY <1>3, <1>6, <1>8
    <2>2. SubSeq(bytes, 1, m) = [i \in 1 .. m |-> bytes[i]]
      BY <1>7, <2>1
    <2> QED BY <1>6, <1>7, <1>8, <2>2
  <1>12. zlib' \in Seq(Int) /\ Len(zlib') = Len(zlib) + m
    <2> DEFINE s == [i \in 1 .. m |-> p + i - 1]
    <2>1. s \in Seq(Int) /\ Len(s) = m
      BY <1>3, <1>7
    <2>2. zlib' = zlib \o s
      BY <1>1, <1>11
    <2> HIDE DEF s
    <2>3. zlib \o s \in Seq(Int) /\ Len(zlib \o s) = Len(zlib) + Len(s)
      BY <1>4, <2>1
    <2> QED BY <2>1, <2>2, <2>3
  <1>13. /\ File!Chunk.name = "IDAT" /\ File!Chunk.length = header.length
         /\ File!CRC = start + 8 + header.length
    BY <1>1, <1>3 DEF File!Chunk, File!CRC, File!HeaderAt, HeaderAt, File!NoChunk, NoChunk
  <1>14. m = File!ForZlib(n)
    BY <1>4, <1>6 DEF m, Lesser, File!ForZlib
  <1>15. zlib' = zlib \o File!Interval(start + 8 + Idat, File!ForZlib(n))
    BY <1>1, <1>11, <1>14 DEF File!Interval, p
  <1>16. n \in 0 .. File!Chunk.length /\ Idat + n <= File!Chunk.length
    BY <1>3, <1>5, <1>6, <1>13
  <1>17. Numbers' \/ (process_mode' \notin {"IDAT", "ERROR"})
    <2>1. given <= file.length /\ given \in Nat /\ sig_bytes \in Nat
      BY DEF IInv, Numbers
    <2> QED BY <1>1, <1>3, <1>4, <1>6, <1>7, <1>12, <2>1 DEF Numbers
  <1>18. ASSUME HasHeader', position' = p + n
        PROVE  start' = start /\ Idat' = Idat + n
    <2>1. push_length' - idat_size' = Idat + n
      <3> DEFINE l == header.length
                 d == Idat
      <3>1. push_length' = l /\ idat_size' = (l - d) - n
        BY <1>1, <1>5
      <3>2. l \in Nat /\ d \in Nat /\ n \in Nat
        BY <1>3, <1>6
      <3> HIDE DEF l, d
      <3>3. push_length' - idat_size' = d + n
        BY <3>1, <3>2
      <3> QED BY <3>3 DEF d
    <2>2. Idat' = push_length' - idat_size'
      BY <1>1, <1>18 DEF Idat
    <2>3. start' = position' - 8 - (push_length' - idat_size')
      BY <1>1, <1>4, <1>18 DEF start
    <2>4. p = start + 8 + Idat
      BY DEF p
    <2>5. start' = (start + 8 + Idat + n) - 8 - (Idat + n)
      BY <1>18, <2>1, <2>3, <2>4
    <2> QED BY <1>3, <1>6, <2>1, <2>2, <2>5
  <1>19. ASSUME Holds(buf', given', p + n), process_mode' = "IDAT",
                mode' = mode \cup {"HAVE_CHUNK_HEADER"},
                buf'.buffer_size = 0 => buf'.save_size < (IF idat_size' > 0 THEN 1 ELSE 4)
         PROVE  Good
    <2>1. position' = p + n /\ Buffers'
      BY <1>10, <1>19, Reached
    <2>2. HasHeader'
      BY <1>19 DEF HasHeader
    <2>3. start' = start /\ Idat' = Idat + n
      BY <1>18, <1>4, <1>1, <2>1, <2>2
    <2>4. NothingYet' /\ Places' /\ Flags'
      BY <1>1, <1>4, <1>19, <2>2 DEF NothingYet, Places, Flags
    <2>5. Headers'
      <3>1. idat_size' <= push_length'
        BY <1>1, <1>3, <1>5, <1>6
      <3>2. HeaderAt(start)' = HeaderAt(start)
        BY <1>1, <2>3 DEF HeaderAt
      <3>3. /\ chunk_name' = "IDAT" /\ process_mode' = "IDAT"
            /\ "IDAT" = HeaderAt(start).name /\ push_length' = HeaderAt(start).length
        BY <1>1, <1>3, <1>19
      <3> QED BY <3>1, <3>2, <3>3 DEF Headers
    <2>6. NothingHeldBack'
      BY <1>19, <2>2 DEF NothingHeldBack
    <2>7. IInv'
      BY <1>17, <1>19, <2>1, <2>4, <2>5, <2>6 DEF IInv
    <2>8. mode' \cap {"HAVE_IHDR", "HAVE_PLTE", "HAVE_IDAT"}
            = mode \cap {"HAVE_IHDR", "HAVE_PLTE", "HAVE_IDAT"}
      BY <1>19
    <2>9. File!Inflate(n)
      BY <1>1, <1>13, <1>15, <1>16, <1>19, <2>3, <2>8 DEF File!Inflate, Idat
    <2> QED BY <1>16, <2>7, <2>9 DEF Good, File!Next
  <1>20. CASE left > n
    <2>1. buf' = behind /\ mode' = mode \cup {"HAVE_CHUNK_HEADER"} /\ process_mode' = "IDAT"
      BY <1>2, <1>20
    <2>2. Holds(buf', given', p + n)
      BY <1>1, <1>9, <1>10, <2>1, HoldsAt
    <2>3. buf'.buffer_size = 0 => buf'.save_size = 0
      BY <1>9, <1>10, <2>1, UsedUp
    <2> QED BY <1>1, <1>6, <1>19, <1>20, <2>1, <2>2, <2>3
  <1>21. CASE left = n /\ behind.buffer_size < 4
    <2>1. buf' = png_push_save_buffer(behind) /\ mode' = mode \cup {"HAVE_CHUNK_HEADER"}
          /\ process_mode' = "IDAT"
      BY <1>6, <1>2, <1>21
    <2>2. Saved(buf', p + n) /\ buf'.save_size = Unread(behind) /\ buf'.buffer_size = 0
      BY <1>9, <1>10, <2>1, SavedAll
    <2>3. Holds(buf', given', p + n)
      BY <1>1, <1>10, <2>2 DEF Holds
    <2> QED BY <1>1, <1>6, <1>10, <1>19, <1>21, <2>1, <2>2, <2>3
  <1>22. CASE left = n /\ ~(behind.buffer_size < 4)
    <2>1. crc[1] = p + n /\ File!CRC = p + n
      <3>1. Bytes(behind, 4) = [i \in 1 .. 4 |-> p + n + i - 1]
        <4> DEFINE r == p + n
        <4>1. r \in Nat /\ At(behind, r) /\ 4 \in Nat /\ 4 <= Unread(behind)
          BY <1>9, <1>10, <1>22
        <4> HIDE DEF r
        <4>2. Bytes(behind, 4) = [i \in 1 .. 4 |-> r + i - 1]
          BY <4>1, BytesOfFile
        <4> QED BY <4>2 DEF r
      <3> QED BY <1>3, <1>5, <1>6, <1>10, <1>13, <1>22, <3>1 DEF p
    <2>2. Idat + n = File!Chunk.length
      BY <1>3, <1>5, <1>6, <1>13, <1>22
    <2>3. CASE bad
      <3>1. buf' = behind /\ mode' = mode \cup {"HAVE_CHUNK_HEADER"} /\ process_mode' = "ERROR"
        BY <1>6, <1>2, <1>22, <2>3
      <3>2. Holds(buf', given', p + n)
        BY <1>1, <1>9, <1>10, <3>1, HoldsAt
      <3>3. position' = p + n /\ HasHeader'
        BY <1>10, <3>1, <3>2, Reached DEF HasHeader
      <3>4. start' = start /\ Idat' = Idat + n
        BY <1>18, <1>4, <1>1, <3>3
      <3>5. IInv'
        BY <1>1, <1>4, <1>17, <3>1 DEF IInv, NothingYet, Buffers, Places, Headers, Flags, NothingHeldBack
      <3>6. mode' \cap {"HAVE_IHDR", "HAVE_PLTE", "HAVE_IDAT"}
              = mode \cap {"HAVE_IHDR", "HAVE_PLTE", "HAVE_IDAT"}
        BY <3>1
      <3>7. File!CRCError
        BY <1>13, <2>1, <2>3 DEF CRCError, File!CRCError
      <3>8. File!Inflate(n)
        BY <1>1, <1>13, <1>15, <1>16, <2>2, <3>1, <3>4, <3>6, <3>7 DEF File!Inflate, Idat
      <3> QED BY <1>16, <3>5, <3>8 DEF Good, File!Next
    <2>4. CASE ~bad
      <3>1. /\ buf' = png_push_fill_buffer(behind, 4) /\ process_mode' = "IDAT"
            /\ mode' = (mode \cup {"AFTER_IDAT"}) \ {"HAVE_CHUNK_HEADER"}
        BY <1>6, <1>2, <1>22, <2>4
      <3> DEFINE q == p + n + 4
      <3>2. q \in Nat /\ At(buf', q) /\ given' = q + Unread(buf')
        <4>1. At(buf', q) /\ Unread(buf') = Unread(behind) - 4
          BY <1>9, <1>10, <1>22, <3>1, Filled
        <4> QED BY <1>1, <1>10, <4>1
      <3>3. Holds(buf', given', q)
        BY <3>2, HoldsAt
      <3>4. position' = q /\ Buffers'
        BY <3>1, <3>2, <3>3, Reached
      <3>5. ~HasHeader'
        BY <3>1 DEF HasHeader
      <3>6. start' = q /\ Idat' = 0
        BY <1>1, <1>4, <3>4, <3>5 DEF start, Idat
      <3>7. NothingYet' /\ Places' /\ Flags' /\ Headers'
        BY <1>1, <1>4, <3>1, <3>5 DEF NothingYet, Places, Flags, Headers
      <3>8. NothingHeldBack'
        <4>1. ASSUME buf'.buffer_size = 0 PROVE buf'.save_size = 0
          BY <3>2, <4>1, UsedUp
        <4> QED BY <3>1, <3>5, <4>1 DEF NothingHeldBack
      <3>9. IInv'
        BY <1>17, <3>1, <3>4, <3>7, <3>8 DEF IInv
      <3>10. mode' \cap {"HAVE_IHDR", "HAVE_PLTE", "HAVE_IDAT"}
              = mode \cap {"HAVE_IHDR", "HAVE_PLTE", "HAVE_IDAT"}
        BY <3>1
      <3>11. ~File!CRCError /\ start' = File!CRC + 4
        BY <1>13, <2>1, <2>4, <3>6 DEF CRCError, File!CRCError
      <3>12. File!Inflate(n)
        BY <1>1, <1>13, <1>15, <1>16, <2>2, <3>1, <3>6, <3>10, <3>11 DEF File!Inflate, Idat
      <3> QED BY <1>16, <3>9, <3>12 DEF Good, File!Next
    <2> QED BY <2>3, <2>4
  <1> QED BY <1>6, <1>20, <1>21, <1>22

----------------------------------------------------------------------------
(* The initial states. *)
LEMMA InitGood ==
  ASSUME Init
  PROVE  IInv /\ File!Init
  <1> USE DEF Init, EmptyBuffers, NoFile
  <1>1. ~HasHeader /\ position = 0 /\ start = 0
    BY DEF HasHeader, position, start
  <1>2. IsFile(file)
    BY DEF IsFile
  <1>3. zlib \in Seq(Int) /\ Len(zlib) = 0
    OBVIOUS
  <1>4. Numbers /\ NothingYet
    BY <1>2, <1>3 DEF Numbers, NothingYet
  <1>5. Buffers /\ Places
    BY <1>1 DEF Buffers, Places, Holds, Saved
  <1>6. Headers /\ Flags /\ NothingHeldBack
    BY <1>1 DEF Headers, Flags, NothingHeldBack
  <1>7. File!Init
    BY <1>1 DEF File!Init, File!NoFile
  <1> QED BY <1>4, <1>5, <1>6, <1>7 DEF IInv

(* All steps together. *)
LEMMA NextGood ==
  ASSUME Spare \in Nat, IInv, [Next]_pushVars
  PROVE  Good
  <1>1. CASE Next
    <2>1. ASSUME NEW f \in Files, OpenFile(f) PROVE Good
      BY <2>1, OpenFileGood
    <2>2. ASSUME NEW n \in Pieces \cup {0}, png_process_data(n) PROVE Good
      BY <2>2, GiveGood
    <2>3. ASSUME NEW pause \in Pauses, HandleChunk(pause) PROVE Good
      BY <2>3, HandleGood
    <2>4. ASSUME NEW pause \in Pauses, BeginIDAT(pause) PROVE Good
      BY <2>4, BeginGood
    <2> QED BY <1>1, <2>1, <2>2, <2>3, <2>4, SignatureGood, WaitGood, IDATGood, EndGood, DiscardGood
            DEF Next, png_process_some_data
  <1>2. CASE UNCHANGED pushVars
    <2>1. UNCHANGED <<file, given, buf, process_mode, mode, sig_bytes, push_length, chunk_name,
                      idat_size, handled, zlib, paused>>
      BY <1>2 DEF pushVars
    <2>2. position' = position /\ HasHeader' = HasHeader
      BY <2>1 DEF position, HasHeader
    <2>3. start' = start
      BY <2>1, <2>2 DEF start, HasHeader
    <2>4. UNCHANGED File!vars
      BY <2>1, <2>3 DEF File!vars, HasHeader
    <2>5. Numbers' /\ NothingYet' /\ Buffers' /\ Places'
      BY <2>1, <2>2 DEF IInv, Numbers, NothingYet, Buffers, Places
    <2>6. Headers' /\ Flags' /\ NothingHeldBack'
      BY <2>1, <2>2, <2>3 DEF IInv, Headers, Flags, NothingHeldBack, HeaderAt
    <2> QED BY <2>4, <2>5, <2>6 DEF Good, IInv
  <1> QED BY <1>1, <1>2

(* However a file is cut into pieces, and wherever callbacks pause, the reader
   takes it apart like one that has the whole of it: every chunk goes to its
   handler whole, once and in order, zlib gets the data of the IDAT chunks
   without a gap, and an error is one of the file. *)
THEOREM Refinement ==
  ASSUME Spare \in Nat
  PROVE  Spec => ImplementsPngFile
  <1>1. Init => IInv /\ File!Init
    BY InitGood
  <1>2. IInv /\ [Next]_pushVars => IInv' /\ [File!Next]_File!vars
    BY NextGood DEF Good
  <1> QED BY <1>1, <1>2, PTL DEF Spec, ImplementsPngFile, File!Spec

(* When png_process_data returns and no callback has paused, it keeps only what
   is not enough to go on with: nothing of the image waits for later data that
   it does not need. *)
THEOREM NeverHeldBack ==
  ASSUME Spare \in Nat
  PROVE  Spec => []NothingHeldBack
  <1>1. Init => IInv
    BY InitGood
  <1>2. IInv /\ [Next]_pushVars => IInv'
    BY NextGood DEF Good
  <1>3. IInv => NothingHeldBack
    BY DEF IInv
  <1> QED BY <1>1, <1>2, <1>3, PTL DEF Spec
============================================================================
