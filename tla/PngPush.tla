------------------------------ MODULE PngPush ------------------------------
(* libpng's progressive reader below the rows: the application gives the file
   in pieces to png_process_data, and the reader keeps in `save_buffer' what it
   cannot use yet.

   A byte is its position in the file, so that what is handed on shows where it
   came from; file.header says what the eight bytes from a position on would be
   as a chunk's length and name.  `buf' holds the buffers of the png_struct and
   their pointers and sizes, which count from 0.  The handlers of chunks
   (png_handle_IHDR and the others) take the chunk with its CRC, and fail if it
   is out of place; "other" is an ancillary chunk, for which a wrong CRC is only
   warned of.  What a chunk says is left out.  Allocation succeeds, and zlib finds
   no error in its data.  png_error does not return: what it leaves in the buffers
   is not looked at again.

   Bounds: the files, the sizes of the pieces.  The code's spare room in a new
   save buffer is 256 bytes. *)
EXTENDS Integers, Sequences

CONSTANTS Files,     \* the files that may be read
          Pieces,    \* the sizes in which they may come
          Spare,     \* room in the save buffer for the next time
          Pauses     \* what callbacks may do: "none", "save" or "return" the bytes

ChunkNames == {"IHDR", "PLTE", "IDAT", "IEND", "other"}

IsFile(f) ==
  /\ f.length \in Nat /\ f.zlength \in Nat \ {0} /\ f.palette \in BOOLEAN
  /\ \A p \in DOMAIN f.header :
       f.header[p].name \in ChunkNames /\ f.header[p].length \in Nat

VARIABLES file, given,   \* the file, and how much of it the reader was given
          buf,           \* the buffers
          process_mode, mode, sig_bytes,
          push_length, chunk_name, idat_size,
          handled,       \* the chunks that went to a handler
          zlib,          \* the bytes that went to zlib
          paused         \* a callback has called png_process_data_pause

pushVars == <<file, given, buf, process_mode, mode, sig_bytes, push_length, chunk_name,
              idat_size, handled, zlib, paused>>

Garbage == -1

NoFile == [length |-> 0, header |-> <<>>, damaged |-> {}, palette |-> FALSE, zlength |-> 1]
NoChunk == [name |-> "other", length |-> 0]
HeaderAt(p) == IF p \in DOMAIN file.header THEN file.header[p] ELSE NoChunk

Lesser(m, n) == IF m < n THEN m ELSE n

----------------------------------------------------------------------------
(* The buffers. *)

EmptyBuffers ==
  [save |-> <<>>, save_ptr |-> 0, save_size |-> 0, save_max |-> 0,
   current |-> <<>>, current_ptr |-> 0, current_size |-> 0, buffer_size |-> 0]

Unread(b) == b.save_size + b.current_size

(* The bytes that png_push_fill_buffer copies: saved ones first. *)
Bytes(b, n) ==
  [i \in 1 .. Lesser(n, Unread(b)) |->
     IF i <= b.save_size THEN b.save[b.save_ptr + i - 1]
     ELSE b.current[b.current_ptr + i - 1 - b.save_size]]

(* The buffers afterwards. *)
png_push_fill_buffer(b, n) ==
  LET saved == Lesser(n, b.save_size)
      taken == Lesser(n - saved, b.current_size)
  IN  [save |-> b.save, save_ptr |-> b.save_ptr + saved,
       save_size |-> b.save_size - saved, save_max |-> b.save_max,
       current |-> b.current, current_ptr |-> b.current_ptr + taken,
       current_size |-> b.current_size - taken,
       buffer_size |-> b.buffer_size - saved - taken]

(* Mutant: the saved bytes are not moved to the start. *)
Moved_Not(b, i) == b.save[i]

Moved(b, i) == b.save[b.save_ptr + i]

(* Everything unread goes to the start of the save buffer, which grows. *)
png_push_save_buffer(b) ==
  LET max == IF Unread(b) > b.save_max THEN Unread(b) + Spare ELSE b.save_max
  IN  [save |-> [i \in 0 .. max - 1 |->
                   IF i < b.save_size THEN Moved(b, i)
                   ELSE IF i < Unread(b) THEN b.current[b.current_ptr + i - b.save_size]
                   ELSE IF i < b.save_max /\ max = b.save_max THEN b.save[i]
                   ELSE Garbage],
       save_ptr |-> 0, save_size |-> Unread(b), save_max |-> max,
       current |-> b.current, current_ptr |-> b.current_ptr, current_size |-> 0,
       buffer_size |-> 0]

png_push_restore_buffer(b, piece, n) ==
  [save |-> b.save, save_ptr |-> b.save_ptr, save_size |-> b.save_size, save_max |-> b.save_max,
   current |-> piece, current_ptr |-> 0, current_size |-> n,
   buffer_size |-> n + b.save_size]

Emptied(b) ==
  [save |-> b.save, save_ptr |-> b.save_ptr, save_size |-> b.save_size, save_max |-> b.save_max,
   current |-> b.current, current_ptr |-> b.current_ptr, current_size |-> b.current_size,
   buffer_size |-> 0]

----------------------------------------------------------------------------
(* The application. *)

OpenFile(f) ==
  /\ file = NoFile /\ file' = f /\ IsFile(f)
  /\ UNCHANGED <<given, buf, process_mode, mode, sig_bytes, push_length, chunk_name,
                 idat_size, handled, zlib, paused>>

(* png_process_data is called; its loop runs while buffer_size is not 0. *)
Busy == buf.buffer_size > 0 /\ process_mode # "ERROR"

png_process_data(n) ==
  LET size == Lesser(n, file.length - given)
  IN  /\ file # NoFile /\ n \in Nat /\ buf.buffer_size = 0 /\ process_mode # "ERROR"
      /\ size > 0 \/ paused
      /\ buf' = png_push_restore_buffer(buf, [i \in 0 .. size - 1 |-> given + i], size)
      /\ given' = given + size
      /\ paused' = FALSE
      /\ UNCHANGED <<file, process_mode, mode, sig_bytes, push_length, chunk_name, idat_size,
                     handled, zlib>>

(* A callback, called when the buffers are `b', goes on or pauses.  The bytes
   that png_process_data_pause returns are given again. *)
Callback(b, pause) ==
  /\ buf' = IF pause = "save" THEN png_push_save_buffer(b)
            ELSE IF pause = "return" THEN Emptied(b) ELSE b
  /\ given' = IF pause = "return" /\ b.save_size < b.buffer_size
              THEN given - (b.buffer_size - b.save_size) ELSE given
  /\ paused' = (pause # "none")

----------------------------------------------------------------------------
(* png_process_some_data: one call of one of the functions below. *)

png_error == process_mode' = "ERROR"

png_push_read_sig ==
  LET n == Lesser(8 - sig_bytes, buf.buffer_size)
      bytes == Bytes(buf, n)
  IN  /\ Busy /\ process_mode = "SIG"
      /\ IF \E i \in 1 .. n : bytes[i] \in file.damaged
         THEN png_error /\ UNCHANGED <<buf, sig_bytes>>
         ELSE /\ buf' = png_push_fill_buffer(buf, n)
              /\ sig_bytes' = sig_bytes + n
              /\ process_mode' = IF sig_bytes + n >= 8 THEN "CHUNK" ELSE "SIG"
      /\ UNCHANGED <<file, given, mode, push_length, chunk_name, idat_size, handled, zlib, paused>>

HasHeader == "HAVE_CHUNK_HEADER" \in mode

(* PNG_PUSH_SAVE_BUFFER_IF_LT(8), in both functions that read a header. *)
WaitForHeader ==
  /\ Busy /\ process_mode \in {"CHUNK", "IDAT"} /\ ~HasHeader
  /\ buf.buffer_size < 8
  /\ buf' = png_push_save_buffer(buf)
  /\ UNCHANGED <<file, given, process_mode, mode, sig_bytes, push_length, chunk_name,
                 idat_size, handled, zlib, paused>>

HeaderIsThere == HasHeader \/ buf.buffer_size >= 8

(* The chunk's header, read now or before, and the buffers behind it. *)
header == IF HasHeader THEN [name |-> chunk_name, length |-> push_length]
          ELSE HeaderAt(Bytes(buf, 8)[1])
afterHeader == IF HasHeader THEN buf ELSE png_push_fill_buffer(buf, 8)

ReadHeader == chunk_name' = header.name /\ push_length' = header.length

Ended == Len(zlib) = file.zlength    \* PNG_FLAG_ZSTREAM_ENDED

(* Where a handler does not take its chunk, and the flags it leaves otherwise; a
   PLTE that comes too late is passed over. *)
OutOfPlace(name) ==
  \/ name = "IHDR" /\ "HAVE_IHDR" \in mode
  \/ name = "PLTE" /\ ("HAVE_IHDR" \notin mode \/ "HAVE_PLTE" \in mode)
  \/ name = "IEND" /\ ~({"HAVE_IHDR", "HAVE_IDAT"} \subseteq mode)

Handled(name) ==
  IF name = "IHDR" THEN {"HAVE_IHDR"}
  ELSE IF name = "PLTE" /\ "HAVE_IDAT" \notin mode THEN {"HAVE_PLTE"}
  ELSE IF name = "IEND" THEN {"AFTER_IDAT", "HAVE_IEND"} ELSE {}

CRCError(name, crc) == name # "other" /\ crc \in file.damaged

(* Mutant: the header that has been read is still waited for. *)
full_WithHeader == header.length + 12 > afterHeader.buffer_size

full == header.length + 4 > afterHeader.buffer_size

(* png_push_read_chunk, for every chunk but an IDAT: it waits until the chunk
   and its CRC are there, PNG_PUSH_SAVE_BUFFER_IF_FULL. *)
HandleChunk(pause) ==
  LET bytes == Bytes(afterHeader, header.length + 4)
      behind == png_push_fill_buffer(afterHeader, header.length + 4)
  IN  /\ Busy /\ process_mode = "CHUNK" /\ HeaderIsThere
      /\ header.name # "IDAT"
      /\ IF \/ header.name = "IHDR" /\ header.length # 13
            \/ ~full /\ (OutOfPlace(header.name) \/ CRCError(header.name, bytes[header.length + 1]))
         THEN png_error /\ UNCHANGED <<buf, given, paused, mode, push_length, chunk_name, handled>>
         ELSE IF full
         THEN /\ ReadHeader /\ mode' = mode \cup {"HAVE_CHUNK_HEADER"}
              /\ buf' = png_push_save_buffer(afterHeader)
              /\ UNCHANGED <<given, paused, process_mode, handled>>
         ELSE /\ ReadHeader /\ mode' = (mode \cup Handled(header.name)) \ {"HAVE_CHUNK_HEADER"}
              /\ handled' = Append(handled, [name |-> header.name, bytes |-> bytes])
              /\ process_mode' = IF header.name = "IEND" THEN "DONE" ELSE "CHUNK"
              /\ Callback(behind, IF header.name = "IEND" THEN pause ELSE "none")
      /\ UNCHANGED <<file, sig_bytes, idat_size, zlib>>

(* png_push_read_chunk, for an IDAT: the image begins, the application hears of
   it and may pause.  A second run of IDATs is only warned of. *)
BeginIDAT(pause) ==
  LET again == IF "AFTER_IDAT" \in mode THEN {"HAVE_CHUNK_AFTER_IDAT"} ELSE {}
      empty == /\ "HAVE_IDAT" \in mode /\ "HAVE_CHUNK_AFTER_IDAT" \notin mode \cup again
               /\ header.length = 0
  IN  /\ Busy /\ process_mode = "CHUNK" /\ HeaderIsThere
      /\ header.name = "IDAT"
      /\ IF "HAVE_IHDR" \notin mode \/ (file.palette /\ "HAVE_PLTE" \notin mode)
         THEN png_error /\ UNCHANGED <<buf, given, paused, mode, push_length, chunk_name, idat_size>>
         ELSE /\ ReadHeader /\ process_mode' = "IDAT"
              /\ mode' = mode \cup {"HAVE_CHUNK_HEADER"} \cup again
                              \cup (IF empty THEN {} ELSE {"HAVE_IDAT"})
              /\ idat_size' = IF empty THEN idat_size ELSE header.length
              /\ Callback(afterHeader, IF empty THEN "none" ELSE pause)
      /\ UNCHANGED <<file, sig_bytes, handled, zlib>>

(* png_push_read_IDAT: as much of the data as there is goes to zlib, from the
   saved bytes and from the piece, and then the CRC is read. *)
png_push_read_IDAT ==
  LET left == IF HasHeader THEN idat_size ELSE header.length
      n == Lesser(left, Unread(afterHeader))
      bytes == Bytes(afterHeader, n)
      behind == png_push_fill_buffer(afterHeader, n)
      crc == Bytes(behind, 4)
  IN  /\ Busy /\ process_mode = "IDAT" /\ HeaderIsThere
      /\ header.name = "IDAT"
      /\ ReadHeader
      /\ idat_size' = left - n
      /\ zlib' = zlib \o SubSeq(bytes, 1, Lesser(n, file.zlength - Len(zlib)))
      /\ IF left > n
         THEN /\ buf' = behind /\ mode' = mode \cup {"HAVE_CHUNK_HEADER"}
              /\ UNCHANGED process_mode
         ELSE IF behind.buffer_size < 4
         THEN /\ buf' = png_push_save_buffer(behind) /\ mode' = mode \cup {"HAVE_CHUNK_HEADER"}
              /\ UNCHANGED process_mode
         ELSE IF CRCError("IDAT", crc[1])
         THEN /\ png_error
              /\ buf' = behind /\ mode' = mode \cup {"HAVE_CHUNK_HEADER"}
         ELSE /\ buf' = png_push_fill_buffer(behind, 4)
              /\ mode' = (mode \cup {"AFTER_IDAT"}) \ {"HAVE_CHUNK_HEADER"}
              /\ UNCHANGED process_mode
      /\ UNCHANGED <<file, given, sig_bytes, handled, paused>>

(* png_push_read_IDAT, when the header it reads is not an IDAT's. *)
EndIDAT ==
  /\ Busy /\ process_mode = "IDAT" /\ ~HasHeader /\ buf.buffer_size >= 8
  /\ header.name # "IDAT"
  /\ ReadHeader /\ mode' = mode \cup {"HAVE_CHUNK_HEADER"}
  /\ buf' = afterHeader
  /\ process_mode' = IF Ended THEN "CHUNK" ELSE "ERROR"
  /\ UNCHANGED <<file, given, sig_bytes, idat_size, handled, zlib, paused>>

(* Data behind the end is dropped. *)
Discard ==
  /\ Busy /\ process_mode = "DONE"
  /\ buf' = Emptied(buf)
  /\ UNCHANGED <<file, given, process_mode, mode, sig_bytes, push_length, chunk_name,
                 idat_size, handled, zlib, paused>>

png_process_some_data ==
  \/ png_push_read_sig \/ WaitForHeader
  \/ \E pause \in Pauses : HandleChunk(pause) \/ BeginIDAT(pause)
  \/ png_push_read_IDAT \/ EndIDAT \/ Discard

Init ==
  /\ file = NoFile /\ given = 0 /\ buf = EmptyBuffers
  /\ process_mode = "SIG" /\ mode = {} /\ sig_bytes = 0
  /\ push_length = 0 /\ chunk_name = "other" /\ idat_size = 0
  /\ handled = <<>> /\ zlib = <<>> /\ paused = FALSE

Next ==
  \/ \E f \in Files : OpenFile(f)
  \/ \E n \in Pieces \cup {0} : png_process_data(n)
  \/ png_process_some_data

Spec == Init /\ [][Next]_pushVars

----------------------------------------------------------------------------
(* Properties. *)

(* How far into the file the reader has got, and where its chunk begins. *)
position ==
  given - buf.save_size - (IF buf.buffer_size = 0 THEN 0 ELSE buf.current_size)
start ==
  IF sig_bytes < 8 THEN 0
  ELSE IF ~HasHeader THEN position
  ELSE IF chunk_name = "IDAT" THEN position - 8 - (push_length - idat_size)
  ELSE position - 8

File == INSTANCE PngFile WITH
          seen <- mode \cap {"HAVE_IHDR", "HAVE_PLTE", "HAVE_IDAT"},
          idat <- IF HasHeader /\ chunk_name = "IDAT" THEN push_length - idat_size ELSE 0,
          state <- process_mode

(* However the file is cut into pieces and wherever callbacks pause: every chunk
   reaches its handler whole and once, zlib gets the data of the IDATs without a
   gap, and errors are those of the file. *)
ImplementsPngFile == File!Spec

(* When png_process_data returns and nobody has paused, what it keeps is less
   than what it needs to go on: no part of the image waits for data that it
   does not need. *)
NothingHeldBack ==
  buf.buffer_size = 0 /\ ~paused =>
    \/ process_mode \in {"DONE", "ERROR"}
    \/ buf.save_size < (IF process_mode = "SIG" THEN 1
                        ELSE IF ~HasHeader THEN 8
                        ELSE IF process_mode = "CHUNK" THEN push_length + 4
                        ELSE IF idat_size > 0 THEN 1 ELSE 4)
============================================================================
