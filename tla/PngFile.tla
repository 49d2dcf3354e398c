------------------------------ MODULE PngFile ------------------------------
(* What the progressive reader promises: it takes a file apart like a reader
   that has the whole of it.  Every chunk goes to its handler, whole and in
   order, and the data of the IDAT chunks to zlib, without a gap.  How the file
   was cut into pieces does not show. *)
EXTENDS Integers, Sequences

VARIABLES file,     \* the file, or NoFile
          start,    \* where the chunk begins that is read next
          idat,     \* how much of its data has gone to zlib, if it is an IDAT
          handled,  \* the chunks handled
          seen,     \* which of IHDR, PLTE and IDAT there have been
          zlib,     \* the positions of the bytes that zlib was given
          state     \* SIG, CHUNK, IDAT, DONE or ERROR

vars == <<file, start, idat, handled, seen, zlib, state>>

(* No file yet; a file says of each place what it would be the header of, what
   is the place of a CRC, or of a byte of the signature, that is wrong, whether
   its colours are in a palette, and after how much of the data of its IDATs the
   compressed stream ends. *)
NoFile == [length |-> 0, header |-> <<>>, damaged |-> {}, palette |-> FALSE, zlength |-> 1]
NoChunk == [name |-> "other", length |-> 0]
HeaderAt(p) == IF p \in DOMAIN file.header THEN file.header[p] ELSE NoChunk

Chunk == HeaderAt(start)
CRC == start + 8 + Chunk.length

(* n bytes of the file from position p on. *)
Interval(p, n) == [i \in 1 .. n |-> p + i - 1]

(* A chunk that may not come here. *)
OutOfPlace ==
  \/ Chunk.name = "IHDR" /\ "HAVE_IHDR" \in seen
  \/ Chunk.name = "PLTE" /\ ("HAVE_IHDR" \notin seen \/ "HAVE_PLTE" \in seen)
  \/ Chunk.name = "IDAT" /\ ("HAVE_IHDR" \notin seen \/ (file.palette /\ "HAVE_PLTE" \notin seen))
  \/ Chunk.name = "IEND" /\ ~({"HAVE_IHDR", "HAVE_IDAT"} \subseteq seen)

(* Wrong CRCs of ancillary chunks are let pass. *)
CRCError == Chunk.name # "other" /\ CRC \in file.damaged

Now(name) ==
  IF name = "IHDR" THEN {"HAVE_IHDR"}
  ELSE IF name = "PLTE" /\ "HAVE_IDAT" \notin seen THEN {"HAVE_PLTE"} ELSE {}

Ended == Len(zlib) = file.zlength
(* How much of n bytes zlib takes before it has reached its end. *)
ForZlib(n) == IF Len(zlib) + n <= file.zlength THEN n ELSE file.zlength - Len(zlib)

Init ==
  /\ file = NoFile /\ start = 0 /\ idat = 0
  /\ handled = <<>> /\ seen = {} /\ zlib = <<>> /\ state = "SIG"

Open == file = NoFile /\ file' # NoFile /\ UNCHANGED <<start, idat, handled, seen, zlib, state>>

Signature ==
  /\ state = "SIG" /\ state' = "CHUNK" /\ start' = 8
  /\ UNCHANGED <<file, idat, handled, seen, zlib>>

HandleChunk ==
  /\ state = "CHUNK" /\ Chunk.name # "IDAT"
  /\ Chunk.name = "IHDR" => Chunk.length = 13
  /\ ~OutOfPlace /\ ~CRCError
  /\ seen' = seen \cup Now(Chunk.name)
  /\ handled' = Append(handled, [name |-> Chunk.name, bytes |-> Interval(start + 8, Chunk.length + 4)])
  /\ start' = CRC + 4
  /\ state' = IF Chunk.name = "IEND" THEN "DONE" ELSE "CHUNK"
  /\ UNCHANGED <<file, idat, zlib>>

BeginIDAT ==
  /\ state = "CHUNK" /\ Chunk.name = "IDAT" /\ state' = "IDAT"
  /\ ~OutOfPlace
  /\ seen' = seen \cup {"HAVE_IDAT"}
  /\ UNCHANGED <<file, start, idat, handled, zlib>>

(* Some of an IDAT's data, and perhaps the CRC at its end. *)
Inflate(n) ==
  /\ state = "IDAT" /\ Chunk.name = "IDAT"
  /\ idat + n <= Chunk.length
  /\ zlib' = zlib \o Interval(start + 8 + idat, ForZlib(n))
  /\ \/ idat' = idat + n /\ UNCHANGED <<start, state>>
     \/ /\ idat + n = Chunk.length /\ ~CRCError
        /\ idat' = 0 /\ start' = CRC + 4 /\ UNCHANGED state
     \/ /\ idat + n = Chunk.length /\ CRCError
        /\ idat' = idat + n /\ state' = "ERROR" /\ UNCHANGED start
  /\ UNCHANGED <<file, handled, seen>>

EndIDAT ==
  /\ state = "IDAT" /\ Chunk.name # "IDAT" /\ state' = "CHUNK"
  /\ Ended
  /\ UNCHANGED <<file, start, idat, handled, seen, zlib>>

(* png_error: what the file says at this place is wrong. *)
Fail ==
  /\ \/ state = "SIG" /\ file.damaged \cap 0 .. 7 # {}
     \/ state = "CHUNK" /\ OutOfPlace
     \/ state = "CHUNK" /\ Chunk.name = "IHDR" /\ Chunk.length # 13
     \/ state = "CHUNK" /\ Chunk.name # "IDAT" /\ CRCError
     \/ state = "IDAT" /\ Chunk.name # "IDAT" /\ ~Ended
  /\ state' = "ERROR" /\ UNCHANGED <<file, start, idat, handled, seen, zlib>>

(* What follows the end is ignored. *)
Discard == state = "DONE" /\ start' >= start /\ UNCHANGED <<file, idat, handled, seen, zlib, state>>

Next ==
  \/ Open \/ Signature \/ HandleChunk \/ BeginIDAT \/ EndIDAT \/ Fail \/ Discard
  \/ \E n \in 0 .. Chunk.length : Inflate(n)

Spec == Init /\ [][Next]_vars
============================================================================
