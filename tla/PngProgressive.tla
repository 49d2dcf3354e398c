--------------------------- MODULE PngProgressive ---------------------------
(* An image on its way through libpng: PngRows writes it, and either the
   sequential reader takes the rows from the compressed data, or the whole file
   goes in pieces through the progressive reader of PngPush, which calls
   png_push_process_row as soon as zlib has given it a row.

   zlib is taken to hand out each byte with the byte that goes in; one more byte
   ends its stream.  png_push_process_row is called from within
   png_push_read_IDAT; it looks at none of the buffers below, so that the rows
   are processed after that step here, before anything else happens.

   Bounds: Deliveries. *)
EXTENDS PngRows

CONSTANTS Deliveries,   \* the ways in which each job's file may reach the reader
          Spare, Pauses \* see PngPush

VARIABLES delivery,     \* one of Deliveries[job]
          file, given, buf, process_mode, mode, sig_bytes, push_length, chunk_name,
          idat_size, handled, zlib, paused

pushVars == <<file, given, buf, process_mode, mode, sig_bytes, push_length, chunk_name,
              idat_size, handled, zlib, paused>>

Push == INSTANCE PngPush WITH Files <- {}, Pieces <- {}

Chunk == [name : {"IHDR", "PLTE", "IDAT", "IEND", "other"}, length : Nat]

DeliveryType ==
  [pieces : SUBSET (Nat \ {0}),         \* the sizes of the pieces
   idat : Nat \ {0},                    \* png_compress_IDAT's buffer
   before : Seq(Chunk), after : Seq(Chunk),  \* chunks around the IDATs
   palette : BOOLEAN,
   damaged : SUBSET Nat,                \* see PngFile
   behind : Nat]                        \* bytes that follow the file

ASSUME DeliveriesAssumption ==
  /\ Spare \in Nat /\ Pauses \subseteq {"none", "save", "return"}
  /\ DOMAIN Deliveries = Jobs
  /\ \A j \in Jobs : \A d \in Deliveries[j] : d \in DeliveryType

(* The file around the stream: IHDR, what the application writes before and after
   the image, the IDATs that png_compress_IDAT makes each time its buffer is full,
   and IEND. *)
WrittenFile ==
  LET zlength == Len(stream) + 1
      idats == (zlength + delivery.idat - 1) \div delivery.idat
      idat == [k \in 1 .. idats |->
                 [name |-> "IDAT",
                  length |-> Push!Lesser(delivery.idat, zlength - (k - 1) * delivery.idat)]]
      chunks == <<[name |-> "IHDR", length |-> 13]>> \o delivery.before \o idat
                \o delivery.after \o <<[name |-> "IEND", length |-> 0]>>
      place[k \in 1 .. Len(chunks) + 1] ==
        IF k = 1 THEN 8 ELSE place[k - 1] + 12 + chunks[k - 1].length
  IN  [length |-> place[Len(chunks) + 1] + delivery.behind,
       zlength |-> zlength, palette |-> delivery.palette, damaged |-> delivery.damaged,
       header |-> [p \in {place[k] : k \in DOMAIN chunks} |->
                     chunks[CHOOSE k \in DOMAIN chunks : place[k] = p]]]

(* zlib has given the reader a whole row. *)
RowDue ==
  /\ job.progressive /\ ~AllRead /\ ~rd.error
  /\ Len(zlib) >= reader.next_in + PNG_ROWBYTES(depth, reader.iwidth) + 1

OpenFile ==
  /\ Written /\ job.progressive
  /\ Push!OpenFile(WrittenFile)
  /\ UNCHANGED <<vars, delivery>>

GivePiece ==
  /\ ~RowDue
  /\ \E n \in delivery.pieces \cup {0} : Push!png_process_data(n)
  /\ UNCHANGED <<vars, delivery>>

ProcessPiece ==
  /\ ~RowDue
  /\ Push!png_process_some_data
  /\ UNCHANGED <<vars, delivery>>

ProcessRow ==
  /\ RowDue
  /\ png_push_process_row
  /\ UNCHANGED <<pushVars, delivery>>

Sequential ==
  /\ WriteRowSkipped \/ png_write_row \/ png_set_filter \/ ReadRowSkipped \/ png_read_row
  /\ UNCHANGED <<pushVars, delivery>>

Finished ==
  IF job.progressive
  THEN process_mode = "ERROR" \/ (AllRead /\ process_mode = "DONE" /\ given = file.length)
  ELSE AllRead

Stay == Finished /\ UNCHANGED <<vars, pushVars, delivery>>

ProgressiveInit == Init /\ Push!Init /\ delivery \in Deliveries[job]

ProgressiveNext ==
  Sequential \/ OpenFile \/ GivePiece \/ ProcessPiece \/ ProcessRow \/ Stay

ProgressiveSpec ==
  ProgressiveInit /\ [][ProgressiveNext]_<<vars, pushVars, delivery>>

----------------------------------------------------------------------------
(* Properties. *)

(* However the file is cut into pieces and wherever callbacks pause: every chunk
   reaches its handler whole and once, zlib gets the data of the IDATs without a
   gap, and errors are those of the file (png_process_data). *)
ImplementsPngFile == Push!ImplementsPngFile

(* When png_process_data returns and nobody has paused, what it keeps is less
   than it needs to go on. *)
NothingHeldBack == Push!NothingHeldBack
============================================================================
