--------------------------- MODULE AsciiTransfer ---------------------------
(***************************************************************************)
(* The line ends of a file in an ASCII transfer: CmdRETR turns each lone   *)
(* LF into CR LF as it sends the file, CmdAbstractStore drops every CR of  *)
(* what it receives. Both work on one buffer at a time, cut anywhere. Here *)
(* a file is downloaded and what arrived is then uploaded.                 *)
(***************************************************************************)
EXTENDS Naturals, SequencesExt, FiniteSetsExt

CONSTANTS
  MaxLength,   \* bound: bytes of the file
  MaxBuffer    \* bytes of a buffer

ASSUME AsciiBounds == MaxLength \in Nat /\ MaxBuffer \in Nat \ {0}

Bytes == {"CR", "LF", "x"}

VARIABLES
  file,                \* the file that is downloaded
  read,                \* bytes of it read so far
  lastBufEndedWithCR,  \* of CmdRETR
  sent,                \* bytes sent over the data connection
  received,            \* bytes of them that the upload has received
  stored               \* bytes written by the upload

asciiVars == <<file, read, lastBufEndedWithCR, sent, received, stored>>

\* SubSeq(s, from + 1, to), the bytes from (included) to (excluded) in Java's terms.
Slice(s, from, to) == SubSeq(s, from + 1, to)
Buffers(s, from) == {Slice(s, from, to) : to \in (from + 1)..Min({Len(s), from + MaxBuffer})}
-----------------------------------------------------------------------------
\* CmdRETR on one buffer: at each LF the bytes up to it go out, then a CR if it has
\* none before it; the LF itself goes with what follows, since startPos is the last LF passed.
NeedsCR_WithinBuffer(buffer, endPos) == endPos = 1 \/ buffer[endPos - 1] # "CR"
NeedsCR(buffer, endPos) ==
  IF endPos = 1 THEN ~lastBufEndedWithCR ELSE buffer[endPos - 1] # "CR"

StartPos(buffer, endPos) == Max({1} \union {k \in 1..(endPos - 1) : buffer[k] = "LF"})
Unsent(buffer, endPos) == SubSeq(buffer, StartPos(buffer, endPos), endPos - 1)
SentAt(buffer, endPos) ==
  IF buffer[endPos] # "LF" THEN <<>>
  ELSE Unsent(buffer, endPos) \o IF NeedsCR(buffer, endPos) THEN <<"CR">> ELSE <<>>

SendBuffer(buffer) ==
  FlattenSeq([endPos \in 1..Len(buffer) |-> SentAt(buffer, endPos)])
  \o Unsent(buffer, Len(buffer) + 1)

Send ==
  \E buffer \in Buffers(file, read) :
    /\ sent' = sent \o SendBuffer(buffer)
    /\ read' = read + Len(buffer)
    /\ lastBufEndedWithCR' = (Last(buffer) = "CR")
    /\ UNCHANGED <<file, received, stored>>

\* CmdAbstractStore on one buffer: at each CR the bytes up to it are written; its
\* startPos is after the last CR passed.
Rest_Lost(buffer, startPos) == <<>>
Rest(buffer, startPos) == SubSeq(buffer, startPos, Len(buffer))

AfterCR(buffer, endPos) == Max({0} \union {k \in 1..(endPos - 1) : buffer[k] = "CR"}) + 1
WrittenAt(buffer, endPos) ==
  IF buffer[endPos] # "CR" THEN <<>> ELSE SubSeq(buffer, AfterCR(buffer, endPos), endPos - 1)

WriteBuffer(buffer) ==
  FlattenSeq([endPos \in 1..Len(buffer) |-> WrittenAt(buffer, endPos)])
  \o Rest(buffer, AfterCR(buffer, Len(buffer) + 1))

Store ==
  /\ read = Len(file)
  /\ \E buffer \in Buffers(sent, received) :
       /\ stored' = stored \o WriteBuffer(buffer)
       /\ received' = received + Len(buffer)
  /\ UNCHANGED <<file, read, lastBufEndedWithCR, sent>>

AsciiInit ==
  /\ file \in BoundedSeq(Bytes, MaxLength)
  /\ read = 0 /\ lastBufEndedWithCR = FALSE /\ sent = <<>>
  /\ received = 0 /\ stored = <<>>

AsciiNext == Send \/ Store
AsciiSpec == AsciiInit /\ [][AsciiNext]_asciiVars
-----------------------------------------------------------------------------
\* What is promised: "convert all solitary \n to \r\n".
Converted(s, i) ==
  IF s[i] = "LF" /\ (i = 1 \/ s[i - 1] # "CR") THEN <<"CR", "LF">> ELSE <<s[i]>>
WithCRLF(s) == FlattenSeq([i \in 1..Len(s) |-> Converted(s, i)])

Kept(s, i) == IF s[i] = "CR" THEN <<>> ELSE <<s[i]>>
WithoutCR(s) == FlattenSeq([i \in 1..Len(s) |-> Kept(s, i)])

\* However the file is cut into buffers, what has been sent is what was read of it,
\* with a CR before every LF that had none, also where a CR and its LF are in two
\* buffers.
DownloadConverts == sent = WithCRLF(Slice(file, 0, read))

\* However the data arrives, nothing but the CRs is lost: a file without CRs, once
\* downloaded and uploaded again, is the same file.
RoundTripKeepsFile ==
  /\ stored = WithoutCR(Slice(sent, 0, received))
  /\ read = Len(file) /\ received = Len(sent) => stored = WithoutCR(file)
=============================================================================
