--------------------------- MODULE FileStoreProof ---------------------------
(* Theorems about FileStore, for any number of sessions, names, commands   *)
(* and kills, and files of any length, when at most one of the sessions is *)
(* the user's.                                                             *)
EXTENDS FileStore, FiniteSetTheorems, FunctionTheorems, SequenceTheorems, TLAPS

OneUser == \A s, t \in Users : s = t

\* The sessions' control points, commands and replies.
Points == {"idle", "offset", "exists", "delete", "open", "connect", "receive", "send",
           "temp", "away", "deleteFrom", "back"}
Commands == UserCommands \union {"none"}
Codes == {"none", "350", "250", "450", "555", "451", "425", "226", "426", "550", "killed"}
SessionStates ==
  [at : Points, offset : Int, start : Nat, renameFrom : Names \union {NoName}, cmd : Commands,
   name : Names \union {NoName}, number : 0..MaxCommands, file : Nat, pos : Nat,
   append : BOOLEAN, old : Seq(Int), io : Seq(Int), code : Codes]

\* No command makes two files; those that have not been made yet are empty.
Types ==
  /\ used \in Nat /\ commands \in 0..MaxCommands /\ used <= Cardinality(Names) + commands
  /\ dir \in [AllNames -> 0..used]
  /\ data \in [Files -> Seq(Int)]
  /\ \A file \in Files : file > used => data[file] = <<>>
  /\ session \in [Sessions -> SessionStates]

\* Where a session is tells which command it runs, and what it may still do.
Stores == {"STOR", "APPE"}
PointFits(s) ==
  /\ session[s].cmd \in Allowed(s) \union {"none"}
  /\ session[s].file <= used
  /\ session[s].at # "idle" =>
       /\ session[s].name \in Names /\ session[s].number \in 1..MaxCommands
       /\ session[s].start = StartOf(session[s].offset)
  /\ session[s].at \in {"offset", "exists", "delete", "receive"} => session[s].cmd \in Stores
  /\ session[s].at \in {"open", "connect"} => session[s].cmd \in Stores \union {"RETR"}
  /\ session[s].at = "send" => session[s].cmd = "RETR"
  /\ session[s].at \in {"temp", "away", "deleteFrom", "back"} => session[s].cmd = "RNTO"
  /\ session[s].at \in {"connect", "receive", "send"} => session[s].file # Nothing
  /\ (\/ session[s].at \in {"offset", "exists", "delete", "temp"}
      \/ Me(s, "open") /\ session[s].cmd # "RETR")
       => used < Cardinality(Names) + commands

\* What a download has sent is in the file that it has open.
DownloadFits(s) == session[s].cmd = "RETR" =>
  /\ session[s].at \in {"open", "connect"} => session[s].io = <<>>
  /\ session[s].at \in {"connect", "send"} => session[s].pos = session[s].start + Len(session[s].io)
  /\ session[s].file # Nothing =>
       HasAt(data[session[s].file], session[s].start, session[s].io)

\* What an upload has received is in the file of its name: after what was there when it
\* appends; alone, from the offset on, when it does not. The file is a new one then.
Written(s) ==
  LET bytes == data[session[s].file] IN
  IF session[s].cmd = "APPE"
  THEN session[s].append /\ bytes = session[s].old \o session[s].io
  ELSE /\ ~session[s].append /\ session[s].pos = session[s].start + Len(session[s].io)
       /\ IF session[s].io = <<>> THEN bytes = <<>>
          ELSE /\ Len(bytes) = session[s].pos
               /\ \A i \in 1..Len(session[s].io) : bytes[session[s].start + i] = session[s].io[i]

UploadFits(s) == session[s].cmd \in Stores =>
  /\ session[s].at \in {"offset", "exists", "delete", "open"} =>
       (session[s].append <=> session[s].cmd = "APPE") /\ session[s].io = <<>>
  /\ session[s].at \in {"exists", "delete", "open"} /\ session[s].cmd = "APPE" =>
       session[s].offset < 0
  /\ session[s].at = "delete" => session[s].cmd = "STOR"
  /\ session[s].at \in {"offset", "exists", "open"} /\ session[s].cmd = "APPE" =>
       session[s].old = ContentOf(session[s].name)
  /\ session[s].at = "open" /\ session[s].cmd = "STOR" => dir[session[s].name] = Nothing
  /\ session[s].at \in {"connect", "receive"} =>
       dir[session[s].name] = session[s].file /\ Written(s)

\* The file that is renamed goes from its name to the temporary one to the new one.
RenameFits(s) == session[s].cmd = "RNTO" =>
  /\ session[s].at = "temp" => session[s].file = Nothing
  /\ session[s].at \in {"away", "deleteFrom", "back"} => From(s) \in Names
  /\ session[s].at = "away" => session[s].file = dir[From(s)]
  /\ session[s].at \in {"deleteFrom", "back"} => session[s].file = dir[Temp(s)]
  /\ session[s].at = "idle" /\ session[s].file # Nothing =>
       \E name \in AllNames : dir[name] = session[s].file

Fits(s) == PointFits(s) /\ DownloadFits(s) /\ UploadFits(s) /\ RenameFits(s)
FileInv == Types /\ \A s \in Sessions : Fits(s)
-----------------------------------------------------------------------------
(* The bounds: every command may make a file, and every name has one.      *)

\* There is room for the files that the commands make.
LEMMA Counted ==
  /\ Cardinality(Names) \in Nat /\ MaxCommands \in Nat
  /\ \A n \in 0..(Cardinality(Names) + MaxCommands) : n # Nothing => n \in Files
<1>1. Cardinality(Names) \in Nat
  BY FileBounds, FS_CardinalityType
<1> HIDE DEF FileBounds
<1>2. MaxCommands \in Nat
  BY FileBounds DEF FileBounds
<1> DEFINE c == Cardinality(Names)
<1> HIDE DEF c
<1>3. \A n \in 0..(c + MaxCommands) : n # 0 => n \in 1..(c + 2 * MaxCommands)
  BY <1>1, <1>2 DEF c
<1> QED BY <1>1, <1>2, <1>3 DEF Files, Nothing, c

\* The files that have been made are among them.
LEMMA Made ==
  ASSUME Types
  PROVE  /\ used \in Nat /\ used <= Cardinality(Names) + MaxCommands
         /\ \A n \in 1..used : n \in Files
         /\ \A name \in AllNames :
              dir[name] \in 0..used /\ (dir[name] # Nothing => dir[name] \in Files)
<1> DEFINE c == Cardinality(Names)
<1>1. c \in Nat /\ MaxCommands \in Nat /\ commands \in 0..MaxCommands /\ used \in Nat
      /\ used <= c + commands
  BY Counted DEF Types
<1>2. \A n \in 0..(c + MaxCommands) : n # Nothing => n \in Files
  BY Counted
<1>3. \A name \in AllNames : dir[name] \in 0..used
  BY DEF Types
<1> HIDE DEF c
<1>4. used <= c + MaxCommands
  BY <1>1
<1>5. \A n \in 0..used : n \in 0..(c + MaxCommands)
  BY <1>1, <1>4
<1>6. \A n \in 1..used : n \in 0..used /\ n # Nothing
  BY <1>1 DEF Nothing
<1> QED BY <1>1, <1>2, <1>3, <1>4, <1>5, <1>6 DEF c
-----------------------------------------------------------------------------
(* What a step does to the record of a session.                            *)

\* The command is the same as before, but for its control point and its reply.
SameCommand(s) ==
  /\ session'[s].offset = session[s].offset /\ session'[s].start = session[s].start
  /\ session'[s].cmd = session[s].cmd
  /\ session'[s].name = session[s].name /\ session'[s].number = session[s].number
  /\ session'[s].file = session[s].file /\ session'[s].pos = session[s].pos
  /\ session'[s].append = session[s].append /\ session'[s].old = session[s].old
  /\ session'[s].io = session[s].io
Only(s) == \A t \in Sessions : t # s => session'[t] = session[t]

\* A step that only changes the control point.
LEMMA Moved ==
  ASSUME Types, NEW s \in Sessions, NEW point \in Points, Goto(s, point)
  PROVE  /\ session' \in [Sessions -> SessionStates] /\ Only(s) /\ SameCommand(s)
         /\ session'[s].renameFrom = session[s].renameFrom /\ session'[s].at = point
<1>1. session[s] \in SessionStates
  BY DEF Types
<1>2. session' = [session EXCEPT ![s] = [session[s] EXCEPT !.at = point]]
  BY DEF Goto
<1>3. [session[s] EXCEPT !.at = point] \in SessionStates
  BY <1>1 DEF SessionStates
<1>4. session'[s] = [session[s] EXCEPT !.at = point]
  BY <1>2 DEF Types
<1>5. SameCommand(s) /\ session'[s].renameFrom = session[s].renameFrom /\ session'[s].at = point
  BY <1>1, <1>4 DEF SessionStates, SameCommand
<1> QED BY <1>2, <1>3, <1>5 DEF Types, Only

\* A step that only ends the command.
LEMMA Ended ==
  ASSUME Types, NEW s \in Sessions, NEW code \in Codes, End(s, code)
  PROVE  /\ session' \in [Sessions -> SessionStates] /\ Only(s) /\ SameCommand(s)
         /\ session'[s].renameFrom = session[s].renameFrom /\ session'[s].at = "idle"
<1>1. session[s] \in SessionStates
  BY DEF Types
<1> DEFINE r == [session[s] EXCEPT !.at = "idle", !.code = code]
<1>2. session' = [session EXCEPT ![s] = r]
  BY DEF End
<1>3. r \in SessionStates
  BY <1>1 DEF SessionStates, Points
<1>4. session'[s] = r
  BY <1>2 DEF Types
<1>5. SameCommand(s) /\ session'[s].renameFrom = session[s].renameFrom /\ session'[s].at = "idle"
  BY <1>1, <1>4 DEF SessionStates, SameCommand
<1> HIDE DEF r
<1> QED BY <1>2, <1>3, <1>5 DEF Types, Only

\* The fields of a session whose command begins.
LEMMA Filled ==
  ASSUME NEW point \in Points, NEW offset \in Int, NEW from \in Names \union {NoName},
         NEW cmd \in Commands, NEW name \in Names, NEW number \in 0..MaxCommands,
         NEW append \in BOOLEAN, NEW old \in Seq(Int), NEW io \in Seq(Int),
         NEW start \in Nat, NEW code \in Codes, NEW file \in Nat
  PROVE  [at |-> point, offset |-> offset, start |-> start, renameFrom |-> from,
          cmd |-> cmd, name |-> name, number |-> number, file |-> file, pos |-> 0,
          append |-> append, old |-> old, io |-> io, code |-> code] \in SessionStates
  BY DEF SessionStates

\* A command begins; nothing of an earlier one is left but REST's offset and RNFR's name.
LEMMA Begun ==
  ASSUME Types, NEW s \in Sessions, NEW cmd \in UserCommands, NEW name \in Names,
         NEW point \in Points, Begin(s, cmd, name, point)
  PROVE  /\ session' \in [Sessions -> SessionStates] /\ Only(s)
         /\ session'[s].at = point /\ session'[s].cmd = cmd /\ session'[s].name = name
         /\ session'[s].offset = session[s].offset
         /\ session'[s].start = StartOf(session[s].offset)
         /\ session'[s].renameFrom = session[s].renameFrom
         /\ session'[s].number = commands + 1 /\ commands' = commands + 1
         /\ commands' \in 1..MaxCommands
         /\ session'[s].file = Nothing /\ session'[s].pos = 0 /\ session'[s].io = <<>>
         /\ session'[s].append = (cmd = "APPE") /\ session'[s].old = ContentOf(name)
<1> DEFINE append == (cmd = "APPE")
           old == ContentOf(name)
           start == StartOf(session[s].offset)
           offset == session[s].offset
           from == session[s].renameFrom
           number == commands + 1
           empty == <<>>
           r == [at |-> point, offset |-> offset, start |-> start, renameFrom |-> from,
                 cmd |-> cmd, name |-> name, number |-> number, file |-> Nothing, pos |-> 0,
                 append |-> append, old |-> old, io |-> empty, code |-> "none"]
<1>1. session[s] \in SessionStates /\ number \in 0..MaxCommands /\ number \in 1..MaxCommands
  BY FileBounds DEF Types, Begin
<1>2. old \in Seq(Int) /\ empty \in Seq(Int) /\ empty = <<>>
  <2>1. name \in AllNames
    BY DEF AllNames
  <2>2. dir[name] # Nothing => dir[name] \in Files
    BY <2>1, Made
  <2> QED BY <2>1, <2>2 DEF Types, ContentOf, FileOf
<1>3. offset \in Int /\ from \in Names \union {NoName}
  BY <1>1 DEF SessionStates
<1>4. start \in Nat /\ append \in BOOLEAN
  BY <1>3 DEF StartOf
<1>5. cmd \in Commands /\ Nothing \in Nat /\ "none" \in Codes
  BY DEF Commands, Nothing, Codes
<1>6. session' = [session EXCEPT ![s] =
        [NewSession EXCEPT !.at = point, !.offset = offset,
           !.start = start, !.renameFrom = from, !.cmd = cmd, !.name = name,
           !.number = number, !.append = append, !.old = old]]
  BY DEF Begin
<1>7. commands' = number /\ append = (cmd = "APPE") /\ old = ContentOf(name)
      /\ start = StartOf(session[s].offset) /\ offset = session[s].offset
      /\ from = session[s].renameFrom /\ number = commands + 1
  BY DEF Begin
<1> HIDE DEF append, old, start, offset, from, number, empty
<1>8. session' = [session EXCEPT ![s] = r]
  <2> DEFINE M1 == -1
             F1 == FALSE
             e == [NewSession EXCEPT !.at = point, !.offset = offset,
                     !.start = start, !.renameFrom = from, !.cmd = cmd, !.name = name,
                     !.number = number, !.append = append, !.old = old]
  <2>1. NewSession = [at |-> "idle", offset |-> M1, start |-> 0, renameFrom |-> NoName,
                      cmd |-> "none", name |-> NoName, number |-> 0, file |-> Nothing,
                      pos |-> 0, append |-> F1, old |-> empty, io |-> empty, code |-> "none"]
    BY <1>2 DEF NewSession
  <2> HIDE DEF M1, F1
  <2>2. ASSUME NEW x, x = e PROVE x = r
    BY <2>1, <2>2
  <2> HIDE DEF e
  <2>3. e = r
    BY <2>2
  <2>4. session' = [session EXCEPT ![s] = e]
    BY <1>6 DEF e
  <2> QED BY <2>3, <2>4
<1>9. r \in SessionStates
  BY <1>1, <1>2, <1>3, <1>4, <1>5, Filled
<1>10. /\ r.at = point /\ r.cmd = cmd /\ r.name = name /\ r.offset = offset
       /\ r.start = start /\ r.renameFrom = from /\ r.number = number
       /\ r.append = append /\ r.old = old
       /\ r.file = Nothing /\ r.pos = 0 /\ r.io = empty
  OBVIOUS
<1> HIDE DEF r
<1>11. session' \in [Sessions -> SessionStates] /\ Only(s) /\ session'[s] = r
  BY <1>8, <1>9 DEF Types, Only
<1> QED BY <1>1, <1>2, <1>7, <1>10, <1>11
-----------------------------------------------------------------------------
(* What a step of one session leaves of the others: a guest only reads, and *)
(* what it has read stays there, as files are not shortened any more.       *)

\* Every file still begins with what was in it.
Grows ==
  \A file \in 1..used :
    /\ Len(data[file]) <= Len(data'[file])
    /\ \A i \in 1..Len(data[file]) : data'[file][i] = data[file][i]

\* What was part of a file is part of it when it has become longer.
LEMMA HasStill ==
  ASSUME NEW old \in Seq(Int), NEW new \in Seq(Int), NEW start \in Nat, NEW part \in Seq(Int),
         Len(old) <= Len(new), \A i \in 1..Len(old) : new[i] = old[i],
         HasAt(old, start, part)
  PROVE  HasAt(new, start, part)
<1> SUFFICES ASSUME NEW i \in DOMAIN part
             PROVE  start + i <= Len(new) /\ new[start + i] = part[i]
  BY DEF HasAt
<1>1. start + i <= Len(old) /\ old[start + i] = part[i]
  BY DEF HasAt
<1>2. i \in 1..Len(part) /\ Len(part) \in Nat /\ Len(old) \in Nat /\ Len(new) \in Nat
  BY LenProperties
<1>3. start + i \in 1..Len(old)
  BY <1>1, <1>2
<1> QED BY <1>1, <1>2, <1>3

\* A session that did nothing in a step that leaves all files alone.
LEMMA StillFits ==
  ASSUME Types, commands' \in 0..MaxCommands, commands <= commands',
         UNCHANGED <<dir, data, used>>,
         NEW t \in Sessions, session'[t] = session[t], Fits(t)
  PROVE  Fits(t)'
<1>1. used \in Nat /\ commands \in Nat /\ commands' \in Nat /\ Cardinality(Names) \in Nat
  BY Counted DEF Types
<1> DEFINE c == Cardinality(Names)
<1>2. used < c + commands => used < c + commands'
  <2> HIDE DEF c
  <2> QED BY <1>1 DEF c
<1>3. PointFits(t)'
  BY <1>2 DEF Fits, PointFits, Me
<1>4. DownloadFits(t)' /\ RenameFits(t)'
  BY DEF Fits, DownloadFits, RenameFits, From, Temp
<1>5. UploadFits(t)'
  BY DEF Fits, UploadFits, Written, ContentOf, FileOf
<1> QED BY <1>3, <1>4, <1>5 DEF Fits

\* A guest that did nothing while the user changed names and files.
LEMMA GuestStillFits ==
  ASSUME Types, Types', commands <= commands', used <= used', Grows,
         NEW t \in Sessions \ Users, session'[t] = session[t], Fits(t)
  PROVE  Fits(t)'
<1>1. session[t].cmd \in {"none", "RETR"}
  BY DEF Fits, PointFits, Allowed, GuestCommands
<1>2. /\ session[t].at \notin {"offset", "exists", "delete", "receive", "temp", "away",
                              "deleteFrom", "back"}
      /\ session[t].at = "open" => session[t].cmd = "RETR"
  BY <1>1 DEF Fits, PointFits, Stores
<1>3. session[t].file \in 0..used /\ used \in Nat /\ used' \in Nat
  BY DEF Types, Fits, PointFits, SessionStates
<1>4. PointFits(t)'
  <2>1. session[t].file <= used'
    BY <1>3
  <2> QED BY <1>2, <2>1 DEF Fits, PointFits, Me
<1>5. DownloadFits(t)'
  <2>1. CASE session[t].cmd = "RETR" /\ session[t].file # Nothing
    <3> DEFINE f == session[t].file
    <3>1. f \in 1..used /\ f \in Files
      BY <1>3, <2>1, Made DEF Nothing
    <3>2. data[f] \in Seq(Int) /\ data'[f] \in Seq(Int) /\ session[t].start \in Nat
          /\ session[t].io \in Seq(Int)
      BY <3>1 DEF Types, SessionStates
    <3>3. HasAt(data[f], session[t].start, session[t].io)
      BY <2>1 DEF Fits, DownloadFits
    <3>4. Len(data[f]) <= Len(data'[f]) /\ \A i \in 1..Len(data[f]) : data'[f][i] = data[f][i]
      BY <3>1 DEF Grows
    <3>5. HasAt(data'[f], session[t].start, session[t].io)
      <4> HIDE DEF f
      <4> QED BY <3>2, <3>3, <3>4, HasStill
    <3> QED BY <3>5 DEF Fits, DownloadFits
  <2>2. CASE ~(session[t].cmd = "RETR" /\ session[t].file # Nothing)
    BY <2>2 DEF Fits, DownloadFits
  <2> QED BY <2>1, <2>2
<1>6. UploadFits(t)' /\ RenameFits(t)'
  BY <1>1 DEF UploadFits, RenameFits, Stores
<1> QED BY <1>4, <1>5, <1>6 DEF Fits

\* A step of session s is sound if s fits after it, and if it is the user's or leaves
\* the files alone.
LEMMA Settled ==
  ASSUME OneUser, FileInv, Types', NEW s \in Sessions, Only(s), Fits(s)', commands <= commands',
         \/ UNCHANGED <<dir, data, used>>
         \/ s \in Users /\ used <= used' /\ Grows
  PROVE  FileInv'
<1> SUFFICES ASSUME NEW t \in Sessions, t # s PROVE Fits(t)'
  BY DEF FileInv
<1>1. Types /\ Fits(t) /\ session'[t] = session[t] /\ commands' \in 0..MaxCommands
  BY DEF FileInv, Only, Types
<1>2. CASE UNCHANGED <<dir, data, used>>
  BY <1>1, <1>2, StillFits
<1>3. CASE s \in Users /\ used <= used' /\ Grows
  <2>1. t \in Sessions \ Users
    BY <1>3 DEF OneUser
  <2> QED BY <1>1, <1>3, <2>1, GuestStillFits
<1> QED BY <1>2, <1>3
-----------------------------------------------------------------------------
(* The actions.                                                            *)

\* A command other than RNTO ends: only a download is still spoken of.
LEMMA EndKeeps ==
  ASSUME OneUser, FileInv, NEW s \in Sessions, NEW code \in Codes, End(s, code),
         session[s].cmd # "RNTO", UNCHANGED <<dir, data, used, commands>>
  PROVE  FileInv'
<1>1. Types /\ Fits(s)
  BY DEF FileInv
<1>2. /\ session' \in [Sessions -> SessionStates] /\ Only(s) /\ SameCommand(s)
      /\ session'[s].at = "idle"
  BY <1>1, Ended
<1>3. Types'
  BY <1>1, <1>2 DEF Types
<1>4. PointFits(s)'
  BY <1>1, <1>2 DEF SameCommand, Fits, PointFits, Me
<1>5. DownloadFits(s)'
  BY <1>1, <1>2 DEF SameCommand, Fits, DownloadFits
<1>6. UploadFits(s)' /\ RenameFits(s)'
  BY <1>2 DEF SameCommand, UploadFits, RenameFits
<1>7. commands <= commands'
  BY <1>1 DEF Types
<1> QED BY <1>2, <1>3, <1>4, <1>5, <1>6, <1>7, Settled DEF Fits

\* doStorOrAppe goes on to its next step, with the files as they are.
LEMMA CheckKeeps ==
  ASSUME OneUser, FileInv, NEW s \in Sessions,
         CheckOffset(s) \/ CheckExists(s) \/ ConnectData(s) \/ ReceiveEnds(s) \/ SendEnds(s)
  PROVE  FileInv'
<1>1. Types /\ Fits(s)
  BY DEF FileInv
<1>2. CASE \E code \in {"555", "425", "226", "426", "451"} : End(s, code)
  <2>1. PICK code \in Codes : End(s, code)
    BY <1>2 DEF Codes
  <2>2. session[s].cmd # "RNTO"
    BY <1>1 DEF CheckOffset, CheckExists, ConnectData, ReceiveEnds, SendEnds, Me,
                Fits, PointFits, Stores
  <2>3. UNCHANGED <<dir, data, used, commands>>
    BY DEF CheckOffset, CheckExists, ConnectData, ReceiveEnds, SendEnds
  <2> QED BY <2>1, <2>2, <2>3, EndKeeps
<1>3. ASSUME NEW point \in Points, Goto(s, point), UNCHANGED <<dir, data, used, commands>>,
             PointFits(s)', DownloadFits(s)', UploadFits(s)', session[s].cmd # "RNTO"
      PROVE  FileInv'
  <2>1. /\ session' \in [Sessions -> SessionStates] /\ Only(s) /\ SameCommand(s)
    BY <1>1, <1>3, Moved
  <2>2. Types' /\ commands <= commands'
    BY <1>1, <1>3, <2>1 DEF Types
  <2>3. RenameFits(s)'
    BY <1>3, <2>1 DEF RenameFits, SameCommand
  <2> QED BY <1>3, <2>1, <2>2, <2>3, Settled DEF Fits
<1>4. CASE CheckOffset(s) /\ Goto(s, "exists")
  <2>1. SameCommand(s) /\ session'[s].at = "exists" /\ session[s].at = "offset"
        /\ UNCHANGED <<dir, data, used, commands>>
    BY <1>1, <1>4, Moved DEF CheckOffset, Points, Me
  <2>2. ~(session[s].offset >= 0 /\ session[s].append)
    <3> SUFFICES ASSUME session[s].offset >= 0 /\ session[s].append PROVE FALSE
      OBVIOUS
    <3>1. session'[s].at = "idle"
      BY <1>1, <1>4, Ended DEF CheckOffset, Codes
    <3> QED BY <2>1, <3>1
  <2>3. session[s].offset \in Int /\ session[s].cmd \in Stores
    BY <1>1, <2>1 DEF Types, SessionStates, Fits, PointFits
  <2>4. session[s].append <=> session[s].cmd = "APPE"
    BY <1>1, <2>1, <2>3 DEF Fits, UploadFits
  <2>5. PointFits(s)'
    BY <1>1, <2>1 DEF Fits, PointFits, SameCommand, Me
  <2>6. DownloadFits(s)'
    BY <2>1, <2>3 DEF DownloadFits, SameCommand, Stores
  <2>7. UploadFits(s)'
    BY <1>1, <2>1, <2>2, <2>3, <2>4 DEF Fits, UploadFits, SameCommand, ContentOf, FileOf
  <2>8. session[s].cmd # "RNTO" /\ "exists" \in Points
    BY <2>3 DEF Stores, Points
  <2> QED BY <1>3, <1>4, <2>1, <2>5, <2>6, <2>7, <2>8
<1>5. CASE CheckExists(s)
  <2> DEFINE there == FileOf(session[s].name) # Nothing /\ ~session[s].append
             point == IF there THEN "delete" ELSE "open"
  <2>1. Goto(s, point) /\ point \in {"delete", "open"} /\ point \in Points
    BY <1>5 DEF CheckExists, Points
  <2> HIDE DEF point
  <2>2. SameCommand(s) /\ session'[s].at = point /\ session[s].at = "exists"
        /\ UNCHANGED <<dir, data, used, commands>>
    BY <1>1, <1>5, <2>1, Moved DEF CheckExists, Me
  <2>3. session[s].cmd \in Stores /\ session[s].name \in Names
    BY <1>1, <2>2 DEF Fits, PointFits
  <2>4. session[s].append <=> session[s].cmd = "APPE"
    BY <1>1, <2>2, <2>3 DEF Fits, UploadFits
  <2>5. PointFits(s)'
    BY <1>1, <2>1, <2>2, <2>3 DEF Fits, PointFits, SameCommand, Me
  <2>6. DownloadFits(s)'
    BY <2>2, <2>3 DEF DownloadFits, SameCommand, Stores
  <2>7. /\ point = "delete" => session[s].cmd = "STOR"
        /\ point = "open" /\ session[s].cmd = "STOR" => dir[session[s].name] = Nothing
    BY <2>3, <2>4 DEF point, FileOf, AllNames, Stores
  <2>8. UploadFits(s)'
    BY <1>1, <2>1, <2>2, <2>7 DEF Fits, UploadFits, SameCommand, ContentOf, FileOf
  <2>9. session[s].cmd # "RNTO"
    BY <2>3 DEF Stores
  <2> QED BY <1>3, <2>1, <2>2, <2>5, <2>6, <2>8, <2>9
<1>6. CASE ConnectData(s) /\ ~End(s, "425")
  <2> DEFINE point == IF session[s].cmd = "RETR" THEN "send" ELSE "receive"
  <2>1. Goto(s, point) /\ point \in Points /\ point \in {"send", "receive"}
    BY <1>6 DEF ConnectData, Points
  <2>2. /\ session[s].cmd \in Stores \union {"RETR"}
        /\ point = "send" <=> session[s].cmd = "RETR"
    BY <1>1, <1>6 DEF ConnectData, Fits, PointFits, Me
  <2> HIDE DEF point
  <2>3. SameCommand(s) /\ session'[s].at = point /\ session[s].at = "connect"
        /\ UNCHANGED <<dir, data, used, commands>>
    BY <1>1, <1>6, <2>1, Moved DEF ConnectData, Me
  <2>4. PointFits(s)'
    BY <1>1, <2>1, <2>2, <2>3 DEF Fits, PointFits, SameCommand, Me
  <2>5. DownloadFits(s)'
    BY <1>1, <2>1, <2>2, <2>3 DEF Fits, DownloadFits, SameCommand
  <2>6. UploadFits(s)'
    BY <1>1, <2>1, <2>2, <2>3 DEF Fits, UploadFits, Written, SameCommand
  <2>7. session[s].cmd # "RNTO"
    BY <2>2 DEF Stores
  <2> QED BY <1>3, <2>1, <2>3, <2>4, <2>5, <2>6, <2>7
<1> QED
  BY <1>2, <1>4, <1>5, <1>6 DEF CheckOffset, ConnectData, ReceiveEnds, SendEnds

\* A command begins with nothing sent or received.
LEMMA BeginKeeps ==
  ASSUME OneUser, FileInv, NEW s \in Sessions, NEW name \in Names,
         STOR(s, name) \/ APPE(s, name) \/ RETR(s, name) \/ RNTO(s, name)
  PROVE  FileInv'
<1>1. PICK cmd \in {"STOR", "APPE", "RETR", "RNTO"}, point \in {"offset", "open", "temp"} :
        /\ Begin(s, cmd, name, point) /\ cmd \in Allowed(s)
        /\ cmd \in Stores => point = "offset"
        /\ cmd = "RETR" => point = "open"
        /\ cmd = "RNTO" => point = "temp"
  BY DEF STOR, APPE, RETR, RNTO, Begin, Stores
<1>2. cmd \in UserCommands /\ point \in Points /\ Types /\ Fits(s)
  BY DEF UserCommands, Points, FileInv
<1>3. /\ session' \in [Sessions -> SessionStates] /\ Only(s)
      /\ session'[s].at = point /\ session'[s].cmd = cmd /\ session'[s].name = name
      /\ session'[s].offset = session[s].offset
      /\ session'[s].start = StartOf(session[s].offset)
      /\ session'[s].number = commands + 1 /\ commands' = commands + 1
      /\ commands' \in 1..MaxCommands
      /\ session'[s].file = Nothing /\ session'[s].io = <<>>
      /\ session'[s].append = (cmd = "APPE") /\ session'[s].old = ContentOf(name)
  BY <1>1, <1>2, Begun
<1>4. UNCHANGED <<dir, data, used>>
  BY <1>1 DEF Begin
<1> DEFINE c == Cardinality(Names)
<1>5. /\ used \in Nat /\ commands \in Nat /\ used <= c + commands /\ c \in Nat
      /\ used < c + (commands + 1)
  <2>1. used \in Nat /\ commands \in Nat /\ used <= c + commands /\ c \in Nat
    BY <1>2, Counted DEF Types
  <2> HIDE DEF c
  <2> QED BY <2>1
<1>6. used' < c + commands' /\ used' <= c + commands' /\ commands' \in 0..MaxCommands
      /\ commands <= commands'
  <2> HIDE DEF c
  <2> QED BY <1>3, <1>4, <1>5
<1>7. Types'
  BY <1>2, <1>3, <1>4, <1>6 DEF Types
<1>8. PointFits(s)'
  <2>1. session'[s].file <= used
    BY <1>3, <1>5 DEF Nothing
  <2>2. cmd \in Allowed(s)' /\ session'[s].number \in 1..MaxCommands
    BY <1>1, <1>3
  <2> QED BY <1>1, <1>3, <1>4, <1>6, <2>1, <2>2 DEF PointFits, Me, Stores
<1>9. DownloadFits(s)'
  BY <1>1, <1>3 DEF DownloadFits, Stores
<1>10. UploadFits(s)'
  <2>1. session'[s].append <=> cmd = "APPE"
    BY <1>3
  <2>2. ContentOf(name)' = ContentOf(name)
    BY <1>4 DEF ContentOf, FileOf
  <2>3. cmd \in Stores => session'[s].at = "offset"
    BY <1>1, <1>3
  <2> QED BY <1>3, <2>1, <2>2, <2>3 DEF UploadFits
<1>11. RenameFits(s)'
  BY <1>1, <1>3 DEF RenameFits
<1> QED BY <1>3, <1>4, <1>6, <1>7, <1>8, <1>9, <1>10, <1>11, Settled DEF Fits

\* A new record takes the place of a session's.
LEMMA Replaced ==
  ASSUME Types, NEW s \in Sessions, NEW r \in SessionStates, session' = [session EXCEPT ![s] = r]
  PROVE  session' \in [Sessions -> SessionStates] /\ Only(s) /\ session'[s] = r
  BY DEF Types, Only

\* REST, RNFR and DELE leave their result in the session's fields.
LEMMA NoteKeeps ==
  ASSUME OneUser, FileInv, NEW s \in Sessions, NEW r \in SessionStates, Me(s, "idle"),
         session' = [session EXCEPT ![s] = r],
         r.cmd \in {"REST", "RNFR", "DELE"} /\ r.cmd \in Allowed(s),
         r.at = "idle" /\ r.file = session[s].file,
         commands < MaxCommands, commands' = commands + 1,
         dir' \in [AllNames -> 0..used], UNCHANGED <<data, used>>,
         dir' = dir \/ s \in Users
  PROVE  FileInv'
<1>1. Types /\ Fits(s)
  BY DEF FileInv
<1>2. /\ session' \in [Sessions -> SessionStates] /\ Only(s) /\ session'[s] = r
  BY <1>1, Replaced
<1> DEFINE c == Cardinality(Names)
<1>3. /\ used \in Nat /\ used <= c + commands /\ c \in Nat /\ MaxCommands \in Nat
      /\ commands \in Nat
  BY <1>1, Counted DEF Types
<1>4. commands' \in 0..MaxCommands /\ commands <= commands' /\ used <= c + commands'
  <2> HIDE DEF c
  <2> QED BY <1>3
<1>5. Types'
  BY <1>1, <1>2, <1>4 DEF Types
<1>6. PointFits(s)'
  BY <1>1, <1>2 DEF Fits, PointFits, Me
<1>7. DownloadFits(s)' /\ UploadFits(s)' /\ RenameFits(s)'
  BY <1>2 DEF DownloadFits, UploadFits, RenameFits, Stores
<1>8. used <= used' /\ Grows
  BY <1>1, <1>3, Made DEF Grows, Types
<1> QED BY <1>2, <1>4, <1>5, <1>6, <1>7, <1>8, Settled DEF Fits

\* REST keeps the invariant.
LEMMA RestKeeps ==
  ASSUME OneUser, FileInv, NEW s \in Sessions, REST(s) PROVE FileInv'
<1>1. session[s] \in SessionStates /\ dir \in [AllNames -> 0..used] /\ MaxLength \in Nat
  BY FileBounds DEF FileInv, Types
<1>2. PICK n \in 0..MaxLength :
        session' = [session EXCEPT ![s].offset = n, ![s].cmd = "REST", ![s].code = "350"]
  BY DEF REST
<1> DEFINE r == [session[s] EXCEPT !.offset = n, !.cmd = "REST", !.code = "350"]
<1>3. session' = [session EXCEPT ![s] = r]
  BY <1>2
<1>4. n \in Int /\ "REST" \in Commands /\ "350" \in Codes
  BY <1>1 DEF Commands, UserCommands, Codes
<1>5. r \in SessionStates /\ r.cmd = "REST" /\ r.at = session[s].at /\ r.file = session[s].file
  BY <1>1, <1>4 DEF SessionStates
<1> HIDE DEF r
<1> QED BY <1>1, <1>3, <1>5, NoteKeeps DEF REST, Me

\* So does RNFR.
LEMMA FromKeeps ==
  ASSUME OneUser, FileInv, NEW s \in Sessions, NEW name \in Names, RNFR(s, name) PROVE FileInv'
<1>1. session[s] \in SessionStates /\ dir \in [AllNames -> 0..used]
  BY DEF FileInv, Types
<1> DEFINE from == IF dir[name] = Nothing THEN NoName ELSE name
           code == IF dir[name] = Nothing THEN "450" ELSE "350"
           r == [session[s] EXCEPT !.cmd = "RNFR", !.renameFrom = from, !.code = code]
<1>2. session' = [session EXCEPT ![s] = r]
  BY DEF RNFR
<1>3. from \in Names \union {NoName} /\ "RNFR" \in Commands /\ code \in Codes
  BY DEF Commands, UserCommands, Codes
<1> HIDE DEF from, code
<1>4. r \in SessionStates /\ r.cmd = "RNFR" /\ r.at = session[s].at /\ r.file = session[s].file
  BY <1>1, <1>3 DEF SessionStates
<1> HIDE DEF r
<1> QED BY <1>1, <1>2, <1>4, NoteKeeps DEF RNFR, Me

\* Only the user deletes.
LEMMA DeleKeeps ==
  ASSUME OneUser, FileInv, NEW s \in Sessions, NEW name \in Names, DELE(s, name) PROVE FileInv'
<1>1. session[s] \in SessionStates /\ dir \in [AllNames -> 0..used] /\ used \in Nat
  BY DEF FileInv, Types
<1> DEFINE code == IF dir[name] = Nothing THEN "450" ELSE "250"
           r == [session[s] EXCEPT !.cmd = "DELE", !.code = code]
<1>2. session' = [session EXCEPT ![s] = r]
  BY DEF DELE
<1>3. "DELE" \in Commands /\ code \in Codes
  BY DEF Commands, UserCommands, Codes
<1> HIDE DEF code
<1>4. r \in SessionStates /\ r.cmd = "DELE" /\ r.at = session[s].at /\ r.file = session[s].file
  BY <1>1, <1>3 DEF SessionStates
<1>5. dir' \in [AllNames -> 0..used]
  <2>1. 0 \in 0..used
    BY <1>1
  <2> QED BY <1>1, <2>1 DEF DELE, Link, Nothing
<1>6. s \in Users
  BY DEF DELE, Allowed, GuestCommands
<1> HIDE DEF r
<1> QED BY <1>1, <1>2, <1>4, <1>5, <1>6, NoteKeeps DEF DELE, Me
-----------------------------------------------------------------------------
(* Uploads.                                                                *)

\* Bytes that are written at or after the end: what was there stays.
LEMMA WrittenBytes ==
  ASSUME NEW bytes \in Seq(Int), NEW pos \in Nat, NEW byte \in Int, pos >= Len(bytes)
  PROVE  /\ WrittenAt(bytes, pos, byte) \in Seq(Int)
         /\ Len(WrittenAt(bytes, pos, byte)) = pos + 1
         /\ \A i \in 1..Len(bytes) : WrittenAt(bytes, pos, byte)[i] = bytes[i]
         /\ WrittenAt(bytes, pos, byte)[pos + 1] = byte
<1> DEFINE n == Len(bytes)
           w == [i \in 1..(pos + 1) |->
                   IF i = pos + 1 THEN byte ELSE IF i <= n THEN bytes[i] ELSE Hole]
<1>1. n \in Nat /\ \A i \in 1..n : bytes[i] \in Int
  BY LenProperties
<1>2. WrittenAt(bytes, pos, byte) = w
  <2>1. (IF n > pos THEN n ELSE pos + 1) = pos + 1
    BY <1>1
  <2> QED BY <2>1 DEF WrittenAt
<1> HIDE DEF n
<1>3. \A i \in 1..(pos + 1) : w[i] \in Int
  BY <1>1 DEF Hole
<1>4. w \in Seq(Int) /\ Len(w) = pos + 1
  <2>1. pos + 1 \in Nat
    OBVIOUS
  <2>2. w \in [1..(pos + 1) -> Int]
    BY <1>3
  <2> HIDE DEF w
  <2> QED BY <2>1, <2>2, LenProperties
<1>5. \A i \in 1..n : i \in 1..(pos + 1) /\ i # pos + 1 /\ i <= n
  BY <1>1 DEF n
<1>6. pos + 1 \in 1..(pos + 1)
  OBVIOUS
<1>7. w[pos + 1] = byte /\ \A i \in 1..n : w[i] = bytes[i]
  BY <1>5, <1>6
<1> QED BY <1>2, <1>4, <1>7 DEF n

\* An overwritten file is unlinked, not emptied: those who read it go on reading it.
LEMMA DeleteKeeps ==
  ASSUME OneUser, FileInv, NEW s \in Sessions, DeleteOld(s) PROVE FileInv'
<1>1. Types /\ Fits(s) /\ session[s].at = "delete" /\ UNCHANGED <<data, used, commands>>
  BY DEF FileInv, DeleteOld, Me
<1>2. session[s].cmd = "STOR" /\ session[s].name \in Names /\ s \in Users
  BY <1>1 DEF Fits, PointFits, UploadFits, Allowed, GuestCommands, Stores
<1>3. CASE End(s, "451") /\ UNCHANGED dir
  <2>1. "451" \in Codes
    BY DEF Codes
  <2> QED BY <1>1, <1>2, <1>3, <2>1, EndKeeps
<1>4. CASE DeleteExisting(s) /\ Goto(s, "open")
  <2>1. /\ session' \in [Sessions -> SessionStates] /\ Only(s) /\ SameCommand(s)
        /\ session'[s].at = "open"
    <3>1. "open" \in Points
      BY DEF Points
    <3> QED BY <1>1, <1>4, <3>1, Moved
  <2>2. /\ dir' \in [AllNames -> 0..used] /\ dir'[session[s].name] = Nothing
        /\ used \in Nat /\ commands \in Nat
    BY <1>1, <1>2, <1>4 DEF DeleteExisting, Link, Types, Nothing, AllNames
  <2>3. Types'
    BY <1>1, <2>1, <2>2 DEF Types
  <2>4. PointFits(s)'
    BY <1>1, <1>2, <2>1 DEF Fits, PointFits, SameCommand, Me, Stores
  <2>5. DownloadFits(s)' /\ RenameFits(s)'
    BY <1>2, <2>1 DEF DownloadFits, RenameFits, SameCommand
  <2>6. UploadFits(s)'
    BY <1>1, <1>2, <2>1, <2>2 DEF Fits, UploadFits, SameCommand, Stores
  <2>7. Grows /\ used <= used' /\ commands <= commands'
    BY <1>1, <2>2, Made DEF Grows, Types
  <2> QED BY <1>2, <2>1, <2>3, <2>4, <2>5, <2>6, <2>7, Settled DEF Fits
<1> QED BY <1>3, <1>4 DEF DeleteOld

\* An upload that does not append has a new file; no bytes are in it, or are lost.
LEMMA OpenedFile ==
  ASSUME FileInv, NEW s \in Sessions, Me(s, "open"), session[s].cmd # "RETR",
         NEW file, file = IF dir[session[s].name] = Nothing THEN used + 1 ELSE dir[session[s].name],
         data' = [data EXCEPT ![file] = IF Truncates(s) THEN <<>> ELSE @]
  PROVE  /\ session[s].name \in Names /\ s \in Users /\ session[s].cmd \in Stores
         /\ file \in Files /\ file \in 1..(used + 1)
         /\ used < Cardinality(Names) + commands
         /\ data' = data
         /\ session[s].cmd = "STOR" => ~Appends(s) /\ data[file] = <<>>
         /\ session[s].cmd = "APPE" => Appends(s) /\ data[file] = session[s].old
<1>1. Types /\ Fits(s) /\ session[s].at = "open"
  BY DEF FileInv, Me
<1>2. /\ session[s].name \in Names /\ session[s].name \in AllNames /\ session[s].cmd \in Stores
      /\ s \in Users /\ used < Cardinality(Names) + commands
  BY <1>1 DEF Fits, PointFits, Allowed, GuestCommands, Stores, Me, AllNames
<1> DEFINE c == Cardinality(Names)
<1>3. used + 1 \in Files /\ used \in Nat
  <2>1. /\ c \in Nat /\ used \in Nat /\ commands \in 0..MaxCommands /\ MaxCommands \in Nat
        /\ used < c + commands
    BY <1>1, <1>2, Counted DEF Types
  <2>2. \A n \in 0..(c + MaxCommands) : n # 0 => n \in Files
    BY Counted DEF Nothing
  <2> HIDE DEF c
  <2> QED BY <2>1, <2>2
<1>4. file \in Files /\ file \in 1..(used + 1) /\ data[file] \in Seq(Int)
  BY <1>1, <1>2, <1>3, Made DEF Nothing, Types
<1>5. session[s].offset \in Int /\ session[s].append \in BOOLEAN
  BY <1>1 DEF Types, SessionStates
<1>6. CASE session[s].cmd = "STOR"
  <2>1. dir[session[s].name] = Nothing /\ ~session[s].append /\ file = used + 1
    BY <1>1, <1>6 DEF Fits, UploadFits, Stores
  <2>2. data[file] = <<>>
    BY <1>1, <1>3, <2>1 DEF Types
  <2>3. data' = data
    BY <1>1, <1>4, <2>2 DEF Types
  <2>4. ~Appends(s)
    BY <1>2, <1>5, <2>1 DEF Appends, ContentOf, FileOf
  <2> QED BY <1>2, <1>4, <1>6, <2>2, <2>3, <2>4
<1>7. CASE session[s].cmd = "APPE"
  <2>1. /\ session[s].append /\ session[s].offset < 0
        /\ session[s].old = ContentOf(session[s].name)
    BY <1>1, <1>7 DEF Fits, UploadFits, Stores
  <2>2. ~Truncates(s) /\ Appends(s)
    BY <1>5, <2>1 DEF Truncates, Appends
  <2>3. data' = data
    BY <1>1, <1>4, <2>2 DEF Types
  <2>4. data[file] = session[s].old
    BY <1>1, <1>2, <1>3, <2>1 DEF ContentOf, FileOf, Types
  <2> QED BY <1>2, <1>4, <1>7, <2>2, <2>3, <2>4
<1> QED BY <1>2, <1>6, <1>7 DEF Stores

\* An upload opens its file and waits for the connection.
LEMMA OpenWriteKeeps ==
  ASSUME OneUser, FileInv, NEW s \in Sessions, OpenToWrite(s) PROVE FileInv'
<1> DEFINE name == session[s].name
           file == IF dir[name] = Nothing THEN used + 1 ELSE dir[name]
           append == Appends(s)
           pos == StartOf(session[s].offset)
           r == [session[s] EXCEPT !.at = "connect", !.file = file, !.append = append,
                   !.pos = pos]
<1>1. Types /\ Fits(s) /\ session[s].at = "open" /\ session[s].cmd # "RETR"
      /\ Me(s, "open") /\ commands' = commands
  BY DEF FileInv, OpenToWrite, Me
<1>2. CASE End(s, "451") /\ UNCHANGED <<dir, data, used>>
  <2>1. "451" \in Codes /\ session[s].cmd # "RNTO"
    BY <1>1 DEF Codes, Fits, PointFits, Stores
  <2> QED BY <1>1, <1>2, <2>1, EndKeeps
<1>3. CASE /\ Link(name, file)
           /\ used' = IF file > used THEN file ELSE used
           /\ data' = [data EXCEPT ![file] = IF Truncates(s) THEN <<>> ELSE @]
           /\ session' = [session EXCEPT ![s].at = "connect", ![s].file = file,
                            ![s].append = Appends(s), ![s].pos = StartOf(session[s].offset)]
  <2>1. /\ name \in Names /\ s \in Users /\ session[s].cmd \in Stores
        /\ file \in Files /\ file \in 1..(used + 1)
        /\ used < Cardinality(Names) + commands
        /\ data' = data
        /\ session[s].cmd = "STOR" => ~append /\ data[file] = <<>>
        /\ session[s].cmd = "APPE" => append /\ data[file] = session[s].old
    <3> HIDE DEF file
    <3>1. file = IF dir[session[s].name] = Nothing THEN used + 1 ELSE dir[session[s].name]
      BY DEF file
    <3> QED BY <1>1, <1>3, <3>1, OpenedFile
  <2>2. session' = [session EXCEPT ![s] = r]
    BY <1>3
  <2>3. append \in BOOLEAN
    BY DEF Appends
  <2>4. dir' = [dir EXCEPT ![name] = file] /\ used' = IF file > used THEN file ELSE used
    BY <1>3 DEF Link
  <2>5. pos \in Nat /\ session[s] \in SessionStates
    BY <1>1 DEF StartOf, Types, SessionStates
  <2>6. pos = session[s].start /\ session[s].io = <<>>
    BY <1>1, <2>1 DEF Fits, PointFits, UploadFits
  <2> HIDE DEF name, file, append, pos
  <2>7. file \in Nat /\ used \in Nat /\ used' \in Nat /\ file \in 0..used' /\ used <= used'
        /\ used' \in {used, used + 1} /\ file # Nothing
    BY <1>1, <2>1, <2>4 DEF Types, Nothing
  <2>8. /\ r \in SessionStates
        /\ r.at = "connect" /\ r.file = file /\ r.append = append /\ r.pos = pos
        /\ r.offset = session[s].offset /\ r.start = session[s].start
        /\ r.renameFrom = session[s].renameFrom /\ r.cmd = session[s].cmd
        /\ r.name = session[s].name /\ r.number = session[s].number
        /\ r.old = session[s].old /\ r.io = session[s].io
    <3>1. r = [session[s] EXCEPT !.at = "connect", !.file = file, !.append = append,
                 !.pos = pos]
      OBVIOUS
    <3> HIDE DEF r
    <3>2. "connect" \in Points
      BY DEF Points
    <3>3. r \in SessionStates
      BY <2>3, <2>5, <2>7, <3>1, <3>2 DEF SessionStates
    <3> QED BY <2>5, <3>1, <3>3 DEF SessionStates
  <2> HIDE DEF r
  <2>9. session' \in [Sessions -> SessionStates] /\ Only(s) /\ session'[s] = r
    BY <1>1, <2>2, <2>8, Replaced
  <2> DEFINE c == Cardinality(Names)
  <2>10. used' <= c + commands' /\ commands <= commands' /\ commands' \in 0..MaxCommands
    <3>1. c \in Nat /\ commands \in 0..MaxCommands /\ MaxCommands \in Nat /\ used < c + commands
      BY <1>1, <2>1, Counted DEF Types
    <3> HIDE DEF c
    <3> QED BY <1>1, <2>7, <3>1
  <2>11. Types'
    <3>1. dir' \in [AllNames -> 0..used']
      <4>1. \A n \in AllNames : dir[n] \in 0..used'
        BY <1>1, <2>7 DEF Types
      <4> QED BY <1>1, <2>4, <2>7, <4>1 DEF Types
    <3>2. \A f \in Files : f > used' => data'[f] = <<>>
      <4> SUFFICES ASSUME NEW f \in Files, f > used' PROVE data[f] = <<>>
        BY <2>1
      <4>1. f > used
        BY <2>7, Counted DEF Files
      <4> QED BY <1>1, <4>1 DEF Types
    <3> QED BY <1>1, <2>1, <2>7, <2>9, <2>10, <3>1, <3>2 DEF Types
  <2>12. PointFits(s)'
    <3>1. session'[s].file <= used'
      BY <2>7, <2>8, <2>9
    <3> QED BY <1>1, <2>1, <2>6, <2>7, <2>8, <2>9, <3>1 DEF Fits, PointFits, Me, name, pos
  <2>13. DownloadFits(s)' /\ RenameFits(s)'
    BY <1>1, <2>1, <2>8, <2>9 DEF DownloadFits, RenameFits, Stores
  <2>14. Written(s)'
    <3>1. session[s].old \in Seq(Int) /\ session[s].old \o <<>> = session[s].old
      BY <2>5, ConcatEmptySeq DEF SessionStates
    <3>2. pos = session[s].start + Len(session[s].io)
      BY <2>5, <2>6 DEF SessionStates
    <3> QED BY <2>1, <2>6, <2>8, <2>9, <3>1, <3>2 DEF Written, Stores
  <2>15. UploadFits(s)'
    <3>1. dir'[name] = file
      BY <1>1, <2>1, <2>4 DEF Types, AllNames
    <3> QED BY <2>8, <2>9, <2>14, <3>1 DEF UploadFits, name
  <2>16. Grows
    BY <1>1, <2>1, Made DEF Grows, Types
  <2> QED BY <2>1, <2>7, <2>9, <2>10, <2>11, <2>12, <2>13, <2>15, <2>16, Settled DEF Fits
<1> QED BY <1>2, <1>3 DEF OpenToWrite

\* A byte that is appended comes after what was there and what was received.
LEMMA AppendedBytes ==
  ASSUME NEW old \in Seq(Int), NEW io \in Seq(Int), NEW byte \in Int,
         NEW bytes \in Seq(Int), bytes = old \o io
  PROVE  /\ bytes \in Seq(Int) /\ Len(bytes) \in Nat
         /\ WrittenAt(bytes, Len(bytes), byte) = old \o Append(io, byte)
<1>1. /\ bytes \in Seq(Int) /\ Len(bytes) = Len(old) + Len(io)
      /\ \A i \in 1..(Len(old) + Len(io)) :
           bytes[i] = IF i <= Len(old) THEN old[i] ELSE io[i - Len(old)]
  BY ConcatProperties
<1>2. Len(old) \in Nat /\ Len(io) \in Nat
  BY LenProperties
<1>3. /\ Append(io, byte) \in Seq(Int) /\ Len(Append(io, byte)) = Len(io) + 1
      /\ \A i \in 1..Len(io) : Append(io, byte)[i] = io[i]
      /\ Append(io, byte)[Len(io) + 1] = byte
  BY AppendProperties
<1> DEFINE more == Append(io, byte)
           new == WrittenAt(bytes, Len(bytes), byte)
           whole == old \o more
<1>4. /\ new \in Seq(Int) /\ Len(new) = Len(bytes) + 1
      /\ \A i \in 1..Len(bytes) : new[i] = bytes[i]
      /\ new[Len(bytes) + 1] = byte
  <2> DEFINE n == Len(bytes)
  <2>1. n \in Nat /\ n >= Len(bytes)
    BY <1>1, <1>2
  <2> HIDE DEF n
  <2>2. /\ WrittenAt(bytes, n, byte) \in Seq(Int) /\ Len(WrittenAt(bytes, n, byte)) = n + 1
        /\ \A i \in 1..Len(bytes) : WrittenAt(bytes, n, byte)[i] = bytes[i]
        /\ WrittenAt(bytes, n, byte)[n + 1] = byte
    BY <1>1, <2>1, WrittenBytes
  <2> QED BY <2>2 DEF n
<1>5. /\ whole \in Seq(Int) /\ Len(whole) = Len(old) + Len(more)
      /\ \A i \in 1..(Len(old) + Len(more)) :
           whole[i] = IF i <= Len(old) THEN old[i] ELSE more[i - Len(old)]
  BY <1>3, ConcatProperties
<1> HIDE DEF more, new, whole
<1>6. Len(new) = Len(whole)
  BY <1>1, <1>2, <1>3, <1>4, <1>5 DEF more
<1>7. ASSUME NEW i \in 1..Len(new) PROVE new[i] = whole[i]
  <2>1. CASE i <= Len(old)
    <3>1. i \in 1..Len(bytes) /\ i \in 1..(Len(old) + Len(io)) /\ i \in 1..(Len(old) + Len(more))
      BY <1>1, <1>2, <1>3, <1>4, <2>1 DEF more
    <3> QED BY <1>1, <1>4, <1>5, <2>1, <3>1
  <2>2. CASE i > Len(old) /\ i <= Len(bytes)
    <3>1. i \in 1..Len(bytes) /\ i \in 1..(Len(old) + Len(io)) /\ i \in 1..(Len(old) + Len(more))
          /\ ~(i <= Len(old)) /\ i - Len(old) \in 1..Len(io)
      BY <1>1, <1>2, <1>3, <1>4, <2>2 DEF more
    <3> QED BY <1>1, <1>3, <1>4, <1>5, <3>1 DEF more
  <2>3. CASE i = Len(bytes) + 1
    <3>1. i \in 1..(Len(old) + Len(more)) /\ ~(i <= Len(old)) /\ i - Len(old) = Len(io) + 1
      BY <1>1, <1>2, <1>3, <2>3 DEF more
    <3> QED BY <1>3, <1>4, <1>5, <2>3, <3>1 DEF more
  <2> QED BY <1>1, <1>2, <1>4, <2>1, <2>2, <2>3
<1>8. new = whole
  BY <1>4, <1>5, <1>6, <1>7, SeqEqual
<1> QED BY <1>1, <1>2, <1>8 DEF new, whole, more

\* What an upload that does not append has written is what it has received.
LEMMA WrittenFrom ==
  ASSUME NEW bytes \in Seq(Int), NEW io \in Seq(Int), NEW start \in Nat, NEW byte \in Int,
         NEW pos \in Nat, pos = start + Len(io),
         IF io = <<>> THEN bytes = <<>>
         ELSE Len(bytes) = pos /\ \A i \in 1..Len(io) : bytes[start + i] = io[i]
  PROVE  /\ pos \in Nat /\ Len(bytes) <= pos
         /\ LET new == WrittenAt(bytes, pos, byte)
                more == Append(io, byte)
            IN  /\ more # <<>> /\ pos + 1 = start + Len(more)
                /\ Len(new) = pos + 1
                /\ \A i \in 1..Len(more) : new[start + i] = more[i]
<1> DEFINE new == WrittenAt(bytes, pos, byte)
           more == Append(io, byte)
<1>1. Len(io) \in Nat /\ pos \in Nat /\ Len(bytes) \in Nat
  BY LenProperties
<1>2. Len(bytes) <= pos
  BY <1>1
<1>3. /\ more \in Seq(Int) /\ Len(more) = Len(io) + 1
      /\ \A i \in 1..Len(io) : more[i] = io[i]
      /\ more[Len(io) + 1] = byte
  BY AppendProperties
<1>4. /\ Len(new) = pos + 1
      /\ \A i \in 1..Len(bytes) : new[i] = bytes[i]
      /\ new[pos + 1] = byte
  BY <1>1, <1>2, WrittenBytes
<1> HIDE DEF new, more
<1>5. more # <<>>
  <2>1. Len(more) # 0
    BY <1>1, <1>3
  <2> QED BY <2>1, EmptySeq
<1>6. ASSUME NEW i \in 1..Len(more) PROVE new[start + i] = more[i]
  <2>1. CASE i = Len(io) + 1
    BY <1>1, <1>3, <1>4, <2>1
  <2>2. CASE i \in 1..Len(io)
    <3>1. io # <<>>
      BY <2>2
    <3>2. start + i \in 1..Len(bytes)
      BY <1>1, <2>2, <3>1
    <3> QED BY <1>3, <1>4, <2>2, <3>1, <3>2
  <2> QED BY <1>1, <1>3, <2>1, <2>2
<1> QED BY <1>1, <1>2, <1>3, <1>4, <1>5, <1>6 DEF new, more

\* An upload writes its next byte: Written goes on to hold, of one byte more.
LEMMA ReceiveKeeps ==
  ASSUME OneUser, FileInv, NEW s \in Sessions, ReceiveByte(s) PROVE FileInv'
<1> DEFINE file == session[s].file
           bytes == data[file]
           pos == IF session[s].append THEN Len(bytes) ELSE session[s].pos
           byte == session[s].number
           io == Append(session[s].io, byte)
           new == WrittenAt(bytes, pos, byte)
           next == pos + 1
           r == [session[s] EXCEPT !.pos = next, !.io = io]
<1>1. Types /\ Fits(s) /\ session[s].at = "receive" /\ session[s] \in SessionStates
  BY DEF FileInv, ReceiveByte, Me, Types
<1>2. /\ session[s].cmd \in Stores /\ s \in Users /\ file \in 1..used /\ file \in Files
      /\ session[s].name \in Names
  <2>1. session[s].cmd \in Stores /\ s \in Users /\ file # Nothing /\ file <= used
        /\ session[s].name \in Names
    BY <1>1 DEF Fits, PointFits, Allowed, GuestCommands, Stores
  <2>2. file \in Nat /\ used \in Nat
    BY <1>1 DEF Types, SessionStates
  <2> HIDE DEF file
  <2>3. file \in 1..used
    BY <2>1, <2>2 DEF Nothing
  <2> QED BY <1>1, <2>1, <2>3, Made DEF file
<1>3. /\ bytes \in Seq(Int) /\ session[s].old \in Seq(Int) /\ session[s].io \in Seq(Int)
      /\ session[s].start \in Nat /\ byte \in Int /\ io \in Seq(Int)
  BY <1>1, <1>2, AppendProperties DEF Types, SessionStates
<1>4. Written(s) /\ dir[session[s].name] = file
  BY <1>1, <1>2 DEF Fits, UploadFits
<1>5. /\ data' = [data EXCEPT ![file] = new] /\ session' = [session EXCEPT ![s] = r]
      /\ UNCHANGED <<dir, used, commands>>
  BY DEF ReceiveByte
<1>6. /\ pos \in Nat /\ Len(bytes) <= pos
      /\ session[s].cmd = "APPE" => session[s].append /\ new = session[s].old \o io
      /\ session[s].cmd = "STOR" =>
           /\ ~session[s].append /\ io # <<>> /\ pos + 1 = session[s].start + Len(io)
           /\ Len(new) = pos + 1
           /\ \A i \in 1..Len(io) : new[session[s].start + i] = io[i]
  <2>1. CASE session[s].cmd = "APPE"
    <3>1. session[s].append /\ bytes = session[s].old \o session[s].io
      BY <1>4, <2>1 DEF Written
    <3>2. pos = Len(bytes)
      BY <3>1
    <3> DEFINE old == session[s].old
               part == session[s].io
    <3>3. bytes \in Seq(Int) /\ old \in Seq(Int) /\ part \in Seq(Int) /\ byte \in Int
          /\ bytes = old \o part
      BY <1>3, <3>1
    <3> HIDE DEF bytes, old, part, byte
    <3>4. /\ Len(bytes) \in Nat
          /\ WrittenAt(bytes, Len(bytes), byte) = old \o Append(part, byte)
      BY <3>3, AppendedBytes
    <3>5. io = Append(part, byte)
      BY DEF part
    <3> HIDE DEF pos, io
    <3>6. new = old \o io
      BY <3>2, <3>4, <3>5
    <3> HIDE DEF new
    <3>7. pos \in Nat /\ Len(bytes) <= pos
      BY <3>2, <3>4
    <3>8. session[s].append /\ new = session[s].old \o io
      BY <3>1, <3>6 DEF old
    <3> QED BY <2>1, <3>7, <3>8
  <2>2. CASE session[s].cmd = "STOR"
    <3>1. /\ ~session[s].append /\ session[s].pos = session[s].start + Len(session[s].io)
          /\ IF session[s].io = <<>> THEN bytes = <<>>
             ELSE /\ Len(bytes) = session[s].pos
                  /\ \A i \in 1..Len(session[s].io) :
                       bytes[session[s].start + i] = session[s].io[i]
      BY <1>4, <2>2 DEF Written
    <3>2. pos = session[s].pos
      BY <3>1
    <3> DEFINE part == session[s].io
               start == session[s].start
    <3>3. /\ bytes \in Seq(Int) /\ part \in Seq(Int) /\ start \in Nat /\ byte \in Int
          /\ pos = start + Len(part) /\ pos \in Nat
          /\ IF part = <<>> THEN bytes = <<>>
             ELSE Len(bytes) = pos /\ \A i \in 1..Len(part) : bytes[start + i] = part[i]
      BY <1>1, <1>3, <3>1, <3>2 DEF SessionStates
    <3> HIDE DEF bytes, pos, part, start, byte
    <3>4. /\ pos \in Nat /\ Len(bytes) <= pos
          /\ LET w == WrittenAt(bytes, pos, byte)
                 more == Append(part, byte)
             IN  /\ more # <<>> /\ pos + 1 = start + Len(more)
                 /\ Len(w) = pos + 1
                 /\ \A i \in 1..Len(more) : w[start + i] = more[i]
      BY <3>3, WrittenFrom
    <3>5. io = Append(part, byte)
      BY DEF part
    <3> HIDE DEF io
    <3>6. /\ io # <<>> /\ pos + 1 = start + Len(io)
          /\ Len(new) = pos + 1 /\ \A i \in 1..Len(io) : new[start + i] = io[i]
      BY <3>4, <3>5
    <3> HIDE DEF new
    <3> QED BY <2>2, <3>1, <3>4, <3>6 DEF start
  <2> QED BY <1>2, <2>1, <2>2 DEF Stores
<1>7. /\ new \in Seq(Int) /\ Len(bytes) <= Len(new)
      /\ \A i \in 1..Len(bytes) : new[i] = bytes[i]
  <2> HIDE DEF bytes, pos
  <2>1. /\ new \in Seq(Int) /\ Len(new) = pos + 1
        /\ \A i \in 1..Len(bytes) : new[i] = bytes[i]
    BY <1>3, <1>6, WrittenBytes
  <2> QED BY <1>3, <1>6, <2>1, LenProperties
<1>18. next \in Nat /\ next = pos + 1
  <2> HIDE DEF pos
  <2> QED BY <1>6
<1> HIDE DEF file, bytes, pos, byte, io, new, next
<1>8. /\ r \in SessionStates /\ r.pos = next /\ r.io = io /\ r.at = session[s].at
      /\ r.file = file /\ r.append = session[s].append /\ r.offset = session[s].offset
      /\ r.start = session[s].start /\ r.cmd = session[s].cmd
      /\ r.name = session[s].name /\ r.number = session[s].number /\ r.old = session[s].old
  <2>1. r \in SessionStates
    BY <1>1, <1>3, <1>18 DEF SessionStates
  <2> QED BY <1>1, <2>1 DEF SessionStates, file
<1> HIDE DEF r
<1>9. session' \in [Sessions -> SessionStates] /\ Only(s) /\ session'[s] = r
  BY <1>1, <1>5, <1>8, Replaced
<1>10. data'[file] = new /\ \A f \in Files : f # file => data'[f] = data[f]
  BY <1>1, <1>2, <1>5 DEF Types
<1>11. Types'
  <2>1. data' \in [Files -> Seq(Int)]
    BY <1>1, <1>5, <1>7 DEF Types
  <2>2. \A f \in Files : f > used => data'[f] = <<>>
    <3>1. used \in Nat
      BY <1>1 DEF Types
    <3>2. ~(file > used)
      BY <1>2, <3>1
    <3> QED BY <1>1, <1>10, <3>2 DEF Types
  <2> QED BY <1>1, <1>5, <1>9, <2>1, <2>2 DEF Types
<1>12. PointFits(s)'
  BY <1>1, <1>5, <1>8, <1>9 DEF Fits, PointFits, Me, file
<1>13. DownloadFits(s)' /\ RenameFits(s)'
  BY <1>2, <1>8, <1>9 DEF DownloadFits, RenameFits, Stores
<1>14. Written(s)'
  <2>1. session'[s].file = file /\ data'[file] = new
    BY <1>8, <1>9, <1>10
  <2> QED BY <1>2, <1>6, <1>8, <1>9, <1>18, <2>1 DEF Written, Stores
<1>15. UploadFits(s)'
  BY <1>1, <1>4, <1>5, <1>8, <1>9, <1>14 DEF UploadFits
<1>16. Grows
  <2> SUFFICES ASSUME NEW f \in 1..used
               PROVE  /\ Len(data[f]) <= Len(data'[f])
                      /\ \A i \in 1..Len(data[f]) : data'[f][i] = data[f][i]
    BY DEF Grows
  <2>1. CASE f = file
    BY <1>7, <1>10, <2>1 DEF bytes
  <2>2. CASE f # file
    BY <1>1, <1>10, <2>2, Made, LenProperties DEF Types
  <2> QED BY <2>1, <2>2
<1>17. used <= used' /\ commands <= commands'
  BY <1>1, <1>5 DEF Types
<1> QED BY <1>2, <1>9, <1>11, <1>12, <1>13, <1>15, <1>16, <1>17, Settled DEF Fits
-----------------------------------------------------------------------------
(* Downloads.                                                              *)

\* A download opens the file that it stays with.
LEMMA OpenReadKeeps ==
  ASSUME OneUser, FileInv, NEW s \in Sessions, OpenToRead(s) PROVE FileInv'
<1> DEFINE name == session[s].name
           file == dir[name]
           pos == StartOf(session[s].offset)
           r == [session[s] EXCEPT !.at = "connect", !.file = file, !.pos = pos]
<1>1. Types /\ Fits(s) /\ session[s].at = "open" /\ session[s].cmd = "RETR"
      /\ UNCHANGED <<dir, data, used, commands>> /\ session[s] \in SessionStates
  BY DEF FileInv, OpenToRead, Me, Types
<1>2. CASE End(s, "550")
  <2>1. "550" \in Codes
    BY DEF Codes
  <2> QED BY <1>1, <1>2, <2>1, EndKeeps
<1>3. CASE FileOf(name) # Nothing /\ session' = [session EXCEPT ![s] = r]
  <2>1. name \in Names /\ name \in AllNames /\ pos = session[s].start /\ session[s].io = <<>>
    BY <1>1 DEF Fits, PointFits, DownloadFits, AllNames
  <2>2. file # Nothing /\ file \in 0..used /\ used \in Nat /\ pos \in Nat
    BY <1>1, <1>3, <2>1, Made DEF FileOf, StartOf, SessionStates
  <2> HIDE DEF name, file, pos
  <2>3. /\ r \in SessionStates /\ r.at = "connect" /\ r.file = file /\ r.pos = pos
        /\ r.append = session[s].append /\ r.offset = session[s].offset
        /\ r.start = session[s].start /\ r.cmd = session[s].cmd /\ r.name = session[s].name
        /\ r.number = session[s].number /\ r.io = session[s].io
    <3>1. "connect" \in Points /\ file \in Nat
      BY <2>2 DEF Points
    <3>2. r \in SessionStates
      BY <1>1, <2>2, <3>1 DEF SessionStates
    <3> QED BY <1>1, <3>2 DEF SessionStates
  <2> HIDE DEF r
  <2>4. session' \in [Sessions -> SessionStates] /\ Only(s) /\ session'[s] = r
    BY <1>1, <1>3, <2>3, Replaced
  <2>5. Types' /\ commands <= commands'
    BY <1>1, <2>4 DEF Types
  <2>6. PointFits(s)'
    BY <1>1, <2>1, <2>2, <2>3, <2>4 DEF Fits, PointFits, Me, name, pos
  <2>7. DownloadFits(s)'
    <3>1. HasAt(data[file], session[s].start, <<>>)
      BY DEF HasAt
    <3>2. session[s].start + Len(<<>>) = session[s].start
      BY <1>1 DEF SessionStates
    <3> QED BY <1>1, <2>1, <2>3, <2>4, <3>1, <3>2 DEF DownloadFits
  <2>8. UploadFits(s)' /\ RenameFits(s)'
    BY <1>1, <2>3, <2>4 DEF UploadFits, RenameFits, Stores
  <2> QED BY <1>1, <2>4, <2>5, <2>6, <2>7, <2>8, Settled DEF Fits
<1> QED BY <1>1, <1>2, <1>3 DEF OpenToRead

\* One more byte of the file, after those that were sent.
LEMMA SentByte ==
  ASSUME NEW bytes \in Seq(Int), NEW start \in Nat, NEW part \in Seq(Int),
         HasAt(bytes, start, part), NEW pos \in Nat, pos = start + Len(part),
         pos < Len(bytes)
  PROVE  /\ bytes[pos + 1] \in Int
         /\ Append(part, bytes[pos + 1]) \in Seq(Int)
         /\ pos + 1 = start + Len(Append(part, bytes[pos + 1]))
         /\ HasAt(bytes, start, Append(part, bytes[pos + 1]))
<1> DEFINE byte == bytes[pos + 1]
           more == Append(part, byte)
<1>1. Len(part) \in Nat /\ Len(bytes) \in Nat /\ DOMAIN part = 1..Len(part)
  BY LenProperties
<1>2. byte \in Int
  <2>1. pos + 1 \in 1..Len(bytes)
    BY <1>1
  <2> QED BY <2>1, ElementOfSeq
<1> HIDE DEF byte
<1>3. /\ more \in Seq(Int) /\ Len(more) = Len(part) + 1
      /\ \A i \in 1..Len(part) : more[i] = part[i]
      /\ more[Len(part) + 1] = byte
  BY <1>2, AppendProperties
<1> HIDE DEF more
<1>4. DOMAIN more = 1..(Len(part) + 1)
  BY <1>3, LenProperties
<1>5. ASSUME NEW i \in DOMAIN more
      PROVE  start + i <= Len(bytes) /\ bytes[start + i] = more[i]
  <2>1. CASE i = Len(part) + 1
    BY <1>1, <1>3, <2>1 DEF byte
  <2>2. CASE i \in 1..Len(part)
    BY <1>1, <1>3, <2>2 DEF HasAt
  <2> QED BY <1>1, <1>4, <2>1, <2>2
<1>6. HasAt(bytes, start, more)
  BY <1>5 DEF HasAt
<1>7. pos + 1 = start + Len(more)
  BY <1>1, <1>3
<1> QED BY <1>2, <1>3, <1>6, <1>7 DEF more, byte

\* A download sends its next byte, which is in the file behind the ones it has sent.
LEMMA SendKeeps ==
  ASSUME OneUser, FileInv, NEW s \in Sessions, SendByte(s) PROVE FileInv'
<1> DEFINE bytes == data[session[s].file]
           pos == session[s].pos
           start == session[s].start
           part == session[s].io
           next == pos + 1
           io == Append(part, bytes[pos + 1])
           r == [session[s] EXCEPT !.pos = next, !.io = io]
<1>1. Types /\ Fits(s) /\ session[s].at = "send" /\ session[s] \in SessionStates
      /\ UNCHANGED <<dir, data, used, commands>> /\ pos < Len(bytes)
      /\ session' = [session EXCEPT ![s] = r]
  BY DEF FileInv, SendByte, Me, Types
<1>2. session[s].cmd = "RETR" /\ session[s].file # Nothing /\ session[s].file <= used
  BY <1>1 DEF Fits, PointFits
<1>3. session[s].file \in Files
  <2>1. session[s].file \in 1..used
    BY <1>1, <1>2 DEF Types, SessionStates, Nothing
  <2> QED BY <1>1, <2>1, Made
<1>4. /\ bytes \in Seq(Int) /\ start \in Nat /\ part \in Seq(Int) /\ pos \in Nat
      /\ HasAt(bytes, start, part) /\ pos = start + Len(part)
  BY <1>1, <1>2, <1>3 DEF Types, SessionStates, Fits, DownloadFits
<1> HIDE DEF bytes, pos, start, part
<1>5. io \in Seq(Int) /\ next = start + Len(io) /\ HasAt(bytes, start, io) /\ next \in Nat
  BY <1>1, <1>4, SentByte
<1> HIDE DEF io, next
<1>6. /\ r \in SessionStates /\ r.at = session[s].at /\ r.file = session[s].file
      /\ r.pos = next /\ r.io = io
      /\ r.append = session[s].append /\ r.offset = session[s].offset
      /\ r.start = session[s].start /\ r.cmd = session[s].cmd /\ r.name = session[s].name
      /\ r.number = session[s].number
  <2>1. r \in SessionStates
    BY <1>1, <1>5 DEF SessionStates
  <2> QED BY <1>1, <2>1 DEF SessionStates
<1> HIDE DEF r
<1>7. session' \in [Sessions -> SessionStates] /\ Only(s) /\ session'[s] = r
  BY <1>1, <1>6, Replaced
<1>8. Types' /\ commands <= commands'
  BY <1>1, <1>7 DEF Types
<1>9. PointFits(s)'
  BY <1>1, <1>6, <1>7 DEF Fits, PointFits, Me
<1>10. DownloadFits(s)'
  BY <1>1, <1>5, <1>6, <1>7 DEF DownloadFits, bytes, start
<1>11. UploadFits(s)' /\ RenameFits(s)'
  BY <1>2, <1>6, <1>7 DEF UploadFits, RenameFits, Stores
<1> QED BY <1>1, <1>7, <1>8, <1>9, <1>10, <1>11, Settled DEF Fits
-----------------------------------------------------------------------------
(* RNTO.                                                                   *)

\* The temporary name is none of those that commands use.
LEMMA TempIsNew ==
  ASSUME Types, NEW s \in Sessions, Fits(s), session[s].at # "idle"
  PROVE  Temp(s) \in AllNames /\ Temp(s) \notin Names
<1>1. session[s].number \in 1..MaxCommands
  BY DEF Fits, PointFits
<1> QED BY <1>1, TempNamesAreNew DEF Temp, AllNames

\* A step that ends RNTO, and forgets the name that RNFR left.
LEMMA RenameEnded ==
  ASSUME Types, NEW s \in Sessions, NEW code \in Codes, EndRename(s, code)
  PROVE  /\ session' \in [Sessions -> SessionStates] /\ Only(s) /\ SameCommand(s)
         /\ session'[s].at = "idle"
<1> DEFINE r == [session[s] EXCEPT !.at = "idle", !.code = code, !.renameFrom = NoName]
<1>1. session[s] \in SessionStates /\ "idle" \in Points /\ NoName \in Names \union {NoName}
  BY DEF Types, Points
<1>2. session' = [session EXCEPT ![s] = r]
  BY DEF EndRename
<1>3. r \in SessionStates
  BY <1>1 DEF SessionStates
<1>4. /\ r.at = "idle" /\ r.offset = session[s].offset /\ r.start = session[s].start
      /\ r.cmd = session[s].cmd /\ r.name = session[s].name /\ r.number = session[s].number
      /\ r.file = session[s].file /\ r.pos = session[s].pos
      /\ r.append = session[s].append /\ r.old = session[s].old /\ r.io = session[s].io
  BY <1>1, <1>3 DEF SessionStates
<1> HIDE DEF r
<1>5. session' \in [Sessions -> SessionStates] /\ Only(s) /\ session'[s] = r
  BY <1>2, <1>3, Replaced
<1> QED BY <1>4, <1>5 DEF SameCommand

\* The renaming session changes names, and makes at most its temporary file.
LEMMA RenameSettles ==
  ASSUME OneUser, FileInv, NEW s \in Sessions, session[s].cmd = "RNTO",
         session' \in [Sessions -> SessionStates], Only(s), SameCommand(s) \/
           /\ session'[s].cmd = "RNTO" /\ session'[s].number = session[s].number
           /\ session'[s].name = session[s].name /\ session'[s].start = session[s].start
           /\ session'[s].offset = session[s].offset /\ session'[s].file <= used,
         session'[s].at \in {"idle", "away", "deleteFrom", "back"}, session[s].at # "idle",
         dir' \in [AllNames -> 0..used'], UNCHANGED <<data, commands>>,
         \/ used' = used
         \/ used' = used + 1 /\ used < Cardinality(Names) + commands,
         RenameFits(s)'
  PROVE  FileInv'
<1>1. Types /\ Fits(s) /\ used \in Nat /\ commands <= commands'
  BY DEF FileInv, Types
<1>2. s \in Users
  BY <1>1 DEF Fits, PointFits, Allowed, GuestCommands
<1> DEFINE c == Cardinality(Names)
<1>3. used' \in Nat /\ used <= used' /\ used' <= c + commands'
  <2>1. c \in Nat /\ commands \in Nat /\ used <= c + commands
    BY <1>1, Counted DEF Types
  <2>2. used' = used \/ (used' = used + 1 /\ used < c + commands)
    OBVIOUS
  <2> HIDE DEF c
  <2> QED BY <1>1, <2>1, <2>2
<1>4. Types'
  <2>1. \A f \in Files : f > used' => data[f] = <<>>
    <3> SUFFICES ASSUME NEW f \in Files, f > used' PROVE data[f] = <<>>
      OBVIOUS
    <3>1. f > used
      BY <1>1, <1>3, Counted DEF Files
    <3> QED BY <1>1, <3>1 DEF Types
  <2> QED BY <1>1, <1>3, <2>1 DEF Types
<1>5. PointFits(s)'
  <2>1. /\ session'[s].cmd = "RNTO" /\ session'[s].number = session[s].number
        /\ session'[s].name = session[s].name /\ session'[s].start = session[s].start
        /\ session'[s].offset = session[s].offset /\ session'[s].file <= used
    BY <1>1 DEF SameCommand, Fits, PointFits
  <2>2. session'[s].file <= used'
    BY <1>1, <1>3, <2>1 DEF SessionStates
  <2> QED BY <1>1, <2>1, <2>2 DEF Fits, PointFits, Me, Stores
<1>6. DownloadFits(s)' /\ UploadFits(s)'
  BY DEF SameCommand, DownloadFits, UploadFits, Stores
<1>7. Grows
  BY <1>1, Made, LenProperties DEF Grows, Types
<1> QED BY <1>1, <1>2, <1>3, <1>4, <1>5, <1>6, <1>7, Settled DEF Fits

\* RNTO gives up: the file has the name that it has.
LEMMA RenameFails ==
  ASSUME OneUser, FileInv, NEW s \in Sessions, NEW code \in Codes, EndRename(s, code),
         session[s].at \in {"temp", "away", "back"}, UNCHANGED <<dir, data, used, commands>>
  PROVE  FileInv'
<1>1. Types /\ Fits(s) /\ session[s].cmd = "RNTO"
  BY DEF FileInv, Fits, PointFits
<1>2. /\ session' \in [Sessions -> SessionStates] /\ Only(s) /\ SameCommand(s)
      /\ session'[s].at = "idle"
  BY <1>1, RenameEnded
<1>3. Temp(s) \in AllNames
  BY <1>1, TempIsNew
<1>4. RenameFits(s)'
  BY <1>1, <1>2, <1>3 DEF Fits, RenameFits, SameCommand, AllNames
<1>5. dir' \in [AllNames -> 0..used']
  BY <1>1 DEF Types
<1> QED BY <1>1, <1>2, <1>4, <1>5, RenameSettles

\* The file to be renamed is noted; its name still has it.
LEMMA MakeTempKeeps ==
  ASSUME OneUser, FileInv, NEW s \in Sessions, MakeTemp(s) PROVE FileInv'
<1>1. Types /\ Fits(s) /\ session[s].at = "temp" /\ session[s] \in SessionStates
      /\ UNCHANGED <<data, commands>>
  BY DEF FileInv, MakeTemp, Me, Types
<1>2. session[s].cmd = "RNTO" /\ used < Cardinality(Names) + commands
  BY <1>1 DEF Fits, PointFits
<1>3. CASE EndRename(s, "550") /\ UNCHANGED <<dir, used>>
  <2>1. "550" \in Codes
    BY DEF Codes
  <2> QED BY <1>1, <1>3, <2>1, RenameFails
<1> DEFINE file == FileOf(From(s))
           r == [session[s] EXCEPT !.at = "away", !.file = file]
<1>4. CASE /\ From(s) # NoName /\ Link(Temp(s), used + 1) /\ used' = used + 1
           /\ session' = [session EXCEPT ![s] = r]
  <2>1. /\ From(s) \in Names /\ From(s) \in AllNames /\ file = dir[From(s)]
        /\ Temp(s) \in AllNames /\ Temp(s) # From(s)
    BY <1>1, <1>4, TempIsNew DEF From, SessionStates, AllNames, FileOf
  <2>2. file \in 0..used /\ file \in Nat /\ file <= used /\ used \in Nat
    BY <1>1, <2>1 DEF Types
  <2>3. /\ dir'[From(s)] = file /\ dir' \in [AllNames -> 0..used']
    <3>1. \A name \in AllNames : dir[name] \in 0..used'
      BY <1>1, <1>4, <2>2 DEF Types
    <3>2. used + 1 \in 0..used'
      BY <1>4, <2>2
    <3> QED BY <1>1, <1>4, <2>1, <3>1, <3>2 DEF Link, Types
  <2> HIDE DEF file
  <2>4. r \in SessionStates
    <3>1. "away" \in Points
      BY DEF Points
    <3> QED BY <1>1, <2>2, <3>1 DEF SessionStates
  <2>5. /\ r.at = "away" /\ r.file = file /\ r.renameFrom = session[s].renameFrom
        /\ r.cmd = session[s].cmd /\ r.number = session[s].number /\ r.name = session[s].name
        /\ r.start = session[s].start /\ r.offset = session[s].offset
    BY <1>1, <2>4 DEF SessionStates
  <2> HIDE DEF r
  <2>6. session' \in [Sessions -> SessionStates] /\ Only(s) /\ session'[s] = r
    BY <1>1, <1>4, <2>4, Replaced
  <2>7. RenameFits(s)'
    BY <1>2, <2>1, <2>3, <2>5, <2>6 DEF RenameFits, From
  <2> QED BY <1>1, <1>2, <1>4, <2>2, <2>3, <2>5, <2>6, <2>7, RenameSettles
<1> QED BY <1>3, <1>4 DEF MakeTemp

\* The file goes to its temporary name; deleting the old one no longer touches it.
LEMMA AwayKeeps ==
  ASSUME OneUser, FileInv, NEW s \in Sessions, RenameAway(s) \/ DeleteFrom(s) PROVE FileInv'
<1>1. Types /\ Fits(s) /\ session[s].at \in {"away", "deleteFrom"}
      /\ UNCHANGED <<data, used, commands>>
  BY DEF FileInv, RenameAway, DeleteFrom, Me
<1>2. /\ session[s].cmd = "RNTO" /\ From(s) \in Names /\ From(s) \in AllNames
      /\ Temp(s) \in AllNames /\ Temp(s) # From(s) /\ used \in Nat
  BY <1>1, TempIsNew DEF Fits, PointFits, RenameFits, AllNames, Types
<1>3. CASE session[s].at = "away" /\ EndRename(s, "550") /\ UNCHANGED dir
  <2>1. "550" \in Codes
    BY DEF Codes
  <2> QED BY <1>1, <1>3, <2>1, RenameFails
<1>4. CASE session[s].at = "away" /\ dir' = MoveAway(s) /\ Goto(s, "deleteFrom")
  <2>1. dir' \in [AllNames -> 0..used] /\ dir'[Temp(s)] = dir[From(s)]
    BY <1>1, <1>2, <1>4 DEF MoveAway, Types, Nothing
  <2>2. /\ session' \in [Sessions -> SessionStates] /\ Only(s) /\ SameCommand(s)
        /\ session'[s].renameFrom = session[s].renameFrom /\ session'[s].at = "deleteFrom"
    <3>1. "deleteFrom" \in Points
      BY DEF Points
    <3> QED BY <1>1, <1>4, <3>1, Moved
  <2>3. RenameFits(s)'
    BY <1>1, <1>2, <1>4, <2>1, <2>2 DEF Fits, RenameFits, SameCommand, From, Temp
  <2> QED BY <1>1, <1>2, <2>1, <2>2, <2>3, RenameSettles
<1>5. CASE session[s].at = "deleteFrom" /\ Link(From(s), Nothing) /\ Goto(s, "back")
  <2>1. dir' \in [AllNames -> 0..used] /\ dir'[Temp(s)] = dir[Temp(s)]
    BY <1>1, <1>2, <1>5 DEF Link, Types, Nothing
  <2>2. /\ session' \in [Sessions -> SessionStates] /\ Only(s) /\ SameCommand(s)
        /\ session'[s].renameFrom = session[s].renameFrom /\ session'[s].at = "back"
    <3>1. "back" \in Points
      BY DEF Points
    <3> QED BY <1>1, <1>5, <3>1, Moved
  <2>3. RenameFits(s)'
    BY <1>1, <1>2, <1>5, <2>1, <2>2 DEF Fits, RenameFits, SameCommand, From, Temp
  <2> QED BY <1>1, <1>2, <2>1, <2>2, <2>3, RenameSettles
<1> QED BY <1>3, <1>4, <1>5 DEF RenameAway, DeleteFrom, Me

\* The file goes from its temporary name to the new one, or stays.
LEMMA BackKeeps ==
  ASSUME OneUser, FileInv, NEW s \in Sessions, RenameBack(s) PROVE FileInv'
<1>1. Types /\ Fits(s) /\ session[s].at = "back" /\ UNCHANGED <<data, used, commands>>
  BY DEF FileInv, RenameBack, Me
<1> DEFINE name == session[s].name
<1>2. /\ session[s].cmd = "RNTO" /\ name \in Names /\ name \in AllNames
      /\ Temp(s) \in AllNames /\ Temp(s) # name /\ used \in Nat
      /\ session[s].file = dir[Temp(s)]
  BY <1>1, TempIsNew DEF Fits, PointFits, RenameFits, AllNames, Types
<1>3. CASE EndRename(s, "550") /\ UNCHANGED dir
  <2>1. "550" \in Codes
    BY DEF Codes
  <2> QED BY <1>1, <1>3, <2>1, RenameFails
<1>4. CASE /\ dir' = [dir EXCEPT ![name] = dir[Temp(s)], ![Temp(s)] = Nothing]
           /\ EndRename(s, "250")
  <2>1. dir' \in [AllNames -> 0..used] /\ dir'[name] = session[s].file
    BY <1>1, <1>2, <1>4 DEF Types, Nothing
  <2>2. /\ session' \in [Sessions -> SessionStates] /\ Only(s) /\ SameCommand(s)
        /\ session'[s].at = "idle"
    <3>1. "250" \in Codes
      BY DEF Codes
    <3> QED BY <1>1, <1>4, <3>1, RenameEnded
  <2>3. RenameFits(s)'
    BY <1>2, <2>1, <2>2 DEF RenameFits, SameCommand
  <2> QED BY <1>1, <1>2, <2>1, <2>2, <2>3, RenameSettles
<1> QED BY <1>3, <1>4 DEF RenameBack
-----------------------------------------------------------------------------
(* The process is killed, or nothing happens.                              *)

\* A kill leaves of every session what its last command was about.
LEMMA KillKeeps ==
  ASSUME FileInv, Kill PROVE FileInv'
<1>1. Types /\ UNCHANGED <<dir, data, used, commands>>
  BY DEF FileInv, Kill
<1> DEFINE code(s) == IF session[s].at = "idle" THEN session[s].code ELSE "killed"
           offset == -1
           r(s) == [session[s] EXCEPT !.at = "idle", !.offset = offset, !.renameFrom = NoName,
                                      !.code = code(s)]
<1>2. session' = [s \in Sessions |-> r(s)]
  BY DEF Kill
<1>3. ASSUME NEW s \in Sessions
      PROVE  /\ r(s) \in SessionStates /\ r(s).at = "idle" /\ r(s).cmd = session[s].cmd
             /\ r(s).file = session[s].file /\ r(s).start = session[s].start
             /\ r(s).io = session[s].io
  <2>1. session[s] \in SessionStates /\ "idle" \in Points /\ NoName \in Names \union {NoName}
        /\ offset \in Int
    BY <1>1 DEF Types, Points
  <2>2. code(s) \in Codes
    BY <2>1 DEF SessionStates, Codes
  <2> HIDE DEF code, offset
  <2>3. r(s) \in SessionStates
    BY <2>1, <2>2 DEF SessionStates
  <2> QED BY <2>1, <2>3 DEF SessionStates
<1> HIDE DEF r
<1>4. Types'
  BY <1>1, <1>2, <1>3 DEF Types
<1>5. ASSUME NEW s \in Sessions PROVE Fits(s)'
  <2>1. /\ session'[s].at = "idle" /\ session'[s].cmd = session[s].cmd
        /\ session'[s].file = session[s].file /\ session'[s].start = session[s].start
        /\ session'[s].io = session[s].io
    BY <1>2, <1>3
  <2>2. Fits(s)
    BY DEF FileInv
  <2>3. PointFits(s)' /\ DownloadFits(s)' /\ UploadFits(s)'
    BY <1>1, <2>1, <2>2 DEF Fits, PointFits, DownloadFits, UploadFits, Me
  <2>4. RenameFits(s)'
    <3>1. session[s].at # "idle" => Temp(s) \in AllNames
      BY <1>1, <2>2, TempIsNew
    <3>2. session[s].at \in Points
      BY <1>1 DEF Types, SessionStates
    <3>3. session[s].cmd = "RNTO" =>
            session[s].at \in {"idle", "temp", "away", "deleteFrom", "back"}
      BY <2>2, <3>2 DEF Fits, PointFits, Points, Stores
    <3> QED BY <1>1, <2>1, <2>2, <3>1, <3>3 DEF Fits, RenameFits, AllNames
  <2> QED BY <2>3, <2>4 DEF Fits
<1> QED BY <1>4, <1>5 DEF FileInv

\* A step that changes nothing.
LEMMA RestKept ==
  ASSUME FileInv, UNCHANGED vars PROVE FileInv'
<1>1. Types /\ Types'
  BY DEF FileInv, Types, vars
<1>2. commands' \in 0..MaxCommands /\ commands' = commands /\ UNCHANGED <<dir, data, used, session>>
  BY <1>1 DEF vars, Types
<1>3. commands <= commands'
  BY <1>2
<1>4. ASSUME NEW s \in Sessions PROVE Fits(s)'
  BY <1>1, <1>2, <1>3, StillFits DEF FileInv
<1> QED BY <1>1, <1>4 DEF FileInv
-----------------------------------------------------------------------------
(* The beginning.                                                          *)

\* There is a file for each name.
LEMMA FirstFiles == FirstFile \in [Names -> 1..Cardinality(Names)]
<1> DEFINE T == 1..Cardinality(Names)
           One(file) == \A m, n \in Names : m # n => file[m] # file[n]
<1>1. ExistsBijection(T, Names)
  BY FileBounds, FS_CardinalityType
<1>2. ExistsBijection(Names, T)
  BY <1>1, Fun_ExistsBijSymmetric
<1>3. PICK F \in Bijection(Names, T) : TRUE
  BY <1>2 DEF ExistsBijection
<1> HIDE DEF T
<1>4. F \in [Names -> T] /\ \A m, n \in Names : F[m] = F[n] => m = n
  BY <1>3, Fun_BijectionProperties
<1>5. One(F)
  BY <1>4
<1> HIDE DEF One
<1>6. (CHOOSE file \in [Names -> T] : One(file)) \in [Names -> T]
  BY <1>4, <1>5
<1> QED BY <1>6 DEF FirstFile, T, One

\* At first no session has begun a command, and the first files are different.
LEMMA FileInit ==
  ASSUME Init PROVE FileInv
<1>1. PICK present \in SUBSET Names, length \in 0..2 :
        /\ dir = [n \in AllNames |-> IF n \in present THEN FirstFile[n] ELSE Nothing]
        /\ data = [f \in Files |-> IF f <= Cardinality(Names) THEN [i \in 1..length |-> 0]
                                   ELSE <<>>]
  BY DEF Init
<1> DEFINE c == Cardinality(Names)
<1>2. c \in Nat /\ MaxCommands \in Nat /\ used = c /\ commands = 0 /\ Files \subseteq Nat
  BY Counted DEF Init, Files
<1>3. FirstFile \in [Names -> 1..c]
  BY FirstFiles
<1>4. NewSession \in SessionStates
  <2> DEFINE M1 == -1
             F1 == FALSE
             empty == <<>>
  <2>1. M1 \in Int /\ F1 \in BOOLEAN /\ empty \in Seq(Int)
    OBVIOUS
  <2>2. NoName \in Names \union {NoName} /\ Nothing \in Nat /\ 0 \in 0..MaxCommands
        /\ "idle" \in Points /\ "none" \in Commands /\ "none" \in Codes /\ 0 \in Nat
    BY <1>2 DEF Nothing, Points, Commands, Codes
  <2>3. NewSession = [at |-> "idle", offset |-> M1, start |-> 0, renameFrom |-> NoName,
                      cmd |-> "none", name |-> NoName, number |-> 0, file |-> Nothing,
                      pos |-> 0, append |-> F1, old |-> empty, io |-> empty, code |-> "none"]
    BY DEF NewSession
  <2> HIDE DEF M1, F1, empty
  <2> QED BY <2>1, <2>2, <2>3 DEF SessionStates
<1>5. dir \in [AllNames -> 0..used]
  <2> HIDE DEF c
  <2>1. \A n \in AllNames : (IF n \in present THEN FirstFile[n] ELSE Nothing) \in 0..c
    BY <1>2, <1>3 DEF Nothing
  <2> QED BY <1>1, <1>2, <2>1
<1>6. data \in [Files -> Seq(Int)] /\ \A file \in Files : file > used => data[file] = <<>>
  <2> DEFINE zeros == [i \in 1..length |-> 0]
             empty == <<>>
  <2>1. zeros \in Seq(Int) /\ empty \in Seq(Int)
    OBVIOUS
  <2>2. data = [f \in Files |-> IF f <= c THEN zeros ELSE empty]
    BY <1>1
  <2>3. empty = <<>>
    OBVIOUS
  <2> HIDE DEF zeros, empty, c
  <2>4. \A f \in Files : f > c => ~(f <= c)
    BY <1>2
  <2> QED BY <1>2, <2>1, <2>2, <2>3, <2>4
<1>7. used \in Nat /\ commands \in 0..MaxCommands /\ used <= c + commands
  <2> HIDE DEF c
  <2> QED BY <1>2
<1>8. Types
  BY <1>4, <1>5, <1>6, <1>7 DEF Init, Types
<1>9. ASSUME NEW s \in Sessions PROVE Fits(s)
  <2>1. /\ session[s].at = "idle" /\ session[s].cmd = "none" /\ session[s].file = Nothing
    BY DEF Init, NewSession
  <2>2. Nothing <= used
    BY <1>7 DEF Nothing
  <2>3. PointFits(s)
    BY <2>1, <2>2 DEF PointFits, Me
  <2>4. DownloadFits(s) /\ UploadFits(s) /\ RenameFits(s)
    BY <2>1 DEF DownloadFits, UploadFits, RenameFits, Stores
  <2> QED BY <2>3, <2>4 DEF Fits
<1> QED BY <1>8, <1>9 DEF FileInv
-----------------------------------------------------------------------------
(* The theorems.                                                           *)

\* Every step keeps the invariant.
LEMMA FileStep ==
  ASSUME OneUser, FileInv, [Next]_vars PROVE FileInv'
<1>1. ASSUME NEW s \in Sessions, REST(s) \/ \E name \in Names : DELE(s, name) PROVE FileInv'
  BY <1>1, RestKeeps, DeleKeeps
<1>2. ASSUME NEW s \in Sessions, Store(s) PROVE FileInv'
  BY <1>2, BeginKeeps, CheckKeeps, DeleteKeeps, OpenWriteKeeps, ReceiveKeeps DEF Store
<1>3. ASSUME NEW s \in Sessions, Retrieve(s) PROVE FileInv'
  BY <1>3, BeginKeeps, OpenReadKeeps, SendKeeps, CheckKeeps DEF Retrieve
<1>4. ASSUME NEW s \in Sessions, ConnectData(s) PROVE FileInv'
  BY <1>4, CheckKeeps
<1>5. ASSUME NEW s \in Sessions, Rename(s) PROVE FileInv'
  BY <1>5, FromKeeps, BeginKeeps, MakeTempKeeps, AwayKeeps, BackKeeps DEF Rename
<1> QED BY <1>1, <1>2, <1>3, <1>4, <1>5, KillKeeps, RestKept DEF Next

\* With one user at work, and any number of guests, the sessions and the files stay
\* as FileInv describes them.
THEOREM FileInvariant ==
  ASSUME OneUser PROVE Spec => []FileInv
<1>1. Init => FileInv
  BY FileInit
<1>2. FileInv /\ [Next]_vars => FileInv'
  BY FileStep
<1> QED BY <1>1, <1>2, PTL DEF Spec

\* RETR: what a guest or the user has been sent is part of the file as it is now, from
\* the offset on: no download mixes two versions of a file, whatever else is going on.
THEOREM DownloadsAreConsistent ==
  ASSUME OneUser PROVE Spec => []DownloadIsOneVersion
<1>1. FileInv => DownloadIsOneVersion
  BY DEF FileInv, Fits, DownloadFits, DownloadIsOneVersion
<1> QED BY <1>1, FileInvariant, PTL

\* RNTO: wherever it fails or is killed, the file it renames has a name.
THEOREM RenamedIsNotLost ==
  ASSUME OneUser PROVE Spec => []RenameKeepsFile
<1>1. ASSUME FileInv PROVE RenameKeepsFile
  <2> SUFFICES ASSUME NEW s \in Sessions, session[s].cmd = "RNTO", session[s].file # Nothing
               PROVE  \E name \in AllNames : dir[name] = session[s].file
    BY DEF RenameKeepsFile
  <2>1. Types /\ Fits(s)
    BY <1>1 DEF FileInv
  <2>2. session[s].at \in Points
    BY <2>1 DEF Types, SessionStates
  <2>3. session[s].at \in {"idle", "temp", "away", "deleteFrom", "back"}
    BY <2>1, <2>2 DEF Fits, PointFits, Points, Stores
  <2>4. session[s].at # "idle" => Temp(s) \in AllNames
    BY <2>1, TempIsNew
  <2> QED BY <2>1, <2>3, <2>4 DEF Fits, RenameFits, AllNames
<1> QED BY <1>1, FileInvariant, PTL

\* STOR and APPE: when an upload is confirmed, its name has what the client sent.
THEOREM ConfirmedIsStored ==
  ASSUME OneUser PROVE Spec => UploadIsStored
<1> DEFINE Stored(s) ==
      LET bytes == ContentOf(session[s].name)
          start == session[s].start
      IN  IF session[s].cmd = "APPE"
          THEN bytes = session[s].old \o session[s].io
          ELSE SubSeq(bytes, start + 1, Len(bytes)) = session[s].io
<1>1. ASSUME FileInv, NEW s \in Sessions, Me(s, "receive") PROVE Stored(s)
  <2> DEFINE name == session[s].name
             file == session[s].file
             bytes == data[file]
             start == session[s].start
             io == session[s].io
  <2>1. Types /\ PointFits(s) /\ UploadFits(s) /\ session[s] \in SessionStates
    BY <1>1 DEF FileInv, Fits, Types
  <2>2. name \in AllNames /\ dir[name] = file /\ file # Nothing /\ Written(s)
        /\ session[s].cmd \in Stores
    BY <1>1, <2>1 DEF Me, PointFits, UploadFits, AllNames
  <2>3. file \in Files /\ bytes \in Seq(Int) /\ start \in Nat /\ io \in Seq(Int)
    BY <2>1, <2>2, Made DEF Types, SessionStates
  <2>4. ContentOf(name) = bytes
    BY <2>2 DEF ContentOf, FileOf
  <2>5. CASE session[s].cmd = "APPE"
    BY <2>2, <2>4, <2>5 DEF Written
  <2>6. CASE session[s].cmd # "APPE"
    <3>1. IF io = <<>> THEN bytes = <<>>
          ELSE Len(bytes) = start + Len(io) /\ \A i \in 1..Len(io) : bytes[start + i] = io[i]
      BY <2>2, <2>6 DEF Written
    <3> HIDE DEF bytes, start, io
    <3>2. SubSeq(bytes, start + 1, Len(bytes)) = io
      <4>1. CASE io = <<>>
        <5>1. Len(bytes) = 0
          BY <3>1, <4>1
        <5>2. \A m, n \in Int : m > n => SubSeq(bytes, m, n) = <<>>
          BY SubSeqEmpty
        <5> QED BY <2>3, <4>1, <5>1, <5>2
      <4>2. CASE io # <<>>
        <5> DEFINE part == SubSeq(bytes, start + 1, Len(bytes))
                   n == Len(io)
        <5>1. n \in Nat /\ n # 0 /\ Len(bytes) = start + n
          BY <2>3, <3>1, <4>2, EmptySeq, LenProperties
        <5>2. start + 1 \in 1..(Len(bytes) + 1) /\ Len(bytes) \in start..Len(bytes)
          BY <2>3, <5>1
        <5>3. /\ part \in Seq(Int) /\ Len(part) = n
              /\ \A i \in 1..n : part[i] = bytes[start + i]
          BY <2>3, <5>1, <5>2
        <5> HIDE DEF part
        <5> QED BY <2>3, <3>1, <4>2, <5>1, <5>3, SeqEqual DEF part
      <4> QED BY <4>1, <4>2
    <3> QED BY <2>4, <2>6, <3>2 DEF bytes, start, io
  <2> QED BY <2>5, <2>6
<1>2. FileInv => [\A s \in Sessions : UploadConfirmed(s) => Stored(s)]_vars
  BY <1>1 DEF UploadConfirmed
<1> QED BY <1>2, FileInvariant, PTL DEF UploadIsStored
=============================================================================
