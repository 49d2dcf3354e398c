----------------------------- MODULE FileStore -----------------------------
(***************************************************************************)
(* The files behind the FTP commands REST, STOR, APPE, RETR, DELE, RNFR    *)
(* and RNTO, for sessions that run at the same time. Each call of the file *)
(* system is a step of its own: a directory maps names to files, a file    *)
(* that has lost its name lives on for those who have it open, and the     *)
(* process may be killed between two steps.                                *)
(*                                                                         *)
(* A byte is the number of the command that wrote it, 0 for those that     *)
(* were there before; Hole is what a seek past the end leaves behind.      *)
(* Directories, paths and permissions are left out. The transfers are in   *)
(* binary mode (AsciiTransfer has the other), and how their connection may *)
(* fail is in DataConnection: here they just do.                           *)
(***************************************************************************)
EXTENDS Integers, Sequences, FiniteSets

CONSTANTS
  Sessions,
  Users,        \* the sessions logged in with the password; the others are guests
  Names,        \* the names that commands use
  MaxCommands,  \* bound: commands, all sessions together
  MaxLength,    \* bound: bytes of a file, and the offsets of REST
  MaxKills      \* bound: kills of the process

ASSUME FileBounds ==
  /\ Users \subseteq Sessions /\ IsFiniteSet(Names)
  /\ MaxCommands \in Nat /\ MaxLength \in Nat /\ MaxKills \in Nat

VARIABLES
  dir,      \* the file of each name, or Nothing
  data,     \* the bytes of each file
  used,     \* files made so far
  session,  \* each session: control point, SessionThread's fields, the locals of the
            \* command, and the command's last reply
  commands, kills

vars == <<dir, data, used, session, commands, kills>>

Nothing == 0
Hole == -1
Files == 1..(Cardinality(Names) + 2 * MaxCommands)
\* File.createTempFile never returns a name that is there, nor one that a client uses.
TempName(n) == <<"temp", n>>
ASSUME TempNamesAreNew == \A n \in 1..MaxCommands : TempName(n) \notin Names
AllNames == Names \union {TempName(n) : n \in 1..MaxCommands}
NoName == <<"null">>

\* allowedCmdsWhileAnonymous, for the commands of this module.
GuestCommands == {"RETR"}
UserCommands == {"REST", "STOR", "APPE", "RETR", "DELE", "RNFR", "RNTO"}
Allowed(s) == IF s \in Users THEN UserCommands ELSE GuestCommands

\* offset: bytes that REST asked to skip, -1 before any; old: what the name held when
\* the command began; start: where the command starts in the file; io: bytes received
\* or sent; file: the file under way.
NewSession == [at |-> "idle", offset |-> -1, start |-> 0, renameFrom |-> NoName, cmd |-> "none",
               name |-> NoName, number |-> 0, file |-> Nothing, pos |-> 0,
               append |-> FALSE, old |-> <<>>, io |-> <<>>, code |-> "none"]

StartOf(offset) == IF offset > 0 THEN offset ELSE 0
Me(s, point) == session[s].at = point
Goto(s, point) == session' = [session EXCEPT ![s].at = point]
\* The command ends with this reply.
End(s, code) == session' = [session EXCEPT ![s].at = "idle", ![s].code = code]
FileOf(name) == IF name \in AllNames THEN dir[name] ELSE Nothing
ContentOf(name) == IF FileOf(name) = Nothing THEN <<>> ELSE data[dir[name]]
Link(name, file) == dir' = [dir EXCEPT ![name] = file]
-----------------------------------------------------------------------------
Begin(s, cmd, name, point) ==
  /\ Me(s, "idle") /\ cmd \in Allowed(s) /\ commands < MaxCommands
  /\ commands' = commands + 1
  /\ session' = [session EXCEPT ![s] =
       [NewSession EXCEPT !.at = point, !.offset = session[s].offset,
          !.start = StartOf(session[s].offset), !.renameFrom = session[s].renameFrom, !.cmd = cmd, !.name = name,
          !.number = commands + 1, !.append = (cmd = "APPE"), !.old = ContentOf(name)]]
  /\ UNCHANGED <<dir, data, used, kills>>

\* REST: the offset stays for every later transfer.
REST(s) ==
  /\ Me(s, "idle") /\ "REST" \in Allowed(s) /\ commands < MaxCommands
  /\ commands' = commands + 1
  /\ \E n \in 0..MaxLength :
       session' = [session EXCEPT ![s].offset = n, ![s].cmd = "REST", ![s].code = "350"]
  /\ UNCHANGED <<dir, data, used, kills>>

DELE(s, name) ==
  /\ Me(s, "idle") /\ "DELE" \in Allowed(s) /\ commands < MaxCommands
  /\ commands' = commands + 1
  /\ Link(name, Nothing)
  /\ session' = [session EXCEPT ![s].cmd = "DELE",
                   ![s].code = IF dir[name] = Nothing THEN "450" ELSE "250"]
  /\ UNCHANGED <<data, used, kills>>

RNFR(s, name) ==
  /\ Me(s, "idle") /\ "RNFR" \in Allowed(s) /\ commands < MaxCommands
  /\ commands' = commands + 1
  /\ session' = [session EXCEPT ![s].cmd = "RNFR",
                   ![s].renameFrom = IF dir[name] = Nothing THEN NoName ELSE name,
                   ![s].code = IF dir[name] = Nothing THEN "450" ELSE "350"]
  /\ UNCHANGED <<dir, data, used, kills>>
-----------------------------------------------------------------------------
(* STOR and APPE: doStorOrAppe.                                            *)

STOR(s, name) == Begin(s, "STOR", name, "offset")
APPE(s, name) == Begin(s, "APPE", name, "offset")

CheckOffset(s) ==
  /\ Me(s, "offset")
  /\ IF session[s].offset >= 0 /\ session[s].append THEN End(s, "555") ELSE Goto(s, "exists")
  /\ UNCHANGED <<dir, data, used, commands, kills>>

CheckExists(s) ==
  /\ Me(s, "exists")
  /\ Goto(s, IF FileOf(session[s].name) # Nothing /\ ~session[s].append THEN "delete" ELSE "open")
  /\ UNCHANGED <<dir, data, used, commands, kills>>

DeleteExisting_Not(s) == UNCHANGED dir
DeleteExisting(s) == Link(session[s].name, Nothing)

DeleteOld(s) ==
  /\ Me(s, "delete")
  /\ IF FileOf(session[s].name) = Nothing
     THEN End(s, "451") /\ UNCHANGED dir
     ELSE DeleteExisting(s) /\ Goto(s, "open")
  /\ UNCHANGED <<data, used, commands, kills>>

\* FileOutputStream(file, append) truncates unless it appends; the RandomAccessFile
\* does neither, and starts at the offset.
Truncates_Always(s) == TRUE
Truncates(s) == session[s].offset <= 0 /\ ~session[s].append
Appends(s) ==
  \/ session[s].offset <= 0 /\ session[s].append
  \/ session[s].offset > 0 /\ session[s].offset = Len(ContentOf(session[s].name))

OpenToWrite(s) ==
  LET name == session[s].name
      file == IF dir[name] = Nothing THEN used + 1 ELSE dir[name]
  IN  /\ Me(s, "open") /\ session[s].cmd # "RETR"
      /\ \/ /\ Link(name, file)
            /\ used' = IF file > used THEN file ELSE used
            /\ data' = [data EXCEPT ![file] = IF Truncates(s) THEN <<>> ELSE @]
            /\ session' = [session EXCEPT ![s].at = "connect", ![s].file = file,
                             ![s].append = Appends(s),
                             ![s].pos = StartOf(session[s].offset)]
         \/ End(s, "451") /\ UNCHANGED <<dir, data, used>>
      /\ UNCHANGED <<commands, kills>>

\* startUsingDataSocket: on failure the opened file stays, emptied already.
ConnectData(s) ==
  /\ Me(s, "connect")
  /\ Goto(s, IF session[s].cmd = "RETR" THEN "send" ELSE "receive") \/ End(s, "425")
  /\ UNCHANGED <<dir, data, used, commands, kills>>

\* write(2) at a position: a gap before it reads as a hole.
WrittenAt(bytes, pos, byte) ==
  [i \in 1..(IF Len(bytes) > pos THEN Len(bytes) ELSE pos + 1) |->
     IF i = pos + 1 THEN byte ELSE IF i <= Len(bytes) THEN bytes[i] ELSE Hole]

ReceiveByte(s) ==
  LET file == session[s].file
      pos  == IF session[s].append THEN Len(data[file]) ELSE session[s].pos
  IN  /\ Me(s, "receive") /\ pos < MaxLength
      /\ data' = [data EXCEPT ![file] = WrittenAt(@, pos, session[s].number)]
      /\ session' = [session EXCEPT ![s].pos = pos + 1, ![s].io = Append(@, session[s].number)]
      /\ UNCHANGED <<dir, used, commands, kills>>

\* No data remain; or the connection or the file fails, and what was written stays.
ReceiveEnds(s) ==
  /\ Me(s, "receive")
  /\ \E code \in {"226", "425", "426", "451"} : End(s, code)
  /\ UNCHANGED <<dir, data, used, commands, kills>>

Store(s) ==
  \/ \E name \in Names : STOR(s, name) \/ APPE(s, name)
  \/ CheckOffset(s) \/ CheckExists(s) \/ DeleteOld(s) \/ OpenToWrite(s)
  \/ ReceiveByte(s) \/ ReceiveEnds(s)
-----------------------------------------------------------------------------
(* RETR.                                                                   *)

RETR(s, name) == Begin(s, "RETR", name, "open")

\* The existence test and the opening both give 550 for a file that is not there.
OpenToRead(s) ==
  /\ Me(s, "open") /\ session[s].cmd = "RETR"
  /\ IF FileOf(session[s].name) = Nothing
     THEN End(s, "550")
     ELSE session' = [session EXCEPT ![s].at = "connect", ![s].file = dir[session[s].name],
                        ![s].pos = StartOf(session[s].offset)]
  /\ UNCHANGED <<dir, data, used, commands, kills>>

SendByte(s) ==
  LET pos == session[s].pos IN
  /\ Me(s, "send") /\ pos < Len(data[session[s].file])
  /\ session' = [session EXCEPT ![s].pos = pos + 1,
                   ![s].io = Append(@, data[session[s].file][pos + 1])]
  /\ UNCHANGED <<dir, data, used, commands, kills>>

SendEnds(s) ==
  /\ Me(s, "send")
  /\ \/ session[s].pos >= Len(data[session[s].file]) /\ End(s, "226")
     \/ \E code \in {"425", "426"} : End(s, code)
  /\ UNCHANGED <<dir, data, used, commands, kills>>

Retrieve(s) ==
  \/ \E name \in Names : RETR(s, name)
  \/ OpenToRead(s) \/ SendByte(s) \/ SendEnds(s)
-----------------------------------------------------------------------------
(* RNTO: by way of a temporary file in the working directory.              *)

EndRename(s, code) ==
  session' = [session EXCEPT ![s].at = "idle", ![s].code = code, ![s].renameFrom = NoName]

From(s) == session[s].renameFrom
Temp(s) == TempName(session[s].number)

RNTO(s, name) == Begin(s, "RNTO", name, "temp")

MakeTemp(s) ==
  /\ Me(s, "temp")
  /\ \/ /\ From(s) # NoName
        /\ Link(Temp(s), used + 1) /\ used' = used + 1
        /\ session' = [session EXCEPT ![s].at = "away", ![s].file = FileOf(From(s))]
     \/ EndRename(s, "550") /\ UNCHANGED <<dir, used>>
  /\ UNCHANGED <<data, commands, kills>>

\* A failed rename leaves the empty temporary file there.
MoveAway_Copied(s) == [dir EXCEPT ![From(s)] = Nothing]
MoveAway(s) == [dir EXCEPT ![Temp(s)] = dir[From(s)], ![From(s)] = Nothing]

RenameAway(s) ==
  /\ Me(s, "away")
  /\ \/ dir[From(s)] # Nothing /\ dir' = MoveAway(s) /\ Goto(s, "deleteFrom")
     \/ EndRename(s, "550") /\ UNCHANGED dir
  /\ UNCHANGED <<data, used, commands, kills>>

DeleteFrom(s) ==
  /\ Me(s, "deleteFrom")
  /\ Link(From(s), Nothing)
  /\ Goto(s, "back")
  /\ UNCHANGED <<data, used, commands, kills>>

\* A failure leaves the file under its temporary name.
RenameBack(s) ==
  /\ Me(s, "back")
  /\ \/ /\ dir[Temp(s)] # Nothing
        /\ dir' = [dir EXCEPT ![session[s].name] = dir[Temp(s)], ![Temp(s)] = Nothing]
        /\ EndRename(s, "250")
     \/ EndRename(s, "550") /\ UNCHANGED dir
  /\ UNCHANGED <<data, used, commands, kills>>

Rename(s) ==
  \/ \E name \in Names : RNFR(s, name) \/ RNTO(s, name)
  \/ MakeTemp(s) \/ RenameAway(s) \/ DeleteFrom(s) \/ RenameBack(s)
-----------------------------------------------------------------------------
\* The process is killed: sessions are gone, files stay. What the last command of a
\* session was about is kept for the properties.
Kill ==
  /\ kills < MaxKills /\ kills' = kills + 1
  /\ session' = [s \in Sessions |-> [session[s] EXCEPT !.at = "idle", !.offset = -1,
                                       !.renameFrom = NoName,
                                       !.code = IF session[s].at = "idle" THEN @ ELSE "killed"]]
  /\ UNCHANGED <<dir, data, used, commands>>

FirstFile == CHOOSE file \in [Names -> 1..Cardinality(Names)] :
               \A m, n \in Names : m # n => file[m] # file[n]

\* Before the server starts, each name has a file of up to two bytes, or none.
Init ==
  /\ \E present \in SUBSET Names, length \in 0..2 :
       /\ length <= MaxLength
       /\ dir = [n \in AllNames |-> IF n \in present THEN FirstFile[n] ELSE Nothing]
       /\ data = [f \in Files |-> IF f <= Cardinality(Names) THEN [i \in 1..length |-> 0] ELSE <<>>]
  /\ used = Cardinality(Names)
  /\ session = [s \in Sessions |-> NewSession]
  /\ commands = 0 /\ kills = 0

Next ==
  \/ \E s \in Sessions :
       \/ REST(s) \/ \E name \in Names : DELE(s, name)
       \/ Store(s) \/ Retrieve(s) \/ ConnectData(s) \/ Rename(s)
  \/ Kill

Spec == Init /\ [][Next]_vars
-----------------------------------------------------------------------------
\* part is what bytes has from start on, for its length.
HasAt(bytes, start, part) ==
  \A i \in DOMAIN part : start + i <= Len(bytes) /\ bytes[start + i] = part[i]

\* The step that ends a confirmed upload of session s.
UploadConfirmed(s) ==
  Me(s, "receive") /\ session'[s].at = "idle" /\ session'[s].code = "226"

\* What RETR sends is one version of the file, from the offset on: while another
\* session stores, renames or deletes the same name, no download mixes two versions.
DownloadIsOneVersion ==
  \A s \in Sessions : (session[s].cmd = "RETR" /\ session[s].file # Nothing) =>
    HasAt(data[session[s].file], session[s].start, session[s].io)

\* 226 after an upload: in the step that ends it the name has exactly what the client
\* sent, from the offset on, after what was there before if it was an APPE. (One user;
\* two that store to one name at once can truncate each other's file.)
UploadIsStored ==
  [][\A s \in Sessions : UploadConfirmed(s) =>
       LET bytes == ContentOf(session[s].name)
           start == session[s].start
       IN  IF session[s].cmd = "APPE"
           THEN bytes = session[s].old \o session[s].io
           ELSE SubSeq(bytes, start + 1, Len(bytes)) = session[s].io]_vars

\* From RNTO's first step on, after any failure or kill in between, and until the
\* session's next command, the file that was renamed still has a name: the old, the
\* temporary or the new one.
RenameKeepsFile ==
  \A s \in Sessions : (session[s].cmd = "RNTO" /\ session[s].file # Nothing) =>
    \E name \in AllNames : dir[name] = session[s].file
=============================================================================
