--------------------------- MODULE DataConnection ---------------------------
(***************************************************************************)
(* The data connection of one FTP session: SessionThread and               *)
(* LocalDataSocket, driven by PASV, PORT, STOR/APPE, RETR, LIST and QUIT.  *)
(*                                                                         *)
(* Two threads share the unsynchronized fields dataSocket and              *)
(* dataOutputStream: the session thread, and the closer, which is the      *)
(* server thread in FsService.terminateAllSessions. Every read and write   *)
(* of a shared field is a step of its own; a method called through a field *)
(* that is null throws, and on Android an exception that no one catches    *)
(* ends the process (crashed).                                             *)
(*                                                                         *)
(* The client is external. PASV and PORT commands are numbered: an         *)
(* announcement stands for the port it names. Data sockets are numbered in *)
(* the order of the transfers. Files are left out, but for their failures. *)
(***************************************************************************)
EXTENDS Naturals, FiniteSets

CONSTANTS
  MaxLines,          \* bound: command lines the client ever sends
  MaxAnnouncements,  \* bound: PASV and PORT commands
  MaxTransfers,      \* bound: data sockets ever opened
  UploadChunks,      \* bound: chunks the client sends on one data socket
  FileChunks,        \* chunks of the file that RETR sends
  SoTimeoutMayFail   \* whether Socket.setSoTimeout may throw

ASSUME DataBounds ==
  /\ MaxLines \in Nat /\ MaxAnnouncements \in Nat /\ MaxTransfers \in Nat
  /\ UploadChunks \in Nat /\ FileChunks \in Nat \ {0}
  /\ SoTimeoutMayFail \in BOOLEAN

Announcements == 1..MaxAnnouncements
DataSockets == 1..MaxTransfers
Nothing == 0      \* null, or no announcement

VARIABLES
  lines,            \* command lines sent and not yet read
  linesSent,
  cmdSocket,        \* the command socket: open, gone (left by the client), closed
  local,            \* the LocalDataSocket: [server, remoteAddr, listening]
  announced,        \* the last PASV or PORT that was accepted
  backlog,          \* listening sockets with a client waiting to be accepted
  dataSocket,       \* SessionThread.dataSocket
  dataOutputStream, \* SessionThread.dataOutputStream, as the socket it writes to
  socket,           \* each data socket, on this side (here) and the client's: how it
                    \* was made (mode, via), chunks sent and got, room to write
  transfer,         \* the command under way: [cmd, binary, on, done, code]
  at,               \* control point of each thread
  crashed,          \* an uncaught exception has ended the process
  found             \* the data socket that the closer found and has yet to close

commandVars == <<lines, linesSent, cmdSocket>>
localVars == <<local, announced, backlog>>
fieldVars == <<dataSocket, dataOutputStream>>
vars == <<lines, linesSent, cmdSocket, local, announced, backlog, dataSocket,
          dataOutputStream, socket, transfer, at, crashed, found>>

Uploads == {"STOR"}
Downloads == {"RETR", "LIST"}
Chunks(cmd) == IF cmd = "RETR" THEN FileChunks ELSE 1

SessionPoints == {"read", "transfer", "check", "stream", "receive", "connected", "input",
                  "reading", "send", "write", "writing", "reply", "ended"}
ClosePoints == {"testStream", "closeStream", "clearStream",
                "testSocket", "closeSocket", "clearSocket"}
CloserPoints == {"idle", "command", "done"}
TransferPoints == SessionPoints \ {"read", "reply", "ended"}

Unopened == [here |-> "none", client |-> "up", mode |-> "PASV", via |-> Nothing,
             sent |-> 0, got |-> 0, room |-> TRUE]
NoTransfer == [cmd |-> "none", binary |-> TRUE, on |-> Nothing, done |-> 0, code |-> "none"]

Here(point) == at["session"] = point
Goto(t, point) == at' = [at EXCEPT ![t] = point]
Crash == crashed' = TRUE /\ UNCHANGED at
Opened == {k \in DataSockets : socket[k].here # "none"}
Open == {k \in DataSockets : socket[k].here = "open"}
-----------------------------------------------------------------------------
(* LocalDataSocket. "listening" are the server sockets not yet closed.     *)

clearState == [server |-> Nothing, remoteAddr |-> Nothing,
               listening |-> local.listening \ {local.server}]

onPasv_WithoutClearState(n) ==
  [server |-> n, remoteAddr |-> Nothing, listening |-> local.listening \union {n}]
onPasv(n) ==
  [server |-> n, remoteAddr |-> Nothing, listening |-> clearState.listening \union {n}]

onPort_WithoutClearState(n) ==
  [server |-> local.server, remoteAddr |-> n, listening |-> local.listening]
onPort(n) ==
  [server |-> Nothing, remoteAddr |-> n, listening |-> clearState.listening]

\* The server socket is closed: whoever waited in its backlog is dropped.
SetLocal(state) == local' = state /\ backlog' = backlog \intersect state.listening
-----------------------------------------------------------------------------
(* The client (external).                                                  *)

SendLine ==
  /\ cmdSocket = "open" /\ linesSent < MaxLines
  /\ lines' = lines + 1 /\ linesSent' = linesSent + 1
  /\ UNCHANGED <<cmdSocket, localVars, fieldVars, socket, transfer, at, crashed, found>>

LeaveCommandConnection ==
  /\ cmdSocket = "open"
  /\ cmdSocket' = "gone"
  /\ UNCHANGED <<lines, linesSent, localVars, fieldVars, socket, transfer, at, crashed, found>>

Connect(n) ==
  /\ n \in local.listening \ backlog
  /\ backlog' = backlog \union {n}
  /\ UNCHANGED <<commandVars, local, announced, fieldVars, socket, transfer, at, crashed, found>>

SetSocket(k, state) ==
  /\ socket' = [socket EXCEPT ![k] = state]
  /\ UNCHANGED <<commandVars, localVars, fieldVars, transfer, at, crashed, found>>

SendChunk(k) ==
  /\ socket[k].here = "open" /\ socket[k].client = "up" /\ socket[k].sent < UploadChunks
  /\ SetSocket(k, [socket[k] EXCEPT !.sent = @ + 1])

\* Finishing is an orderly close after everything was sent, giving up is not.
Finish(k) ==
  /\ socket[k].here = "open" /\ socket[k].client = "up"
  /\ SetSocket(k, [socket[k] EXCEPT !.client = "finished"])

GiveUp(k) ==
  /\ socket[k].here = "open" /\ socket[k].client = "up"
  /\ SetSocket(k, [socket[k] EXCEPT !.client = "reset"])

\* The client takes what was written, and the window opens again.
Drain(k) ==
  /\ socket[k].here = "open" /\ ~socket[k].room
  /\ SetSocket(k, [socket[k] EXCEPT !.room = TRUE])

ClientStep ==
  \/ SendLine \/ LeaveCommandConnection
  \/ \E n \in Announcements : Connect(n)
  \/ \E k \in DataSockets : SendChunk(k) \/ Finish(k) \/ GiveUp(k) \/ Drain(k)
-----------------------------------------------------------------------------
(* The session thread: the command loop.                                   *)

TakeLine == Here("read") /\ lines > 0 /\ lines' = lines - 1 /\ UNCHANGED linesSent

\* writeString: a write to a connection that the client left may close the socket.
Written == IF cmdSocket = "gone" THEN {"gone", "closed"} ELSE {cmdSocket}

CommandPASV ==
  /\ TakeLine /\ announced < MaxAnnouncements
  /\ announced' = announced + 1
  /\ SetLocal(onPasv(announced + 1))
  /\ cmdSocket' \in Written
  /\ UNCHANGED <<fieldVars, socket, transfer, at, crashed>>

\* The server socket cannot be made: 502, with the earlier state cleared.
CommandPASVFails ==
  /\ TakeLine
  /\ SetLocal(clearState)
  /\ cmdSocket' \in Written
  /\ UNCHANGED <<announced, fieldVars, socket, transfer, at, crashed>>

\* A malformed PORT changes nothing here, like the commands of other modules.
CommandPORT ==
  /\ TakeLine /\ announced < MaxAnnouncements
  /\ announced' = announced + 1
  /\ SetLocal(onPort(announced + 1))
  /\ cmdSocket' \in Written
  /\ UNCHANGED <<fieldVars, socket, transfer, at, crashed>>

\* A transfer command reaches its use of the data connection, or fails before on
\* the file. At its end STOR replies before closeDataSocket, the others after; a
\* LIST that fails before does not call closeDataSocket.
AfterCode(cmd) == IF cmd \in Uploads THEN "reply" ELSE "testStream"
AfterReply_WithoutClose(cmd) == "read"
AfterReply(cmd) == IF cmd \in Uploads THEN "testStream" ELSE "read"
AfterClose(cmd) == IF cmd \in Uploads THEN "read" ELSE "reply"

CommandTransfer(cmd, binary) ==
  /\ TakeLine
  /\ \/ /\ Opened # DataSockets
        /\ transfer' = [NoTransfer EXCEPT !.cmd = cmd, !.binary = binary]
        /\ Goto("session", "transfer")
     \/ /\ transfer' = [NoTransfer EXCEPT !.cmd = cmd, !.binary = binary, !.code = "550"]
        /\ Goto("session", IF cmd = "LIST" THEN "reply" ELSE AfterCode(cmd))
  /\ UNCHANGED <<cmdSocket, localVars, fieldVars, socket, crashed>>

CommandQUIT ==
  /\ TakeLine
  /\ cmdSocket' = "closed"
  /\ UNCHANGED <<localVars, fieldVars, socket, transfer, at, crashed>>

\* readLine throws on a closed socket, once the lines it has buffered are used up:
\* how many it had is not known. At the end of the stream it returns null.
CommandConnectionEnds ==
  /\ Here("read") /\ cmdSocket # "open"
  /\ cmdSocket' = "closed"
  /\ Goto("session", "ended")
  /\ UNCHANGED <<lines, linesSent, localVars, fieldVars, socket, transfer, crashed>>

Command ==
  \/ CommandPASV \/ CommandPASVFails \/ CommandPORT \/ CommandQUIT
  \/ \E cmd \in Uploads \union Downloads : CommandTransfer(cmd, TRUE)
  \/ CommandTransfer("RETR", FALSE)
  \/ CommandConnectionEnds

\* The transfer is over with this reply code.
EndWith(code) ==
  /\ transfer' = [transfer EXCEPT !.code = code]
  /\ Goto("session", AfterCode(transfer.cmd))

Reply ==
  /\ Here("reply")
  /\ cmdSocket' \in Written
  /\ Goto("session", AfterReply(transfer.cmd))
  /\ transfer' = IF AfterReply(transfer.cmd) = "read" THEN NoTransfer ELSE transfer
  /\ UNCHANGED <<lines, linesSent, localVars, fieldVars, socket, crashed>>
-----------------------------------------------------------------------------
(* The session thread: startUsingDataSocket.                               *)

NewSocket(mode, n) ==
  \E k \in DataSockets \ Opened :
    /\ \A j \in DataSockets \ Opened : k <= j
    /\ socket' = [socket EXCEPT ![k] = [Unopened EXCEPT !.here = "open", !.mode = mode, !.via = n]]
    /\ dataSocket' = k
    /\ Goto("session", "check")

onTransferNull ==
  /\ dataSocket' = Nothing
  /\ SetLocal(clearState)
  /\ Goto("session", "check")
  /\ UNCHANGED socket

\* PASV: accept waits, without a limit, for the client to connect.
onTransferAccept ==
  /\ Here("transfer") /\ local.server \in backlog
  /\ NewSocket("PASV", local.server)
  /\ SetLocal(clearState)
  /\ UNCHANGED <<commandVars, announced, dataOutputStream, transfer, crashed>>

onTransferAcceptFails ==
  /\ Here("transfer") /\ local.server # Nothing
  /\ onTransferNull
  /\ UNCHANGED <<commandVars, announced, dataOutputStream, transfer, crashed, found>>

\* PORT: the connection is made, with remoteAddr kept for a later transfer, or not.
onTransferConnect ==
  /\ Here("transfer") /\ local.server = Nothing
  /\ \/ /\ local.remoteAddr # Nothing
        /\ NewSocket("PORT", local.remoteAddr)
        /\ UNCHANGED <<local, backlog>>
     \/ onTransferNull
  /\ UNCHANGED <<commandVars, announced, dataOutputStream, transfer, crashed>>

\* setSoTimeout throws: the connected socket is dropped, still open.
onTransferNoTimeout ==
  /\ SoTimeoutMayFail
  /\ Here("transfer") /\ local.server = Nothing /\ local.remoteAddr # Nothing
  /\ \E k \in DataSockets \ Opened :
       /\ \A j \in DataSockets \ Opened : k <= j
       /\ socket' = [socket EXCEPT ![k] = [Unopened EXCEPT !.here = "open", !.mode = "PORT",
                                             !.via = local.remoteAddr]]
  /\ dataSocket' = Nothing
  /\ SetLocal(clearState)
  /\ Goto("session", "check")
  /\ UNCHANGED <<commandVars, announced, dataOutputStream, transfer, crashed>>

CheckSocket ==
  /\ Here("check")
  /\ IF dataSocket = Nothing
     THEN EndWith("425")
     ELSE Goto("session", "stream") /\ UNCHANGED transfer
  /\ UNCHANGED <<commandVars, localVars, fieldVars, socket, crashed>>

\* A closed socket has no output stream. The 150 reply follows at once.
GetOutputStream ==
  /\ Here("stream")
  /\ CASE dataSocket = Nothing ->
            Crash /\ UNCHANGED <<fieldVars, transfer, cmdSocket>>
       [] dataSocket \in Open ->
            /\ dataOutputStream' = dataSocket
            /\ Goto("session", IF transfer.cmd \in Uploads THEN "receive" ELSE "send")
            /\ cmdSocket' \in Written
            /\ UNCHANGED <<dataSocket, transfer, crashed>>
       [] OTHER ->
            /\ dataSocket' = Nothing
            /\ EndWith("425")
            /\ UNCHANGED <<dataOutputStream, cmdSocket, crashed>>
  /\ UNCHANGED <<lines, linesSent, localVars, socket>>

StartUsingDataSocket == onTransferAccept \/ onTransferConnect \/ onTransferNoTimeout
                          \/ CheckSocket \/ GetOutputStream
-----------------------------------------------------------------------------
(* The session thread: receiveFromDataSocket, called by STOR and APPE.     *)

TestDataSocket ==
  /\ Here("receive")
  /\ IF dataSocket = Nothing
     THEN EndWith("425")
     ELSE Goto("session", "connected") /\ UNCHANGED transfer
  /\ UNCHANGED <<commandVars, localVars, fieldVars, socket, crashed>>

\* Data sockets are connected when they are made, and remain so when closed.
TestConnected ==
  /\ Here("connected")
  /\ IF dataSocket = Nothing THEN Crash ELSE Goto("session", "input") /\ UNCHANGED crashed
  /\ UNCHANGED <<commandVars, localVars, fieldVars, socket, transfer>>

GetInputStream ==
  /\ Here("input")
  /\ CASE dataSocket = Nothing -> Crash /\ UNCHANGED transfer
       [] dataSocket \in Open ->
            /\ transfer' = [transfer EXCEPT !.on = dataSocket]
            /\ Goto("session", "reading")
            /\ UNCHANGED crashed
       [] OTHER -> EndWith("426") /\ UNCHANGED crashed
  /\ UNCHANGED <<commandVars, localVars, fieldVars, socket>>

Reading == socket[transfer.on]
Pending == Reading.got < Reading.sent

\* A chunk arrives and is written to the file, or the file fails.
ReadChunk ==
  /\ Here("reading")
  /\ Reading.here = "open" /\ Reading.client # "reset" /\ Pending
  /\ socket' = [socket EXCEPT ![transfer.on].got = @ + 1]
  /\ \/ /\ transfer' = [transfer EXCEPT !.done = @ + 1]
        /\ Goto("session", "receive")
     \/ EndWith("451")
  /\ UNCHANGED <<commandVars, localVars, fieldVars, crashed>>

ReadEnd ==
  /\ Here("reading")
  /\ Reading.here = "open" /\ Reading.client = "finished" /\ ~Pending
  /\ EndWith("226")
  /\ UNCHANGED <<commandVars, localVars, fieldVars, socket, crashed>>

\* A closed or reset socket, or 30 seconds without data on a PORT connection.
ReadErrorCode_AsEnd == "226"
ReadErrorCode == "426"
ReadError ==
  /\ Here("reading")
  /\ \/ Reading.here = "closed" \/ Reading.client = "reset"
     \/ Reading.mode = "PORT" /\ ~Pending
  /\ EndWith(ReadErrorCode)
  /\ UNCHANGED <<commandVars, localVars, fieldVars, socket, crashed>>

Receive == TestDataSocket \/ TestConnected \/ GetInputStream \/ ReadChunk \/ ReadEnd \/ ReadError
-----------------------------------------------------------------------------
(* The session thread: sendViaDataSocket, called by RETR and LIST.         *)

\* RETR in ASCII mode goes on whatever the call returns; LIST counts as binary here.
Regards_NoResult == FALSE
Regards == transfer.binary

AfterSend(ok) ==
  \/ Regards /\ ~ok /\ EndWith("426")
  \/ /\ Regards => ok
     /\ LET last == transfer.done + 1 = Chunks(transfer.cmd)
        IN  /\ transfer' = [transfer EXCEPT !.done = @ + 1,
                                            !.code = IF last THEN "226" ELSE @]
            /\ Goto("session", IF last THEN "testStream" ELSE "send")

TestStream ==
  /\ Here("send")
  /\ IF dataOutputStream = Nothing
     THEN AfterSend(FALSE)
     ELSE Goto("session", "write") /\ UNCHANGED transfer
  /\ UNCHANGED <<commandVars, localVars, fieldVars, socket, crashed>>

FileReadFails ==
  /\ Here("send") /\ transfer.cmd = "RETR"
  /\ EndWith("425")
  /\ UNCHANGED <<commandVars, localVars, fieldVars, socket, crashed>>

BeginWrite ==
  /\ Here("write")
  /\ IF dataOutputStream = Nothing
     THEN Crash /\ UNCHANGED transfer
     ELSE /\ transfer' = [transfer EXCEPT !.on = dataOutputStream]
          /\ Goto("session", "writing")
          /\ UNCHANGED crashed
  /\ UNCHANGED <<commandVars, localVars, fieldVars, socket>>

\* The write waits, without a limit, for room; "got" counts the chunks written.
WriteChunk ==
  /\ Here("writing")
  /\ Reading.here = "open" /\ Reading.client # "reset" /\ Reading.room
  /\ socket' = [socket EXCEPT ![transfer.on].got = @ + 1, ![transfer.on].room = FALSE]
  /\ AfterSend(TRUE)
  /\ UNCHANGED <<commandVars, localVars, fieldVars, crashed>>

WriteError ==
  /\ Here("writing")
  /\ Reading.here = "closed" \/ Reading.client # "up"
  /\ AfterSend(FALSE)
  /\ UNCHANGED <<commandVars, localVars, fieldVars, socket, crashed>>

Send == TestStream \/ FileReadFails \/ BeginWrite \/ WriteChunk \/ WriteError
-----------------------------------------------------------------------------
(* closeDataSocket, run by the session thread and by the closer alike.     *)

AfterCloseBy(t) == IF t = "session" THEN AfterClose(transfer.cmd) ELSE "command"

CloseTestStream(t) ==
  /\ at[t] = "testStream"
  /\ Goto(t, IF dataOutputStream = Nothing THEN "testSocket" ELSE "closeStream")
  /\ UNCHANGED <<fieldVars, socket, crashed>>

\* Closing the stream of a socket, or the socket, closes the connection.
CloseOf(t, field, next) ==
  IF field = Nothing
  THEN Crash /\ UNCHANGED socket
  ELSE /\ socket' = [socket EXCEPT ![field].here = "closed"]
       /\ Goto(t, next)
       /\ UNCHANGED crashed

CloseStream(t) ==
  /\ at[t] = "closeStream"
  /\ CloseOf(t, dataOutputStream, "clearStream")
  /\ UNCHANGED fieldVars

ClearStream(t) ==
  /\ at[t] = "clearStream"
  /\ dataOutputStream' = Nothing
  /\ Goto(t, "testSocket")
  /\ UNCHANGED <<dataSocket, socket, crashed>>

CloseTestSocket(t) ==
  /\ at[t] = "testSocket"
  /\ Goto(t, IF dataSocket = Nothing THEN "clearSocket" ELSE "closeSocket")
  /\ UNCHANGED <<fieldVars, socket, crashed>>

CloseSocket_Skipped(t) ==
  /\ at[t] = "closeSocket"
  /\ Goto(t, "clearSocket")
  /\ UNCHANGED <<fieldVars, socket, crashed>>
CloseSocket(t) ==
  /\ at[t] = "closeSocket"
  /\ CloseOf(t, dataSocket, "clearSocket")
  /\ UNCHANGED fieldVars

ClearSocket(t) ==
  /\ at[t] = "clearSocket"
  /\ dataSocket' = Nothing
  /\ Goto(t, AfterCloseBy(t))
  /\ transfer' = IF t = "session" /\ AfterCloseBy(t) = "read" THEN NoTransfer ELSE transfer
  /\ UNCHANGED <<dataOutputStream, socket, crashed>>

closeDataSocket(t) ==
  /\ \/ /\ CloseTestStream(t) \/ CloseStream(t) \/ ClearStream(t)
           \/ CloseTestSocket(t) \/ CloseSocket(t)
        /\ UNCHANGED transfer
     \/ ClearSocket(t)
  /\ UNCHANGED <<commandVars, localVars>>

\* FsService.terminateAllSessions comes to this session.
Terminate ==
  /\ at["closer"] = "idle"
  /\ Goto("closer", "testStream")
  /\ found' = dataSocket
  /\ UNCHANGED <<commandVars, localVars, fieldVars, socket, transfer, crashed>>

CloseCommandSocket_Forgotten == UNCHANGED cmdSocket
CloseCommandSocket == cmdSocket' = "closed"

EndTerminate ==
  /\ at["closer"] = "command"
  /\ CloseCommandSocket
  /\ Goto("closer", "done")
  /\ found' = Nothing
  /\ UNCHANGED <<lines, linesSent, localVars, fieldVars, socket, transfer, crashed>>
-----------------------------------------------------------------------------
Init ==
  /\ lines = 0 /\ linesSent = 0 /\ cmdSocket = "open"
  /\ local = [server |-> Nothing, remoteAddr |-> Nothing, listening |-> {}]
  /\ announced = 0 /\ backlog = {}
  /\ dataSocket = Nothing /\ dataOutputStream = Nothing
  /\ socket = [k \in DataSockets |-> Unopened]
  /\ transfer = NoTransfer
  /\ at = [session |-> "read", closer |-> "idle"]
  /\ crashed = FALSE
  /\ found = Nothing

SessionStep ==
  /\ \/ Command \/ StartUsingDataSocket \/ Receive \/ Send \/ Reply
     \/ closeDataSocket("session")
  /\ UNCHANGED found

CloserStep ==
  \/ closeDataSocket("closer") /\ UNCHANGED found
  \/ EndTerminate

Next ==
  /\ ~crashed
  /\ ClientStep \/ SessionStep \/ onTransferAcceptFails \/ Terminate \/ CloserStep

Spec == Init /\ [][Next]_vars

\* The two threads are scheduled.
ThreadFairness == WF_vars(~crashed /\ SessionStep) /\ WF_vars(~crashed /\ CloserStep)

\* A client that answers: it connects to the port it asked for, ends what it sends
\* and takes what it is sent. It need not send commands, nor leave.
ClientAnswers ==
  /\ \A n \in Announcements : WF_vars(~crashed /\ Connect(n))
  /\ \A k \in DataSockets : WF_vars(~crashed /\ Finish(k)) /\ WF_vars(~crashed /\ Drain(k))

AnsweredSpec == Spec /\ ThreadFairness /\ ClientAnswers
-----------------------------------------------------------------------------
(* Properties.                                                             *)

\* Over any sequence of PASV, PORT and transfers, the only listening socket is the
\* one LocalDataSocket.server holds: an earlier one is never left listening.
OneListener ==
  local.listening = IF local.server = Nothing THEN {} ELSE {local.server}

\* A data connection is made only the way the last accepted PASV or PORT says: to no
\* earlier address, and never by accepting a client of an earlier passive port.
LastAnnouncementUsed ==
  [][\A k \in DataSockets :
       k \notin Opened /\ k \in Opened' => socket'[k].via = announced]_vars

\* 226 tells the truth. After an upload the client has ended its side in order and
\* every chunk it sent is in the file: neither a terminated session, a reset nor a
\* timeout passes for the end of the data. After a listing, or a download in binary
\* mode, every chunk was written to one data socket, although the closer may take the
\* stream away at any point. (In ASCII mode CmdRETR ignores sendViaDataSocket's result.)
ConfirmedTransferIsComplete ==
  transfer.code = "226" =>
    LET on == socket[transfer.on]
    IN  /\ transfer.cmd \in Uploads => on.client = "finished" /\ transfer.done = on.sent
        /\ transfer.cmd \in Downloads /\ transfer.binary =>
             transfer.on \in Opened /\ on.got = Chunks(transfer.cmd)

\* Back at the command loop, a session that nobody terminates holds no data socket:
\* each way a transfer can fail closes what it opened.
TransferReleasesSocket ==
  Here("read") /\ at["closer"] = "idle" =>
    Open = {} /\ dataSocket = Nothing /\ dataOutputStream = Nothing

\* terminateAllSessions closes the data socket that the session holds when it comes
\* to it, whatever the session thread does with its fields meanwhile.
TerminateClosesWhatItFinds == at["closer"] = "command" => found \notin Open

\* A session that terminateAllSessions has passed ends, or the process does.
TerminatedSessionEnds ==
  at["closer"] = "done" ~> (Here("ended") \/ crashed)

\* receiveFromDataSocket returns a code when the data socket is not connected, "-2
\* if the data socket was not connected" in the words of its comment; it does not throw.
ReceiveReturns == crashed => ~Here("connected") /\ ~Here("input")
=============================================================================
