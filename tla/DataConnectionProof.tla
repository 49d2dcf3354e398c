------------------------ MODULE DataConnectionProof ------------------------
(***************************************************************************)
(* Proofs about the data connection, for every value of the bounds. At     *)
(* most one passive port is listening, and a data connection is made only  *)
(* the way the last PASV or PORT announced. What the two threads do with a *)
(* transfer: a 226 reply is the truth, a session that nobody terminates    *)
(* keeps no data socket, and one that is terminated loses the one it had.  *)
(***************************************************************************)
EXTENDS DataConnection, TLAPS

\* The state of the LocalDataSocket alone. The passive port and the PORT address
\* exclude each other and are the last announced: without this, a client of an
\* earlier port could still be waiting in a backlog.
LocalStates == [server : 0..MaxAnnouncements, remoteAddr : 0..MaxAnnouncements,
                listening : SUBSET Announcements]

LocalInv ==
  /\ local \in LocalStates
  /\ announced \in 0..MaxAnnouncements
  /\ OneListener
  /\ local.server \in {Nothing, announced}
  /\ local.remoteAddr \in {Nothing, announced}
  /\ backlog \subseteq local.listening

\* A step that leaves the LocalDataSocket alone, or is one of its three operations.
LocalStep ==
  \/ UNCHANGED <<local, announced>> /\ backlog' \subseteq local.listening
  \/ SetLocal(clearState) /\ UNCHANGED announced
  \/ /\ announced < MaxAnnouncements /\ announced' = announced + 1
     /\ SetLocal(onPasv(announced + 1)) \/ SetLocal(onPort(announced + 1))

\* The three operations keep the invariant.
LEMMA LocalPreserved == ASSUME LocalInv, LocalStep PROVE LocalInv'
<1> USE DataBounds DEF LocalInv, LocalStates, OneListener, Nothing, Announcements, DataBounds
<1>1. CASE UNCHANGED <<local, announced>> /\ backlog' \subseteq local.listening
  BY <1>1
<1>2. CASE SetLocal(clearState) /\ UNCHANGED announced
  BY <1>2 DEF SetLocal, clearState
<1>3. CASE /\ announced < MaxAnnouncements /\ announced' = announced + 1
           /\ SetLocal(onPasv(announced + 1))
  BY <1>3 DEF SetLocal, onPasv, clearState
<1>4. CASE /\ announced < MaxAnnouncements /\ announced' = announced + 1
           /\ SetLocal(onPort(announced + 1))
  BY <1>4 DEF SetLocal, onPort, clearState
<1> QED BY <1>1, <1>2, <1>3, <1>4 DEF LocalStep

\* Every step of the system is such a step.
LEMMA EveryStepLocal == ASSUME LocalInv, [Next]_vars PROVE LocalStep
<1> USE DEF localVars, commandVars, fieldVars, LocalInv
<1>1. CASE UNCHANGED vars
  BY <1>1 DEF vars, LocalStep
<1>2. CASE ClientStep
  <2>1. CASE \E n \in Announcements : Connect(n)
    BY <2>1 DEF Connect, LocalStep
  <2>2. CASE ~ \E n \in Announcements : Connect(n)
    BY <1>2, <2>2 DEF ClientStep, SendLine, LeaveCommandConnection, SendChunk, Finish,
                       GiveUp, Drain, SetSocket, LocalStep
  <2> QED BY <2>1, <2>2
<1>3. CASE Command
  <2>1. CASE CommandPASV BY <2>1 DEF CommandPASV, LocalStep
  <2>2. CASE CommandPASVFails BY <2>2 DEF CommandPASVFails, LocalStep
  <2>3. CASE CommandPORT BY <2>3 DEF CommandPORT, LocalStep
  <2>4. CASE CommandQUIT \/ CommandConnectionEnds
    BY <2>4 DEF CommandQUIT, CommandConnectionEnds, LocalStep
  <2>5. ASSUME NEW cmd, NEW binary, CommandTransfer(cmd, binary) PROVE LocalStep
    BY <2>5 DEF CommandTransfer, LocalStep
  <2> QED BY <1>3, <2>1, <2>2, <2>3, <2>4, <2>5 DEF Command
<1>4. CASE StartUsingDataSocket
  <2>1. CASE onTransferAccept BY <2>1 DEF onTransferAccept, LocalStep
  <2>2. CASE onTransferConnect BY <2>2 DEF onTransferConnect, onTransferNull, LocalStep
  <2>3. CASE onTransferNoTimeout BY <2>3 DEF onTransferNoTimeout, LocalStep
  <2>4. CASE CheckSocket BY <2>4 DEF CheckSocket, LocalStep
  <2>5. CASE GetOutputStream BY <2>5 DEF GetOutputStream, LocalStep
  <2> QED BY <1>4, <2>1, <2>2, <2>3, <2>4, <2>5 DEF StartUsingDataSocket
<1>5. CASE Receive
  BY <1>5 DEF Receive, TestDataSocket, TestConnected, GetInputStream, ReadChunk, ReadEnd,
              ReadError, LocalStep
<1>6. CASE Send
  BY <1>6 DEF Send, TestStream, FileReadFails, BeginWrite, WriteChunk, WriteError, LocalStep
<1>7. CASE Reply \/ Terminate \/ EndTerminate
  BY <1>7 DEF Reply, Terminate, EndTerminate, LocalStep
<1>8. ASSUME NEW t, closeDataSocket(t) PROVE LocalStep
  BY <1>8 DEF closeDataSocket, LocalStep
<1>9. CASE onTransferAcceptFails
  BY <1>9 DEF onTransferAcceptFails, onTransferNull, LocalStep
<1> QED
  BY <1>1, <1>2, <1>3, <1>4, <1>5, <1>6, <1>7, <1>8, <1>9 DEF Next, SessionStep, CloserStep

LEMMA LocalInit == Init => LocalInv
BY DataBounds DEF Init, LocalInv, LocalStates, OneListener, Nothing, Announcements, DataBounds

LEMMA LocalInvariant == Spec => []LocalInv
BY LocalInit, LocalPreserved, EveryStepLocal, PTL DEF Spec

\* No passive port is ever left listening by a later PASV, PORT or transfer.
THEOREM NoListenerLeaks == Spec => []OneListener
BY LocalInvariant, PTL DEF LocalInv
-----------------------------------------------------------------------------
(* What the two threads do with a transfer.                                *)

Commands == {"none"} \union Uploads \union Downloads
Codes == {"none", "226", "425", "426", "451", "550"}

SocketStates == [here : {"none", "open", "closed"}, client : {"up", "finished", "reset"},
                 mode : {"PASV", "PORT"}, via : 0..MaxAnnouncements,
                 sent : Nat, got : Nat, room : BOOLEAN]

Types ==
  /\ cmdSocket \in {"open", "gone", "closed"}
  /\ dataSocket \in {Nothing} \union DataSockets
  /\ dataOutputStream \in {Nothing} \union DataSockets
  /\ found \in {Nothing} \union DataSockets
  /\ socket \in [DataSockets -> SocketStates]
  /\ transfer \in [cmd : Commands, binary : BOOLEAN, on : {Nothing} \union DataSockets,
                   done : Nat, code : Codes]
  /\ at \in [{"session", "closer"} -> SessionPoints \union ClosePoints \union CloserPoints]
  /\ at["session"] \in SessionPoints \union ClosePoints
  /\ at["closer"] \in ClosePoints \union CloserPoints

\* Every socket in a field has been opened.
FieldsOpened ==
  \A k \in {dataSocket, dataOutputStream, found, transfer.on} : k = Nothing \/ k \in Opened

\* The command a control point belongs to.
PointFitsCommand ==
  /\ Here("read") => transfer = NoTransfer
  /\ at["session"] \in {"receive", "connected", "input", "reading"} => transfer.cmd \in Uploads
  /\ at["session"] \in {"send", "write", "writing"} => transfer.cmd \in Downloads
  /\ at["session"] \in TransferPoints => transfer.code = "none"
  /\ at["session"] \in {"transfer", "check", "stream"} => transfer.on = Nothing /\ transfer.done = 0
  /\ at["session"] \in {"reading", "writing"} => transfer.on # Nothing
  /\ transfer.code = "226" /\ transfer.cmd \in Uploads => transfer.on # Nothing
  /\ at["session"] \notin {"read", "ended"} => transfer.cmd # "none"

\* `field' is where the transfer's chunks go: as many as were counted have moved
\* through its socket, and it holds no other, though it may have been cleared.
Counted(field) ==
  IF transfer.on = Nothing
  THEN transfer.done = 0 /\ (field # Nothing => socket[field].got = 0)
  ELSE transfer.done = socket[transfer.on].got /\ field \in {Nothing, transfer.on}

ChunksCounted ==
  /\ at["session"] \in {"check", "stream"} => Counted(dataSocket)
  /\ at["session"] \in {"receive", "connected", "input", "reading"} =>
       /\ Counted(dataSocket)
       /\ transfer.on # Nothing => socket[transfer.on].got <= socket[transfer.on].sent
  /\ at["session"] \in {"send", "write", "writing"} /\ transfer.binary => Counted(dataOutputStream)

\* Until the closer comes, the session thread alone uses the fields.
Undisturbed ==
  at["closer"] = "idle" =>
    /\ dataOutputStream \in {Nothing, dataSocket}
    /\ at["session"] \in {"read", "transfer", "ended"} => dataSocket = Nothing
    /\ Here("reply") /\ transfer.cmd \in Downloads => dataSocket = Nothing
    /\ at["session"] \in {"check", "stream", "testSocket", "closeSocket", "clearSocket"} =>
         dataOutputStream = Nothing
    /\ Here("clearSocket") => dataSocket \notin Open
    /\ ~SoTimeoutMayFail => Open \subseteq {dataSocket}

\* A socket that the closer found, and that is open still, is in dataSocket, and
\* neither thread has passed the point where it closes it.
FoundIsHeld ==
  found \in Open =>
    /\ dataSocket = found
    /\ at["closer"] \in ClosePoints \ {"clearSocket"}
    /\ at["session"] \notin {"clearSocket", "read", "transfer", "ended"}
    /\ Here("reply") => transfer.cmd \in Uploads

TransferInv ==
  /\ Types /\ FieldsOpened /\ PointFitsCommand /\ ChunksCounted /\ ConfirmedTransferIsComplete
  /\ Undisturbed /\ FoundIsHeld
-----------------------------------------------------------------------------
(* Steps of the same kind, for the actions to share.                       *)

\* What the invariant is about, but for the command socket.
Kept == <<dataSocket, dataOutputStream, socket, transfer, at, found>>

\* A step of the LocalDataSocket, or of the command connection alone.
LEMMA TransferUntouched ==
  ASSUME TransferInv, UNCHANGED Kept, cmdSocket' \in {"open", "gone", "closed"}
  PROVE  TransferInv'
BY DEF Kept, TransferInv, Types, FieldsOpened, Opened, Open, PointFitsCommand, Here,
       ChunksCounted, Counted, ConfirmedTransferIsComplete, Undisturbed, FoundIsHeld

\* What the client does on a data socket: more is sent or it ends its side.
LEMMA SocketMoves ==
  ASSUME TransferInv, UNCHANGED <<cmdSocket, dataSocket, dataOutputStream, transfer, at, found>>,
         NEW k \in DataSockets, socket[k].here = "open",
         NEW state \in SocketStates, socket' = [socket EXCEPT ![k] = state],
         state.here = "open", state.got = socket[k].got, state.sent >= socket[k].sent,
         socket[k].client = "finished" =>
           state.client = "finished" /\ state.sent = socket[k].sent
  PROVE  TransferInv'
<1> USE DEF TransferInv
<1>1. Types'
  BY DEF Types
<1>2. Open' = Open /\ Opened' = Opened
  BY DEF Open, Opened, Types, SocketStates
<1>3. \A j \in DataSockets : socket'[j].got = socket[j].got /\ socket'[j].sent >= socket[j].sent
  BY DEF Types, SocketStates
<1>4. \A j \in DataSockets : socket[j].client = "finished" =>
         socket'[j].client = "finished" /\ socket'[j].sent = socket[j].sent
  BY DEF Types, SocketStates
<1>5. FieldsOpened'
  BY <1>2 DEF FieldsOpened
<1>6. PointFitsCommand'
  BY DEF PointFitsCommand, Here
<1>7. ChunksCounted'
  BY <1>3 DEF ChunksCounted, Counted, Types, SocketStates, Nothing
<1>8. ConfirmedTransferIsComplete'
  <2>1. transfer.code = "226" /\ transfer.cmd \in Uploads => transfer.on \in DataSockets
    BY DEF PointFitsCommand, Types
  <2>2. transfer.on \in Opened => transfer.on \in DataSockets
    BY DEF Opened
  <2>3. (transfer.code = "226" /\ transfer.cmd \in Uploads =>
           socket[transfer.on].client = "finished" /\ transfer.done = socket[transfer.on].sent)'
    BY <1>4, <2>1 DEF ConfirmedTransferIsComplete
  <2>4. (transfer.code = "226" /\ transfer.cmd \in Downloads /\ transfer.binary =>
           transfer.on \in Opened /\ socket[transfer.on].got = Chunks(transfer.cmd))'
    BY <1>2, <1>3, <2>2 DEF ConfirmedTransferIsComplete, Chunks
  <2> QED BY <2>3, <2>4 DEF ConfirmedTransferIsComplete
<1>9. Undisturbed'
  BY <1>2 DEF Undisturbed, Here
<1>10. FoundIsHeld'
  BY <1>2 DEF FoundIsHeld, Here
<1> QED
  BY <1>1, <1>5, <1>6, <1>7, <1>8, <1>9, <1>10

\* The transfer ends with a reply code: EndWith, with what 226 needs.
LEMMA EndPreserves ==
  ASSUME TransferInv, at["session"] \in TransferPoints,
         NEW code \in Codes \ {"none"}, EndWith(code),
         UNCHANGED <<cmdSocket, dataSocket, dataOutputStream, found>>,
         socket' \in [DataSockets -> SocketStates], Open' = Open, Opened' = Opened,
         at["session"] # "transfer",
         code = "226" =>
           /\ transfer.on # Nothing
           /\ transfer.cmd \in Uploads =>
                socket'[transfer.on].client = "finished" /\ transfer.done = socket'[transfer.on].sent
           /\ transfer.cmd \in Downloads /\ transfer.binary =>
                socket'[transfer.on].got = Chunks(transfer.cmd)
  PROVE  TransferInv'
<1> USE DEF TransferInv, EndWith, Goto
<1>1. /\ transfer.cmd \in Uploads \union Downloads
      /\ transfer'.cmd = transfer.cmd /\ transfer'.on = transfer.on /\ transfer'.code = code
      /\ transfer'.binary = transfer.binary /\ transfer'.done = transfer.done
      /\ at'["session"] = AfterCode(transfer.cmd) /\ at'["closer"] = at["closer"]
  BY DEF Types, PointFitsCommand, Commands, SessionPoints, TransferPoints
<1>2. Types'
  BY <1>1 DEF Types, SessionPoints, ClosePoints, TransferPoints, AfterCode
<1>3. FieldsOpened'
  BY <1>1 DEF FieldsOpened
<1>4. PointFitsCommand'
  BY <1>1 DEF PointFitsCommand, Here, AfterCode, TransferPoints, SessionPoints
<1>5. ChunksCounted'
  BY <1>1 DEF ChunksCounted, AfterCode
<1>6. ConfirmedTransferIsComplete'
  BY <1>1, <1>3 DEF ConfirmedTransferIsComplete, FieldsOpened, Chunks
<1>7. Undisturbed'
  <2>1. CASE transfer.cmd \in Uploads
    BY <1>1, <2>1 DEF Undisturbed, AfterCode, Here, Uploads, Downloads
  <2>2. CASE transfer.cmd \in Downloads
    BY <1>1, <2>2 DEF Undisturbed, AfterCode, Here, Uploads, Downloads
  <2> QED BY <1>1, <2>1, <2>2
<1>8. FoundIsHeld'
  BY <1>1 DEF FoundIsHeld, Here, AfterCode
<1> QED
  BY <1>2, <1>3, <1>4, <1>5, <1>6, <1>7, <1>8

\* A data socket is opened; it is lost at once only where setSoTimeout may throw.
LEMMA OpenPreserves ==
  ASSUME TransferInv, Here("transfer"), NEW k \in DataSockets \ Opened,
         NEW state \in SocketStates, state.here = "open", state.got = 0,
         socket' = [socket EXCEPT ![k] = state],
         dataSocket' = k \/ (dataSocket' = Nothing /\ SoTimeoutMayFail),
         Goto("session", "check"), UNCHANGED <<cmdSocket, dataOutputStream, transfer, found>>
  PROVE  TransferInv'
<1> USE DEF TransferInv, Goto, Here
<1>1. /\ at'["session"] = "check" /\ at'["closer"] = at["closer"]
      /\ transfer.on = Nothing /\ transfer.done = 0 /\ transfer.code = "none"
  BY DEF Types, PointFitsCommand, TransferPoints, SessionPoints
<1>2. Open' = Open \union {k} /\ Opened' = Opened \union {k} /\ k \notin Open
  BY DEF Open, Opened, Types, SocketStates
<1>3. Types'
  BY <1>1 DEF Types, SessionPoints
<1>4. FieldsOpened'
  BY <1>1, <1>2 DEF FieldsOpened
<1>5. PointFitsCommand'
  BY <1>1 DEF PointFitsCommand, TransferPoints, SessionPoints
<1>6. ChunksCounted'
  <2>1. socket'[k].got = 0
    BY DEF Types
  <2> QED
    BY <1>1, <2>1 DEF ChunksCounted, Counted
<1>7. ConfirmedTransferIsComplete'
  BY <1>1 DEF ConfirmedTransferIsComplete
<1>8. Undisturbed'
  <2> SUFFICES ASSUME at["closer"] = "idle" PROVE Undisturbed'
    BY <1>1 DEF Undisturbed
  <2>1. dataSocket = Nothing /\ dataOutputStream = Nothing
    BY DEF Undisturbed
  <2>2. ~SoTimeoutMayFail => Open = {}
    BY <2>1 DEF Undisturbed, Open, DataSockets, Nothing
  <2> QED
    BY <1>1, <1>2, <2>1, <2>2 DEF Undisturbed
<1>9. FoundIsHeld'
  <2>1. found # k
    BY DEF Types, FieldsOpened, DataSockets, Nothing
  <2>2. found \notin Open
    BY DEF FoundIsHeld
  <2> QED
    BY <1>2, <2>1, <2>2 DEF FoundIsHeld
<1> QED
  BY <1>3, <1>4, <1>5, <1>6, <1>7, <1>8, <1>9

\* sendViaDataSocket has returned for a chunk.
LEMMA AfterSendPreserves ==
  ASSUME TransferInv, at["session"] \in {"send", "writing"},
         NEW ok \in BOOLEAN, AfterSend(ok),
         UNCHANGED <<cmdSocket, dataSocket, dataOutputStream, found>>,
         socket' \in [DataSockets -> SocketStates], Open' = Open, Opened' = Opened,
         ok /\ transfer.binary =>
           /\ transfer.on # Nothing /\ dataOutputStream \in {Nothing, transfer.on}
           /\ socket'[transfer.on].got = transfer.done + 1
  PROVE  TransferInv'
<1> USE DEF TransferInv
<1>1. at["session"] \in TransferPoints /\ at["session"] # "transfer" /\ transfer.cmd \in Downloads
  BY DEF PointFitsCommand, TransferPoints, SessionPoints
<1>2. CASE transfer.binary /\ ~ok
  <2>1. EndWith("426")
    BY <1>2 DEF AfterSend, Regards
  <2>2. "426" \in Codes \ {"none"}
    BY DEF Codes
  <2> QED
    BY <1>1, <2>1, <2>2, EndPreserves
<1>3. CASE ~(transfer.binary /\ ~ok)
  <2> DEFINE last == transfer.done + 1 = Chunks(transfer.cmd)
             code == IF last THEN "226" ELSE transfer.code
  <2>1. /\ transfer' = [transfer EXCEPT !.done = @ + 1, !.code = code]
        /\ Goto("session", IF last THEN "testStream" ELSE "send")
    BY <1>3 DEF AfterSend, Regards
  <2>2. /\ at'["session"] = IF last THEN "testStream" ELSE "send"
        /\ at'["closer"] = at["closer"]
        /\ at' \in [{"session", "closer"} -> SessionPoints \union ClosePoints \union CloserPoints]
    BY <2>1 DEF Goto, Types, SessionPoints, ClosePoints
  <2>3. transfer.code = "none" /\ code \in Codes /\ (code = "226" <=> last)
    BY <1>1 DEF PointFitsCommand, Codes
  <2> HIDE DEF last, code
  <2>4. /\ transfer'.cmd = transfer.cmd /\ transfer'.binary = transfer.binary
        /\ transfer'.on = transfer.on /\ transfer'.done = transfer.done + 1 /\ transfer'.code = code
    BY <2>1 DEF Types
  <2>5. transfer' \in [cmd : Commands, binary : BOOLEAN, on : {Nothing} \union DataSockets,
                      done : Nat, code : Codes]
    <3>1. PICK n \in Nat : n = transfer.done + 1
      BY DEF Types
    <3>2. transfer' = [transfer EXCEPT !.done = n, !.code = code]
      BY <2>1, <3>1
    <3> QED BY <2>3, <3>2 DEF Types
  <2>6. Types'
    BY <2>2, <2>5 DEF Types, SessionPoints, ClosePoints
  <2>7. FieldsOpened'
    BY <2>4 DEF FieldsOpened
  <2>8. PointFitsCommand'
    BY <1>1, <2>2, <2>3, <2>4 DEF code, PointFitsCommand, Here, Commands, Uploads, Downloads,
                                  TransferPoints, SessionPoints
  <2>9. ChunksCounted'
    BY <1>3, <2>2, <2>4 DEF ChunksCounted, Counted
  <2>10. ConfirmedTransferIsComplete'
    BY <1>1, <1>3, <2>3, <2>4, <2>7 DEF ConfirmedTransferIsComplete, FieldsOpened, last, Chunks,
                                        Uploads, Downloads
  <2>11. Undisturbed' /\ FoundIsHeld'
    BY <2>2, <2>4 DEF Undisturbed, FoundIsHeld, Here
  <2> QED
    BY <2>6, <2>7, <2>8, <2>9, <2>10, <2>11
<1> QED
  BY <1>2, <1>3
-----------------------------------------------------------------------------
(* closeDataSocket, by either thread, and the closer's own steps.          *)

Threads == {"session", "closer"}
LEMMA NothingNoSocket == Nothing \notin DataSockets
BY DEF Nothing, DataSockets

\* Up to ClearSocket, the control points that closeDataSocket goes through.
LEMMA ClosePreserves ==
  ASSUME TransferInv, NEW t \in Threads, UNCHANGED <<cmdSocket, found, transfer>>,
         \/ CloseTestStream(t) \/ CloseStream(t) \/ ClearStream(t)
         \/ CloseTestSocket(t) \/ CloseSocket(t)
  PROVE  TransferInv'
<1> USE NothingNoSocket DEF TransferInv, Goto, fieldVars, Threads
<1>1. CASE CloseTestStream(t) \/ ClearStream(t) \/ CloseTestSocket(t)
  <2> USE <1>1 DEF CloseTestStream, ClearStream, CloseTestSocket
  <2>1. Types'
    BY DEF Types, ClosePoints
  <2>2. FieldsOpened' /\ ConfirmedTransferIsComplete'
    BY DEF FieldsOpened, Opened, ConfirmedTransferIsComplete
  <2>3. PointFitsCommand' /\ ChunksCounted'
    BY DEF Types, PointFitsCommand, ChunksCounted, Counted, Here, TransferPoints, SessionPoints
  <2>4. Undisturbed' /\ FoundIsHeld'
    <3>1. Open' = Open /\ Open \subseteq DataSockets
      BY DEF Open
    <3> QED BY <3>1 DEF Types, Undisturbed, FoundIsHeld, Here, ClosePoints
  <2> QED BY <2>1, <2>2, <2>3, <2>4
<1>2. CASE CloseStream(t) \/ CloseSocket(t)
  <2> DEFINE k == IF at[t] = "closeStream" THEN dataOutputStream ELSE dataSocket
  <2>1. CASE k = Nothing
    <3>1. UNCHANGED Kept
      BY <1>2, <2>1 DEF CloseStream, CloseSocket, CloseOf, Crash, Kept
    <3>2. cmdSocket' \in {"open", "gone", "closed"}
      BY DEF Types
    <3> QED
      BY <3>1, <3>2, TransferUntouched
  <2>2. CASE k # Nothing
    <3>1. /\ k \in Opened /\ k \in DataSockets
          /\ at[t] = "closeSocket" => k = dataSocket
      BY <1>2, <2>2 DEF FieldsOpened, Opened, CloseStream, CloseSocket
    <3>2. /\ socket' = [socket EXCEPT ![k].here = "closed"]
          /\ at' = [at EXCEPT ![t] = IF at[t] = "closeStream" THEN "clearStream" ELSE "clearSocket"]
          /\ at[t] \in {"closeStream", "closeSocket"}
          /\ UNCHANGED <<dataSocket, dataOutputStream, transfer, found, cmdSocket>>
      BY <1>2, <2>2 DEF CloseStream, CloseSocket, CloseOf
    <3> HIDE DEF k
    <3>3. \A j \in DataSockets :
            /\ socket'[j].got = socket[j].got /\ socket'[j].sent = socket[j].sent
            /\ socket'[j].client = socket[j].client
      BY <3>1, <3>2 DEF Types, SocketStates
    <3>4. Open' = Open \ {k} /\ Opened' = Opened /\ Opened \subseteq DataSockets
      BY <3>1, <3>2 DEF Open, Opened, Types, SocketStates
    <3>5. Types'
      BY <3>1, <3>2 DEF Types, SocketStates, ClosePoints
    <3>6. FieldsOpened'
      BY <3>2, <3>4 DEF FieldsOpened
    <3>7. PointFitsCommand'
      BY <3>2 DEF Types, PointFitsCommand, Here, TransferPoints, SessionPoints
    <3>8. ChunksCounted'
      BY <3>2, <3>3 DEF Types, ChunksCounted, Counted, Here
    <3>9. ConfirmedTransferIsComplete'
      <4>1. transfer.code = "226" /\ transfer.cmd \in Uploads => transfer.on \in DataSockets
        BY DEF PointFitsCommand, Types
      <4> QED BY <4>1, <3>2, <3>3, <3>4 DEF ConfirmedTransferIsComplete, Chunks
    <3>10. Undisturbed'
      BY <3>1, <3>2, <3>4 DEF Types, Undisturbed, Here
    <3>11. FoundIsHeld'
      BY <3>1, <3>2, <3>4 DEF Types, FoundIsHeld, Here, ClosePoints
    <3> QED BY <3>5, <3>6, <3>7, <3>8, <3>9, <3>10, <3>11
  <2> QED BY <2>1, <2>2
<1> QED
  BY <1>1, <1>2

\* Whoever clears dataSocket has closed it, or the other thread has, or the session's
\* thread had none: what the closer found is not open, and cannot be lost.
LEMMA ClearSocketPreserves ==
  ASSUME TransferInv, NEW t \in Threads, UNCHANGED <<cmdSocket, found>>, ClearSocket(t)
  PROVE  TransferInv'
<1> USE NothingNoSocket DEF TransferInv, ClearSocket, Goto, Threads
<1>1. found \notin Open
  BY DEF FoundIsHeld
<1>2. Open' = Open /\ Opened' = Opened
  BY DEF Open, Opened
<1>3. /\ at'[t] = AfterCloseBy(t) /\ (t = "session" => at'["closer"] = at["closer"])
      /\ (t = "closer" => at'["session"] = at["session"])
      /\ transfer' \in {NoTransfer, transfer}
  BY DEF Types
<1>4. CASE t = "session"
  <2>1. /\ at'["session"] = AfterClose(transfer.cmd) /\ at'["closer"] = at["closer"]
        /\ transfer' = IF transfer.cmd \in Uploads THEN NoTransfer ELSE transfer
        /\ transfer.cmd # "none"
    BY <1>3, <1>4 DEF AfterCloseBy, AfterClose, PointFitsCommand
  <2>2. Types'
    BY <1>4, <2>1 DEF Types, NoTransfer, Commands, Codes, SessionPoints, ClosePoints,
                      AfterClose, AfterCloseBy
  <2>3. FieldsOpened' /\ ConfirmedTransferIsComplete'
    BY <1>2, <2>1 DEF FieldsOpened, ConfirmedTransferIsComplete, NoTransfer
  <2>4. PointFitsCommand' /\ ChunksCounted'
    BY <2>1 DEF PointFitsCommand, ChunksCounted, AfterClose, Here, NoTransfer, TransferPoints,
                SessionPoints
  <2>5. Undisturbed'
    BY <1>2, <1>4, <2>1 DEF Undisturbed, AfterClose, Here
  <2>6. FoundIsHeld'
    BY <1>1, <1>2 DEF FoundIsHeld
  <2> QED BY <2>2, <2>3, <2>4, <2>5, <2>6
<1>5. CASE t = "closer"
  <2>1. /\ at'["closer"] = "command" /\ at'["session"] = at["session"] /\ transfer' = transfer
    BY <1>3, <1>5 DEF AfterCloseBy
  <2>2. Types'
    BY <1>5, <2>1 DEF Types, CloserPoints, AfterCloseBy
  <2>3. FieldsOpened' /\ ConfirmedTransferIsComplete'
    BY <1>2, <2>1 DEF FieldsOpened, ConfirmedTransferIsComplete
  <2>4. PointFitsCommand' /\ ChunksCounted'
    BY <1>5, <2>1 DEF Types, PointFitsCommand, ChunksCounted, Counted, Here
  <2>5. Undisturbed'
    BY <2>1 DEF Undisturbed
  <2>6. FoundIsHeld'
    BY <1>1, <1>2 DEF FoundIsHeld
  <2> QED BY <2>2, <2>3, <2>4, <2>5, <2>6
<1> QED
  BY <1>4, <1>5

LEMMA CloseDataSocketPreserves ==
  ASSUME TransferInv, NEW t \in Threads, closeDataSocket(t), UNCHANGED found PROVE TransferInv'
BY ClosePreserves, ClearSocketPreserves DEF closeDataSocket, commandVars

LEMMA TerminatePreserves == ASSUME TransferInv, Terminate PROVE TransferInv'
<1> USE NothingNoSocket DEF TransferInv, Terminate, Goto, fieldVars, commandVars
<1>1. Types' /\ Open' = Open
  BY DEF Types, ClosePoints, Open
<1>2. FieldsOpened' /\ ConfirmedTransferIsComplete'
  BY DEF FieldsOpened, Opened, ConfirmedTransferIsComplete
<1>3. PointFitsCommand' /\ ChunksCounted'
  BY DEF Types, PointFitsCommand, ChunksCounted, Counted, Here
<1>4. Undisturbed'
  BY DEF Types, Undisturbed
<1>5. FoundIsHeld'
  <2>1. at'["session"] = at["session"] /\ at'["closer"] = "testStream" /\ Open \subseteq DataSockets
    BY DEF Types, Open
  <2>2. transfer.cmd \in Uploads \union Downloads \/ ~Here("reply")
    BY DEF Types, PointFitsCommand, Commands, Here
  <2> QED BY <1>1, <2>1, <2>2 DEF FoundIsHeld, Undisturbed, ClosePoints, Here
<1> QED
  BY <1>1, <1>2, <1>3, <1>4, <1>5

LEMMA EndTerminatePreserves == ASSUME TransferInv, EndTerminate PROVE TransferInv'
<1> USE NothingNoSocket DEF TransferInv, EndTerminate, CloseCommandSocket, Goto, fieldVars
<1>1. Types' /\ Open' = Open /\ Open \subseteq DataSockets
  BY DEF Types, CloserPoints, Open
<1>2. FieldsOpened' /\ ConfirmedTransferIsComplete'
  BY DEF FieldsOpened, Opened, ConfirmedTransferIsComplete
<1>3. PointFitsCommand' /\ ChunksCounted'
  BY DEF Types, PointFitsCommand, ChunksCounted, Counted, Here
<1>4. Undisturbed' /\ FoundIsHeld'
  BY <1>1 DEF Types, Undisturbed, FoundIsHeld
<1> QED
  BY <1>1, <1>2, <1>3, <1>4
-----------------------------------------------------------------------------
(* The actions, in the order of the model, but for the closing.            *)

LEMMA RoomTyped ==
  ASSUME NEW s \in SocketStates, NEW b \in BOOLEAN PROVE [s EXCEPT !.room = b] \in SocketStates
BY DEF SocketStates

LEMMA ClientPreserves == ASSUME TransferInv, ClientStep PROVE TransferInv'
<1> USE DEF SetSocket, commandVars, localVars, fieldVars
<1>1. CASE SendLine \/ LeaveCommandConnection \/ \E n \in Announcements : Connect(n)
  BY <1>1, TransferUntouched DEF SendLine, LeaveCommandConnection, Connect, Kept, TransferInv,
                                 Types
<1>2. ASSUME NEW k \in DataSockets, SendChunk(k) \/ Finish(k) \/ GiveUp(k) \/ Drain(k)
      PROVE  TransferInv'
  <2>1. socket[k] \in SocketStates
    BY DEF TransferInv, Types
  <2>2. /\ socket[k].here = "open"
        /\ UNCHANGED <<cmdSocket, dataSocket, dataOutputStream, transfer, at, found>>
    BY <1>2 DEF SendChunk, Finish, GiveUp, Drain
  <2>3. CASE SendChunk(k)
    <3> DEFINE state == [socket[k] EXCEPT !.sent = @ + 1]
    <3>1. /\ state \in SocketStates /\ state.sent >= socket[k].sent
          /\ state.here = "open" /\ state.got = socket[k].got
      BY <2>1, <2>3 DEF SocketStates, SendChunk
    <3>2. socket[k].client # "finished"
      BY <2>1, <2>3 DEF SocketStates, SendChunk
    <3>3. socket' = [socket EXCEPT ![k] = state]
      BY <2>3 DEF SendChunk
    <3> HIDE DEF state
    <3> QED BY <2>2, <3>1, <3>2, <3>3, SocketMoves
  <2>4. CASE Finish(k)
    <3> DEFINE state == [socket[k] EXCEPT !.client = "finished"]
    <3>1. /\ state \in SocketStates /\ state.sent >= socket[k].sent
          /\ state.here = "open" /\ state.got = socket[k].got
      BY <2>1, <2>4 DEF SocketStates, Finish
    <3>2. socket[k].client # "finished"
      BY <2>1, <2>4 DEF SocketStates, Finish
    <3>3. socket' = [socket EXCEPT ![k] = state]
      BY <2>4 DEF Finish
    <3> HIDE DEF state
    <3> QED BY <2>2, <3>1, <3>2, <3>3, SocketMoves
  <2>5. CASE GiveUp(k)
    <3> DEFINE state == [socket[k] EXCEPT !.client = "reset"]
    <3>1. /\ state \in SocketStates /\ state.sent >= socket[k].sent
          /\ state.here = "open" /\ state.got = socket[k].got
      BY <2>1, <2>5 DEF SocketStates, GiveUp
    <3>2. socket[k].client # "finished"
      BY <2>1, <2>5 DEF SocketStates, GiveUp
    <3>3. socket' = [socket EXCEPT ![k] = state]
      BY <2>5 DEF GiveUp
    <3> HIDE DEF state
    <3> QED BY <2>2, <3>1, <3>2, <3>3, SocketMoves
  <2>6. CASE Drain(k)
    <3> DEFINE state == [socket[k] EXCEPT !.room = TRUE]
    <3>1. state \in SocketStates
      BY <2>1, RoomTyped
    <3>5. state.sent >= socket[k].sent
      BY <2>1 DEF SocketStates
    <3>4. state.here = "open" /\ state.got = socket[k].got
      BY <2>1, <2>2 DEF SocketStates
    <3>2. state.client = socket[k].client /\ state.sent = socket[k].sent
      BY <2>1 DEF SocketStates
    <3>3. socket' = [socket EXCEPT ![k] = state]
      BY <2>6 DEF Drain
    <3> HIDE DEF state
    <3> QED BY <2>2, <3>1, <3>2, <3>3, <3>4, <3>5, SocketMoves
  <2> QED BY <1>2, <2>3, <2>4, <2>5, <2>6
<1> QED
  BY <1>1, <1>2 DEF ClientStep

LEMMA CommandPreserves == ASSUME TransferInv, Command, UNCHANGED found PROVE TransferInv'
<1> USE NothingNoSocket DEF commandVars, localVars, fieldVars, Goto, TakeLine
<1>1. CASE CommandPASV \/ CommandPASVFails \/ CommandPORT \/ CommandQUIT
  <2>1. UNCHANGED Kept /\ cmdSocket' \in {"open", "gone", "closed"}
    BY <1>1 DEF CommandPASV, CommandPASVFails, CommandPORT, CommandQUIT, Written, Kept,
                TransferInv, Types
  <2> QED
    BY <2>1, TransferUntouched
<1>2. ASSUME NEW cmd \in Uploads \union Downloads, NEW binary \in BOOLEAN,
             CommandTransfer(cmd, binary)
      PROVE  TransferInv'
  <2> USE <1>2 DEF TransferInv
  <2> PICK code \in {"none", "550"} :
         /\ transfer' = [cmd |-> cmd, binary |-> binary, on |-> Nothing, done |-> 0, code |-> code]
         /\ at' = [at EXCEPT !["session"] = IF code = "none" THEN "transfer"
                                            ELSE IF cmd = "LIST" THEN "reply" ELSE AfterCode(cmd)]
    BY DEF CommandTransfer, NoTransfer
  <2>1. /\ at'["session"] \in {"transfer", "reply", "testStream"} /\ at'["closer"] = at["closer"]
        /\ at'["session"] = "transfer" <=> code = "none"
        /\ Here("read") /\ UNCHANGED <<socket, dataSocket, dataOutputStream, cmdSocket>>
    BY DEF Types, CommandTransfer, AfterCode
  <2>2. Open' = Open /\ Open \subseteq DataSockets
    BY <2>1 DEF Open
  <2>3. Types'
    BY <2>1 DEF Types, Commands, Codes, SessionPoints, ClosePoints
  <2>4. FieldsOpened' /\ ConfirmedTransferIsComplete'
    BY <2>1 DEF FieldsOpened, Opened, ConfirmedTransferIsComplete
  <2>5. PointFitsCommand' /\ ChunksCounted'
    BY <2>1 DEF PointFitsCommand, ChunksCounted, Here, TransferPoints, SessionPoints, Uploads,
                Downloads
  <2>6. Undisturbed' /\ FoundIsHeld'
    BY <2>1, <2>2 DEF Undisturbed, FoundIsHeld, Here
  <2> QED BY <2>3, <2>4, <2>5, <2>6
<1>3. CASE CommandConnectionEnds
  <2> USE <1>3 DEF TransferInv, CommandConnectionEnds
  <2>1. Types'
    BY DEF Types, SessionPoints
  <2>2. FieldsOpened' /\ ConfirmedTransferIsComplete'
    BY DEF FieldsOpened, Opened, ConfirmedTransferIsComplete
  <2>3. PointFitsCommand' /\ ChunksCounted'
    BY DEF Types, PointFitsCommand, ChunksCounted, Here, NoTransfer, TransferPoints
  <2>4. Undisturbed' /\ FoundIsHeld'
    BY DEF Types, Undisturbed, FoundIsHeld, Here, Open
  <2> QED BY <2>1, <2>2, <2>3, <2>4
<1> QED
  BY <1>1, <1>2, <1>3 DEF Command, Downloads

LEMMA ReplyPreserves == ASSUME TransferInv, Reply, UNCHANGED found PROVE TransferInv'
<1> USE NothingNoSocket DEF TransferInv, Reply, localVars, fieldVars, Goto
<1>1. /\ at'["session"] = AfterReply(transfer.cmd) /\ at'["closer"] = at["closer"]
      /\ transfer.cmd \in Uploads \union Downloads
  BY DEF Types, PointFitsCommand, Here, Commands
<1>2. Open' = Open /\ Open \subseteq DataSockets
  BY DEF Open
<1>3. Types'
  BY <1>1 DEF Types, Written, AfterReply, SessionPoints, ClosePoints, NoTransfer, Commands,
              Codes
<1>4. FieldsOpened' /\ ConfirmedTransferIsComplete'
  BY <1>1 DEF FieldsOpened, Opened, ConfirmedTransferIsComplete, AfterReply, NoTransfer
<1>5. PointFitsCommand' /\ ChunksCounted'
  BY <1>1 DEF PointFitsCommand, ChunksCounted, Here, AfterReply, NoTransfer, TransferPoints,
              SessionPoints
<1>6. Undisturbed' /\ FoundIsHeld'
  BY <1>1, <1>2 DEF Undisturbed, FoundIsHeld, Here, AfterReply, Uploads, Downloads
<1> QED
  BY <1>3, <1>4, <1>5, <1>6

\* A step of the session thread to another point of the same command.
LEMMA MovePreserves ==
  ASSUME TransferInv, NEW from, NEW to,
         at["session"] = from, Goto("session", to),
         \/ from = "check" /\ to = "stream"
         \/ from = "receive" /\ to = "connected"
         \/ from = "connected" /\ to = "input"
         \/ from = "send" /\ to = "write",
         UNCHANGED <<cmdSocket, dataSocket, dataOutputStream, socket, transfer, found>>
  PROVE  TransferInv'
<1> USE NothingNoSocket DEF TransferInv, Goto
<1>1. at'["session"] = to /\ at'["closer"] = at["closer"]
  BY DEF Types
<1>2. Types'
  BY <1>1 DEF Types, SessionPoints
<1>3. FieldsOpened' /\ ConfirmedTransferIsComplete'
  BY DEF FieldsOpened, Opened, ConfirmedTransferIsComplete
<1>4. PointFitsCommand' /\ ChunksCounted'
  BY <1>1 DEF PointFitsCommand, ChunksCounted, Counted, Here, TransferPoints, SessionPoints
<1>5. Undisturbed' /\ FoundIsHeld'
  BY <1>1 DEF Undisturbed, FoundIsHeld, Here, Open
<1> QED
  BY <1>2, <1>3, <1>4, <1>5

LEMMA CrashKeeps ==
  ASSUME TransferInv, Crash,
         UNCHANGED <<cmdSocket, dataSocket, dataOutputStream, socket, transfer, found>>
  PROVE  TransferInv'
BY TransferUntouched DEF Crash, Kept, TransferInv, Types

\* onTransfer returns null, through either of its branches.
LEMMA NullPreserves ==
  ASSUME TransferInv, Here("transfer"), onTransferNull,
         UNCHANGED <<cmdSocket, dataOutputStream, transfer, found>>
  PROVE  TransferInv'
<1> USE NothingNoSocket DEF TransferInv, onTransferNull, Goto, Here
<1>1. at'["session"] = "check" /\ at'["closer"] = at["closer"] /\ Open' = Open
  BY DEF Types, Open
<1>2. Types'
  BY <1>1 DEF Types, SessionPoints
<1>3. FieldsOpened' /\ ConfirmedTransferIsComplete'
  BY DEF FieldsOpened, Opened, ConfirmedTransferIsComplete
<1>4. PointFitsCommand' /\ ChunksCounted'
  BY <1>1 DEF PointFitsCommand, ChunksCounted, Counted, TransferPoints, SessionPoints
<1>5. Undisturbed' /\ FoundIsHeld'
  BY <1>1 DEF Undisturbed, FoundIsHeld
<1> QED
  BY <1>2, <1>3, <1>4, <1>5

LEMMA StartPreserves ==
  ASSUME TransferInv, LocalInv, StartUsingDataSocket, UNCHANGED found PROVE TransferInv'
<1> USE NothingNoSocket DEF commandVars, localVars, fieldVars
<1> DEFINE New(mode, n) == [Unopened EXCEPT !.here = "open", !.mode = mode, !.via = n]
<1>1. \A mode \in {"PASV", "PORT"}, n \in 0..MaxAnnouncements :
        New(mode, n) \in SocketStates /\ New(mode, n).here = "open" /\ New(mode, n).got = 0
  BY DEF SocketStates, Unopened, Nothing
<1>2. local.server \in 0..MaxAnnouncements /\ local.remoteAddr \in 0..MaxAnnouncements
  BY DEF LocalInv, LocalStates
<1>3. ASSUME NEW mode \in {"PASV", "PORT"}, NEW n \in 0..MaxAnnouncements,
             NewSocket(mode, n), Here("transfer"),
             UNCHANGED <<cmdSocket, dataOutputStream, transfer>>
      PROVE  TransferInv'
  <2>1. PICK k \in DataSockets \ Opened :
          /\ socket' = [socket EXCEPT ![k] = New(mode, n)]
          /\ dataSocket' = k /\ Goto("session", "check")
    BY <1>3 DEF NewSocket
  <2> HIDE DEF New
  <2> QED BY <1>1, <1>3, <2>1, OpenPreserves
<1>4. CASE onTransferAccept
  BY <1>2, <1>3, <1>4 DEF onTransferAccept
<1>5. CASE onTransferConnect
  <2>1. CASE NewSocket("PORT", local.remoteAddr)
    BY <1>2, <1>3, <1>5, <2>1 DEF onTransferConnect
  <2>2. CASE onTransferNull
    BY <1>5, <2>2, NullPreserves DEF onTransferConnect
  <2> QED BY <1>5, <2>1, <2>2 DEF onTransferConnect
<1>6. CASE onTransferNoTimeout
  <2>1. PICK k \in DataSockets \ Opened :
          socket' = [socket EXCEPT ![k] = New("PORT", local.remoteAddr)]
    BY <1>6 DEF onTransferNoTimeout
  <2>2. /\ Here("transfer") /\ UNCHANGED <<cmdSocket, dataOutputStream, transfer>>
        /\ dataSocket' = Nothing /\ SoTimeoutMayFail /\ Goto("session", "check")
    BY <1>6 DEF onTransferNoTimeout
  <2> HIDE DEF New
  <2> QED BY <1>1, <1>2, <2>1, <2>2, OpenPreserves
<1>7. CASE CheckSocket
  <2>1. CASE dataSocket = Nothing
    <3>1. /\ EndWith("425") /\ "425" \in Codes \ {"none"} /\ at["session"] = "check"
          /\ UNCHANGED <<cmdSocket, dataSocket, dataOutputStream, socket>>
      BY <1>7, <2>1 DEF CheckSocket, Here, Codes
    <3> QED BY <3>1, EndPreserves DEF TransferPoints, SessionPoints, Open, Opened, TransferInv,
                                      Types
  <2>2. CASE dataSocket # Nothing
    BY <1>7, <2>2, MovePreserves DEF CheckSocket, Here
  <2> QED BY <2>1, <2>2
<1>8. CASE GetOutputStream
  <2>1. CASE dataSocket = Nothing
    BY <1>8, <2>1, CrashKeeps DEF GetOutputStream, Open
  <2>2. CASE dataSocket \in Open
    <3> USE DEF TransferInv
    <3>1. /\ dataOutputStream' = dataSocket /\ dataSocket \in DataSockets
          /\ at' = [at EXCEPT !["session"] = IF transfer.cmd \in Uploads THEN "receive" ELSE "send"]
          /\ cmdSocket' \in Written /\ Here("stream")
          /\ UNCHANGED <<dataSocket, transfer, socket>>
      BY <1>8, <2>2 DEF GetOutputStream, Goto, Open
    <3>2. /\ at'["session"] = IF transfer.cmd \in Uploads THEN "receive" ELSE "send"
          /\ at'["closer"] = at["closer"] /\ Open' = Open
          /\ transfer.cmd \in Uploads \union Downloads
      BY <3>1 DEF Types, Open, PointFitsCommand, Here, Commands
    <3>3. Types'
      BY <3>1, <3>2 DEF Types, Written, SessionPoints
    <3>4. FieldsOpened' /\ ConfirmedTransferIsComplete'
      BY <3>1 DEF FieldsOpened, Opened, ConfirmedTransferIsComplete
    <3>5. PointFitsCommand' /\ ChunksCounted'
      BY <3>1, <3>2 DEF PointFitsCommand, ChunksCounted, Counted, Here, TransferPoints,
                        SessionPoints
    <3>6. Undisturbed' /\ FoundIsHeld'
      BY <3>1, <3>2 DEF Undisturbed, FoundIsHeld, Here
    <3> QED BY <3>3, <3>4, <3>5, <3>6
  <2>3. CASE dataSocket \notin Open /\ dataSocket # Nothing
    <3> USE DEF TransferInv
    <3>1. /\ dataSocket' = Nothing /\ EndWith("425") /\ Here("stream")
          /\ UNCHANGED <<dataOutputStream, cmdSocket, socket>>
      BY <1>8, <2>3 DEF GetOutputStream
    <3>2. /\ transfer' = [transfer EXCEPT !.code = "425"]
          /\ transfer.cmd \in Uploads \union Downloads
          /\ at'["session"] = AfterCode(transfer.cmd) /\ at'["closer"] = at["closer"]
          /\ Open' = Open
      BY <3>1 DEF EndWith, Goto, Types, Open, PointFitsCommand, Here, Commands
    <3>3. Types'
      BY <3>1, <3>2 DEF EndWith, Goto, Types, AfterCode, SessionPoints, ClosePoints, Codes
    <3>4. FieldsOpened' /\ ConfirmedTransferIsComplete'
      BY <3>1, <3>2 DEF Types, FieldsOpened, Opened, ConfirmedTransferIsComplete
    <3>5. PointFitsCommand' /\ ChunksCounted'
      BY <3>1, <3>2 DEF Types, PointFitsCommand, ChunksCounted, AfterCode, Here, TransferPoints,
                        SessionPoints
    <3>6. Undisturbed' /\ FoundIsHeld'
      BY <2>3, <3>1, <3>2 DEF Types, Undisturbed, FoundIsHeld, AfterCode, Here, Uploads,
                              Downloads
    <3> QED BY <3>3, <3>4, <3>5, <3>6
  <2> QED BY <2>1, <2>2, <2>3
<1> QED
  BY <1>4, <1>5, <1>6, <1>7, <1>8 DEF StartUsingDataSocket

\* The thread takes a stream, and so its socket, out of a field.
LEMMA TakePreserves ==
  ASSUME TransferInv, NEW k \in Opened, NEW to,
         \/ Here("input") /\ k = dataSocket /\ to = "reading"
         \/ Here("write") /\ k = dataOutputStream /\ to = "writing",
         transfer' = [transfer EXCEPT !.on = k], Goto("session", to),
         UNCHANGED <<cmdSocket, dataSocket, dataOutputStream, socket, found>>
  PROVE  TransferInv'
<1> USE NothingNoSocket DEF TransferInv, Goto, Here
<1>1. /\ at'["session"] = to /\ at'["closer"] = at["closer"]
      /\ k \in DataSockets /\ Open' = Open /\ Opened' = Opened
      /\ transfer.code = "none" /\ transfer'.code = "none"
      /\ transfer'.on = k /\ transfer'.done = transfer.done
      /\ transfer'.cmd = transfer.cmd /\ transfer'.binary = transfer.binary
  BY DEF Types, Open, Opened, PointFitsCommand, TransferPoints, SessionPoints
<1>2. Types'
  BY <1>1 DEF Types, SessionPoints
<1>3. FieldsOpened' /\ ConfirmedTransferIsComplete'
  BY <1>1 DEF FieldsOpened, ConfirmedTransferIsComplete
<1>4. PointFitsCommand'
  BY <1>1 DEF PointFitsCommand, TransferPoints, SessionPoints
<1>5. ChunksCounted'
  <2>1. socket[k].got \in Nat /\ socket[k].sent \in Nat
    BY <1>1 DEF Types, SocketStates
  <2> QED BY <1>1, <2>1 DEF ChunksCounted, Counted
<1>6. Undisturbed' /\ FoundIsHeld'
  BY <1>1 DEF Undisturbed, FoundIsHeld
<1> QED
  BY <1>2, <1>3, <1>4, <1>5, <1>6

LEMMA ReadChunkPreserves == ASSUME TransferInv, ReadChunk, UNCHANGED found PROVE TransferInv'
<1> USE NothingNoSocket DEF TransferInv, commandVars, localVars, fieldVars, Here
<1> DEFINE k == transfer.on
<1>1. /\ k \in DataSockets /\ socket[k] \in SocketStates /\ socket[k].got < socket[k].sent
      /\ socket' = [socket EXCEPT ![k].got = @ + 1] /\ transfer.cmd \in Uploads
      /\ at["session"] = "reading" /\ transfer.code = "none"
      /\ UNCHANGED <<cmdSocket, dataSocket, dataOutputStream, found>>
  BY DEF ReadChunk, Types, PointFitsCommand, Reading, Pending, TransferPoints, SessionPoints
<1> HIDE DEF k
<1>2. PICK n \in Nat : n = socket[k].got + 1 /\ n <= socket[k].sent
  BY <1>1 DEF SocketStates
<1>3. /\ socket' \in [DataSockets -> SocketStates] /\ Open' = Open /\ Opened' = Opened
      /\ socket'[k].got = n /\ socket'[k].sent = socket[k].sent
  <2>1. socket' = [socket EXCEPT ![k].got = n]
    BY <1>1, <1>2
  <2> QED BY <1>1, <2>1 DEF Open, Opened, Types, SocketStates
<1>4. CASE EndWith("451")
  BY <1>1, <1>3, <1>4, EndPreserves DEF TransferPoints, SessionPoints, Codes
<1>5. CASE transfer' = [transfer EXCEPT !.done = @ + 1] /\ Goto("session", "receive")
  <2>1. /\ at'["session"] = "receive" /\ at'["closer"] = at["closer"]
        /\ at' \in [{"session", "closer"} -> SessionPoints \union ClosePoints \union CloserPoints]
    BY <1>5 DEF Goto, Types, SessionPoints
  <2>2. transfer.done = socket[k].got /\ dataSocket \in {Nothing, k}
    BY <1>1 DEF ChunksCounted, Counted, k
  <2>3. transfer' = [transfer EXCEPT !.done = n]
    BY <1>2, <1>5, <2>2
  <2>4. Types'
    BY <1>1, <1>3, <2>1, <2>3 DEF Types, SessionPoints
  <2>5. FieldsOpened' /\ ConfirmedTransferIsComplete'
    BY <1>1, <1>3, <2>3 DEF FieldsOpened, ConfirmedTransferIsComplete, Types
  <2>6. PointFitsCommand' /\ transfer'.on = k /\ transfer'.done = n
    BY <1>1, <2>1, <2>3 DEF PointFitsCommand, Types, k, TransferPoints, SessionPoints, Commands,
                            Uploads
  <2>7. ChunksCounted'
    BY <1>1, <1>2, <1>3, <2>1, <2>2, <2>6 DEF ChunksCounted, Counted
  <2>8. Undisturbed' /\ FoundIsHeld'
    BY <1>1, <1>3, <2>1 DEF Undisturbed, FoundIsHeld
  <2> QED BY <2>4, <2>5, <2>6, <2>7, <2>8
<1> QED
  BY <1>4, <1>5 DEF ReadChunk

LEMMA ReceivePreserves == ASSUME TransferInv, Receive, UNCHANGED found PROVE TransferInv'
<1> USE DEF commandVars, localVars, fieldVars, Here
<1>1. /\ socket \in [DataSockets -> SocketStates]
      /\ UNCHANGED socket => Open' = Open /\ Opened' = Opened
  BY DEF TransferInv, Types, Open, Opened
<1>2. ASSUME NEW code \in Codes \ {"none", "226"}, EndWith(code),
             at["session"] \in {"receive", "input", "reading"},
             UNCHANGED <<cmdSocket, dataSocket, dataOutputStream, socket>>
      PROVE  TransferInv'
  BY <1>1, <1>2, EndPreserves DEF TransferPoints, SessionPoints
<1>3. CASE TestDataSocket
  <2>1. CASE dataSocket = Nothing
    BY <1>2, <1>3, <2>1 DEF TestDataSocket, Codes
  <2>2. CASE dataSocket # Nothing
    BY <1>3, <2>2, MovePreserves DEF TestDataSocket
  <2> QED BY <2>1, <2>2
<1>4. CASE TestConnected
  <2>1. CASE dataSocket = Nothing
    BY <1>4, <2>1, CrashKeeps DEF TestConnected
  <2>2. CASE dataSocket # Nothing
    BY <1>4, <2>2, MovePreserves DEF TestConnected
  <2> QED BY <2>1, <2>2
<1>5. CASE GetInputStream
  <2>1. CASE dataSocket = Nothing
    BY <1>5, <2>1, NothingNoSocket, CrashKeeps DEF GetInputStream, Open
  <2>2. CASE dataSocket \in Open
    <3>1. dataSocket # Nothing /\ dataSocket \in Opened
      BY <2>2, NothingNoSocket DEF Open, Opened
    <3> QED BY <1>5, <2>2, <3>1, TakePreserves DEF GetInputStream
  <2>3. CASE dataSocket \notin Open /\ dataSocket # Nothing
    BY <1>2, <1>5, <2>3 DEF GetInputStream, Codes
  <2> QED BY <2>1, <2>2, <2>3
<1>6. CASE ReadChunk
  BY <1>6, ReadChunkPreserves
<1>7. CASE ReadEnd
  <2>1. /\ transfer.on # Nothing /\ transfer.cmd \in Uploads /\ transfer.on \in DataSockets
        /\ at["session"] = "reading" /\ EndWith("226")
        /\ UNCHANGED <<cmdSocket, dataSocket, dataOutputStream, socket>>
    BY <1>7 DEF ReadEnd, TransferInv, PointFitsCommand, Types
  <2>2. transfer.done = socket[transfer.on].sent /\ socket[transfer.on].client = "finished"
    BY <1>7, <2>1 DEF ReadEnd, Reading, Pending, TransferInv, ChunksCounted, Counted, Types,
                      SocketStates
  <2> QED
    BY <1>1, <2>1, <2>2, EndPreserves DEF Uploads, Downloads, Codes, TransferPoints,
                                          SessionPoints
<1>8. CASE ReadError
  BY <1>2, <1>8 DEF ReadError, ReadErrorCode, Codes
<1> QED
  BY <1>3, <1>4, <1>5, <1>6, <1>7, <1>8 DEF Receive

LEMMA SendPreserves == ASSUME TransferInv, Send, UNCHANGED found PROVE TransferInv'
<1> USE DEF commandVars, localVars, fieldVars, Here
<1>1. /\ socket \in [DataSockets -> SocketStates]
      /\ UNCHANGED socket => Open' = Open /\ Opened' = Opened
  BY DEF TransferInv, Types, Open, Opened
<1>2. ASSUME AfterSend(FALSE), at["session"] \in {"send", "writing"},
             UNCHANGED <<cmdSocket, dataSocket, dataOutputStream, socket>>
      PROVE  TransferInv'
  BY <1>1, <1>2, AfterSendPreserves
<1>3. CASE TestStream
  <2>1. CASE dataOutputStream = Nothing
    BY <1>2, <1>3, <2>1 DEF TestStream
  <2>2. CASE dataOutputStream # Nothing
    BY <1>3, <2>2, MovePreserves DEF TestStream
  <2> QED BY <2>1, <2>2
<1>4. CASE FileReadFails
  BY <1>1, <1>4, EndPreserves DEF FileReadFails, Codes, TransferPoints, SessionPoints
<1>5. CASE BeginWrite
  <2>1. CASE dataOutputStream = Nothing
    BY <1>5, <2>1, CrashKeeps DEF BeginWrite
  <2>2. CASE dataOutputStream # Nothing
    <3>1. dataOutputStream \in Opened
      BY <2>2 DEF TransferInv, FieldsOpened
    <3> QED BY <1>5, <2>2, <3>1, TakePreserves DEF BeginWrite
  <2> QED BY <2>1, <2>2
<1>6. CASE WriteChunk
  <2> DEFINE k == transfer.on
             n == socket[k].got + 1
             chunk == [socket[k] EXCEPT !.got = n]
             full == [chunk EXCEPT !.room = FALSE]
  <2>1. /\ k # Nothing /\ k \in DataSockets /\ socket[k] \in SocketStates
        /\ at["session"] = "writing" /\ transfer.cmd \in Downloads /\ AfterSend(TRUE)
        /\ UNCHANGED <<cmdSocket, dataSocket, dataOutputStream>>
    BY <1>6 DEF WriteChunk, TransferInv, PointFitsCommand, Types
  <2>2. socket' = [socket EXCEPT ![k] = full]
    BY <1>6, <2>1, <1>1 DEF WriteChunk
  <2>3. chunk \in SocketStates /\ chunk.got = n /\ chunk.here = socket[k].here
    BY <2>1 DEF SocketStates
  <2>4. full \in SocketStates /\ full.got = n /\ full.here = socket[k].here
    <3> HIDE DEF chunk
    <3>1. full \in SocketStates
      BY <2>3, RoomTyped
    <3> QED BY <2>3, <3>1 DEF SocketStates
  <2>5. transfer.binary => transfer.done = socket[k].got /\ dataOutputStream \in {Nothing, k}
    BY <2>1 DEF TransferInv, ChunksCounted, Counted
  <2> HIDE DEF full
  <2>6. /\ socket' \in [DataSockets -> SocketStates] /\ Open' = Open /\ Opened' = Opened
        /\ socket'[k].got = n
    BY <1>1, <2>1, <2>2, <2>4 DEF Open, Opened
  <2> QED
    BY <2>1, <2>5, <2>6, AfterSendPreserves
<1>7. CASE WriteError
  BY <1>2, <1>7 DEF WriteError
<1> QED
  BY <1>3, <1>4, <1>5, <1>6, <1>7 DEF Send
-----------------------------------------------------------------------------
(* The theorems.                                                           *)

LEMMA TransferInit == Init => TransferInv
<1> SUFFICES ASSUME Init PROVE TransferInv
  OBVIOUS
<1> USE DEF Init, Here, NoTransfer, Unopened
<1>1. Types
  BY DataBounds DEF Types, SocketStates, Commands, Codes, SessionPoints, ClosePoints,
                    CloserPoints, Nothing
<1>2. Open = {}
  BY DEF Open
<1> QED
  BY <1>1, <1>2 DEF TransferInv, FieldsOpened, PointFitsCommand, TransferPoints, SessionPoints,
                    ChunksCounted, ConfirmedTransferIsComplete, Undisturbed, FoundIsHeld

LEMMA TransferPreserved == ASSUME TransferInv, LocalInv, [Next]_vars PROVE TransferInv'
<1>1. CASE UNCHANGED vars
  BY <1>1, TransferUntouched DEF vars, Kept, TransferInv, Types
<1>2. CASE ClientStep
  BY <1>2, ClientPreserves
<1>3. CASE SessionStep
  <2>1. CASE closeDataSocket("session")
    BY <1>3, <2>1, CloseDataSocketPreserves DEF SessionStep, Threads
  <2> QED
    BY <1>3, <2>1, CommandPreserves, StartPreserves, ReceivePreserves, SendPreserves,
       ReplyPreserves DEF SessionStep
<1>4. CASE onTransferAcceptFails
  BY <1>4, NullPreserves DEF onTransferAcceptFails, commandVars
<1>5. CASE Terminate
  BY <1>5, TerminatePreserves
<1>6. CASE CloserStep
  BY <1>6, CloseDataSocketPreserves, EndTerminatePreserves DEF CloserStep, Threads
<1> QED
  BY <1>1, <1>2, <1>3, <1>4, <1>5, <1>6 DEF Next

LEMMA TransferInvariant == Spec => [](TransferInv /\ LocalInv)
BY TransferInit, TransferPreserved, LocalInit, LocalPreserved, EveryStepLocal, PTL DEF Spec

\* A 226 reply tells the truth about the data, for any number of transfers and chunks,
\* with the server thread terminating the session at any step and setSoTimeout free to
\* fail: STOR has the whole of what an orderly client sent, LIST and a binary RETR have
\* written all they had to one data socket.
THEOREM ConfirmedIsComplete == Spec => []ConfirmedTransferIsComplete
BY TransferInvariant, PTL DEF TransferInv

\* Whenever the command loop waits for a line, in a session that nobody terminates, no
\* data socket is open, provided that setSoTimeout never throws on a connected socket:
\* LocalDataSocket.onTransfer would drop such a socket without closing it.
THEOREM SocketIsReleased ==
  ASSUME ~SoTimeoutMayFail PROVE Spec => []TransferReleasesSocket
<1>1. TransferInv => TransferReleasesSocket
  BY NothingNoSocket DEF TransferInv, Undisturbed, TransferReleasesSocket, Here, Open
<1> QED
  BY <1>1, TransferInvariant, PTL

\* When FsService.terminateAllSessions is done with a session's data connection, the
\* data socket that it found there is closed, whatever the session thread did meanwhile.
THEOREM TerminationCloses == Spec => []TerminateClosesWhatItFinds
<1>1. TransferInv => TerminateClosesWhatItFinds
  BY DEF TransferInv, FoundIsHeld, TerminateClosesWhatItFinds, ClosePoints
<1> QED
  BY <1>1, TransferInvariant, PTL

\* Only startUsingDataSocket opens data sockets, one at a time, the way that the
\* LocalDataSocket says.
LEMMA OpenedAsAnnounced ==
  ASSUME TransferInv, LocalInv, Next, NEW k \in DataSockets, k \notin Opened, (k \in Opened)'
  PROVE  socket'[k].via = announced
<1> USE DEF commandVars, localVars, fieldVars
<1>1. socket[k].here = "none" /\ socket'[k].here # "none" /\ socket[k] \in SocketStates
  BY DEF Opened, TransferInv, Types
<1>2. \A mode, n : NewSocket(mode, n) => socket'[k].via = n
  <2> SUFFICES ASSUME NEW mode, NEW n, NewSocket(mode, n) PROVE socket'[k].via = n
    OBVIOUS
  <2> QED BY <1>1 DEF NewSocket, Unopened, TransferInv, Types, SocketStates
<1>3. CASE ClientStep
  BY <1>1, <1>3 DEF ClientStep, SendLine, LeaveCommandConnection, Connect, SendChunk, Finish,
                    GiveUp, Drain, SetSocket, TransferInv, Types, SocketStates
<1>4. CASE onTransferAccept
  BY <1>2, <1>4 DEF onTransferAccept, LocalInv, OneListener
<1>5. CASE onTransferConnect
  BY <1>1, <1>2, <1>5 DEF onTransferConnect, onTransferNull, LocalInv
<1>6. CASE onTransferNoTimeout
  BY <1>1, <1>6 DEF onTransferNoTimeout, Unopened, TransferInv, Types, SocketStates, LocalInv
<1>7. CASE ReadChunk \/ WriteChunk
  <2>1. transfer.on \in DataSockets
    BY <1>7 DEF ReadChunk, WriteChunk, TransferInv, Types, PointFitsCommand, Here
  <2>2. \E state : /\ socket' = [socket EXCEPT ![transfer.on] = state]
                   /\ state.here = socket[transfer.on].here
    <3> DEFINE chunk == [socket[transfer.on] EXCEPT !.got = @ + 1]
               full == [chunk EXCEPT !.room = FALSE]
    <3>1. socket[transfer.on] \in SocketStates
      BY <2>1 DEF TransferInv, Types
    <3>2. chunk.here = socket[transfer.on].here /\ full.here = socket[transfer.on].here
      BY <3>1 DEF SocketStates
    <3>3. \/ socket' = [socket EXCEPT ![transfer.on] = chunk]
          \/ socket' = [socket EXCEPT ![transfer.on] = full]
      BY <1>7, <2>1 DEF ReadChunk, WriteChunk, TransferInv, Types
    <3> HIDE DEF chunk, full
    <3> QED BY <3>2, <3>3
  <2> QED
    BY <1>1, <2>1, <2>2 DEF TransferInv, Types
<1>8. ASSUME NEW t \in Threads, closeDataSocket(t) PROVE FALSE
  <2>1. dataSocket \in Opened \/ dataSocket = Nothing
    BY DEF TransferInv, FieldsOpened
  <2>2. dataOutputStream \in Opened \/ dataOutputStream = Nothing
    BY DEF TransferInv, FieldsOpened
  <2> QED
    BY <1>1, <1>8, <2>1, <2>2 DEF closeDataSocket, CloseTestStream, CloseStream, ClearStream,
         CloseTestSocket, CloseSocket, ClearSocket, CloseOf, TransferInv, Types, SocketStates
<1>9. CASE UNCHANGED socket
  BY <1>1, <1>9
<1> QED
  <2>1. CASE SessionStep
    <3>1. CASE Command \/ Reply
      BY <1>9, <3>1 DEF Command, CommandPASV, CommandPASVFails, CommandPORT, CommandQUIT,
                        CommandTransfer, CommandConnectionEnds, Reply
    <3>2. CASE CheckSocket \/ GetOutputStream
      BY <1>9, <3>2 DEF CheckSocket, GetOutputStream
    <3>3. CASE Receive
      BY <1>7, <1>9, <3>3 DEF Receive, TestDataSocket, TestConnected, GetInputStream, ReadEnd,
                              ReadError
    <3>4. CASE Send
      BY <1>7, <1>9, <3>4 DEF Send, TestStream, FileReadFails, BeginWrite, WriteError
    <3> QED
      BY <2>1, <1>4, <1>5, <1>6, <1>8, <3>1, <3>2, <3>3, <3>4
         DEF SessionStep, StartUsingDataSocket, Threads
  <2>2. CASE onTransferAcceptFails \/ Terminate \/ EndTerminate
    BY <1>9, <2>2 DEF onTransferAcceptFails, onTransferNull, Terminate, EndTerminate
  <2> QED
    BY <1>3, <1>8, <2>1, <2>2 DEF Next, CloserStep, Threads

\* Every data connection is made the way that the last accepted PASV or PORT announced:
\* no client of an earlier passive port is accepted, no earlier address is called.
THEOREM AnnouncementIsUsed == Spec => LastAnnouncementUsed
<1>1. TransferInv /\ LocalInv /\ [Next]_vars =>
        [\A k \in DataSockets : k \notin Opened /\ k \in Opened' => socket'[k].via = announced]_vars
  BY OpenedAsAnnounced
<1> QED
  BY <1>1, TransferInvariant, PTL DEF Spec, LastAnnouncementUsed
=============================================================================
