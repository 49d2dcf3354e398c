# TLA+ models of the SwiFTP server, a video player and libpng's rows and progressive reader

The repository is a collection of Android applications and libraries. Its largest body
of concurrent logic of its own is `swiFTPLib`, an FTP server that runs as an Android
service; next comes a video player that shares a decoder between two threads. The
largest body of C is libpng, which `src/ndktest` builds. This directory models the
server, the player, the path that the rows of an image take through libpng and its
progressive reader, which gets a file in pieces; it checks
the models with TLC and proves theorems about them with TLAPS. Paths below are relative
to `src/swiFTPLib/src/main/java/be/ppareit/swiftp/` unless they start with `src/`;
libpng's are relative to `src/ndktest/src/main/CPP/libpng/`.

Contents: [inventory](#inventory), [modules](#modules-and-the-code), [runs](#runs),
[fairness](#fairness), [proofs](#proofs), [limits](#what-is-not-modelled),
[plan](#plan).

## Inventory

### The FTP server

| part | state | operations | talks to |
|---|---|---|---|
| `FsService` | static `serverThread`; per instance `shouldExit`, `listenSocket`, `wifiListener`, `sessionThreads`, two locks | `onStartCommand`, `onDestroy`, `run`, `terminateAllSessions`, `registerSessionThread`, `isRunning`, `onTaskRemoved` | the activity manager; its listener; every session; the receivers, by broadcasts |
| `TcpListener` | the listen socket it was given | `run` (accept, start, register), `quit` | `FsService.registerSessionThread` |
| `SessionThread`, `LocalDataSocket` | command socket; data socket and its stream; passive listener or PORT address | `startUsingDataSocket`, `sendViaDataSocket`, `receiveFromDataSocket`, `closeDataSocket`, `onPasv`, `onPort`, `onTransfer` | the client; the server thread, which closes both sockets |
| `SessionThread`, `FtpCmd`, `Cmd*` | account, `userAuthenticated`, `authFails`, `binaryMode`, `offset`, `renameFrom`, `workingDir` | `dispatchCommand`, one `run` per command | the file system, the client |
| `CmdAbstractStore`, `CmdRETR`, `CmdRNTO`, `CmdDELE`, `CmdRMD`, `CmdMKD` | the files | store, append, retrieve, rename, delete, make | other sessions, through the files |
| `MediaUpdater` | static `sTimer` | `notifyFileDeleted`, `notifyFileCreated` | every session thread calls it |
| `NsdService` | `mNsdManager`, `running` | `onCreate` and the thread it spawns, `onDestroy` | broadcasts of `FsService` |
| `RequestStartStopReceiver`, `gui/*` | the switch, the notification, the widget | start, stop, `onReceive` | `FsService` |

Four kinds of thread run at once: the application's main thread (service callbacks and
receivers, one at a time), one server thread per service instance, one listener thread
per server thread, one thread per session; `MediaUpdater`'s timers and `NsdService`'s
thread come on top. They share fields mostly without locks: `registerSessionThread` and
`terminateAllSessions` are the only synchronized ones.

What is hard, and what makes each part correct:

- *Lifecycle.* A stop is asynchronous, has a join with a limit, and may be followed at
  once by a start; a start may fail after half its work; Android may kill the process
  and start the sticky service again. Correct means: at most one server thread, nothing
  held after a stop, broadcasts that tell the truth, no session lost.
- *Data connection.* A transfer can fail at each of its calls, the client may be silent,
  reset or leave, and the server thread closes the sockets under the session. Correct
  means: sockets released, no confirmation of a truncated transfer, the last PASV or
  PORT obeyed, a terminated session that ends.
- *Files.* Sessions work on the same names at once; an upload or a rename is several
  calls of the file system. Correct means: no file lost, no mixture of versions, a
  confirmed upload is what the client sent.
- *ASCII mode.* Line ends are converted buffer by buffer; a CR LF may be cut in two.
- *Sessions and directories.* Lines that were sent together are read together, settings
  change under running sessions, and a recursive removal walks a tree that others
  change. The root itself changes with the owner's setting and, in a new installation,
  with the storage that is mounted or goes; the file system may refuse a call. Correct
  means: nobody without the password changes the tree, nobody leaves the root, a removal's
  reply is true, a session past its limit ends, no command throws.
- *Media updater, service discovery.* Shared fields used from two threads without a
  lock; calls that hang, fail or come late.

### The video player (`src/akvideoplayer`)

| part | state | operations |
|---|---|---|
| `AkVideoPlayer2` | `mPlayState`, a handler's queue of runnables | `onplay`, `onPause`, `onProgressTurn`, `onPannelControl`, `playUrl`, `onResume`, `onPause` |
| `MediaControler` | which panels are visible, what the button shows | `setPannelVisiable`, `setSmallPannelVisiable`, gestures |
| `CCVideoView` | `test`, the runnable that decodes a frame and posts itself | `start`, `pause`, `seekTo` |
| `ccMediaDecoder.c` | one FFmpeg context, `out_buffer` | `loadfile`, `decode_one_frame`, `seekTo` |
| `YuvRender` | textures | `onDrawFrame`, on GLSurfaceView's thread |

All of it but the drawing runs on the main thread, in the order in which runnables fall
due. Correct means: a paused video stands still, the controls tell the truth and keep
moving, the last frame gets drawn.

### libpng's row path

| part | state | operations |
|---|---|---|
| writer: `pngwrite.c`, `pngwutil.c` | `row_number`, `pass`, `do_filter`, four row buffers that change places | `png_write_row`, `png_write_find_filter`, `png_do_write_interlace`, `png_write_finish_row`, `png_set_filter` |
| sequential reader: `pngread.c`, `pngrutil.c` | `row_number`, `pass`, `iwidth`, `row_buf`, `prev_row` | `png_read_row`, `png_read_filter_row`, `png_do_read_interlace`, `png_combine_row`, `png_read_finish_row` |
| progressive reader, rows: `pngpread.c` | the same | `png_push_process_row`, `png_read_push_finish_row`, `png_push_have_row` |
| progressive reader, file: `pngpread.c` | `process_mode`, `mode`, the piece at hand, `save_buffer` with what is left of earlier ones | `png_process_data`, `png_push_read_sig`, `png_push_read_chunk`, `png_push_read_IDAT`, `png_push_save_buffer`, `png_process_data_pause` |
| `png.h` | | the macros by which applications place the pixels of a pass |

Writer and readers share nothing but the compressed bytes: each works out for itself
which rows a pass has, how long they are and what is above them, from tables, macros,
tests and masks that are written down several times. Correct means: they agree for
every size, and the image comes back whatever filters were chosen on the way.

The progressive reader has no control over how much it gets: a piece may end inside the
signature, a length, a CRC or a row, and a callback may stop it. It keeps the rest and
counts what it has. Correct means: it does with the pieces what a reader of the whole
file would do, and waits for no byte that it does not need.

### The other parts of the repository

| part | what it is |
|---|---|
| `src/ftpserver` | an Android service around the Apache FtpServer library, with a virtual file system of its own (shared homes, document trees) and saved settings |
| `src/wallpaper` | wallpapers that change and fade, an alarm that changes them, a GL thread copied from Android's `GLSurfaceView` |
| `src/android-dd` | the ZXing Barcode Scanner application (vendored) |
| `src/app`, `src/opengl`, `src/vpn`, `src/mt`, `src/photoview`, `src/videotest` | small screens and exercises |
| the rest of libpng, libjpeg, `src/aFileChooser`, LiteSuits, the FFmpeg headers and `AkVideoPlayer` on the system's `VideoView` | vendored libraries and thin wrappers |

`PROJECT.json` lists all components with their status, and the hazards of the code at
their lines with the properties that guard them.

## Modules and the code

Every module models one shared access per step where threads race on it, and one call
of the system per step where a call can fail or be overtaken. A definition that ends in
`_Something` next to one without it is a *mutant*: the same operation with a plausible
mistake. Each checked property is violated when its mutant takes the operation's place.

### FtpService (with OnOffServer)

`FsService`, `TcpListener`, `RequestStartStopReceiver` and the alarm of `onTaskRemoved`.
Variables carry the names of the fields they stand for (`serverThread`, `shouldExit`,
`listenSocket`, `wifiListener`, `sessionThreads`); `server`, `listener`, `main` and
`session` hold the control points of the threads. `record`, `inbox` and `outbox` are
Android's: the service record, the main thread's messages, the broadcasts. Instances of
the service are numbered, since `serverThread` is static and outlives them.

| code | actions |
|---|---|
| `onStartCommand` 80-99 | `onStartCommand`, `EndWait` (the loop that waits for a previous thread) |
| `onDestroy` 116-154 | `onDestroy`, `JoinServerThread`, `CloseListenSocket`, `ReleaseWifiLock`, `ReleaseWakeLock` |
| `run` 164-229 | `CheckNetwork`, `Bind`, `takeWifiLock`, `takeWakeLock`, `AnnounceStarted`, `SpawnListener`, `LeaveLoop`, `terminateAllSessions`, `QuitListener`, `AcknowledgeExit`, `AnnounceStopped`, `BailOut`, `AnnounceFailed` |
| `TcpListener.run` 48-62, `registerSessionThread` 379-414 | `Accept`, `registerSessionThread`, `ListenerEnds` |
| receiver and alarm | `RequestStart`, `RequestStop`, `TaskRemovedAlarm` |
| outside | `Deliver`, `Kill` (with the sticky restart), `SessionEnds` |

`OnOffServer` is what the service promises to the rest of the application: one server
that is off, starting or up, and broadcasts that say so. `FtpService` maps to it by
`phase` (from the server threads) and `told` (the last broadcast sent).

### DataConnection

`SessionThread`'s half of a transfer and `LocalDataSocket`, driven by PASV, PORT,
STOR/APPE, RETR, LIST and QUIT, against the closer (`terminateAllSessions`) and the
client. Each read and write of `dataSocket` and `dataOutputStream` is a step; a call
through a field that the other thread has set to null is the step `Crash`, since nobody
catches the exception and Android then ends the process. `socket` holds both ends of
each data socket ever opened. `found` is there for a property: what the closer found.

| code | actions |
|---|---|
| `SessionThread.run` 233-260, `CmdPASV`, `CmdPORT`, `CmdQUIT` | `CommandPASV`, `CommandPASVFails`, `CommandPORT`, `CommandTransfer`, `CommandQUIT`, `CommandConnectionEnds` |
| `LocalDataSocket.onTransfer` 83-123 | `onTransferAccept`, `onTransferAcceptFails`, `onTransferConnect`, `onTransferNoTimeout` |
| `startUsingDataSocket` 184-204 | `CheckSocket`, `GetOutputStream` |
| `receiveFromDataSocket` 117-157 | `TestDataSocket`, `TestConnected`, `GetInputStream`, `ReadChunk`, `ReadEnd`, `ReadError` |
| `sendViaDataSocket` 90-115 | `TestStream`, `BeginWrite`, `WriteChunk`, `WriteError`; `FileReadFails` for the file |
| `closeDataSocket` 211-227 | `CloseTestStream` ... `ClearSocket`, by both threads |
| `terminateAllSessions` 231-241 | `Terminate`, the closer's `closeDataSocket`, `EndTerminate` |

### FileStore

The files behind REST, STOR, APPE, RETR, DELE, RNFR and RNTO, for several sessions. A
directory maps names to files, files are sequences of bytes, and a byte is the number of
the command that wrote it, so a mixture of two writers is visible. A file whose name is
gone lives on for those who have it open, as on any file system of Android. `Kill` may
come between any two steps.

| code | actions |
|---|---|
| `doStorOrAppe` 47-239 | `CheckOffset`, `CheckExists`, `DeleteOld`, `OpenToWrite`, `ConnectData`, `ReceiveByte`, `ReceiveEnds` |
| `CmdRETR.run` 40-160 | `OpenToRead`, `ConnectData`, `SendByte`, `SendEnds` |
| `CmdRNTO.run` 38-92 | `MakeTemp`, `RenameAway`, `DeleteFrom`, `RenameBack` |
| `CmdREST`, `CmdDELE`, `CmdRNFR` | `REST`, `DELE`, `RNFR` |
| `FtpCmd.dispatchCommand` 121-138 | `Allowed`: a guest may only download |

### AsciiTransfer

The loops of `CmdRETR` (97-138) and `CmdAbstractStore` (152-168): what goes out at each
byte of a buffer (`SentAt`, `WrittenAt`) and behind the last one, with the positions of
the code (`startPos`, which is the last LF or behind the last CR passed, `endPos`,
`lastBufEndedWithCR`). `Send` and `Store` choose every way of cutting the data into
buffers. The reference definitions, `WithCRLF` and `WithoutCR`, work on the whole file at
once.

### MediaUpdater

`notifyFileDeleted` before Android 4.4: load and cancel `sTimer`, assign a new one, load
and schedule. `java.util.Timer` is external: it drops its tasks when cancelled and throws
when given one afterwards. `overlapped` notes that two calls have been under way at once.

### NsdService

The receiver, `onCreate` and its thread, `onDestroy`. A call through `mNsdManager` loads
the field in one step and is made in another; `NsdManager` is external. Getting it and
registering may hang or fail, and unregistering may fail: `onDestroy` catches the exception
(152-156), and `onUnregistrationFailed` (84) only logs. `refused` notes for which service
that has happened.

### Session

The commands that decide who may do what, and those on directories, for sessions that
run at the same time on one tree. `ahead` counts the lines in a session's
`BufferedReader`: they are carried out even after the socket is closed. Settings are read
anew by every command, as `FsSettings` does; `getChrootDir` is the owner's directory or,
with the empty setting of a new installation, the external storage while it is mounted and
`/` while it is not. `violatesChroot` is a test of strings: `StartsWith` is what it is for
sequences of names, of which one may begin with another (`Continued`). `recursiveDelete` is
a stack of frames, one call of the file system a step. STOR deletes, opens its file and
then waits for its data connection (`at = "data"`), as RETR, LIST and NLST do; what ends
the wait is the client's doing. `refused` has the calls that the file system refuses: a
directory that is not listed (`listFiles` gives null), a path that is neither made nor
deleted. `granted`, `disturbed` and `moved` are there for the properties: that PASS was
given the password, that something has changed the tree or what is refused since the
removal began, and that the root has changed since the session took its working directory.

| code | actions |
|---|---|
| `SessionThread.run` 233-260 | `Connect`, `Receive`, `EndOfInput` |
| `FtpCmd.dispatchCommand` 66-145 | `Dispatched`, `Refuse`, `Runs` |
| `CmdUSER`, `CmdPASS`, `authAttempt` 370-382, `CmdQUIT` | `USER`, `PASS`, `authAttempt`, `QUIT` |
| `CmdCWD`, `CmdCDUP`, `CmdPWD` | `CWD`, `CDUP`, `PWD` |
| `FsSettings` 50-66, `FtpCmd.violatesChroot` 196-215 | `chrootDir`, `getChrootDir`, `StartsWith`, `violatesChroot` |
| `CmdMKD`, `CmdAbstractStore` 47-116 | `MKD`, `STOR`, `OpenFile` |
| `CmdRETR`, `CmdLIST`, `CmdNLST`, `LocalDataSocket` 111-124 | `Transfer`, `TransferEnds` |
| `CmdRMD` 37-100 | `RMD`, `Visit`, `ListFiles`, `NextEntry`, `DeleteFile`, `DeleteDirectory` |
| `FsPreferenceActivity`, `terminateAllSessions` | `ChangeLogin`, `ChangeRoot`, `ChangeAnonymous`, `Terminate` |
| storage and file system | `Remount`, `Trouble`, `Deletable`, `Refused` |

### VideoPlayer

The main thread's message queue is `queue`, with the delayed runnables in `later`: one of
them may fall due at any moment. A step of the main thread is one runnable or one call
from the user or the host; decoding is several, since the GL thread may draw meanwhile.
`alive` ends where the decoder uses a context that is NULL, in the first frame or by a drag
of the seek bar while no file is open: that ends the process, and the properties are about
the time before.

| code | actions |
|---|---|
| `CCVideoView.test` 22-32, `decode_one_frame` | `Frame`, `Write` |
| `AkVideoPlayer2`'s runnables 48-104, `setSmallPannelVisiable` | `UpdataSkb`, `HidePannel`, `ShowPannel`, `SmallPannel` |
| `mMediaControlImpl` 137-202 | `onplay`, `onPauseButton`, `startTracking`, `seekTo`, `stopTracking`, `singleTap`, `doubleTap` |
| `playUrl`, `onResume`, `onPause` 229-255 | the same names |
| `YuvRender.onDrawFrame` 148-190 | `onDrawFrame`, `CopyPlane` |
| Android | `FallDue`, `Without` (`removeCallbacks`), `Posted` |

### Adam7, PngFilter, PngRows, PngPush, PngFile, PngProgressive

`Adam7` holds every statement that libpng makes about the passes: the tables of the row
code, the macros of `png.h`, the tests by which rows are skipped, the masks of
`png_combine_row`. `PngFilter` has the arithmetic of the five filters, once as the writer
computes it and once as the reader undoes it. Both modules are pure operators.

`PngRows` sends an image through a writer and a reader. `wr` and `rd` are the two
`png_struct`s, `mem` the writer's buffers, which `row_buf`, `prev_row`, `try_row` and
`tst_row` point to; `stream` is what goes to and comes from zlib.

| code | definitions |
|---|---|
| `png_write_start_row` 1868-1979, `png_set_filter` 989-1112 | the same names |
| `png_write_row` 687-892 | `png_write_row`, `WriteRowSkipped` |
| `png_do_write_interlace`, `png_write_find_filter`, `png_setup_*_row`, `png_write_finish_row` | the same names, `Setup`, `Weights`, `SetupRow`, `Tried`, `TryFilter`, `Exchanged` |
| `png_read_row` 378-610 | `png_read_row`, `ReadRowSkipped`, `ShownAgain` |
| `png_read_start_row`, `png_read_filter_row` (`RowRead`), `png_do_read_interlace`, `png_combine_row`, `png_read_finish_row` | the same names, `Copied`, `AtPass` |
| `png_push_process_row` 738-965, `png_read_push_finish_row`, `png_push_have_row` | the same names, `PushRows` |

The code of `png_do_write_interlace` and `png_combine_row` is hundreds of lines because it
has a case for every depth; the model says which pixels end up where, through `PixelAt`
and `WithPixels`, which do what the shifts and masks do.

`PngPush` is the progressive reader between the application's pieces and zlib. A byte is
its position in the file, so that whatever a handler or zlib is given shows where it came
from; `file.header` says what chunk would begin at a position, and `file.damaged` where a
CRC or the signature is wrong. `buf` has the two buffers with their pointers and sizes.

| code | definitions |
|---|---|
| `png_push_fill_buffer` 420-460, `png_push_save_buffer` 463-520, `png_push_restore_buffer` 523-530 | `Bytes` (what is copied) and the same names (the buffers afterwards) |
| `png_process_data` 36-48, `png_process_data_pause` 51-75 | `png_process_data`, `Busy` (its loop); `Callback` |
| `png_push_read_sig` 134-164 | `png_push_read_sig` |
| `PNG_PUSH_SAVE_BUFFER_IF_LT`, `_IF_FULL` 28-33 | `WaitForHeader`, `full` |
| `png_push_read_chunk` 167-417 | `HandleChunk`, `BeginIDAT` |
| `png_push_read_IDAT` 533-623, `png_process_IDAT_data` 626-735 | `png_push_read_IDAT`, `EndIDAT` |

`PngFile` is what it promises: a reader that has the whole file and takes it apart chunk
by chunk. `PngPush` maps to it by `start` (where the chunk being read begins, computed
from what was given and what the buffers still hold), `idat` and the flags.
`PngProgressive` composes the two halves: `PngRows` writes an image, `WrittenFile` puts
the chunks around its stream, the pieces go through `PngPush`, and each row that zlib has
in full goes to `png_push_process_row` before anything else happens. zlib gives out each
byte with the byte that goes in, which is the earliest it can do.

## Runs

All bounds are constants of the modules and named in their headers.

| run | module | question | size |
|---|---|---|---|
| `FtpServiceStop` | MCFtpService | With a join that succeeds: does a destroyed service hold nothing (`DestroyedHoldsNothing`), is every running session known (`RunningSessionsAreKnown`), does a service that stays up get to serve (`ServiceServes`)? | 640 000 states |
| `FtpServiceTimeout` | MCFtpService | With a join that may expire: is a live thread never forgotten (`LiveThreadIsTracked`), does it still end (`DestroyedThreadExits`), are the broadcasts those of one on/off server (`ImplementsOnOffServer`)? | 360 000 |
| `DataTransfers` | DataConnection | Over sequences of commands with a termination at any step: one listener at most (`OneListener`), nothing confirmed that was cut off (`ConfirmedTransferIsComplete`), sockets released (`TransferReleasesSocket`), the closer effective (`TerminateClosesWhatItFinds`), the last PASV or PORT obeyed (`LastAnnouncementUsed`)? | 12 million |
| `DataEnds` | DataConnection | Does a terminated session end when its client answers (`TerminatedSessionEnds`)? | 2.4 million |
| `FileShared` | MCFileStore | With a user who writes and a guest who downloads: `DownloadIsOneVersion`, `UploadIsStored`, `RenameKeepsFile`? | 2.3 million |
| `Services` | MCServices | Two sessions that delete: `BroadcastAfterQuiet` and `CancelledTimerUnused` while their calls do not overlap, `DeletionAnnounced` also when they do? Starts and stops of the advertisement: a thread that is late never registers (`HungThreadBailsOut`), a stop takes back what was registered, or `NsdManager` was asked and failed (`StopTakesRegistrationBack`)? Every file of up to six bytes, every way of cutting it: `DownloadConverts`, `RoundTripKeepsFile`? | 62 000 |
| `SessionTree` | MCSession | Two sessions over every tree of four paths, with a change of the settings, of the storage or of what is refused: nobody but a user changes the tree (`OnlyUsersChangeTheTree`); a removal says what it did (`RemovalReplyIsTrue`) and does it if nothing disturbs it (`UndisturbedRemovalSucceeds`); no command throws without a cause outside of it (`CrashNeedsCause`)? | 890 000 |
| `SessionRoot` | MCSession | One session, with a directory beside the root whose name begins with the root's, and two changes: is the working directory one that `violatesChroot` lets pass, until the root changes (`WorkingDirStartsWithRoot`); does a closed session end, or come to wait for its client (`ClosedSessionEnds`)? | 1 million |
| `VideoPlayer` | VideoPlayer | A paused video stands still (`PausedIsStill`), the seek bar goes on (`SeekBarFollows`), the button tells the state (`ButtonTellsState`), the last frame is drawn (`LastFrameIsShown`)? | 2.6 million |
| `PngRows` | MCPngRows | What is read is what was written (`ImageIsRestored`), writer and reader agree on the rows (`StreamFits`), the progressive reader calls for each row once a pass (`EveryRowIsCalled`), between passes the display is blocky and the rows sparkle (`DisplayIsBlocky`, `RowsSparkle`); however the file is cut, the progressive reader does what one with the whole file does (`ImplementsPngFile`) and waits for nothing it does not need (`NothingHeldBack`)? | 210 000 |

Two runs state what a comment of the code says and end in a counterexample:

| run | what the comment says | what happens |
|---|---|---|
| `DataCrash` | `SessionThread.java:124`: "-2 if the data socket was not connected" | the closer sets `dataSocket` to null between test and use: a `NullPointerException` ends the process |
| `SessionSibling` | `server/CmdPWD.java:37-39`: "the current directory is located somewhere within the chroot directory" (`WorkingDirWithinRoot`) | `violatesChroot` compares strings: with the root `/r`, CWD to `/r2` is carried out |

`MCServices` puts `MediaUpdater`, `NsdService` and `AsciiTransfer` side by side. They share
nothing, so a behaviour is one of a single component, chosen at the start, while the other
two stay as they were; the states of the three add up.

Why the bounds are enough. Three instances and four requests give stop-start-stop with a
start while the previous thread still runs, and one kill with its restart; two sessions
are needed for one to be registered while another ends. Two announcements and two
transfers give every pair of PASV and PORT, a transfer after a failed one and a transfer
started from a line buffered before the termination; two chunks give a transfer cut off
in the middle. Two names, three commands and files of two bytes give upload, rename and
delete of a file being downloaded, and a REST in the middle of a file. Six bytes in
buffers of three give a CR LF that is cut, a buffer that is a single LF, and CRs next to
each other. Two sessions, a root, a directory and an entry give a removal that another
session disturbs at every one of its calls; three lines give a login and a command after
it, and one change (of the settings, the storage or what is refused) can come between
any two steps. `SessionRoot` has four lines, two of them read together, for the commands
that arrive with QUIT or with one login too many, and two changes, for a storage that
goes and comes back or is mounted after the owner has chosen a root; its paths are `/`,
the storage, a directory in it and one beside it whose name goes on after the storage's.
Two frames and six inputs give a pause after overlapping starts, a drag with its delayed
runnables and a resume. Images of up to 9 by 9 pixels have every pattern of the 8 by 8
cell of Adam7, with passes that are empty for each of the reasons there are, and one row
and one column more; one change of filters between rows reaches each state of the row
buffers. Pieces of 1 to 9 bytes end at every place of the signature, of a header and of
a CRC; pieces of 19 to 50 hold the end of one chunk and all of the next; two sizes
together, pauses, and room for four bytes more than the save buffer needs make it grow,
move and start over. Some files have a wrong byte, a chunk that is missing, doubled or
out of place, a second run of IDATs or bytes behind the end. Three deletions by two
sessions give a timer that is lost and a third deletion that should have cancelled it.

What the passing properties do not say, because the code does not do it:

- `DestroyedHoldsNothing` needs the join to succeed. When it expires, `onDestroy` goes on
  and the thread may still bind its socket and take the locks, which nobody gives back.
- `LiveThreadIsTracked` is one half of `isRunning`. The other half fails: a server that
  could not start, or has left its loop, counts as running until `onDestroy` joins it.
- `UploadIsStored` and `DownloadIsOneVersion` are checked with one session that may
  write. Two that store to one name can truncate each other's file, since the test for
  the file and its opening are two calls.
- `ConfirmedTransferIsComplete` is about downloads in binary mode; in ASCII mode `CmdRETR`
  ignores the result of `sendViaDataSocket`.
- `TransferReleasesSocket` is about sessions that nobody terminates and sockets whose
  `setSoTimeout` succeeds: the closer's late `dataSocket = null` may drop a new socket,
  and `onTransfer` drops one whose timeout cannot be set.
- `BroadcastAfterQuiet` and `CancelledTimerUnused` stop at two overlapping calls: then a
  timer can be lost, or used after its cancellation.
- A connection accepted between `terminateAllSessions` and `wifiListener.quit()` is told
  to nobody and outlives the service; `RunningSessionsAreKnown` is about those that have
  been registered.
- `TerminatedSessionEnds` needs a client that answers. A session that waits in `accept`,
  or reads from a passive socket, is not ended: its listener is never closed and there is
  no timeout.
- STOR deletes its file before it seeks to REST's offset, so that the bytes before the
  offset are gone; `UploadIsStored` compares with the file that is there at the start of
  the writing.
- `WorkingDirStartsWithRoot` is what `violatesChroot` tests, not what it is meant for, see
  `SessionSibling`; it stops when the root changes, by the owner or by a mount: sessions
  keep what they have. `CrashNeedsCause` says when a command throws: a root that is no
  directory or has changed, a session that got no working directory, a removal that is
  disturbed or meets a directory it cannot read. It does throw then, and the process ends.
  This needs nobody's mistake: with the setting of a new installation, a session that has
  begun at `/` throws in PWD (`CmdPWD.java:44`) once the storage is mounted, whose path,
  the new root's, is longer than that of its working directory.
- `ClosedSessionEnds` ends where a session has come to a transfer. There it waits for its
  client without limit, also after the server has been stopped (`LocalDataSocket.java:115`).
- `UndisturbedRemovalSucceeds` is about directories in which everything may be deleted, and
  `StopTakesRegistrationBack` leaves out a service whose unregistering failed.
- `DestroyedThreadExits` does not say that the thread gives back what it took after
  `onDestroy`; `ImplementsOnOffServer` that broadcasts are not contradicted by the server,
  not that each end is told: `OnOffServer`'s `Die` stands for a kill and may come any time.
- `UploadIsStored` and `DownloadIsOneVersion` take the offset that the session has. That it
  may come from a REST long before, since nothing resets it, they do not find.
- `ImageIsRestored` and `DisplayIsBlocky` take `png_do_read_interlace`'s pixels from the row
  as it was before: that none is overwritten before it is read is not covered.
- `LastFrameIsShown` leaves out the frame that `loadfile` decodes, for which no drawing
  is asked. It says that the last picture becomes whole; one in between may be mixed from
  two frames.
- `NothingHeldBack` and `ImplementsPngFile` are about pauses in the callbacks for the
  header and the end. `libpng-manual.txt` (2667) also allows `png_process_data_pause` in the
  row callback; there `png_push_read_IDAT` goes on afterwards with the sizes it had before
  and subtracts them from those the pause has set (584), so that they no longer agree.
- `HungThreadBailsOut` leaves one window: a thread that has just tested `running` registers
  the service even if `onDestroy` runs as a whole before the call.

`CHECK_DEADLOCK FALSE` is set everywhere but in `PngRows`: requests, commands, inputs,
kills and time are bounded, and a stopped service or an ended session really does stop.
`PngRows` has a step (`Stay`) for the image that has been read and the file that was
refused, and any other stop is an error.

## Fairness

- `FtpService`: weak fairness of the main thread's, the servers' and the listeners'
  steps, since the operating system schedules runnable threads. Requests, kills, new
  connections and the end of sessions are not fair: nobody need ask, connect or leave.
- `DataConnection`: `ThreadFairness` for the two threads. `ClientAnswers` is a separate
  assumption of `DataEnds` alone: the client connects to the port it asked for, finishes
  what it sends and takes what it is sent. Without it the property fails, see above. A
  failing `accept` is never fair: nothing makes it fail.
- `MediaUpdater` (in `MCServices`): session threads, timer threads and the clock go on.
- `Session` (`SessionRoot` alone): weak fairness of each session's thread while it is at
  a command or its socket is closed, and of `Terminate`. A client need never send
  another line, nor come to a data connection: `TransferEnds` is not fair, nor are the
  changes.
- `VideoPlayer`: the main thread takes what is due and the GL thread draws. No delayed
  runnable need ever fall due, and no user do anything.
- `FileStore`, `AsciiTransfer`, `NsdService`, `PngProgressive`: no fairness; their
  properties are about what may not happen.

## Proofs

The theorems hold for every value of the constants that satisfies the assumptions of the
module: any number of instances, sessions, requests, announcements, transfers, commands
and kills, any tree, files of any length, every picture of every size, every file in every
sequence of pieces. The assumptions are the types of the bounds (`BoundsAssumption`,
`DataBounds`, `MediaBounds`, `AsciiBounds`, `FileBounds`, `SessionAssumption`,
`LengthAssumption`,
`JobsAssumption`, `DeliveriesAssumption`; for `PngPush`, that the spare room `Spare` is a
natural number), that a picture has a pixel of its depth in each place
(`PicturesAssumption`), that fresh memory holds bytes (`BytesAssumption`), and
`TempNamesAreNew`: `File.createTempFile` does not return a name that exists. TLC
evaluates them in the runs. A few theorems have a hypothesis besides, because the
property is false without it:

| hypothesis | of | without it |
|---|---|---|
| `~SoTimeoutMayFail` | `SocketIsReleased` | when `setSoTimeout` throws, `LocalDataSocket.onTransfer` drops the socket it has just connected without closing it |
| `~JoinMayTimeOut` | `DestroyReleases` | when the join of `onDestroy` expires, it returns while the thread still has its socket and locks |
| `OneUser` (at most one session is the user's) | the theorems of `FileStoreProof` | two sessions that write one name mix their bytes; any number of guests may read meanwhile |

| theorem | module | says |
|---|---|---|
| `TypeCorrect` | FtpServiceProof | `Spec => []TypeOK` |
| `TrackedThread` | FtpServiceProof | `Spec => []LiveThreadIsTracked`: a server thread that is alive is the one in `serverThread` |
| `Refinement` | FtpServiceProof | `Spec => ImplementsOnOffServer` |
| `DestroyReleases` | FtpServiceProof | `Spec => []DestroyedHoldsNothing`: no thread, socket or lock outlives `onDestroy` |
| `SessionsAreKnown` | FtpServiceProof | `Spec => []RunningSessionsAreKnown`: the clean-up of finished sessions loses none that runs |
| `NoListenerLeaks` | DataConnectionProof | `Spec => []OneListener` |
| `ConfirmedIsComplete` | DataConnectionProof | `Spec => []ConfirmedTransferIsComplete`: a 226 is the truth |
| `SocketIsReleased` | DataConnectionProof | `Spec => []TransferReleasesSocket`: back at the command loop, a session that nobody terminates has no data socket |
| `TerminationCloses` | DataConnectionProof | `Spec => []TerminateClosesWhatItFinds` |
| `AnnouncementIsUsed` | DataConnectionProof | `Spec => LastAnnouncementUsed`: a data socket is opened the way the last PASV or PORT said |
| `TimerIsLive`, `BroadcastWaits` | ServicesProof | `Spec => []CancelledTimerUnused`, `Spec => BroadcastAfterQuiet`: while no two calls overlap, no cancelled timer is used and every deletion puts the broadcast off |
| `LateThreadBailsOut` | ServicesProof | `NsdSpec => HungThreadBailsOut`: a thread that is late never registers |
| `RegistrationIsTakenBack` | ServicesProof | `NsdSpec => StopTakesRegistrationBack`: what was registered before `onDestroy` began is taken back by it, or `NsdManager` was asked to and failed |
| `LineEndsConverted` | ServicesProof | `AsciiSpec => []DownloadConverts`: the file with a CR before each lone LF is sent, wherever the buffers are cut |
| `FileSurvives` | ServicesProof | `AsciiSpec => []RoundTripKeepsFile`: the upload stores all but the CRs, and with them drops what the download added |
| `FileInvariant` | FileStoreProof | `Spec => []FileInv`, the invariant of the next three |
| `DownloadsAreConsistent` | FileStoreProof | `Spec => []DownloadIsOneVersion` |
| `RenamedIsNotLost` | FileStoreProof | `Spec => []RenameKeepsFile`, whatever fails and wherever the process is killed |
| `ConfirmedIsStored` | FileStoreProof | `Spec => UploadIsStored` |
| `RootHolds` | SessionProof | `Spec => []WorkingDirStartsWithRoot`, for all names and whatever is mounted |
| `UsersOnly` | SessionProof | `Spec => OnlyUsersChangeTheTree` |
| `RemovalsTellTheTruth` | SessionProof | `Spec => RemovalReplyIsTrue`: 250 and 550 of RMD, whoever works on the tree meanwhile and whatever is refused |
| `AloneItSucceeds` | SessionProof | `Spec => UndisturbedRemovalSucceeds`, for trees of any depth |
| `NobodyCrashesAlone` | SessionProof | `Spec => CrashNeedsCause` |
| `PausedStandsStill` | VideoPlayerProof | `Spec => []PausedIsStill` |
| `BarIsUpdated` | VideoPlayerProof | `Spec => []SeekBarFollows` |
| `ButtonIsRight` | VideoPlayerProof | `Spec => []ButtonTellsState`, all three for any number of inputs |
| `EveryPixelInOnePass` | PngRowsProof | every pixel of every image is in exactly one pass |
| `MacrosMatchTables`, `CountsAgree`, `MasksMatchTables`, `CombineMasks` | PngRowsProof | the macros of `png.h`, the counts of rows and columns and the masks say the same as the tables |
| `PassHoldsItsColumns` | PngRowsProof | the pixels of a pass, placed by the macros, are those columns and rows of the image, for every size |
| `SkippedRows` | PngRowsProof | the rows passed over are those without a pixel in the pass |
| `ExpandedRowFits` | PngRowsProof | a row expanded in place fits its buffer, for every width |
| `StreamAgrees` | PngRowsProof | `ProgressiveSpec => []StreamFits`: no row lacks data, and none is left over |
| `RowsAreCalled` | PngRowsProof | `ProgressiveSpec => []EveryRowIsCalled`: with the row or with NULL, once a pass and in order |
| `FileIsTakenApart` | PngRowsProof | `ProgressiveSpec => ImplementsPngFile`: the same of a file that `PngRows` has written, while its rows are processed |
| `NothingIsKept` | PngRowsProof | `ProgressiveSpec => []NothingHeldBack` |
| `ImageComesBack` | PngRowsProof | `ProgressiveSpec => []ImageIsRestored`: what is read is what was written, whatever the picture, its filters, its passes and the reader |
| `OnlyPixelsRead` | PngRowsProof | `ProgressiveSpec => []RowsSparkle` |
| `BlocksGetFiner` | PngRowsProof | `ProgressiveSpec => []DisplayIsBlocky` |
| `FilterIsUndone` | PngRowsProof | `png_read_filter_row` makes of a row sent with any filter the row it was made of, for every length, pixel size and content |
| `Refinement` | PngPushProof | `Spec => ImplementsPngFile`: the progressive reader takes a file apart like one that has the whole of it |
| `NeverHeldBack` | PngPushProof | `Spec => []NothingHeldBack`: what is kept between calls is less than is needed to go on |

*FtpServiceProof.* The first inductive invariant is `TypeOK /\ LiveThreadIsTracked`. Types
alone say nothing of `serverThread`; with the invariant, a step that creates a thread
knows that no other is alive (`EndWait` tests `serverThread`), and `JoinServerThread`
clears the field only when the thread is dead. The refinement uses the same invariant:
since at most one thread is alive, `phase` is decided by the one in `serverThread`, and
each of its steps is one step of `OnOffServer` or a stutter, whatever the other threads
do. There is one step per action, under lemmas about the operations on queues.

`DestroyReleases` needs more, because `serverThread` is static: the `onDestroy` of one
instance may meet the thread of another. `DestroyInv` says why it does not. The main
thread's messages come in the order of the instances, the destroy message of each as its
last (`QueueInv`); every instance with a message pending is the record's or has its
destroy message in the queue (`ExpectedInv`, `RecordInv`); and every thread that ever ran
is in `serverThread` or belongs to an instance that is destroyed or being destroyed
(`ThreadInv`). So an `onDestroy` that joins joins its own thread, and what that thread
took is what `HeldInv` sees released in turn.

*DataConnectionProof.* `OneListener` is not inductive: a client waiting at an earlier
port could be accepted later. `LocalInv` adds that the passive port and the PORT address
are the last announcement or nothing, and that only listening ports have clients
waiting. `EveryStepLocal` reduces the steps of the whole system to the three operations
of `LocalDataSocket` or none, and `LocalPreserved` treats those.

`TransferInv` is about the two fields that both threads read, test and clear. `Counted`
says that the chunks counted so far are those that went through one socket, which the
field still holds or has lost to the closer, never another: that is why a 226 after
an interleaved close is not sent. `Undisturbed` says what the session thread relies on
until the closer comes, and `FoundIsHeld` that a socket the closer found, and that is
open, is still in the field with a thread on its way to close it. Both threads run
`closeDataSocket`, so its four steps are proved once, for either of them.

*ServicesProof* is about three components that share nothing. `MediaUpdater`: `sTimer`
has no lock; the properties hold as long as no two calls have overlapped, and the theorems
say that nothing else is needed. `Alone` gives, for the call under way, that the timer it
has loaded is the one in the field; `Waiting` that all pending tasks are of that timer and
not due before the last deletion's delay is over.

`NsdService`: `Ordered` says that an instance's `onCreate` comes before its `onDestroy`, in
the inbox or because its thread has been started, so that no `onCreate` puts the flag
`running` up again after a destruction; `Flagged` that the manager's field is set wherever
the thread means to use it or has used it, as long as the flag is up. The properties say
that something never happens from some state on, hence each has a state predicate that
holds there and that every later step keeps: `Bails` and `TakenBack`; the latter allows for
a registration that `onDestroy` asked to be taken back, in vain.

`AsciiTransfer`: the loops decide with a position in one buffer and a flag about the
buffer before, what is promised is about the whole file. `BufferSent` shows by induction
along the buffer (`Climbs`) that up to each byte the parts sent, followed by what is
still unsent, are these bytes converted as part of the file; at the first byte it needs
that `lastBufEndedWithCR` tells the last byte read, which `AsciiInv` therefore says.
`BufferWritten` is the same of the upload. `RoundTrip` is an induction along the file:
what the download puts in, the upload takes out. Both rest on `FlatGrows`: `FlattenSeq`
of a part more is what it was with that part behind it.

*FileStoreProof.* `FileInv` ties each session's record to the files. What a download has
sent is a part of the file *object* that it has open; a file whose name is deleted or
replaced is not written any more, since an upload to an existing name deletes it and
writes a new file. An upload's bytes are those of its file from the offset on, which by
`OneUser` only it writes; a renamed file is under its old, its temporary or its new name.
Every command makes one file at most, hence `Files`' bound is never met (`Counted`).

*SessionProof.* The first two properties need to know of each thread that it is in a
removal or an upload, or logged in, only after the password was given (`Granted`), and
that its working directory starts with the root unless the root has moved (`Housed`):
`IInv` says so for every session's record, with the settings' types. A step of the owner
or a mount that changes `chrootDir` sets `moved`, one that does not leaves what `Housed`
says. Most steps leave the fields alone that the invariant looks at; `Alike` is that
relation, and `Removing` the same for a removal, whose record changes in many ways. What
may be changed by a step is then read off the command: `Dispatched` lets MKD, STOR and
RMD through for a session that is logged in.

For the removals, `RemovalInv` adds that above every path of the tree there are
directories (`Tree`), and, while nobody has disturbed it, that each frame of
`recursiveDelete`'s stack lists only what is in its directory, together with the entry that
the frame above is busy with (`Stacked`, `Rest`), and all of it if the file system refuses
no deletion below the target (`Spared`). That a path whose parents are all
kept is in the tree is an induction along the path (`Climbs`).
`RemovalReplyIsTrue` cannot claim that a removal which ends with 250 found a directory:
another session may remove the target and STOR a file in its place between the check of RMD
and the first call of `recursiveDelete`, which then deletes the file and reports success.
This takes four lines of input, more than `SessionTree` allows; the theorem covers every
bound. `NobodyCrashesAlone` uses both invariants: without a change of the root, PWD cuts off
a path that its working directory starts with, hence one that is no longer
(`LengthAssumption`); undisturbed, a listed directory is still there.

*VideoPlayerProof.* The three invariants are inductive with the types, so the work is in
the queue, out of whose middle handlers take runnables: `WithoutHolds` shows, by
induction over the queue (`Climbs`), that `removeCallbacks` takes every instance of what
it is asked for and nothing else, `TailHolds` and `PostedHolds` what is due after a
runnable has run and after others are posted. `IInv` says the invariants with `Holds`,
and there is one lemma per handler.

*PngRowsProof, the passes.* For each of the seven passes the tables and macros are numbers,
and what is left is arithmetic with `\div` and `%` by 1, 2, 4 and 8, for all widths.

*PngRowsProof, the stream.* Writer and reader may count rows differently, one those of
the image, passing over what is not in the pass, the other those of the pass. `StreamAt`
is the number of bytes that lie before row `y` of pass `p`, whoever counts. The
invariant `RowsInv` says of each `png_struct` that it stands at a row that its image
has, with that pass's width and number of rows, and has written or read just `StreamAt`
(`Writing`, `Reading`). Both come to the same total, so the reader never lacks data. The
search for the next pass that has rows and columns (`png_write_finish_row`,
`png_read_finish_row`) is one of seven cases. The calls that `png_push_process_row`
generates for rows without data need an induction over them, and an invariant of their
own: `Rests` says that between two rows of the stream the struct does not stand at such
a row, since the code does not look. Induction with an operator as a parameter is not to
be had, but over the numbers up to `n` the pigeonhole principle gives it for any set
(`Climbs`).

*PngRowsProof, the calls.* The calls made so far are those expected up to the row where the
struct stands (`Told`): all of the passes before, which `CallsBefore` lists, and the rows of
this one. `TellOne` shows it of one call, across the end of a pass as well, since the
passes that `png_read_push_finish_row` leaves out are expected to have no calls; the
loops repeat it (`HopsTold`). What is left is that each loop's calls come with a row or
with NULL as its rows are covered by a block or not (`Covered`, `NotCovered`).

*PngRowsProof, the filters.* The row is decoded from left to right into the buffer it
came in, so the induction (`UndoneByByte`, by `Climbs`) says that the bytes up to `k` are
those of the original and the others still as they were sent; `NextByte` shows for each
filter that the byte decoded is the original one, since it depends on bytes already
decoded and on the row above. The two Paeth predictors are written differently, and
`PaethAgrees` shows that they are the same.

*PngRowsProof, the pixels.* `PixelsInv` follows them from the writer's buffers to the
display, on top of `RowsInv`:

- `MemoryOK`: the writer's row pointers are to different buffers, whatever
  `png_write_find_filter` and `png_write_finish_row` have swapped, and `prev_row`, if there
  is one, holds the row above in the pass (black above the first), each time a row is
  filtered. It is why a filter added by `png_set_filter` in the middle of an image may not
  look at a row above unless that row was kept (`CanUse`).
- `StreamHolds`: row `i` of pass `p` is in the stream at `BytesBefore(p)` and `i` rows,
  as *some* filter makes it of the row and the row above. Which one does not matter: only
  that the bytes sent are those of one filter and not the beginning of one and the end of
  another, which `FilterTried` shows of each filter tried (a row that is given up half way
  is never the best).
- `ReaderHolds`: the reader's `prev_row` is that row above, so `FilterIsUndone` gives the
  row back (`RowIsRead`), also when `row_buf` was widened by `png_do_read_interlace`
  in between, since the row is kept before that.
- `RowsAt`: `rows` has the pixels of the rows read so far, of all passes, and is untouched
  elsewhere. `PlacedPlain`, `PlacedByMacros` and `PlacedByCombine` are the three ways
  a row gets there: as it is, by the application with the macros, or through the masks of
  `png_combine_row`, where every pixel is treated by itself (`Combined`).
- `DisplayAt`: above the row where the reader stands the display shows the blocks of this
  pass, from there on those of the pass before. A row without data of its own repeats the
  row above it in its block. The sequential reader takes that from `row_buf`, and `InBuffer`
  says that it is still there; of the progressive one, the rows it generates come at once
  (`GeneratedDrawn`).

Below all this lie lemmas on the bytes of small pixels: `WithPixels` adds the pixels of a
byte up, and `PixelWritten` says that what `PixelAt` takes out again is what was put
in, for 1, 2 and 4 bits and for whole bytes.

*PngRowsProof, the file.* `PushProof` is `PngPushProof` instantiated on `PngProgressive`'s
variables. Every step of the composition is a step of `PngPush` on the written file, or
leaves its variables alone, so the lemmas proved there about `PngPush`'s `Next` give the
invariant and the refinement here; only the initial states differ.

*PngPushProof.* That each chunk arrives whole says nothing of the bytes still unread, so
the invariant `IInv` does: the saved bytes are those of the file from `position` on, and
the rest of the piece goes on where they end (`Holds`); outside `png_process_data` the
saved bytes are all there is. A chunk header that has been read is the one at `start`,
and of an IDAT `idat_size` bytes are left. The lemmas on the operations come first:
`Filled` and `BytesOfFile` (filling takes the next bytes of the file), `SavedAll` (saving
keeps every one, moved or copied to a larger buffer), `Restored` and `CalledBack` (a
pause, either way, leaves the reader at its place). `AtHeader` then gives each of
`png_process_some_data`'s functions the chunk it works on, and there is one lemma per
action, which shows the invariant and the step of `PngFile` together.

Only model-checked is liveness under fairness, which needs `ENABLED` and is out of the
prover's reach: `ServiceServes`, `DestroyedThreadExits`, `TerminatedSessionEnds`,
`DeletionAnnounced`, `ClosedSessionEnds`, `LastFrameIsShown`. Every invariant and every
action property of the passing runs is proved.

## What is not modelled

- The texts of replies, listings, addresses and logs; how a parameter is resolved to a
  path (`..`, links: a command of `Session` names any path); time stamps of files; TYPE,
  OPTS, SITE and the commands that only reply. Permissions are the calls that `refused`
  has, of a path itself; that a directory's permissions decide about its entries is left
  out. In `Session` APPE is left out, and LIST when sorting its entries fails
  (`CmdAbstractListing.java:64-71`).
- libpng: transformations of rows, compression, what chunks say, the other files of the
  library, rows so long that the writer's sum of a filter could overflow. Of the
  progressive reader: a pause in the row callback, bytes of the signature that the
  application has checked itself (after `png_set_sig_bytes(png_ptr, 8)` the test at 148
  compares no bytes, which counts as a difference, and the file is refused), memory that
  cannot be had, errors of zlib, lengths above 2^31-1, applications that ignore CRCs.
  `png_set_filter` is called with sets of filters, not with its numbers for single ones.
- The player: time, `mUpdateTimeRunable`, volume and brightness, and `AkVideoPlayer`,
  which wraps the system's `VideoView`. Frames that are not decoded are skipped.
- Visibility of plain fields between threads: each access is atomic and in one order.
- Kills in `DataConnection`, `MediaUpdater` and `NsdService`: their state dies with the
  process (what `NsdService` registered is dropped by the system). A change of the
  settings other than name, password, anonymous access and root.
- The other applications, see the inventory; vendored code is left out for good.

## Plan

Next modules, in this order:

1. `ServerViews`: notification, widget and switch, driven by `OnOffServer`'s broadcasts
   with kills in between, composed with `NsdService`'s restart.
2. `VirtualFileSystem` and `FtpServerAndroid`: the mapping of virtual paths, moves across
   homes, and the start, pause and resume commands.
3. `WallpaperSwitch`: the picture swap between main and GL thread.
