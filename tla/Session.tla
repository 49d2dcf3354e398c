------------------------------ MODULE Session ------------------------------
(* What a client may do in a session, and when: the login with its limit, the
   three ways of FtpCmd.dispatchCommand, and the commands on directories, which
   sessions that run at the same time give on one tree.  CmdRMD walks its
   directory while others change it, one call of the file system a step.

   SessionThread reads lines through a BufferedReader, so that lines which came
   with one that closes the socket (QUIT, a login too many, the end of the
   server) are still carried out.  Settings are read anew by every command, and
   may change meanwhile: the name, the password and the root after a request to
   stop the server, `allow_anonymous' without one, and the root of a new
   installation whenever the external storage is mounted or goes.  The file system
   may refuse to read a directory or to change what is there.  An exception that a
   command does not catch ends the process: `crashed'.

   Paths are sequences of names; what File resolves ("..", links, a parameter
   that starts with "/") is left out: a command may name any path.  What the code
   asks of paths as strings is asked of names by StartsWith, and of Length.  The
   commands without effect on this state and those on files (FileStore,
   DataConnection) are left out, but for the files that STOR deletes and makes and
   for the wait for a data connection. *)
EXTENDS Integers, Sequences, SequencesExt

CONSTANTS
  Sessions,
  Paths,            \* the paths that commands name, the root of the file system first
  Continued,        \* the pairs <<n, m>> of different names of which n begins with m
  Length,           \* the characters of each path
  ExternalStorage,  \* the directory where the storage is mounted
  Roots,            \* the directories that the owner may choose as chrootDir
  MAX_AUTH_FAILS,
  MaxLines,         \* bound: lines that one client sends
  MaxAhead,         \* bound: lines that are read ahead with the one being carried out
  MaxChanges        \* bound: changes of the settings, the storage and what is refused

NoPath == <<"null">>
Unset == <<"unset">>     \* chrootDir is ""

(* canonicalPath.startsWith(canonicalRoot): a root's last name may go on in the path. *)
StartsWith(path, root) ==
  \/ root = <<>>
  \/ /\ Len(path) >= Len(root) /\ IsPrefix(Front(root), path)
     /\ path[Len(root)] = Last(root) \/ <<path[Len(root)], Last(root)>> \in Continued

ASSUME SessionAssumption ==
  /\ Paths \subseteq Seq(STRING) /\ {NoPath, Unset} \cap Paths = {}
  /\ <<>> \in Paths /\ \A p \in Paths : p # <<>> => Front(p) \in Paths
  /\ Roots \subseteq Paths /\ ExternalStorage \in Paths \ {<<>>}
  /\ {MAX_AUTH_FAILS, MaxLines, MaxAhead, MaxChanges} \subseteq Nat

(* A string is no shorter than one that it starts with. *)
ASSUME LengthAssumption ==
  /\ Length \in [Paths -> Nat]
  /\ \A p, q \in Paths : StartsWith(p, q) => Length[p] >= Length[q]

VARIABLES
  settings,   \* FsSettings: the user name, which stands for its password too, allow_anonymous, chrootDir
  stopping,   \* the server has been asked to stop
  mounted,    \* the external storage is mounted
  changes,
  dirs, files,
  refused,    \* <<"read", p>>: p is not listed; <<"write", p>>: p is neither made nor deleted
  session,    \* each SessionThread, see NewSession
  crashed

tree == <<dirs, files, refused>>
owners == <<settings, stopping, mounted, changes>>
vars == <<owners, tree, session, crashed>>

NoUser == "null"
Accounts == {"ftp", "new"}        \* the user names that the owner sets
Users == Accounts \cup {"anonymous"}

Within(path, root) == IsPrefix(root, path)
Below(path, dir) == Within(path, dir) /\ path # dir
Entries(dir) == {p \in dirs \cup files : p # <<>> /\ Front(p) = dir}
Refused(call, path) == <<call, path>> \in refused

(* FsSettings.getChrootDir: the directory that the settings ask for, null if it is not one. *)
chrootDir ==
  IF settings.chrootDir # Unset THEN settings.chrootDir
  ELSE IF mounted THEN ExternalStorage ELSE <<>>
getChrootDir == IF chrootDir \in dirs THEN chrootDir ELSE NoPath
violatesChroot(path) == getChrootDir = NoPath \/ ~StartsWith(path, getChrootDir)

(* run: the thread; ahead: lines in the BufferedReader; at, target, path, stack: the
   point of the command, RMD's directory, the argument and the frames of the calls of
   recursiveDelete under way; code: RMD's reply, the others are left out.  For the
   properties, granted: PASS was given the password; disturbed: something but this
   RMD has changed the tree, or what is refused, since it began; moved: chrootDir has
   changed since the session took its working directory. *)
NewSession ==
  [run |-> "none", socket |-> "open", lines |-> 0, ahead |-> 0,
   username |-> NoUser, userAuthenticated |-> FALSE, authFails |-> 0, workingDir |-> NoPath,
   at |-> "line", target |-> NoPath, path |-> NoPath, stack |-> <<>>, code |-> "none",
   granted |-> FALSE, disturbed |-> FALSE, moved |-> FALSE]

Deleting == {"visit", "list", "file", "entries"}    \* the points of recursiveDelete

Me(s) == session[s]
Set(s, r) == session' = [session EXCEPT ![s] = r]
At(s, point) == ~crashed /\ Me(s).run = "running" /\ Me(s).at = point
Disturbed(r) == [r EXCEPT !.disturbed = @ \/ r.at \in Deleting]

(* The step of s has changed the tree under the other sessions. *)
SetAndDisturb(s, r) ==
  session' = [t \in Sessions |-> IF t = s THEN r ELSE Disturbed(session[t])]

----------------------------------------------------------------------------
(* SessionThread.run. *)

Connect(s) ==
  /\ ~crashed /\ ~stopping /\ Me(s).run = "none"
  /\ Set(s, [NewSession EXCEPT !.run = "running", !.workingDir = getChrootDir])
  /\ UNCHANGED <<owners, tree, crashed>>

(* A read of the socket brings some lines. *)
Receive(s) ==
  /\ At(s, "line") /\ Me(s).socket = "open" /\ Me(s).ahead = 0
  /\ \E n \in 1 .. MaxAhead + 1 :
       /\ Me(s).lines + n <= MaxLines
       /\ Set(s, [Me(s) EXCEPT !.lines = @ + n, !.ahead = n])
  /\ UNCHANGED <<owners, tree, crashed>>

(* readLine gives null or throws, once the lines read ahead are used up. *)
EndOfInput(s) ==
  /\ At(s, "line") /\ Me(s).ahead = 0
  /\ Set(s, [NewSession EXCEPT !.run = "ended", !.socket = "closed"])
  /\ UNCHANGED <<owners, tree, crashed>>

(* The state in which a line's command starts. *)
Taken(s) == [Me(s) EXCEPT !.ahead = @ - 1, !.code = "none", !.disturbed = FALSE]

AllowedWhileAnonymous == {"USER", "PASS", "CWD", "PWD", "QUIT", "CDUP", "RETR"}
AllowedBeforeLogin == {"USER", "PASS", "QUIT"}

(* Mutant: a guest may do what a user may. *)
Dispatched_Guests(s, cmd) ==
  \/ Me(s).userAuthenticated \/ settings.allowAnonymous
  \/ cmd \in AllowedBeforeLogin

(* dispatchCommand runs the command. *)
Dispatched(s, cmd) ==
  \/ Me(s).userAuthenticated
  \/ settings.allowAnonymous /\ cmd \in AllowedWhileAnonymous
  \/ cmd \in AllowedBeforeLogin

Runs(s, cmd) == At(s, "line") /\ Me(s).ahead > 0 /\ Dispatched(s, cmd)

Refuse(s) ==
  /\ At(s, "line") /\ Me(s).ahead > 0
  /\ \E cmd \in {"CWD", "MKD"} : ~Dispatched(s, cmd)
  /\ Set(s, Taken(s))
  /\ UNCHANGED <<owners, tree, crashed>>

USER(s) ==
  /\ Runs(s, "USER")
  /\ \E name \in Users : Set(s, [Taken(s) EXCEPT !.username = name])
  /\ UNCHANGED <<owners, tree, crashed>>

(* Mutant: no limit. *)
authAttempt_NoLimit(r) == [r EXCEPT !.authFails = @ + 1]

(* A login that failed: past the limit the session is told to quit. *)
authAttempt(r) ==
  [r EXCEPT !.authFails = @ + 1,
            !.socket = IF r.authFails + 1 > MAX_AUTH_FAILS THEN "closed" ELSE @]

(* The password is the user's, or another one. *)
PASS(s) ==
  /\ Runs(s, "PASS")
  /\ \E right \in BOOLEAN :
       Set(s, IF Me(s).username = NoUser THEN Taken(s)
              ELSE IF Me(s).username = settings.account /\ right
              THEN [Taken(s) EXCEPT !.userAuthenticated = TRUE, !.granted = TRUE]
              ELSE IF Me(s).username = "anonymous" /\ settings.allowAnonymous
              THEN Taken(s)
              ELSE authAttempt(Taken(s)))
  /\ UNCHANGED <<owners, tree, crashed>>

QUIT(s) ==
  /\ Runs(s, "QUIT")
  /\ Set(s, [Taken(s) EXCEPT !.socket = "closed"])
  /\ UNCHANGED <<owners, tree, crashed>>

(* Nobody catches it: Android ends the process. *)
Crash(s) == crashed' = TRUE /\ Set(s, Taken(s))

----------------------------------------------------------------------------
(* The working directory. *)

(* isDirectory and canRead. *)
Enterable(path) == path \in dirs /\ ~Refused("read", path)

MovedTo(s, path) == [Taken(s) EXCEPT !.workingDir = path, !.moved = FALSE]

CWD(s) ==
  /\ Runs(s, "CWD")
  /\ \E path \in Paths :
       Set(s, IF violatesChroot(path) \/ ~Enterable(path) THEN Taken(s) ELSE MovedTo(s, path))
  /\ UNCHANGED <<owners, tree, crashed>>

(* Mutant: CDUP does not ask whether it leaves the root. *)
MayGoUp_Unchecked(path) == Enterable(path)

MayGoUp(path) == ~violatesChroot(path) /\ Enterable(path)

(* getParentFile of the root of the file system is null, of a null directory throws. *)
CDUP(s) ==
  /\ Runs(s, "CDUP")
  /\ LET dir == Me(s).workingDir
     IN  IF dir = NoPath THEN Crash(s)
         ELSE /\ Set(s, IF dir # <<>> /\ MayGoUp(Front(dir)) THEN MovedTo(s, Front(dir)) ELSE Taken(s))
              /\ UNCHANGED crashed
  /\ UNCHANGED <<owners, tree>>

(* substring throws if the working directory's path is shorter than the root's. *)
PWD(s) ==
  /\ Runs(s, "PWD")
  /\ LET dir == Me(s).workingDir
     IN  IF dir = NoPath \/ getChrootDir = NoPath \/ Length[dir] < Length[getChrootDir]
         THEN Crash(s)
         ELSE Set(s, Taken(s)) /\ UNCHANGED crashed
  /\ UNCHANGED <<owners, tree>>

----------------------------------------------------------------------------
(* MKD, and what transfers do here. *)

CanMake(path) ==
  /\ path \notin dirs \cup files /\ path # <<>> /\ Front(path) \in dirs
  /\ ~Refused("write", path)

MKD(s) ==
  /\ Runs(s, "MKD")
  /\ \E path \in Paths :
       IF violatesChroot(path) \/ ~CanMake(path)
       THEN Set(s, Taken(s)) /\ UNCHANGED dirs
       ELSE SetAndDisturb(s, Taken(s)) /\ dirs' = dirs \cup {path}
  /\ UNCHANGED <<owners, files, refused, crashed>>

(* The checks of STOR, and delete for a file that is there. *)
STOR(s) ==
  /\ Runs(s, "STOR")
  /\ \E path \in Paths :
       LET r == [Taken(s) EXCEPT !.at = "open", !.path = path]
       IN  IF violatesChroot(path) \/ path \in dirs \/ (path \in files /\ Refused("write", path))
           THEN Set(s, Taken(s)) /\ UNCHANGED files
           ELSE /\ IF path \in files THEN SetAndDisturb(s, r) ELSE Set(s, r)
                /\ files' = files \ {path}
  /\ UNCHANGED <<owners, dirs, refused, crashed>>

Finished(s) == [Me(s) EXCEPT !.at = "line", !.path = NoPath]
Waiting(s) == [Me(s) EXCEPT !.at = "data", !.path = NoPath]

(* new FileOutputStream makes the file, or finds one that another session has made. *)
OpenFile(s) ==
  /\ At(s, "open")
  /\ LET path == Me(s).path
     IN  \/ /\ CanMake(path)
            /\ files' = files \cup {path} /\ SetAndDisturb(s, Waiting(s))
         \/ /\ ~CanMake(path) /\ UNCHANGED files
            /\ Set(s, IF path \in files /\ ~Refused("write", path) THEN Waiting(s) ELSE Finished(s))
  /\ UNCHANGED <<owners, dirs, refused, crashed>>

(* RETR, LIST and NLST come to startUsingDataSocket with a path that they may read, the
   last two also with the working directory, unchecked; if that is null they throw.  With
   any other path they only reply. *)
Transfer(s) ==
  /\ Runs(s, "RETR")
  /\ \/ Me(s).workingDir = NoPath /\ Crash(s)
     \/ /\ \E path \in dirs \cup files :
             /\ path \in files \/ Enterable(path)
             /\ path = Me(s).workingDir \/ ~violatesChroot(path)
        /\ Set(s, [Taken(s) EXCEPT !.at = "data"])
        /\ UNCHANGED crashed
     \/ Set(s, Taken(s)) /\ UNCHANGED crashed
  /\ UNCHANGED <<owners, tree>>

(* accept has returned or failed, and the transfer is over: all of it is the client's doing. *)
TransferEnds(s) ==
  /\ At(s, "data")
  /\ Set(s, Finished(s))
  /\ UNCHANGED <<owners, tree, crashed>>

----------------------------------------------------------------------------
(* RMD. *)

IsRoot(path) == path = <<>>

RMD(s) ==
  /\ Runs(s, "RMD")
  /\ \E path \in Paths :
       Set(s, IF violatesChroot(path) \/ path \notin dirs \/ IsRoot(path)
              THEN [Taken(s) EXCEPT !.code = "550"]
              ELSE [Taken(s) EXCEPT !.at = "visit", !.target = path, !.path = path])
  /\ UNCHANGED <<owners, tree, crashed>>

(* recursiveDelete returns `result' to its caller: the loop over the entries of the
   directory above, or run. *)
Returned(r, result) ==
  IF r.stack = <<>>
  THEN [r EXCEPT !.at = "line", !.path = NoPath, !.target = NoPath, !.disturbed = FALSE,
                 !.code = IF result THEN "250" ELSE "550"]
  ELSE [r EXCEPT !.at = "entries", !.path = Last(r.stack).path,
                 !.stack[Len(r.stack)].success = @ /\ result]

(* Mutant: exists() alone. *)
isDirectory_Exists(path) == path \in dirs \cup files

isDirectory(path) == path \in dirs

(* exists and isDirectory. *)
Visit(s) ==
  /\ At(s, "visit")
  /\ LET path == Me(s).path
     IN  Set(s, IF isDirectory(path) THEN [Me(s) EXCEPT !.at = "list"]
                ELSE IF path \in files THEN [Me(s) EXCEPT !.at = "file"]
                ELSE Returned(Me(s), FALSE))
  /\ UNCHANGED <<owners, tree, crashed>>

(* Mutant: only the directories in it are listed. *)
Listed_Directories(path) == Entries(path) \cap dirs

Listed(path) == Entries(path)

(* listFiles is null for a directory that is not there any more, or cannot be read. *)
ListFiles(s) ==
  /\ At(s, "list")
  /\ LET path == Me(s).path
         frame == [path |-> path, todo |-> Listed(path), success |-> TRUE]
     IN  IF Enterable(path)
         THEN /\ Set(s, [Me(s) EXCEPT !.at = "entries", !.stack = Append(@, frame)])
              /\ UNCHANGED crashed
         ELSE crashed' = TRUE /\ UNCHANGED session
  /\ UNCHANGED <<owners, tree>>

NextEntry(s) ==
  /\ At(s, "entries")
  /\ \E entry \in Last(Me(s).stack).todo :
       Set(s, [Me(s) EXCEPT !.at = "visit", !.path = entry, !.stack[Len(Me(s).stack)].todo = @ \ {entry}])
  /\ UNCHANGED <<owners, tree, crashed>>

(* File.delete: of a file, or of a directory without entries. *)
Deletable(path) ==
  /\ path \in dirs \cup files /\ Entries(path) = {}
  /\ ~Refused("write", path)

(* delete was called if `asked', r is the session after it. *)
Delete(s, path, asked, r) ==
  /\ IF asked /\ Deletable(path)
     THEN dirs' = dirs \ {path} /\ files' = files \ {path} /\ SetAndDisturb(s, r)
     ELSE UNCHANGED <<dirs, files>> /\ Set(s, r)
  /\ UNCHANGED <<owners, refused, crashed>>

DeleteFile(s) ==
  /\ At(s, "file")
  /\ Delete(s, Me(s).path, TRUE, Returned(Me(s), Deletable(Me(s).path)))

(* Mutant: what delete returns is ignored. *)
Succeeds_Always(frame, deleted) == frame.success

Succeeds(frame, deleted) == frame.success /\ deleted

(* success && toDelete.delete() *)
DeleteDirectory(s) ==
  /\ At(s, "entries") /\ Last(Me(s).stack).todo = {}
  /\ LET frame == Last(Me(s).stack)
         r == Returned([Me(s) EXCEPT !.stack = Front(@)],
                       Succeeds(frame, frame.success /\ Deletable(frame.path)))
     IN  Delete(s, frame.path, frame.success, r)

recursiveDelete(s) == Visit(s) \/ ListFiles(s) \/ NextEntry(s) \/ DeleteFile(s) \/ DeleteDirectory(s)

----------------------------------------------------------------------------
(* The owner, in FsPreferenceActivity, the storage, and the end of the server. *)

Changes == ~crashed /\ changes < MaxChanges /\ changes' = changes + 1 /\ UNCHANGED crashed
Moved(r) == [r EXCEPT !.moved = @ \/ (r.run = "running" /\ chrootDir' # chrootDir)]

Change(new) ==
  /\ Changes
  /\ settings' = new /\ UNCHANGED <<mounted, tree>>
  /\ session' = [s \in Sessions |-> Moved(session[s])]

ChangeAnonymous ==
  Change([settings EXCEPT !.allowAnonymous = ~@]) /\ UNCHANGED stopping

ChangeLogin ==
  /\ \E name \in Accounts : Change([settings EXCEPT !.account = name])
  /\ stopping' = TRUE

ChangeRoot ==
  /\ \E path \in Roots : Enterable(path) /\ Change([settings EXCEPT !.chrootDir = path])
  /\ stopping' = TRUE

IsTree ==
  /\ <<>> \in dirs /\ dirs \cap files = {}
  /\ mounted => ExternalStorage \in dirs
  /\ \A p \in dirs \cup files : p # <<>> => Front(p) \in dirs

(* The storage is mounted or goes, and what is below its directory comes and goes with
   it: without it there is at most the directory itself. *)
Remount ==
  LET There == {p \in Paths : Within(p, ExternalStorage)}
  IN  /\ Changes
      /\ mounted' = ~mounted /\ UNCHANGED <<settings, stopping, refused>>
      /\ \E d \in SUBSET There : \E f \in SUBSET (There \ d) :
           /\ mounted => d \subseteq {ExternalStorage} /\ f = {}
           /\ dirs' = (dirs \ There) \cup d /\ files' = (files \ There) \cup f
           /\ IsTree'
      /\ session' = [s \in Sessions |-> Disturbed(Moved(session[s]))]

(* The file system begins to refuse a call, or does not any more. *)
Trouble ==
  /\ Changes
  /\ \E call \in {"read", "write"} \X Paths :
       refused' = IF call \in refused THEN refused \ {call} ELSE refused \cup {call}
  /\ session' = [s \in Sessions |-> Disturbed(session[s])]
  /\ UNCHANGED <<settings, stopping, mounted, dirs, files>>

(* FsService.terminateAllSessions. *)
Terminate(s) ==
  /\ ~crashed /\ stopping /\ Me(s).run = "running" /\ Me(s).socket = "open"
  /\ Set(s, [Me(s) EXCEPT !.socket = "closed"])
  /\ UNCHANGED <<owners, tree, crashed>>

----------------------------------------------------------------------------
(* The settings are those of a new installation, the tree is any. *)
Init ==
  /\ settings = [account |-> "ftp", allowAnonymous |-> FALSE, chrootDir |-> Unset]
  /\ stopping = FALSE /\ mounted \in BOOLEAN /\ changes = 0
  /\ dirs \in SUBSET Paths /\ files \in SUBSET (Paths \ dirs) /\ refused = {}
  /\ IsTree
  /\ session = [s \in Sessions |-> NewSession]
  /\ crashed = FALSE

Command(s) ==
  \/ Refuse(s) \/ USER(s) \/ PASS(s) \/ QUIT(s)
  \/ CWD(s) \/ CDUP(s) \/ PWD(s) \/ MKD(s) \/ STOR(s) \/ Transfer(s) \/ RMD(s)

(* What a command does, its first step and those of its own that follow. *)
Working(s) == Command(s) \/ OpenFile(s) \/ recursiveDelete(s)

ThreadStep(s) == Working(s) \/ (Me(s).socket = "closed" /\ EndOfInput(s))

Next ==
  \/ \E s \in Sessions :
       Connect(s) \/ Receive(s) \/ EndOfInput(s) \/ Working(s) \/ TransferEnds(s) \/ Terminate(s)
  \/ ChangeAnonymous \/ ChangeLogin \/ ChangeRoot \/ Remount \/ Trouble

Spec == Init /\ [][Next]_vars

(* Threads are scheduled, that of the server which ends them too; a client need never
   send another line, nor come to the data connection. *)
FairSpec == Spec /\ \A s \in Sessions : WF_vars(ThreadStep(s)) /\ WF_vars(Terminate(s))

----------------------------------------------------------------------------
(* Properties. *)

(* A command changes the tree only in a session whose client has given the password,
   whatever happens to allow_anonymous and to the login meanwhile: a guest reads, and
   nobody else does anything. *)
OnlyUsersChangeTheTree ==
  [][\A s \in Sessions :
       Working(s) /\ <<dirs, files>>' # <<dirs, files>> => Me(s).granted]_vars

(* A session past the limit of failed logins, one that has quit and one whose server
   stops comes to its end with what is left in its buffer, a removal or an upload that
   it is at included, or to a transfer: there it waits for the client, without limit. *)
ClosedSessionEnds ==
  \A s \in Sessions :
    Me(s).run = "running" /\ (Me(s).socket = "closed" \/ stopping \/ Me(s).authFails > MAX_AUTH_FAILS)
      ~> Me(s).run = "ended" \/ Me(s).at = "data" \/ crashed

(* What violatesChroot promises: unless the root has changed since, be it by the owner
   or because the storage was mounted or went, a session's working directory is one whose
   path starts with the root's, also when others remove it. *)
WorkingDirStartsWithRoot ==
  \A s \in Sessions :
    Me(s).run = "running" /\ Me(s).workingDir # NoPath /\ ~Me(s).moved =>
      StartsWith(Me(s).workingDir, chrootDir)

(* CmdPWD takes more for granted: that such a directory is the root or below. *)
WorkingDirWithinRoot ==
  \A s \in Sessions :
    Me(s).run = "running" /\ Me(s).workingDir # NoPath /\ ~Me(s).moved =>
      Within(Me(s).workingDir, chrootDir)

EndsRemoval(s) == Me(s).at \in Deleting /\ session'[s].at = "line"

(* RMD says 250 in the step in which its directory, or the file that another session
   has put in its place, disappears with nothing left in it, and 550 while its directory
   is still there or it was disturbed, also when the file system refuses calls. *)
RemovalReplyIsTrue ==
  [][\A s \in Sessions : EndsRemoval(s) =>
       IF session'[s].code = "250"
       THEN /\ Me(s).target \in dirs \/ (Me(s).disturbed /\ Me(s).target \in files)
            /\ \A p \in dirs' \cup files' : ~Within(p, Me(s).target)
       ELSE Me(s).target \in dirs' \/ Me(s).disturbed]_vars

Clean(dir) == \A p \in Paths : Within(p, dir) => ~Refused("write", p)

(* A removal that nobody disturbs, of a directory in which everything may be deleted,
   removes everything, and says so. *)
UndisturbedRemovalSucceeds ==
  [][\A s \in Sessions :
       EndsRemoval(s) /\ ~Me(s).disturbed /\ Clean(Me(s).target) => session'[s].code = "250"]_vars

(* What makes a command throw lies outside of it: the root is no directory, or has
   changed since the session took its working directory, or there was none to take; or a
   directory that is being removed cannot be read, or the removal is disturbed. *)
MayThrow(s) ==
  \/ /\ Me(s).at = "line"
     /\ getChrootDir = NoPath \/ Me(s).workingDir = NoPath \/ Me(s).moved
  \/ /\ Me(s).at = "list"
     /\ Me(s).disturbed \/ Refused("read", Me(s).path)

(* No command of any session throws without one of these.  (What the data connection
   throws is in DataConnection.) *)
CrashNeedsCause ==
  [][crashed' /\ ~crashed => \E s \in Sessions : Working(s) /\ MayThrow(s)]_vars
============================================================================
