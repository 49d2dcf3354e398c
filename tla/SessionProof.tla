---------------------------- MODULE SessionProof ----------------------------
(* For any number of sessions, any tree, any root and any limit: what a session may
   do to the tree is decided by its login alone, its working directory starts with the
   root, a removal says what has become of its directory, whoever works on the tree
   meanwhile and whatever the file system refuses, and no command throws without a cause
   outside of it.

   The first two need an invariant of the single SessionThread, IInv: that a session
   which is logged in, or in the middle of a removal or an upload, was once given the
   password, and that its working directory starts with the root unless the root has
   changed.  The others need RemovalInv too: what lies above a path of the tree are
   directories, and in a removal that nobody has disturbed each frame's directory still
   holds what the frame has to delete and the entry it is at; nothing else, if
   everything in it may be deleted. *)
EXTENDS Session, FiniteSetTheorems, SequenceTheorems, TLAPS

Fields ==
  {"run", "socket", "lines", "ahead", "username", "userAuthenticated", "authFails", "workingDir",
   "at", "target", "path", "stack", "code", "granted", "disturbed", "moved"}

(* Of one thread: who logged in, and where it is. *)
Granted(r) ==
  /\ DOMAIN r = Fields
  /\ r.userAuthenticated => r.granted
  /\ r.at \in Deleting \cup {"open"} => r.granted
  /\ r.at # "line" => r.run = "running"

Housed(r) ==
  /\ r.workingDir \in Paths \cup {NoPath}
  /\ r.run = "running" /\ r.workingDir # NoPath /\ ~r.moved => StartsWith(r.workingDir, chrootDir)

Settings == [account : Accounts, allowAnonymous : BOOLEAN, chrootDir : Roots \cup {Unset}]

IInv ==
  /\ settings \in Settings
  /\ DOMAIN session = Sessions
  /\ \A s \in Sessions : Granted(session[s]) /\ Housed(session[s])

(* A record that differs from r in no field that the invariant looks at. *)
Alike(new, r) ==
  /\ DOMAIN new = Fields
  /\ new.run = r.run /\ new.workingDir = r.workingDir /\ new.at = r.at /\ new.moved = r.moved
  /\ new.userAuthenticated = r.userAuthenticated /\ new.granted = r.granted

LEMMA AlikeKeeps ==
  ASSUME NEW new, NEW r, Granted(r), Housed(r), Alike(new, r)
  PROVE  Granted(new) /\ Housed(new)
BY DEF Granted, Housed, Alike

(* The record of a command that starts. *)
LEMMA TakenAlike ==
  ASSUME IInv, NEW s \in Sessions
  PROVE  Alike(Taken(s), session[s])
<1>1. DOMAIN session[s] = Fields
  BY DEF IInv, Granted
<1>2. QED
  BY <1>1 DEF Taken, Me, Alike, Fields

(* One thread's record is replaced, the others are left but for the properties, and
   the root stays. *)
LEMMA SetKeeps ==
  ASSUME IInv, NEW s \in Sessions, NEW r, Set(s, r) \/ SetAndDisturb(s, r),
         UNCHANGED <<settings, mounted>>, Granted(r), Housed(r)
  PROVE  IInv'
<1>1. \A t \in Sessions : Alike(Disturbed(session[t]), session[t])
  BY DEF IInv, Granted, Alike, Fields, Disturbed
<1>2. /\ DOMAIN session' = Sessions
      /\ \A t \in Sessions :
           session'[t] = r \/ session'[t] = session[t] \/ session'[t] = Disturbed(session[t])
  <2>1. CASE Set(s, r)
    BY <2>1 DEF Set, IInv
  <2>2. CASE SetAndDisturb(s, r)
    BY <2>2 DEF SetAndDisturb
  <2>3. QED
    BY <2>1, <2>2
<1>3. ASSUME NEW t \in Sessions
      PROVE  Granted(session'[t]) /\ Housed(session'[t])
  BY <1>1, <1>2, AlikeKeeps DEF IInv
<1>4. settings' = settings /\ chrootDir' = chrootDir
  BY DEF chrootDir
<1>5. \A t \in Sessions : Granted(session[t])' /\ Housed(session[t])'
  BY <1>3, <1>4 DEF Granted, Housed
<1>6. QED
  BY <1>2, <1>4, <1>5 DEF IInv

(* Nothing changes that the invariant looks at. *)
LEMMA Quiet ==
  ASSUME IInv, NEW s \in Sessions, NEW r, Set(s, r) \/ SetAndDisturb(s, r),
         UNCHANGED <<settings, mounted>>, Alike(r, session[s])
  PROVE  IInv'
<1>1. Granted(r) /\ Housed(r)
  BY AlikeKeeps DEF IInv
<1>2. QED
  BY <1>1, SetKeeps

(* A command that only takes its line. *)
LEMMA TakenKeeps ==
  ASSUME IInv, NEW s \in Sessions, Set(s, Taken(s)) \/ SetAndDisturb(s, Taken(s)),
         UNCHANGED <<settings, mounted>>
  PROVE  IInv'
BY TakenAlike, Quiet

(* A root, and whatever violatesChroot lets through, starts with the root. *)
LEMMA RootStartsWithRoot ==
  ASSUME IInv
  PROVE  chrootDir \in Paths /\ StartsWith(chrootDir, chrootDir)
<1>1. chrootDir \in Paths
  BY SessionAssumption DEF IInv, Settings, chrootDir
<1>2. ASSUME chrootDir # <<>>
      PROVE  IsPrefix(Front(chrootDir), chrootDir)
  <2>1. chrootDir \in Seq(STRING) /\ Len(chrootDir) \in Nat
    BY <1>1, SessionAssumption
  <2>2. Len(chrootDir) \in Nat \ {0}
    BY <1>2, <2>1, EmptySeq
  <2> DEFINE n == Len(chrootDir) - 1
             up == SubSeq(chrootDir, 1, n)
  <2>3. n \in Nat /\ n <= Len(chrootDir) /\ \A i \in 1 .. n : chrootDir[i] \in STRING
    BY <2>1, <2>2
  <2>4. up \in Seq(STRING) /\ Len(up) = n
    <3> HIDE DEF n
    <3>1. up \in Seq(STRING) /\ Len(up) = IF 1 <= n THEN n - 1 + 1 ELSE 0
      BY <2>3, SubSeqProperties
    <3>2. QED
      BY <2>3, <3>1
  <2>5. SubSeq(up, 1, n) = up
    BY <2>4, SubSeqFull
  <2>6. Front(chrootDir) = up
    BY DEF Front
  <2> HIDE DEF n, up
  <2>7. IsPrefix(up, chrootDir)
    BY <2>1, <2>3, <2>4, <2>5 DEF IsPrefix, up
  <2>8. QED
    BY <2>6, <2>7
<1>3. chrootDir = <<>> \/ (Len(chrootDir) >= Len(chrootDir) /\ chrootDir[Len(chrootDir)] = Last(chrootDir))
  <2>1. Len(chrootDir) \in Nat
    BY <1>1, SessionAssumption
  <2>2. QED
    BY <2>1 DEF Last
<1>4. QED
  BY <1>1, <1>2, <1>3 DEF StartsWith

LEMMA AllowedStartsWithRoot ==
  ASSUME NEW path, ~violatesChroot(path)
  PROVE  StartsWith(path, chrootDir)
BY DEF violatesChroot, getChrootDir

----------------------------------------------------------------------------
(* The thread's own steps. *)

LEMMA InitIInv == Init => IInv
<1> SUFFICES ASSUME Init
             PROVE  IInv
  OBVIOUS
<1>1. settings \in Settings
  BY DEF Init, Accounts, Settings
<1>2. DOMAIN session = Sessions /\ \A s \in Sessions : session[s] = NewSession
  BY DEF Init
<1>3. Granted(NewSession) /\ Housed(NewSession)
  BY DEF Granted, Housed, NewSession, Fields, Deleting
<1>4. QED
  BY <1>1, <1>2, <1>3 DEF IInv

LEMMA ConnectKeeps ==
  ASSUME IInv, NEW s \in Sessions, Connect(s)
  PROVE  IInv'
<1> DEFINE r == [NewSession EXCEPT !.run = "running", !.workingDir = getChrootDir]
<1>1. Granted(r)
  BY DEF Granted, NewSession, Fields, Deleting
<1>2. r.workingDir = getChrootDir
  BY DEF NewSession
<1>3. Set(s, r) /\ UNCHANGED <<settings, mounted>>
  BY DEF Connect, owners
<1> HIDE DEF r
<1>4. Housed(r)
  BY <1>2, RootStartsWithRoot DEF Housed, getChrootDir
<1>5. QED
  BY <1>1, <1>3, <1>4, SetKeeps

LEMMA ReceiveKeeps ==
  ASSUME IInv, NEW s \in Sessions, Receive(s)
  PROVE  IInv'
<1>1. PICK n \in 1 .. MaxAhead + 1 : Set(s, [Me(s) EXCEPT !.lines = @ + n, !.ahead = n])
  BY DEF Receive
<1>2. DOMAIN session[s] = Fields
  BY DEF IInv, Granted
<1>3. Alike([Me(s) EXCEPT !.lines = @ + n, !.ahead = n], session[s])
  BY <1>2 DEF Alike, Me, Fields
<1>4. UNCHANGED <<settings, mounted>>
  BY DEF Receive, owners
<1>5. QED
  BY <1>1, <1>3, <1>4, Quiet

LEMMA EndOfInputKeeps ==
  ASSUME IInv, NEW s \in Sessions, EndOfInput(s)
  PROVE  IInv'
<1> DEFINE r == [NewSession EXCEPT !.run = "ended", !.socket = "closed"]
<1>1. Granted(r) /\ Housed(r)
  BY DEF Granted, Housed, NewSession, Fields, Deleting
<1>2. Set(s, r) /\ UNCHANGED <<settings, mounted>>
  BY DEF EndOfInput, owners
<1> HIDE DEF r
<1>3. QED
  BY <1>1, <1>2, SetKeeps

LEMMA TerminateKeeps ==
  ASSUME IInv, NEW s \in Sessions, Terminate(s)
  PROVE  IInv'
<1>1. DOMAIN session[s] = Fields
  BY DEF IInv, Granted
<1>2. Alike([Me(s) EXCEPT !.socket = "closed"], session[s])
  BY <1>1 DEF Alike, Me, Fields
<1>3. QED
  BY <1>2, Quiet DEF Terminate, owners

----------------------------------------------------------------------------
(* The commands. *)

LEMMA LoginKeeps ==
  ASSUME IInv, NEW s \in Sessions, USER(s) \/ PASS(s) \/ QUIT(s)
  PROVE  IInv'
<1> DEFINE t == Taken(s)
<1>1. Alike(t, session[s]) /\ Granted(session[s]) /\ Housed(session[s])
  BY TakenAlike DEF IInv
<1>2. Granted(t) /\ Housed(t)
  BY <1>1, AlikeKeeps
<1>3. UNCHANGED <<settings, mounted>>
  BY DEF USER, PASS, QUIT, owners
<1> HIDE DEF t
<1>4. CASE USER(s)
  <2>1. PICK name \in Users : Set(s, [t EXCEPT !.username = name])
    BY <1>4 DEF USER, t
  <2>2. Alike([t EXCEPT !.username = name], session[s])
    BY <1>1 DEF Alike, Fields
  <2>3. QED
    BY <1>3, <2>1, <2>2, Quiet
<1>5. CASE QUIT(s)
  <2>1. Set(s, [t EXCEPT !.socket = "closed"])
    BY <1>5 DEF QUIT, t
  <2>2. Alike([t EXCEPT !.socket = "closed"], session[s])
    BY <1>1 DEF Alike, Fields
  <2>3. QED
    BY <1>3, <2>1, <2>2, Quiet
<1>6. CASE PASS(s)
  <2> DEFINE In == [t EXCEPT !.userAuthenticated = TRUE, !.granted = TRUE]
  <2>1. Alike(authAttempt(t), session[s])
    BY <1>1 DEF authAttempt, Alike, Fields
  <2>2. DOMAIN In = Fields /\ In.granted
    BY <1>1 DEF Alike, Fields
  <2>3. In.run = t.run /\ In.workingDir = t.workingDir /\ In.at = t.at /\ In.moved = t.moved
    BY <1>1 DEF Alike, Fields
  <2>4. Set(s, t) \/ Set(s, In) \/ Set(s, authAttempt(t))
    BY <1>6 DEF PASS, t
  <2> HIDE DEF In
  <2>5. Granted(In) /\ Housed(In)
    BY <1>2, <2>2, <2>3 DEF Granted, Housed
  <2>6. CASE Set(s, In)
    BY <1>3, <2>5, <2>6, SetKeeps
  <2>7. CASE Set(s, t)
    BY <1>1, <1>3, <2>7, Quiet
  <2>8. CASE Set(s, authAttempt(t))
    BY <1>3, <2>1, <2>8, Quiet
  <2>9. QED
    BY <2>4, <2>6, <2>7, <2>8
<1>7. QED
  BY <1>4, <1>5, <1>6

(* A new working directory. *)
LEMMA MoveKeeps ==
  ASSUME IInv, NEW s \in Sessions, NEW path \in Paths, StartsWith(path, chrootDir),
         Set(s, MovedTo(s, path)), UNCHANGED <<settings, mounted>>
  PROVE  IInv'
<1> DEFINE r == [Taken(s) EXCEPT !.workingDir = path, !.moved = FALSE]
<1>1. Alike(Taken(s), session[s]) /\ Granted(session[s])
  BY TakenAlike DEF IInv
<1>2. /\ DOMAIN r = Fields /\ r.workingDir = path
      /\ r.at = Taken(s).at /\ r.run = Taken(s).run /\ r.granted = Taken(s).granted
      /\ r.userAuthenticated = Taken(s).userAuthenticated
  BY <1>1 DEF Alike, Fields
<1>3. Set(s, r)
  BY DEF MovedTo
<1> HIDE DEF r
<1>4. Granted(r) /\ Housed(r)
  BY <1>1, <1>2 DEF Granted, Housed, Alike
<1>5. QED
  BY <1>3, <1>4, SetKeeps

LEMMA DirectoryKeeps ==
  ASSUME IInv, NEW s \in Sessions, CWD(s) \/ CDUP(s) \/ PWD(s) \/ Refuse(s)
  PROVE  IInv'
<1>1. UNCHANGED <<settings, mounted>>
  BY DEF CWD, CDUP, PWD, Refuse, owners
<1>2. CASE CWD(s)
  <2>1. PICK path \in Paths :
          Set(s, IF violatesChroot(path) \/ ~Enterable(path) THEN Taken(s) ELSE MovedTo(s, path))
    BY <1>2 DEF CWD
  <2>2. CASE violatesChroot(path) \/ ~Enterable(path)
    BY <1>1, <2>1, <2>2, TakenKeeps
  <2>3. CASE ~(violatesChroot(path) \/ ~Enterable(path))
    <3>1. Set(s, MovedTo(s, path))
      BY <2>1, <2>3
    <3>2. QED
      BY <1>1, <2>3, <3>1, AllowedStartsWithRoot, MoveKeeps
  <2>4. QED
    BY <2>2, <2>3
<1>3. CASE CDUP(s)
  <2> DEFINE dir == Me(s).workingDir
             up == Front(dir)
  <2>1. CASE Set(s, Taken(s))
    BY <1>1, <2>1, TakenKeeps
  <2>2. CASE dir # NoPath /\ dir # <<>> /\ MayGoUp(up) /\ Set(s, MovedTo(s, up))
    <3>1. dir \in Paths \ {<<>>}
      BY <2>2 DEF IInv, Housed, Me
    <3>2. up \in Paths
      BY <3>1, SessionAssumption
    <3> HIDE DEF up
    <3>3. QED
      BY <1>1, <2>2, <3>2, AllowedStartsWithRoot, MoveKeeps DEF MayGoUp
  <2>3. Set(s, Taken(s)) \/ (dir # NoPath /\ dir # <<>> /\ MayGoUp(up) /\ Set(s, MovedTo(s, up)))
    BY <1>3 DEF CDUP, Crash
  <2>4. QED
    BY <2>1, <2>2, <2>3
<1>4. CASE PWD(s) \/ Refuse(s)
  <2>1. Set(s, Taken(s))
    BY <1>4 DEF PWD, Refuse, Crash
  <2>2. QED
    BY <1>1, <2>1, TakenKeeps
<1>5. QED
  BY <1>2, <1>3, <1>4

(* Only a user's line is carried out as one of these. *)
LEMMA WriterIsGranted ==
  ASSUME IInv, NEW s \in Sessions, Runs(s, "MKD") \/ Runs(s, "STOR") \/ Runs(s, "RMD")
  PROVE  session[s].granted
BY DEF Runs, Dispatched, AllowedWhileAnonymous, AllowedBeforeLogin, Me, IInv, Granted

(* A record of a command that goes on, or has come to its end: the thread is where it
   was and, unless it only transfers, a user's. *)
Removing(new, r) ==
  /\ DOMAIN new = Fields
  /\ new.run = "running" /\ new.run = r.run /\ new.workingDir = r.workingDir /\ new.moved = r.moved
  /\ new.granted \/ (new.at \in {"line", "data"} /\ ~new.userAuthenticated)

LEMMA RemovingKeeps ==
  ASSUME NEW new, NEW r, Removing(new, r)
  PROVE  Granted(new) /\ (Housed(r) => Housed(new))
BY DEF Removing, Granted, Housed, Deleting

LEMMA RemovalSet ==
  ASSUME IInv, NEW s \in Sessions, NEW r, Removing(r, session[s]), Set(s, r) \/ SetAndDisturb(s, r),
         UNCHANGED <<settings, mounted>>
  PROVE  IInv'
<1>1. Granted(r) /\ Housed(r)
  BY RemovingKeeps DEF IInv
<1>2. QED
  BY <1>1, SetKeeps

LEMMA TreeKeeps ==
  ASSUME IInv, NEW s \in Sessions, MKD(s) \/ STOR(s) \/ Transfer(s) \/ RMD(s)
  PROVE  IInv'
<1>1. UNCHANGED <<settings, mounted>>
  BY DEF MKD, STOR, Transfer, RMD, owners
<1>2. Alike(Taken(s), session[s]) /\ Granted(session[s])
  BY TakenAlike DEF IInv
<1>3. session[s].at = "line" /\ session[s].run = "running"
  BY DEF MKD, STOR, Transfer, RMD, Runs, At, Me
<1>4. CASE MKD(s)
  <2>1. Set(s, Taken(s)) \/ SetAndDisturb(s, Taken(s))
    BY <1>4 DEF MKD
  <2>2. QED
    BY <1>1, <2>1, TakenKeeps
<1>5. CASE STOR(s)
  <2> DEFINE r(path) == [Taken(s) EXCEPT !.at = "open", !.path = path]
  <2>1. PICK path \in Paths : Set(s, Taken(s)) \/ Set(s, r(path)) \/ SetAndDisturb(s, r(path))
    BY <1>5 DEF STOR
  <2>2. session[s].granted
    BY <1>5, WriterIsGranted DEF STOR
  <2>3. Removing(r(path), session[s])
    BY <1>2, <1>3, <2>2 DEF Removing, Alike, Fields
  <2> HIDE DEF r
  <2>4. QED
    BY <1>1, <2>1, <2>3, RemovalSet, TakenKeeps
<1>6. CASE Transfer(s)
  <2> DEFINE r == [Taken(s) EXCEPT !.at = "data"]
  <2>1. Set(s, Taken(s)) \/ Set(s, r)
    BY <1>6 DEF Transfer, Crash
  <2>2. /\ DOMAIN r = Fields /\ r.at = "data" /\ r.run = Taken(s).run
        /\ r.workingDir = Taken(s).workingDir /\ r.moved = Taken(s).moved
        /\ r.granted = Taken(s).granted /\ r.userAuthenticated = Taken(s).userAuthenticated
    BY <1>2 DEF Alike, Fields
  <2> HIDE DEF r
  <2>3. Removing(r, session[s])
    BY <1>2, <1>3, <2>2 DEF Removing, Alike, Granted
  <2>4. QED
    BY <1>1, <2>1, <2>3, RemovalSet, TakenKeeps
<1>7. CASE RMD(s)
  <2> DEFINE No == [Taken(s) EXCEPT !.code = "550"]
             Started(path) == [Taken(s) EXCEPT !.at = "visit", !.target = path, !.path = path]
  <2>1. PICK path \in Paths : Set(s, No) \/ Set(s, Started(path))
    BY <1>7 DEF RMD
  <2>2. Alike(No, session[s])
    BY <1>2 DEF Alike, Fields
  <2>3. session[s].granted
    BY <1>7, WriterIsGranted DEF RMD
  <2>4. Removing(Started(path), session[s])
    BY <1>2, <1>3, <2>3 DEF Removing, Alike, Fields
  <2> HIDE DEF No, Started
  <2>5. QED
    BY <1>1, <2>1, <2>2, <2>4, Quiet, RemovalSet
<1>8. QED
  BY <1>4, <1>5, <1>6, <1>7

(* The steps of STOR that follow, and the end of a transfer. *)
LEMMA StoreKeeps ==
  ASSUME IInv, NEW s \in Sessions, OpenFile(s) \/ TransferEnds(s)
  PROVE  IInv'
<1>1. UNCHANGED <<settings, mounted>>
  BY DEF OpenFile, TransferEnds, owners
<1>2. session[s].at \in {"open", "data"} /\ Granted(session[s])
  BY DEF OpenFile, TransferEnds, At, Me, IInv
<1>3. Removing(Finished(s), session[s]) /\ Removing(Waiting(s), session[s])
  <2>1. DOMAIN session[s] = Fields /\ session[s].run = "running"
    BY <1>2 DEF Granted
  <2>2. session[s].granted \/ ~session[s].userAuthenticated
    BY <1>2 DEF Granted
  <2>3. QED
    BY <2>1, <2>2 DEF Removing, Finished, Waiting, Me, Fields
<1>4. \/ Set(s, Finished(s)) \/ SetAndDisturb(s, Finished(s))
      \/ Set(s, Waiting(s)) \/ SetAndDisturb(s, Waiting(s))
  BY DEF OpenFile, TransferEnds
<1>5. QED
  BY <1>1, <1>3, <1>4, RemovalSet

----------------------------------------------------------------------------
(* recursiveDelete: wherever it goes, the thread stays a user's and where it was. *)

LEMMA ReturnedRemoving ==
  ASSUME NEW r, NEW old, NEW result, Removing(r, old), r.granted
  PROVE  Removing(Returned(r, result), old)
<1>1. CASE r.stack = <<>>
  <2> DEFINE reply == IF result THEN "250" ELSE "550"
  <2>1. Returned(r, result) =
          [r EXCEPT !.at = "line", !.path = NoPath, !.target = NoPath, !.disturbed = FALSE, !.code = reply]
    BY <1>1 DEF Returned
  <2> HIDE DEF reply
  <2>2. QED
    BY <2>1 DEF Removing, Fields
<1>2. CASE r.stack # <<>>
  <2> DEFINE path == Last(r.stack).path
             stack == [r.stack EXCEPT ![Len(r.stack)].success = @ /\ result]
  <2>1. Returned(r, result) = [r EXCEPT !.at = "entries", !.path = path, !.stack = stack]
    BY <1>2, Zenon DEF Returned
  <2> HIDE DEF path, stack
  <2>2. QED
    BY <2>1 DEF Removing, Fields
<1>3. QED
  BY <1>1, <1>2

LEMMA RemovalKeeps ==
  ASSUME IInv, NEW s \in Sessions, recursiveDelete(s)
  PROVE  IInv'
<1>1. UNCHANGED <<settings, mounted>>
  BY DEF recursiveDelete, Visit, ListFiles, NextEntry, DeleteFile, DeleteDirectory, Delete, owners
<1>2. session[s].at \in Deleting
  BY DEF recursiveDelete, Visit, ListFiles, NextEntry, DeleteFile, DeleteDirectory, At, Me, Deleting
<1>3. Removing(session[s], session[s]) /\ session[s].granted
  BY <1>2 DEF IInv, Granted, Removing, Deleting
<1>4. \A result : Removing(Returned(session[s], result), session[s])
  BY <1>3, ReturnedRemoving
<1>5. CASE Visit(s)
  <2>1. \/ Set(s, [session[s] EXCEPT !.at = "list"])
        \/ Set(s, [session[s] EXCEPT !.at = "file"])
        \/ Set(s, Returned(session[s], FALSE))
    BY <1>5 DEF Visit, Me
  <2>2. /\ Removing([session[s] EXCEPT !.at = "list"], session[s])
        /\ Removing([session[s] EXCEPT !.at = "file"], session[s])
    BY <1>3 DEF Removing, Fields
  <2>3. QED
    BY <1>1, <1>4, <2>1, <2>2, RemovalSet
<1>6. CASE ListFiles(s)
  <2> DEFINE frame == [path |-> Me(s).path, todo |-> Listed(Me(s).path), success |-> TRUE]
             r == [session[s] EXCEPT !.at = "entries", !.stack = Append(@, frame)]
  <2>1. UNCHANGED session \/ Set(s, r)
    BY <1>6 DEF ListFiles, Me
  <2> HIDE DEF frame
  <2>2. Removing(r, session[s])
    BY <1>3 DEF Removing, Fields
  <2> HIDE DEF r
  <2>3. CASE Set(s, r)
    BY <1>1, <2>2, <2>3, RemovalSet
  <2>4. CASE UNCHANGED session
    BY <1>1, <2>4 DEF IInv, Granted, Housed, chrootDir
  <2>5. QED
    BY <2>1, <2>3, <2>4
<1>7. CASE NextEntry(s)
  <2>1. PICK entry :
          Set(s, [Me(s) EXCEPT !.at = "visit", !.path = entry, !.stack[Len(Me(s).stack)].todo = @ \ {entry}])
    BY <1>7 DEF NextEntry
  <2> DEFINE stack == [session[s].stack EXCEPT ![Len(session[s].stack)].todo = @ \ {entry}]
             r == [session[s] EXCEPT !.at = "visit", !.path = entry, !.stack = stack]
  <2>2. Set(s, r)
    BY <2>1, Zenon DEF Me
  <2> HIDE DEF stack
  <2>3. Removing(r, session[s])
    BY <1>3 DEF Removing, Fields
  <2>4. QED
    BY <1>1, <2>2, <2>3, RemovalSet
<1>8. CASE DeleteFile(s)
  <2>1. \E result : \/ Set(s, Returned(session[s], result))
                    \/ SetAndDisturb(s, Returned(session[s], result))
    BY <1>8 DEF DeleteFile, Delete, Me
  <2>2. QED
    BY <1>1, <1>4, <2>1, RemovalSet
<1>9. CASE DeleteDirectory(s)
  <2> DEFINE stack == Front(session[s].stack)
             r == [session[s] EXCEPT !.stack = stack]
  <2>1. \E result : Set(s, Returned(r, result)) \/ SetAndDisturb(s, Returned(r, result))
    BY <1>9 DEF DeleteDirectory, Delete, Me
  <2> HIDE DEF stack
  <2>2. Removing(r, session[s]) /\ r.granted
    BY <1>3 DEF Removing, Fields
  <2> HIDE DEF r
  <2>3. QED
    BY <1>1, <2>1, <2>2, ReturnedRemoving, RemovalSet
<1>10. QED
  BY <1>5, <1>6, <1>7, <1>8, <1>9 DEF recursiveDelete

----------------------------------------------------------------------------
(* The owner and the storage. *)

(* What becomes of a session under them. *)
Follows(new, r) ==
  /\ DOMAIN new = Fields
  /\ new.run = r.run /\ new.workingDir = r.workingDir /\ new.at = r.at
  /\ new.userAuthenticated = r.userAuthenticated /\ new.granted = r.granted
  /\ ~new.moved => ~r.moved /\ (r.run = "running" => chrootDir' = chrootDir)

LEMMA DisturbedFollows ==
  ASSUME NEW r, DOMAIN r = Fields
  PROVE  /\ Follows(Moved(r), r) /\ Follows(Disturbed(Moved(r)), r)
         /\ chrootDir' = chrootDir => Follows(Disturbed(r), r)
<1> DEFINE change == r.run = "running" /\ chrootDir' # chrootDir
           m == [r EXCEPT !.moved = @ \/ change]
<1>1. Moved(r) = m
  BY DEF Moved
<1>2. /\ DOMAIN m = Fields
      /\ m.run = r.run /\ m.workingDir = r.workingDir /\ m.at = r.at
      /\ m.userAuthenticated = r.userAuthenticated /\ m.granted = r.granted
      /\ m.moved = (r.moved \/ change)
  BY DEF Fields
<1> HIDE DEF m
<1>3. Follows(m, r)
  BY <1>2 DEF Follows
<1>4. \A q : DOMAIN q = Fields => Alike(Disturbed(q), q)
  BY DEF Disturbed, Alike, Fields
<1>5. QED
  BY <1>1, <1>2, <1>3, <1>4 DEF Follows, Alike

LEMMA ChangesFollow ==
  ASSUME IInv, ChangeAnonymous \/ ChangeLogin \/ ChangeRoot \/ Remount \/ Trouble
  PROVE  /\ settings' \in Settings /\ DOMAIN session' = Sessions
         /\ \A s \in Sessions : Follows(session'[s], session[s])
<1>1. \A s \in Sessions : DOMAIN session[s] = Fields
  BY DEF IInv, Granted
<1>2. CASE ChangeAnonymous \/ ChangeLogin \/ ChangeRoot
  <2>1. settings' \in Settings
    BY <1>2 DEF IInv, Settings, ChangeAnonymous, ChangeLogin, ChangeRoot, Change
  <2>2. session' = [s \in Sessions |-> Moved(session[s])]
    BY <1>2 DEF ChangeAnonymous, ChangeLogin, ChangeRoot, Change
  <2>3. QED
    BY <1>1, <2>1, <2>2, DisturbedFollows
<1>3. CASE Remount
  <2>1. settings' = settings /\ session' = [s \in Sessions |-> Disturbed(Moved(session[s]))]
    BY <1>3 DEF Remount
  <2>2. QED
    BY <1>1, <2>1, DisturbedFollows DEF IInv
<1>4. CASE Trouble
  <2>1. UNCHANGED <<settings, mounted>> /\ session' = [s \in Sessions |-> Disturbed(session[s])]
    BY <1>4 DEF Trouble
  <2>2. chrootDir' = chrootDir
    BY <2>1 DEF chrootDir
  <2>3. QED
    BY <1>1, <2>1, <2>2, DisturbedFollows DEF IInv
<1>5. QED
  BY <1>2, <1>3, <1>4

LEMMA ChangesKeep ==
  ASSUME IInv, ChangeAnonymous \/ ChangeLogin \/ ChangeRoot \/ Remount \/ Trouble
  PROVE  IInv'
<1>1. /\ settings' \in Settings /\ DOMAIN session' = Sessions
      /\ \A s \in Sessions : Follows(session'[s], session[s])
  BY ChangesFollow
<1>2. ASSUME NEW s \in Sessions
      PROVE  Granted(session[s])' /\ Housed(session[s])'
  <2>1. Follows(session'[s], session[s]) /\ Granted(session[s]) /\ Housed(session[s])
    BY <1>1 DEF IInv
  <2>2. Granted(session[s])'
    BY <2>1 DEF Granted, Follows
  <2>3. Housed(session[s])'
    BY <2>1 DEF Housed, Follows
  <2>4. QED
    BY <2>2, <2>3
<1>3. QED
  BY <1>1, <1>2 DEF IInv

LEMMA NextIInv == IInv /\ [Next]_vars => IInv'
<1> SUFFICES ASSUME IInv, [Next]_vars
             PROVE  IInv'
  OBVIOUS
<1>1. ASSUME NEW s \in Sessions, Working(s)
      PROVE  IInv'
  BY <1>1, LoginKeeps, DirectoryKeeps, TreeKeeps, StoreKeeps, RemovalKeeps DEF Working, Command
<1>2. ASSUME NEW s \in Sessions, Connect(s) \/ Receive(s) \/ EndOfInput(s) \/ TransferEnds(s) \/ Terminate(s)
      PROVE  IInv'
  BY <1>2, ConnectKeeps, ReceiveKeeps, EndOfInputKeeps, StoreKeeps, TerminateKeeps
<1>3. CASE UNCHANGED vars
  BY <1>3 DEF IInv, vars, owners, Granted, Housed, chrootDir
<1>4. QED
  BY <1>1, <1>2, <1>3, ChangesKeep DEF Next

(* A session's working directory starts with the root until the root changes, be it by
   the owner or with the storage, whatever other sessions make or remove and whatever
   the file system refuses meanwhile: CWD and CDUP ask violatesChroot, and no other
   command moves. *)
THEOREM RootHolds == Spec => []WorkingDirStartsWithRoot
<1>1. IInv => WorkingDirStartsWithRoot
  BY DEF IInv, WorkingDirStartsWithRoot, Housed, Me
<1>2. QED
  BY <1>1, InitIInv, NextIInv, PTL DEF Spec

(* Whoever changes the tree has given the password in this session: what is dispatched
   to a guest or before the login changes nothing, and a removal or an upload under way
   was started by a user. *)
THEOREM UsersOnly == Spec => OnlyUsersChangeTheTree
<1> DEFINE Step ==
             \A s \in Sessions : Working(s) /\ <<dirs, files>>' # <<dirs, files>> => Me(s).granted
<1>1. IInv => Step
  <2> SUFFICES ASSUME IInv, NEW s \in Sessions, Working(s), <<dirs, files>>' # <<dirs, files>>
               PROVE  session[s].granted
    BY DEF Me
  <2>1. CASE recursiveDelete(s) \/ OpenFile(s)
    <3>1. session[s].at \in Deleting \cup {"open"}
      BY <2>1 DEF recursiveDelete, Visit, ListFiles, NextEntry, DeleteFile, DeleteDirectory, OpenFile,
                  At, Me, Deleting
    <3>2. QED
      BY <3>1 DEF IInv, Granted
  <2>2. CASE MKD(s) \/ STOR(s) \/ RMD(s)
    BY <2>2, WriterIsGranted DEF MKD, STOR, RMD
  <2>3. CASE Refuse(s) \/ USER(s) \/ PASS(s) \/ QUIT(s) \/ CWD(s) \/ CDUP(s) \/ PWD(s) \/ Transfer(s)
    <3>1. UNCHANGED <<dirs, files>>
      BY <2>3 DEF Refuse, USER, PASS, QUIT, CWD, CDUP, PWD, Transfer, tree
    <3>2. QED
      BY <3>1
  <2>4. QED
    BY <2>1, <2>2, <2>3 DEF Working, Command
<1>2. [Next]_vars /\ IInv => [Step]_vars
  BY <1>1
<1>3. QED
  BY <1>2, InitIInv, NextIInv, PTL DEF Spec, OnlyUsersChangeTheTree

----------------------------------------------------------------------------
(* The tree: what lies between a path and the top are directories. *)

Tree(D, F) ==
  /\ D \cup F \subseteq Paths /\ D \cap F = {}
  /\ \A p \in D \cup F : \A n \in 0 .. Len(p) - 1 : SubSeq(p, 1, n) \in D

Held(D, F, dir) == {p \in D \cup F : p # <<>> /\ Front(p) = dir}

(* Induction, by the pigeonhole principle: a set of numbers with 0, and with the next
   number after each of its numbers below n, has n. *)
LEMMA Climbs ==
  ASSUME NEW S, NEW n \in Nat, 0 \in S, \A i \in 0 .. n - 1 : i \in S => i + 1 \in S
  PROVE  n \in S
<1> SUFFICES ASSUME n \notin S
             PROVE  FALSE
  OBVIOUS
<1> DEFINE T == {i \in 0 .. n : i \in S}
           f == [i \in T |-> i + 1]
<1>1. IsFiniteSet(T)
  <2>1. IsFiniteSet(0 .. n)
    BY FS_Interval
  <2>2. QED
    BY <2>1, FS_Subset
<1>2. IsFiniteSet(T \ {0}) /\ Cardinality(T \ {0}) < Cardinality(T)
  <2>1. 0 \in T
    OBVIOUS
  <2> HIDE DEF T
  <2>2. Cardinality(T) \in Nat
    BY <1>1, FS_CardinalityType
  <2>3. IsFiniteSet(T \ {0}) /\ Cardinality(T \ {0}) = Cardinality(T) - 1
    BY <1>1, <2>1, FS_RemoveElement
  <2>4. QED
    BY <2>2, <2>3
<1>3. f \in [T -> T \ {0}]
  <2> SUFFICES ASSUME NEW i \in T
               PROVE  i + 1 \in T \ {0}
    OBVIOUS
  <2>1. i \in 0 .. n - 1
    OBVIOUS
  <2>2. QED
    BY <2>1
<1>4. \A x, y \in T : x # y => f[x] # f[y]
  OBVIOUS
<1> HIDE DEF T, f
<1>5. \E x, y \in T : x # y /\ f[x] = f[y]
  BY <1>1, <1>2, <1>3, FS_PigeonHole
<1>6. QED
  BY <1>4, <1>5

LEMMA PathFacts ==
  ASSUME NEW p \in Paths
  PROVE  /\ p \in Seq(STRING) /\ Len(p) \in Nat
         /\ p # <<>> => Len(Front(p)) = Len(p) - 1 /\ Len(p) \in Nat \ {0}
         /\ Front(p) = SubSeq(p, 1, Len(p) - 1)
<1>1. p \in Seq(STRING)
  BY SessionAssumption
<1>2. Len(p) \in Nat /\ (p # <<>> => Len(p) \in Nat \ {0})
  BY <1>1, EmptySeq, LenProperties
<1>3. p # <<>> => Len(SubSeq(p, 1, Len(p) - 1)) = Len(p) - 1
  <2> DEFINE l == Len(p) - 1
  <2> SUFFICES ASSUME p # <<>>
               PROVE  Len(SubSeq(p, 1, l)) = l
    OBVIOUS
  <2>1. l \in Nat /\ \A i \in 1 .. l : p[i] \in STRING
    BY <1>1, <1>2
  <2> HIDE DEF l
  <2>2. Len(SubSeq(p, 1, l)) = IF 1 <= l THEN l - 1 + 1 ELSE 0
    BY <2>1, SubSeqProperties
  <2>3. QED
    BY <2>1, <2>2
<1>4. QED
  BY <1>1, <1>2, <1>3 DEF Front

(* The first tree, and one whose storage has been mounted or has gone. *)
LEMMA ClosedIsTree ==
  ASSUME NEW D, NEW F, D \cup F \subseteq Paths, D \cap F = {},
         \A p \in D \cup F : p # <<>> => Front(p) \in D
  PROVE  Tree(D, F)
<1>2. ASSUME NEW p \in D \cup F, NEW n \in 0 .. Len(p) - 1
      PROVE  SubSeq(p, 1, n) \in D
  <2> DEFINE k == Len(p) - 1
             S == {i \in 0 .. k : SubSeq(p, 1, k - i) \in D}
  <2>1. p \in Seq(STRING) /\ Len(p) \in Nat /\ k \in Nat /\ p # <<>>
    <3>1. p \in Paths
      OBVIOUS
    <3>2. QED
      BY <3>1, PathFacts, EmptySeq
  <2>2. 0 \in S
    <3>1. Front(p) = SubSeq(p, 1, k) /\ Front(p) \in D
      BY <2>1 DEF Front
    <3>2. QED
      BY <2>1, <3>1
  <2>3. \A i \in 0 .. (k - n) - 1 : i \in S => i + 1 \in S
    <3> SUFFICES ASSUME NEW i \in 0 .. (k - n) - 1, i \in S
                 PROVE  i + 1 \in S
      OBVIOUS
    <3> DEFINE q == SubSeq(p, 1, k - i)
    <3>1. q \in D /\ k - i \in Nat /\ k - i >= 1 /\ k - i <= Len(p) /\ i + 1 \in 0 .. k
      BY <2>1
    <3>2. Len(q) = k - i /\ q \in Seq(STRING)
      BY <2>1, <3>1
    <3>3. q # <<>>
      <4> HIDE DEF q, k
      <4>1. Len(q) # 0
        BY <3>1, <3>2
      <4>2. QED
        BY <4>1, EmptySeq
    <3>4. Front(q) = SubSeq(p, 1, k - (i + 1))
      <4>1. Front(q) = SubSeq(q, 1, k - i - 1)
        BY <3>2 DEF Front
      <4>2. SubSeq(q, 1, k - i - 1) = SubSeq(p, 1, k - i - 1)
        BY <2>1, <3>1, <3>2
      <4>3. QED
        BY <2>1, <4>1, <4>2
    <3>5. QED
      BY <3>1, <3>3, <3>4
  <2>4. k - n \in Nat
    BY <2>1
  <2> HIDE DEF k, S
  <2>5. k - n \in S
    BY <2>2, <2>3, <2>4, Climbs
  <2>6. k - (k - n) = n
    BY <2>1 DEF k
  <2>7. QED
    BY <2>5, <2>6 DEF S
<1>3. QED
  BY <1>2 DEF Tree

(* A directory lies above what is within it, and has an entry if there is anything. *)
LEMMA AboveIsDirectory ==
  ASSUME NEW D, NEW F, Tree(D, F), NEW p \in D \cup F, NEW d \in Paths, Within(p, d), p # d
  PROVE  d \in D /\ Held(D, F, d) # {}
<1>1. /\ p \in Paths /\ p \in Seq(STRING) /\ d \in Seq(STRING) /\ Len(p) \in Nat /\ Len(d) \in Nat
  BY PathFacts DEF Tree
<1>2. Len(d) <= Len(p) /\ SubSeq(d, 1, Len(d)) = SubSeq(p, 1, Len(d))
  BY DEF Within, IsPrefix
<1>3. SubSeq(d, 1, Len(d)) = d /\ SubSeq(p, 1, Len(p)) = p
  BY <1>1, SubSeqFull
<1>4. Len(d) < Len(p)
  <2>1. Len(d) # Len(p)
    BY <1>2, <1>3
  <2>2. QED
    BY <1>1, <1>2, <2>1
<1>5. d \in D
  <2>1. Len(d) \in 0 .. Len(p) - 1
    BY <1>1, <1>4
  <2>2. QED
    BY <1>2, <1>3, <2>1 DEF Tree
<1> DEFINE k == Len(d) + 1
           q == SubSeq(p, 1, k)
<1>6. k \in Nat /\ k >= 1 /\ k <= Len(p)
  BY <1>1, <1>4
<1>7. q \in D \cup F
  <2>1. CASE k = Len(p)
    BY <1>3, <2>1
  <2>2. CASE k # Len(p)
    <3>1. k \in 0 .. Len(p) - 1
      BY <1>1, <1>6, <2>2
    <3>2. QED
      BY <3>1 DEF Tree
  <2>3. QED
    BY <2>1, <2>2
<1>8. Len(q) = k /\ q \in Seq(STRING)
  BY <1>1, <1>6
<1>9. Front(q) = d
  <2>1. k - 1 = Len(d)
    BY <1>1
  <2>2. SubSeq(q, 1, Len(d)) = SubSeq(p, 1, Len(d))
    BY <1>1, <1>6, <1>8
  <2> HIDE DEF q, k
  <2>3. QED
    BY <1>2, <1>3, <1>8, <2>1, <2>2 DEF Front
<1>10. q # <<>>
  <2> HIDE DEF q, k
  <2>1. Len(q) # 0
    BY <1>6, <1>8
  <2>2. QED
    BY <2>1, EmptySeq
<1>11. QED
  BY <1>5, <1>7, <1>9, <1>10 DEF Held

(* Nothing is within a path that is not there, or a directory without entries. *)
LEMMA NothingBelow ==
  ASSUME NEW D, NEW F, Tree(D, F), NEW d \in Paths, d \notin D \/ Held(D, F, d) = {}
  PROVE  \A p \in D \cup F : Within(p, d) => p = d
BY AboveIsDirectory

(* MKD and STOR. *)
LEMMA TreeGrows ==
  ASSUME Tree(dirs, files), NEW path \in Paths, CanMake(path)
  PROVE  Tree(dirs \cup {path}, files) /\ Tree(dirs, files \cup {path})
<1>1. path \notin dirs \cup files /\ path # <<>> /\ Front(path) \in dirs
  BY DEF CanMake
<1>2. ASSUME NEW n \in 0 .. Len(path) - 1
      PROVE  SubSeq(path, 1, n) \in dirs
  <2> DEFINE up == Front(path)
  <2>1. /\ path \in Seq(STRING) /\ Len(path) \in Nat /\ Len(up) = Len(path) - 1
        /\ up = SubSeq(path, 1, Len(path) - 1)
    BY <1>1, PathFacts
  <2>2. up \in dirs
    BY <1>1
  <2>3. CASE n = Len(path) - 1
    BY <2>1, <2>2, <2>3
  <2>4. CASE n # Len(path) - 1
    <3>1. n \in 0 .. Len(up) - 1 /\ Len(up) \in Nat
      BY <2>1, <2>4
    <3>2. SubSeq(up, 1, n) = SubSeq(path, 1, n)
      BY <2>1, <3>1
    <3> HIDE DEF up
    <3>3. QED
      BY <2>2, <3>1, <3>2 DEF Tree
  <2>5. QED
    BY <2>3, <2>4
<1>3. QED
  BY <1>1, <1>2 DEF Tree

(* What is deleted has no entries. *)
LEMMA TreeShrinks ==
  ASSUME Tree(dirs, files), NEW path \in dirs \cup files, Held(dirs, files, path) = {}
  PROVE  Tree(dirs \ {path}, files \ {path})
<1>1. ASSUME NEW p \in (dirs \cup files) \ {path}, NEW n \in 0 .. Len(p) - 1
      PROVE  SubSeq(p, 1, n) # path
  <2> SUFFICES ASSUME SubSeq(p, 1, n) = path
               PROVE  FALSE
    OBVIOUS
  <2>1. p \in dirs \cup files /\ p \in Paths /\ p \in Seq(STRING) /\ Len(p) \in Nat /\ p # path
    BY PathFacts DEF Tree
  <2>2. Len(path) = n /\ path \in Seq(STRING) /\ n <= Len(p) /\ n \in Nat
    BY <2>1
  <2>3. SubSeq(path, 1, Len(path)) = SubSeq(p, 1, Len(path))
    BY <2>2, SubSeqFull
  <2>4. Within(p, path)
    BY <2>2, <2>3 DEF Within, IsPrefix
  <2>5. path \in Paths
    BY DEF Tree
  <2>6. QED
    BY <2>1, <2>4, <2>5, NothingBelow
<1>2. QED
  BY <1>1 DEF Tree

(* Entries of what is within a directory are, too. *)
LEMMA WithinEntries ==
  ASSUME NEW p \in Paths, p # <<>>, NEW d \in Paths, Within(Front(p), d)
  PROVE  Within(p, d)
<1> DEFINE up == Front(p)
           m == Len(d)
<1>1. /\ p \in Seq(STRING) /\ Len(p) \in Nat \ {0} /\ Len(up) = Len(p) - 1
      /\ up = SubSeq(p, 1, Len(p) - 1) /\ m \in Nat
  BY PathFacts
<1>2. m <= Len(up) /\ SubSeq(d, 1, m) = SubSeq(up, 1, m)
  BY DEF Within, IsPrefix
<1>3. m <= Len(p) /\ SubSeq(up, 1, m) = SubSeq(p, 1, m)
  BY <1>1, <1>2
<1> HIDE DEF up, m
<1>4. QED
  BY <1>2, <1>3 DEF Within, IsPrefix, m

LEMMA WithinItself ==
  ASSUME NEW d \in Paths
  PROVE  Within(d, d)
<1>1. Len(d) \in Nat
  BY PathFacts
<1>2. QED
  BY <1>1 DEF Within, IsPrefix

----------------------------------------------------------------------------
(* The frames of recursiveDelete, one below the other from the target on: with nobody
   interfering, a frame's directory holds what it has still to delete and the one entry
   it is at, and nothing else if the file system refuses nothing. *)

Frames == [path : Paths, todo : SUBSET Paths, success : BOOLEAN]

Child(stack, i, last) == IF i < Len(stack) THEN {stack[i + 1].path} ELSE last

Spared(R, target) == \A p \in Paths : Within(p, target) => <<"write", p>> \notin R

Rest(frame, target, D, F, R, child) ==
  /\ frame.path \in D /\ Within(frame.path, target)
  /\ frame.todo \cup child \subseteq Held(D, F, frame.path) /\ child \cap frame.todo = {}
  /\ Spared(R, target) => frame.success /\ Held(D, F, frame.path) \subseteq frame.todo \cup child

Stacked(stack, target, D, F, R, last) ==
  \A i \in 1 .. Len(stack) :
    /\ Len(stack[i].path) = Len(target) + i - 1
    /\ Rest(stack[i], target, D, F, R, Child(stack, i, last))

(* A directory is entered. *)
LEMMA Pushed ==
  ASSUME NEW D, NEW F, NEW R, NEW stack \in Seq(Frames), NEW target \in Paths, NEW path,
         Stacked(stack, target, D, F, R, {path}), Len(path) = Len(target) + Len(stack),
         NEW frame \in Frames, frame.path = path, Rest(frame, target, D, F, R, {})
  PROVE  Append(stack, frame) \in Seq(Frames) /\ Stacked(Append(stack, frame), target, D, F, R, {})
<1> DEFINE new == Append(stack, frame)
           n == Len(stack)
<1>1. /\ new \in Seq(Frames) /\ Len(new) = n + 1 /\ n \in Nat /\ new[n + 1] = frame
      /\ \A i \in 1 .. n : new[i] = stack[i]
  OBVIOUS
<1>2. ASSUME NEW i \in 1 .. n
      PROVE  Child(new, i, {}) = Child(stack, i, {path})
  <2>1. CASE i < n
    <3>1. i < Len(new) /\ i + 1 \in 1 .. n
      BY <1>1, <2>1
    <3> HIDE DEF new, n
    <3>2. QED
      BY <1>1, <2>1, <3>1 DEF Child, n
  <2>2. CASE i = n
    <3>1. i < Len(new) /\ ~(i < n) /\ new[i + 1] = frame
      BY <1>1, <2>2
    <3> HIDE DEF new
    <3>2. QED
      BY <3>1 DEF Child
  <2>3. QED
    BY <1>1, <2>1, <2>2
<1>3. Child(new, n + 1, {}) = {}
  <2> HIDE DEF new
  <2>1. QED
    BY <1>1 DEF Child
<1>4. Len(frame.path) = Len(target) + (n + 1) - 1
  <2>1. Len(target) \in Nat
    BY PathFacts
  <2>2. QED
    BY <1>1, <2>1
<1> HIDE DEF new
<1>5. ASSUME NEW i \in 1 .. n + 1
      PROVE  Len(new[i].path) = Len(target) + i - 1 /\ Rest(new[i], target, D, F, R, Child(new, i, {}))
  <2>1. CASE i = n + 1
    BY <1>1, <1>3, <1>4, <2>1
  <2>2. CASE i \in 1 .. n
    BY <1>1, <1>2, <2>2 DEF Stacked
  <2>3. QED
    BY <1>1, <2>1, <2>2
<1>6. Stacked(new, target, D, F, R, {})
  BY <1>1, <1>5 DEF Stacked
<1>7. QED
  BY <1>1, <1>6 DEF new

(* The last frame is replaced by one of the same directory. *)
LEMMA Topped ==
  ASSUME NEW D, NEW F, NEW R, NEW stack \in Seq(Frames), stack # <<>>, NEW target \in Paths,
         NEW old, NEW last, NEW frame \in Frames, Stacked(stack, target, D, F, R, old),
         frame.path = Last(stack).path, Rest(frame, target, D, F, R, last)
  PROVE  /\ [stack EXCEPT ![Len(stack)] = frame] \in Seq(Frames)
         /\ Stacked([stack EXCEPT ![Len(stack)] = frame], target, D, F, R, last)
<1> DEFINE n == Len(stack)
           new == [stack EXCEPT ![n] = frame]
<1>1. n \in Nat \ {0} /\ n \in 1 .. n
  BY EmptySeq
<1>2. new \in Seq(Frames) /\ Len(new) = n /\ \A i \in 1 .. n : new[i] = IF i = n THEN frame ELSE stack[i]
  BY <1>1, ExceptSeq
<1> HIDE DEF new
<1>3. ASSUME NEW i \in 1 .. n
      PROVE  Len(new[i].path) = Len(target) + i - 1 /\ Rest(new[i], target, D, F, R, Child(new, i, last))
  <2>1. CASE i = n
    <3>1. Child(new, i, last) = last /\ new[i] = frame
      BY <1>1, <1>2, <2>1 DEF Child
    <3>2. frame.path = stack[i].path
      BY <2>1 DEF Last
    <3> HIDE DEF n
    <3>3. Len(frame.path) = Len(target) + i - 1
      BY <3>2 DEF Stacked, n
    <3>4. QED
      BY <3>1, <3>3
  <2>2. CASE i # n
    <3>1. i + 1 \in 1 .. n /\ i < n /\ new[i] = stack[i]
      BY <1>1, <1>2, <2>2
    <3>2. new[i + 1].path = stack[i + 1].path
      BY <1>2, <3>1 DEF Last
    <3>3. Child(new, i, last) = Child(stack, i, old)
      BY <1>2, <3>1, <3>2 DEF Child
    <3>4. QED
      BY <3>1, <3>3 DEF Stacked
  <2>3. QED
    BY <2>1, <2>2
<1>4. QED
  BY <1>2, <1>3 DEF Stacked, new

(* An entry that goes is missed by the last frame only. *)
LEMMA EntryGone ==
  ASSUME NEW D, NEW F, NEW R, Tree(D, F), NEW stack \in Seq(Frames), NEW target \in Paths,
         NEW path \in D \cup F, Len(path) = Len(target) + Len(stack),
         Stacked(stack, target, D, F, R, {path})
  PROVE  Stacked(stack, target, D \ {path}, F \ {path}, R, {})
<1> DEFINE n == Len(stack)
           D1 == D \ {path}
           F1 == F \ {path}
<1>1. n \in Nat /\ path \in Paths /\ Len(target) \in Nat /\ Len(path) \in Nat
  BY PathFacts DEF Tree
<1>2. ASSUME NEW i \in 1 .. n
      PROVE  /\ Len(stack[i].path) = Len(target) + i - 1
             /\ Rest(stack[i], target, D1, F1, R, Child(stack, i, {}))
  <2> DEFINE d == stack[i].path
             todo == stack[i].todo
             old == Child(stack, i, {path})
             child == Child(stack, i, {})
  <2>1. Len(d) = Len(target) + i - 1 /\ Rest(stack[i], target, D, F, R, old)
    BY DEF Stacked
  <2>2. d # path
    <3>1. Len(d) # Len(path)
      BY <1>1, <2>1
    <3> HIDE DEF d
    <3>2. QED
      BY <3>1
  <2>3. Held(D1, F1, d) = Held(D, F, d) \ {path}
    <3> HIDE DEF d
    <3>1. QED
      BY DEF Held
  <2>4. child = old \ {path} /\ (path \in Held(D, F, d) => path \in old)
    <3>1. CASE i = n
      BY <1>1, <3>1 DEF Child
    <3>2. CASE i # n
      <4>1. i < n
        BY <1>1, <3>2
      <4>2. path \notin Held(D, F, d)
        <5> SUFFICES ASSUME path # <<>>, Front(path) = d
                     PROVE  FALSE
          BY DEF Held
        <5>1. Len(d) = Len(path) - 1
          BY <1>1, PathFacts
        <5> HIDE DEF d
        <5>2. QED
          BY <1>1, <2>1, <4>1, <5>1
      <4>3. old = child /\ old \subseteq Held(D, F, d)
        BY <2>1, <4>1 DEF Child, Rest
      <4> HIDE DEF old, child, d
      <4>4. QED
        BY <4>2, <4>3
    <3>3. QED
      BY <3>1, <3>2
  <2> HIDE DEF old, child, n
  <2>5. Rest(stack[i], target, D1, F1, R, child)
    BY <2>1, <2>2, <2>3, <2>4 DEF Rest
  <2>6. QED
    BY <2>1, <2>5 DEF child
<1>3. QED
  BY <1>2 DEF Stacked

(* One that the file system keeps. *)
LEMMA EntryKept ==
  ASSUME NEW D, NEW F, NEW R, NEW stack, NEW target, NEW path, ~Spared(R, target),
         Stacked(stack, target, D, F, R, {path})
  PROVE  Stacked(stack, target, D, F, R, {})
<1>1. ASSUME NEW i \in 1 .. Len(stack)
      PROVE  Child(stack, i, {}) \subseteq Child(stack, i, {path})
  BY DEF Child
<1>2. ASSUME NEW i \in 1 .. Len(stack)
      PROVE  /\ Len(stack[i].path) = Len(target) + i - 1
             /\ Rest(stack[i], target, D, F, R, Child(stack, i, {}))
  <2> DEFINE old == Child(stack, i, {path})
             child == Child(stack, i, {})
  <2>1. Rest(stack[i], target, D, F, R, old) /\ child \subseteq old
    BY <1>1 DEF Stacked
  <2> HIDE DEF old, child
  <2>2. Rest(stack[i], target, D, F, R, child)
    BY <2>1 DEF Rest
  <2>3. QED
    BY <2>2 DEF Stacked, child
<1>3. QED
  BY <1>2 DEF Stacked

LEMMA FrontIsShorter ==
  ASSUME NEW stack \in Seq(Frames), stack # <<>>
  PROVE  /\ Front(stack) \in Seq(Frames) /\ Len(Front(stack)) = Len(stack) - 1
         /\ \A i \in 1 .. Len(Front(stack)) : Front(stack)[i] = stack[i]
<1> DEFINE n == Len(stack)
           k == n - 1
           new == Front(stack)
<1>1. n \in Nat \ {0} /\ k \in Nat /\ \A i \in 1 .. k : stack[i] \in Frames
  BY EmptySeq
<1>2. new = SubSeq(stack, 1, k)
  BY DEF Front
<1> HIDE DEF k
<1>3. /\ SubSeq(stack, 1, k) \in Seq(Frames)
      /\ Len(SubSeq(stack, 1, k)) = IF 1 <= k THEN k - 1 + 1 ELSE 0
      /\ \A i \in 1 .. k - 1 + 1 : SubSeq(stack, 1, k)[i] = stack[1 + i - 1]
  BY <1>1, SubSeqProperties
<1>4. \A i \in 1 .. k : i \in 1 .. k - 1 + 1 /\ 1 + i - 1 = i
  BY <1>1
<1> HIDE DEF new
<1>5. Len(new) = k
  BY <1>1, <1>2, <1>3
<1>6. new \in Seq(Frames) /\ \A i \in 1 .. k : new[i] = stack[i]
  BY <1>2, <1>3, <1>4
<1>7. QED
  BY <1>5, <1>6 DEF new, k

(* A directory is left: its frame goes, and it is the entry that the frame below is at. *)
LEMMA Popped ==
  ASSUME NEW D, NEW F, NEW R, NEW stack \in Seq(Frames), stack # <<>>, NEW target \in Paths, NEW last,
         Stacked(stack, target, D, F, R, last)
  PROVE  Stacked(Front(stack), target, D, F, R, {Last(stack).path})
<1> DEFINE n == Len(stack)
           new == Front(stack)
<1>1. n \in Nat \ {0}
  BY EmptySeq
<1>2. new \in Seq(Frames) /\ Len(new) = n - 1 /\ \A i \in 1 .. n - 1 : new[i] = stack[i]
  BY <1>1, FrontIsShorter
<1>3. Last(stack) = stack[n]
  BY DEF Last
<1> HIDE DEF new
<1>4. ASSUME NEW i \in 1 .. n - 1
      PROVE  /\ Len(new[i].path) = Len(target) + i - 1
             /\ Rest(new[i], target, D, F, R, Child(new, i, {Last(stack).path}))
  <2>1. i \in 1 .. n /\ i < n /\ new[i] = stack[i]
    BY <1>1, <1>2
  <2>2. Child(new, i, {Last(stack).path}) = Child(stack, i, last)
    <3>1. CASE i = n - 1
      <4>1. ~(i < Len(new)) /\ i + 1 = n
        BY <1>1, <1>2, <3>1
      <4>2. QED
        BY <1>3, <2>1, <4>1 DEF Child
    <3>2. CASE i # n - 1
      <4>1. i < Len(new) /\ i + 1 \in 1 .. n - 1
        BY <1>1, <1>2, <3>2
      <4>2. QED
        BY <1>2, <2>1, <4>1 DEF Child
    <3>3. QED
      BY <3>1, <3>2
  <2>3. QED
    BY <2>1, <2>2 DEF Stacked
<1>5. QED
  BY <1>2, <1>4 DEF Stacked, new

----------------------------------------------------------------------------
(* Where a removal is, and what it can rely on when nobody interferes. *)

Walking(r) ==
  /\ r.at \in Deleting \cup {"line", "open", "data"} /\ r.stack \in Seq(Frames)
  /\ r.at \notin Deleting => r.stack = <<>>
  /\ r.at = "open" => r.path \in Paths
  /\ r.at \in Deleting =>
       /\ r.target \in Paths /\ r.path \in Paths
       /\ IF r.stack = <<>> THEN r.at # "entries" /\ r.path = r.target
          ELSE r.stack[1].path = r.target

Undisturbed(r, D, F, R) == r.at \in Deleting /\ ~r.disturbed =>
  /\ r.at = "visit" => r.path \in D \cup F
  /\ r.at = "list" => r.path \in D
  /\ r.at = "file" => r.path \in F
  /\ r.at # "entries" => Len(r.path) = Len(r.target) + Len(r.stack) /\ Within(r.path, r.target)
  /\ r.stack = <<>> => r.target \in D
  /\ Stacked(r.stack, r.target, D, F, R, IF r.at = "entries" THEN {} ELSE {r.path})

RemovalInv ==
  /\ Tree(dirs, files)
  /\ \A s \in Sessions : Walking(session[s]) /\ Undisturbed(session[s], dirs, files, refused)

(* The fields that are of interest are the same. *)
Same(new, r) ==
  /\ new.at = r.at /\ new.target = r.target /\ new.path = r.path /\ new.stack = r.stack
  /\ r.disturbed => new.disturbed

LEMMA SameKeeps ==
  ASSUME NEW new, NEW r, NEW D, NEW F, NEW R, Same(new, r), Walking(r), Undisturbed(r, D, F, R)
  PROVE  Walking(new) /\ Undisturbed(new, D, F, R)
BY DEF Same, Walking, Undisturbed

(* A removal that is disturbed may find anything. *)
LEMMA NotedKeeps ==
  ASSUME NEW new, NEW r, NEW D, NEW F, NEW R, Same(new, r), Walking(r),
         r.at \in Deleting => new.disturbed
  PROVE  Walking(new) /\ Undisturbed(new, D, F, R)
BY DEF Same, Walking, Undisturbed

LEMMA MovedSame ==
  ASSUME NEW r, DOMAIN r = Fields
  PROVE  DOMAIN Moved(r) = Fields /\ Same(Moved(r), r)
<1> DEFINE change == r.moved \/ (r.run = "running" /\ chrootDir' # chrootDir)
<1>1. Moved(r) = [r EXCEPT !.moved = change]
  BY DEF Moved
<1> HIDE DEF change
<1>2. QED
  BY <1>1 DEF Same, Fields

LEMMA DisturbedSame ==
  ASSUME NEW r, DOMAIN r = Fields
  PROVE  Same(Disturbed(r), r) /\ (r.at \in Deleting => Disturbed(r).disturbed)
<1> DEFINE note == r.disturbed \/ r.at \in Deleting
<1>1. Disturbed(r) = [r EXCEPT !.disturbed = note]
  BY DEF Disturbed
<1>2. (r.disturbed => note) /\ (r.at \in Deleting => note)
  OBVIOUS
<1> HIDE DEF note
<1>3. /\ Disturbed(r).at = r.at /\ Disturbed(r).target = r.target /\ Disturbed(r).path = r.path
      /\ Disturbed(r).stack = r.stack /\ Disturbed(r).disturbed = note
  BY <1>1 DEF Fields
<1>4. QED
  BY <1>2, <1>3 DEF Same

(* No removal is under way. *)
Idle(r) == r.at \in {"line", "open", "data"} /\ r.stack = <<>> /\ (r.at = "open" => r.path \in Paths)

LEMMA IdleKeeps ==
  ASSUME NEW r, NEW D, NEW F, NEW R, Idle(r)
  PROVE  Walking(r) /\ Undisturbed(r, D, F, R)
<1>1. <<>> \in Seq(Frames)
  OBVIOUS
<1>2. QED
  BY <1>1 DEF Idle, Walking, Undisturbed, Deleting

(* A step, by what becomes of every session. *)
LEMMA EveryoneKeeps ==
  ASSUME NEW D, NEW F, NEW R, dirs' = D, files' = F, refused' = R, Tree(D, F),
         \A t \in Sessions : Walking(session'[t]) /\ Undisturbed(session'[t], D, F, R)
  PROVE  RemovalInv'
<1>1. \A t \in Sessions : Walking(session[t])' /\ Undisturbed(session[t], dirs, files, refused)'
  BY DEF Walking, Undisturbed
<1>2. Tree(dirs, files)'
  BY DEF Tree
<1>3. QED
  BY <1>1, <1>2 DEF RemovalInv

(* One session's step that leaves the tree alone. *)
LEMMA RemovalSetKeeps ==
  ASSUME IInv, RemovalInv, NEW s \in Sessions, NEW r, Set(s, r), UNCHANGED <<dirs, files, refused>>,
         Walking(r), Undisturbed(r, dirs, files, refused)
  PROVE  RemovalInv'
<1>1. session' = [session EXCEPT ![s] = r] /\ dirs' = dirs /\ files' = files /\ refused' = refused
  BY DEF Set
<1>2. ASSUME NEW t \in Sessions
      PROVE  session'[t] = r \/ session'[t] = session[t]
  BY <1>1 DEF IInv
<1>3. ASSUME NEW t \in Sessions
      PROVE  Walking(session'[t]) /\ Undisturbed(session'[t], dirs, files, refused)
  BY <1>2 DEF RemovalInv
<1>4. Tree(dirs, files)
  BY DEF RemovalInv
<1>5. QED
  BY <1>1, <1>3, <1>4, EveryoneKeeps

(* One session's step that changes the tree, and is noted by all removals under way. *)
LEMMA RemovalDisturbs ==
  ASSUME IInv, RemovalInv, NEW s \in Sessions, NEW r, SetAndDisturb(s, r), UNCHANGED refused,
         NEW D, NEW F, dirs' = D, files' = F, Tree(D, F), Walking(r), Undisturbed(r, D, F, refused)
  PROVE  RemovalInv'
<1>1. session' = [t \in Sessions |-> IF t = s THEN r ELSE Disturbed(session[t])]
  BY DEF SetAndDisturb
<1>2. ASSUME NEW t \in Sessions, t # s
      PROVE  Walking(session'[t]) /\ Undisturbed(session'[t], D, F, refused)
  <2>1. session'[t] = Disturbed(session[t])
    BY <1>1, <1>2
  <2>2. DOMAIN session[t] = Fields /\ Walking(session[t])
    BY DEF IInv, Granted, RemovalInv
  <2>3. QED
    BY <2>1, <2>2, DisturbedSame, NotedKeeps
<1>3. session'[s] = r
  BY <1>1
<1>4. ASSUME NEW t \in Sessions
      PROVE  Walking(session'[t]) /\ Undisturbed(session'[t], D, F, refused)
  BY <1>2, <1>3
<1>5. QED
  BY <1>4, EveryoneKeeps

----------------------------------------------------------------------------
(* No removal is under way while commands start and threads come and go. *)

LEMMA InitRemoval == Init => RemovalInv
<1> SUFFICES ASSUME Init
             PROVE  RemovalInv
  OBVIOUS
<1>1. Idle(NewSession)
  BY DEF NewSession, Idle
<1> DEFINE r == NewSession
<1>2. \A s \in Sessions : session[s] = r
  BY DEF Init
<1> HIDE DEF r
<1>3. Walking(r) /\ Undisturbed(r, dirs, files, refused)
  BY <1>1, IdleKeeps DEF r
<1>4. Tree(dirs, files)
  BY ClosedIsTree DEF Init, IsTree
<1>5. QED
  BY <1>2, <1>3, <1>4 DEF RemovalInv

LEMMA ThreadsRemoval ==
  ASSUME IInv, RemovalInv, NEW s \in Sessions, Connect(s) \/ EndOfInput(s)
  PROVE  RemovalInv'
<1> DEFINE On == [NewSession EXCEPT !.run = "running", !.workingDir = getChrootDir]
           Off == [NewSession EXCEPT !.run = "ended", !.socket = "closed"]
<1>1. Idle(On) /\ Idle(Off)
  BY DEF NewSession, Idle
<1>2. (Set(s, On) \/ Set(s, Off)) /\ UNCHANGED <<dirs, files, refused>>
  BY DEF Connect, EndOfInput, tree
<1> HIDE DEF On, Off
<1>3. QED
  BY <1>1, <1>2, IdleKeeps, RemovalSetKeeps

LEMMA SocketRemoval ==
  ASSUME IInv, RemovalInv, NEW s \in Sessions, Receive(s) \/ Terminate(s)
  PROVE  RemovalInv'
<1>1. DOMAIN session[s] = Fields /\ Walking(session[s]) /\ Undisturbed(session[s], dirs, files, refused)
  BY DEF IInv, Granted, RemovalInv
<1> DEFINE Off == [session[s] EXCEPT !.socket = "closed"]
           With(n) == [session[s] EXCEPT !.lines = @ + n, !.ahead = n]
<1>2. UNCHANGED <<dirs, files, refused>> /\ (Set(s, Off) \/ \E n \in 1 .. MaxAhead + 1 : Set(s, With(n)))
  BY DEF Receive, Terminate, Me, tree
<1>3. Same(Off, session[s]) /\ \A n \in 1 .. MaxAhead + 1 : Same(With(n), session[s])
  BY <1>1 DEF Same, Fields
<1> HIDE DEF Off, With
<1>4. QED
  BY <1>1, <1>2, <1>3, SameKeeps, RemovalSetKeeps

(* The owner, the storage and the file system's troubles: what is below a removal under
   way does not change, or it notes that it may have. *)
LEMMA ChangesRemoval ==
  ASSUME IInv, RemovalInv, ChangeAnonymous \/ ChangeLogin \/ ChangeRoot \/ Remount \/ Trouble
  PROVE  RemovalInv'
<1>1. \A s \in Sessions : /\ DOMAIN session[s] = Fields /\ Walking(session[s])
                          /\ Undisturbed(session[s], dirs, files, refused)
  BY DEF IInv, Granted, RemovalInv
<1>2. CASE ChangeAnonymous \/ ChangeLogin \/ ChangeRoot
  <2>1. /\ session' = [s \in Sessions |-> Moved(session[s])]
        /\ dirs' = dirs /\ files' = files /\ refused' = refused
    BY <1>2 DEF ChangeAnonymous, ChangeLogin, ChangeRoot, Change, tree
  <2>2. ASSUME NEW s \in Sessions
        PROVE  Walking(session'[s]) /\ Undisturbed(session'[s], dirs, files, refused)
    BY <1>1, <2>1, MovedSame, SameKeeps
  <2>3. QED
    BY <2>1, <2>2, EveryoneKeeps DEF RemovalInv
<1>3. CASE Remount
  <2> DEFINE There == {p \in Paths : Within(p, ExternalStorage)}
  <2>1. PICK d \in SUBSET There : \E f \in SUBSET (There \ d) :
          dirs' = (dirs \ There) \cup d /\ files' = (files \ There) \cup f /\ IsTree'
    BY <1>3 DEF Remount
  <2>2. dirs' \cup files' \subseteq Paths
    BY <2>1 DEF RemovalInv, Tree
  <2>3. Tree(dirs', files')
    <3>1. dirs' \cap files' = {} /\ \A p \in dirs' \cup files' : p # <<>> => Front(p) \in dirs'
      BY <2>1 DEF IsTree
    <3>2. QED
      BY <2>2, <3>1, ClosedIsTree
  <2>4. session' = [s \in Sessions |-> Disturbed(Moved(session[s]))] /\ refused' = refused
    BY <1>3 DEF Remount
  <2>5. ASSUME NEW s \in Sessions
        PROVE  Walking(session'[s]) /\ Undisturbed(session'[s], dirs', files', refused')
    <3>1. session'[s] = Disturbed(Moved(session[s]))
      BY <2>4
    <3>2. DOMAIN Moved(session[s]) = Fields /\ Same(Moved(session[s]), session[s])
      BY <1>1, MovedSame
    <3>3. Walking(Moved(session[s]))
      BY <1>1, <3>2, SameKeeps
    <3>4. QED
      BY <3>1, <3>2, <3>3, DisturbedSame, NotedKeeps
  <2>6. QED
    BY <2>3, <2>5, EveryoneKeeps
<1>4. CASE Trouble
  <2>1. session' = [s \in Sessions |-> Disturbed(session[s])] /\ dirs' = dirs /\ files' = files
    BY <1>4 DEF Trouble
  <2>2. ASSUME NEW s \in Sessions
        PROVE  Walking(session'[s]) /\ Undisturbed(session'[s], dirs, files, refused')
    BY <1>1, <2>1, DisturbedSame, NotedKeeps
  <2>3. QED
    BY <2>1, <2>2, EveryoneKeeps DEF RemovalInv
<1>5. QED
  BY <1>2, <1>3, <1>4

LEMMA CommandIsIdle ==
  ASSUME IInv, RemovalInv, NEW s \in Sessions, At(s, "line")
  PROVE  /\ DOMAIN Taken(s) = Fields /\ Taken(s).disturbed = FALSE
         /\ Taken(s).at = "line" /\ Taken(s).stack = <<>> /\ Idle(Taken(s))
<1>1. DOMAIN session[s] = Fields /\ Walking(session[s]) /\ session[s].at = "line"
  BY DEF IInv, Granted, RemovalInv, At, Me
<1>2. session[s].stack = <<>>
  BY <1>1 DEF Walking, Deleting
<1>3. /\ DOMAIN Taken(s) = Fields /\ Taken(s).disturbed = FALSE
      /\ Taken(s).at = "line" /\ Taken(s).stack = <<>>
  BY <1>1, <1>2 DEF Taken, Me, Fields
<1>4. QED
  BY <1>3 DEF Idle

LEMMA CommandRemoval ==
  ASSUME IInv, RemovalInv, NEW s \in Sessions,
         Refuse(s) \/ USER(s) \/ PASS(s) \/ QUIT(s) \/ CWD(s) \/ CDUP(s) \/ PWD(s) \/ Transfer(s)
  PROVE  RemovalInv'
<1> DEFINE t == Taken(s)
<1>1. DOMAIN t = Fields /\ t.at = "line" /\ t.stack = <<>> /\ Idle(t)
  BY CommandIsIdle DEF Refuse, USER, PASS, QUIT, CWD, CDUP, PWD, Transfer, Runs
<1>2. UNCHANGED <<dirs, files, refused>>
  BY DEF Refuse, USER, PASS, QUIT, CWD, CDUP, PWD, Transfer, Crash, tree
<1> HIDE DEF t
<1>3. PICK r : Set(s, r) /\ Idle(r)
  <2>1. CASE Refuse(s) \/ PWD(s)
    <3>1. Set(s, t)
      BY <2>1 DEF Refuse, PWD, Crash, t
    <3>2. QED
      BY <1>1, <3>1
  <2>2. CASE USER(s)
    <3>1. PICK name \in Users : Set(s, [t EXCEPT !.username = name])
      BY <2>2 DEF USER, t
    <3>2. Idle([t EXCEPT !.username = name])
      BY <1>1 DEF Idle, Fields
    <3>3. QED
      BY <3>1, <3>2
  <2>3. CASE QUIT(s)
    <3>1. Set(s, [t EXCEPT !.socket = "closed"])
      BY <2>3 DEF QUIT, t
    <3>2. Idle([t EXCEPT !.socket = "closed"])
      BY <1>1 DEF Idle, Fields
    <3>3. QED
      BY <3>1, <3>2
  <2>4. CASE PASS(s)
    <3> DEFINE In == [t EXCEPT !.userAuthenticated = TRUE, !.granted = TRUE]
    <3>1. Set(s, t) \/ Set(s, In) \/ Set(s, authAttempt(t))
      BY <2>4 DEF PASS, t
    <3>2. Idle(In) /\ Idle(authAttempt(t))
      BY <1>1 DEF Idle, Fields, authAttempt
    <3> HIDE DEF In
    <3>3. QED
      BY <1>1, <3>1, <3>2
  <2>5. CASE CWD(s) \/ CDUP(s)
    <3>1. PICK path : Set(s, t) \/ Set(s, MovedTo(s, path))
      <4>1. CASE CWD(s)
        BY <4>1 DEF CWD, t
      <4>2. CASE CDUP(s)
        <5> DEFINE up == Front(Me(s).workingDir)
        <5>1. Set(s, t) \/ Set(s, MovedTo(s, up))
          BY <4>2 DEF CDUP, Crash, t
        <5>2. QED
          BY <5>1
      <4>3. QED
        BY <2>5, <4>1, <4>2
    <3>2. Idle([t EXCEPT !.workingDir = path, !.moved = FALSE])
      BY <1>1 DEF Idle, Fields
    <3>3. QED
      BY <1>1, <3>1, <3>2 DEF MovedTo, t
  <2>6. CASE Transfer(s)
    <3>1. Set(s, t) \/ Set(s, [t EXCEPT !.at = "data"])
      BY <2>6 DEF Transfer, Crash, t
    <3>2. Idle([t EXCEPT !.at = "data"])
      BY <1>1 DEF Idle, Fields
    <3>3. QED
      BY <1>1, <3>1, <3>2
  <2>7. QED
    BY <2>1, <2>2, <2>3, <2>4, <2>5, <2>6
<1>4. QED
  BY <1>2, <1>3, IdleKeeps, RemovalSetKeeps

(* The end of a transfer, and its wait for the client. *)
LEMMA FinishedIsIdle ==
  ASSUME IInv, RemovalInv, NEW s \in Sessions, Me(s).at \in {"open", "data"}
  PROVE  Idle(Finished(s)) /\ Idle(Waiting(s))
<1>1. DOMAIN Me(s) = Fields /\ Walking(Me(s))
  BY DEF IInv, Granted, RemovalInv, Me
<1>2. Me(s).stack = <<>>
  BY <1>1 DEF Walking, Deleting
<1>3. /\ Finished(s).at = "line" /\ Finished(s).stack = <<>>
      /\ Waiting(s).at = "data" /\ Waiting(s).stack = <<>>
  BY <1>1, <1>2 DEF Finished, Waiting, Fields
<1>4. QED
  BY <1>3 DEF Idle

LEMMA TransferRemoval ==
  ASSUME IInv, RemovalInv, NEW s \in Sessions, TransferEnds(s)
  PROVE  RemovalInv'
<1>1. Me(s).at \in {"open", "data"} /\ Set(s, Finished(s)) /\ UNCHANGED <<dirs, files, refused>>
  BY DEF TransferEnds, At, tree
<1>2. QED
  BY <1>1, FinishedIsIdle, IdleKeeps, RemovalSetKeeps

LEMMA MakeRemoval ==
  ASSUME IInv, RemovalInv, NEW s \in Sessions, MKD(s)
  PROVE  RemovalInv'
<1> DEFINE t == Taken(s)
<1>1. Idle(t) /\ Tree(dirs, files)
  BY CommandIsIdle DEF MKD, Runs, RemovalInv
<1>2. PICK path \in Paths :
        \/ Set(s, t) /\ UNCHANGED dirs
        \/ CanMake(path) /\ SetAndDisturb(s, t) /\ dirs' = dirs \cup {path}
  BY DEF MKD
<1>3. UNCHANGED <<files, refused>>
  BY DEF MKD
<1> HIDE DEF t
<1>4. CASE Set(s, t) /\ UNCHANGED dirs
  BY <1>1, <1>3, <1>4, IdleKeeps, RemovalSetKeeps
<1>5. CASE CanMake(path) /\ SetAndDisturb(s, t) /\ dirs' = dirs \cup {path}
  <2> DEFINE D == dirs \cup {path}
  <2>1. Tree(D, files) /\ dirs' = D /\ files' = files
    BY <1>1, <1>3, <1>5, TreeGrows
  <2> HIDE DEF D
  <2>2. Walking(t) /\ Undisturbed(t, D, files, refused)
    BY <1>1, IdleKeeps
  <2>3. QED
    BY <1>3, <1>5, <2>1, <2>2, RemovalDisturbs
<1>6. QED
  BY <1>2, <1>4, <1>5

(* A file has no entries. *)
LEMMA FileIsEmpty ==
  ASSUME Tree(dirs, files), NEW path \in files
  PROVE  path \in Paths /\ Held(dirs, files, path) = {} /\ path \notin dirs
<1>1. path \in Paths /\ path \notin dirs
  BY DEF Tree
<1>2. ASSUME NEW p \in dirs \cup files, p # <<>>, Front(p) = path
      PROVE  FALSE
  <2>1. p \in Paths /\ \A n \in 0 .. Len(p) - 1 : SubSeq(p, 1, n) \in dirs
    BY DEF Tree
  <2>2. Len(p) - 1 \in 0 .. Len(p) - 1 /\ Front(p) = SubSeq(p, 1, Len(p) - 1)
    BY <1>2, <2>1, PathFacts
  <2>3. QED
    BY <1>1, <1>2, <2>1, <2>2
<1>3. QED
  BY <1>1, <1>2 DEF Held

LEMMA StoreRemoval ==
  ASSUME IInv, RemovalInv, NEW s \in Sessions, STOR(s)
  PROVE  RemovalInv'
<1> DEFINE t == Taken(s)
           r(path) == [t EXCEPT !.at = "open", !.path = path]
<1>1. DOMAIN t = Fields /\ t.stack = <<>> /\ Idle(t) /\ Tree(dirs, files)
  BY CommandIsIdle DEF STOR, Runs, RemovalInv
<1>2. PICK path \in Paths :
        \/ Set(s, t) /\ files' = files
        \/ /\ files' = files \ {path}
           /\ IF path \in files THEN SetAndDisturb(s, r(path)) ELSE Set(s, r(path))
  BY DEF STOR
<1>3. UNCHANGED <<dirs, refused>>
  BY DEF STOR
<1> HIDE DEF t
<1>4. r(path).at = "open" /\ r(path).path = path /\ r(path).stack = <<>>
  BY <1>1 DEF Fields
<1> HIDE DEF r
<1>5. Idle(r(path))
  BY <1>4 DEF Idle
<1>6. CASE Set(s, t) /\ files' = files
  BY <1>1, <1>3, <1>6, IdleKeeps, RemovalSetKeeps
<1>7. CASE path \in files /\ SetAndDisturb(s, r(path)) /\ files' = files \ {path}
  <2> DEFINE F == files \ {path}
  <2>1. Tree(dirs \ {path}, F)
    BY <1>1, <1>7, FileIsEmpty, TreeShrinks
  <2>2. dirs \ {path} = dirs /\ dirs' = dirs /\ files' = F
    BY <1>1, <1>3, <1>7, FileIsEmpty
  <2> HIDE DEF F
  <2>3. Tree(dirs, F)
    BY <2>1, <2>2
  <2>4. Walking(r(path)) /\ Undisturbed(r(path), dirs, F, refused)
    BY <1>5, IdleKeeps
  <2>5. QED
    BY <1>3, <1>7, <2>2, <2>3, <2>4, RemovalDisturbs
<1>8. CASE path \notin files /\ Set(s, r(path)) /\ files' = files \ {path}
  <2>1. files' = files
    BY <1>8
  <2>2. QED
    BY <1>3, <1>5, <1>8, <2>1, IdleKeeps, RemovalSetKeeps
<1>9. QED
  BY <1>2, <1>6, <1>7, <1>8

LEMMA OpenRemoval ==
  ASSUME IInv, RemovalInv, NEW s \in Sessions, OpenFile(s)
  PROVE  RemovalInv'
<1> DEFINE path == Me(s).path
           F == files \cup {path}
<1>1. Me(s).at = "open" /\ UNCHANGED <<dirs, refused>>
  BY DEF OpenFile, At
<1>2. path \in Paths /\ Tree(dirs, files)
  BY <1>1 DEF RemovalInv, Walking, Me
<1>3. Idle(Finished(s)) /\ Idle(Waiting(s))
  BY <1>1, FinishedIsIdle
<1>4. \/ CanMake(path) /\ files' = F /\ SetAndDisturb(s, Waiting(s))
      \/ files' = files /\ (Set(s, Waiting(s)) \/ Set(s, Finished(s)))
  BY DEF OpenFile
<1> HIDE DEF path
<1>5. CASE CanMake(path) /\ files' = F /\ SetAndDisturb(s, Waiting(s))
  <2>1. Tree(dirs, F)
    BY <1>2, <1>5, TreeGrows
  <2> HIDE DEF F
  <2>2. Walking(Waiting(s)) /\ Undisturbed(Waiting(s), dirs, F, refused)
    BY <1>3, IdleKeeps
  <2>3. QED
    BY <1>1, <1>5, <2>1, <2>2, RemovalDisturbs
<1>6. CASE files' = files /\ (Set(s, Waiting(s)) \/ Set(s, Finished(s)))
  BY <1>1, <1>3, <1>6, IdleKeeps, RemovalSetKeeps
<1>7. QED
  BY <1>4, <1>5, <1>6

LEMMA BeginRemoval ==
  ASSUME IInv, RemovalInv, NEW s \in Sessions, RMD(s)
  PROVE  RemovalInv'
<1> DEFINE t == Taken(s)
           No == [t EXCEPT !.code = "550"]
           Started(path) == [t EXCEPT !.at = "visit", !.target = path, !.path = path]
<1>1. DOMAIN t = Fields /\ t.at = "line" /\ t.stack = <<>> /\ t.disturbed = FALSE
  BY CommandIsIdle DEF RMD, Runs
<1>2. PICK path \in Paths : Set(s, No) \/ (path \in dirs /\ Set(s, Started(path)))
  BY DEF RMD
<1>3. UNCHANGED <<dirs, files, refused>>
  BY DEF RMD, tree
<1> HIDE DEF t
<1>4. Idle(No)
  BY <1>1 DEF Idle, Fields
<1>5. /\ Started(path).at = "visit" /\ Started(path).target = path /\ Started(path).path = path
      /\ Started(path).stack = <<>> /\ Started(path).disturbed = FALSE
  BY <1>1 DEF Fields
<1> HIDE DEF No, Started
<1>6. CASE Set(s, No)
  BY <1>3, <1>4, <1>6, IdleKeeps, RemovalSetKeeps
<1>7. CASE path \in dirs /\ Set(s, Started(path))
  <2>1. <<>> \in Seq(Frames) /\ Len(<<>>) = 0 /\ Len(path) \in Nat
    BY PathFacts, EmptySeq
  <2>2. Walking(Started(path))
    BY <1>5, <2>1 DEF Walking, Deleting
  <2>3. Stacked(<<>>, path, dirs, files, refused, {path})
    BY <2>1 DEF Stacked
  <2>4. Within(path, path) /\ Len(path) = Len(path) + Len(<<>>)
    BY <2>1, WithinItself
  <2>5. Undisturbed(Started(path), dirs, files, refused)
    BY <1>5, <1>7, <2>3, <2>4 DEF Undisturbed
  <2>6. QED
    BY <1>3, <1>7, <2>2, <2>5, RemovalSetKeeps
<1>8. QED
  BY <1>2, <1>6, <1>7

----------------------------------------------------------------------------
(* recursiveDelete. *)

ReturnsTo(new, r, result, frame) ==
  /\ frame.path = Last(r.stack).path /\ frame.todo = Last(r.stack).todo
  /\ frame.success = (Last(r.stack).success /\ result)
  /\ new.at = "entries" /\ new.path = frame.path
  /\ new.target = r.target /\ new.disturbed = r.disturbed
  /\ new.stack = [r.stack EXCEPT ![Len(r.stack)] = frame]

(* It returns: to the caller of RMD, or to the frame below. *)
LEMMA ReturnedFields ==
  ASSUME NEW r, DOMAIN r = Fields, r.stack \in Seq(Frames), NEW result \in BOOLEAN
  PROVE  /\ r.stack = <<>> =>
              /\ Idle(Returned(r, result))
              /\ Returned(r, result).code = IF result THEN "250" ELSE "550"
         /\ r.stack # <<>> =>
              \E frame \in Frames : ReturnsTo(Returned(r, result), r, result, frame)
<1>1. CASE r.stack = <<>>
  <2> DEFINE reply == IF result THEN "250" ELSE "550"
  <2>1. Returned(r, result) =
          [r EXCEPT !.at = "line", !.path = NoPath, !.target = NoPath, !.disturbed = FALSE, !.code = reply]
    BY <1>1 DEF Returned
  <2> HIDE DEF reply
  <2>2. Idle(Returned(r, result)) /\ Returned(r, result).code = reply
    <3>1. /\ Returned(r, result).at = "line" /\ Returned(r, result).stack = <<>>
          /\ Returned(r, result).code = reply
      BY <1>1, <2>1 DEF Fields
    <3>2. QED
      BY <3>1 DEF Idle
  <2>3. QED
    BY <1>1, <2>2 DEF reply
<1>2. CASE r.stack # <<>>
  <2> DEFINE n == Len(r.stack)
             top == r.stack[n]
             done == top.success /\ result
             frame == [top EXCEPT !.success = done]
             path == Last(r.stack).path
             stack == [r.stack EXCEPT ![n] = frame]
  <2>1. Returned(r, result) = [r EXCEPT !.at = "entries", !.path = path, !.stack = stack]
    <3>1. [r.stack EXCEPT ![n].success = @ /\ result] = stack
      OBVIOUS
    <3>2. Returned(r, result) =
            [r EXCEPT !.at = "entries", !.path = path, !.stack[n].success = @ /\ result]
      BY <1>2 DEF Returned
    <3>3. QED
      BY <3>2, Zenon
  <2>2. top \in Frames /\ Last(r.stack) = top /\ done \in BOOLEAN
    <3>1. n \in 1 .. n
      BY <1>2, EmptySeq
    <3>2. top \in Frames
      BY <3>1, ElementOfSeq
    <3>3. QED
      BY <3>2 DEF Last, Frames
  <2>3. done = (top.success /\ result)
    OBVIOUS
  <2> HIDE DEF done, top
  <2>4. frame \in Frames /\ frame.path = top.path /\ frame.todo = top.todo /\ frame.success = done
    BY <2>2 DEF Frames
  <2>5. stack = [r.stack EXCEPT ![Len(r.stack)] = frame] /\ path = Last(r.stack).path
    OBVIOUS
  <2> HIDE DEF frame, path, stack
  <2>6. /\ Returned(r, result).at = "entries" /\ Returned(r, result).path = path
        /\ Returned(r, result).target = r.target /\ Returned(r, result).disturbed = r.disturbed
        /\ Returned(r, result).stack = stack
    BY <2>1 DEF Fields
  <2>7. ReturnsTo(Returned(r, result), r, result, frame)
    BY <2>2, <2>3, <2>4, <2>5, <2>6 DEF ReturnsTo
  <2>8. QED
    BY <1>2, <2>4, <2>7
<1>3. QED
  BY <1>1, <1>2

LEMMA ReturnedKeeps ==
  ASSUME NEW r, DOMAIN r = Fields, r.stack \in Seq(Frames), NEW result \in BOOLEAN,
         NEW D, NEW F, NEW R, r.target \in Paths, r.stack # <<>> => r.stack[1].path = r.target,
         r.stack # <<>> /\ ~r.disturbed =>
           Stacked(r.stack, r.target, D, F, R, {}) /\ (Spared(R, r.target) => result)
  PROVE  Walking(Returned(r, result)) /\ Undisturbed(Returned(r, result), D, F, R)
<1> DEFINE new == Returned(r, result)
           n == Len(r.stack)
<1>1. CASE r.stack = <<>>
  <2>1. Idle(new)
    BY <1>1, ReturnedFields
  <2> HIDE DEF new
  <2>2. Walking(new) /\ Undisturbed(new, D, F, R)
    BY <2>1, IdleKeeps
  <2>3. QED
    BY <2>2 DEF new
<1>2. CASE r.stack # <<>>
  <2>1. PICK frame \in Frames : ReturnsTo(new, r, result, frame)
    BY <1>2, ReturnedFields
  <2>2. n \in Nat \ {0} /\ n \in 1 .. n
    BY <1>2, EmptySeq
  <2>3. /\ new.stack \in Seq(Frames) /\ Len(new.stack) = n
        /\ \A i \in 1 .. n : new.stack[i] = IF i = n THEN frame ELSE r.stack[i]
    BY <2>1, <2>2, ExceptSeq DEF ReturnsTo
  <2> HIDE DEF new
  <2>4. new.stack # <<>>
    BY <2>2, <2>3, EmptySeq
  <2>5. new.stack[1].path = r.target
    BY <1>2, <2>1, <2>2, <2>3 DEF Last, ReturnsTo
  <2>6. new.at = "entries" /\ new.target = r.target /\ new.path \in Paths
    BY <2>1 DEF ReturnsTo, Frames
  <2>7. Walking(new)
    BY <2>3, <2>4, <2>5, <2>6 DEF Walking, Deleting
  <2>8. ~r.disturbed => Stacked(new.stack, r.target, D, F, R, {})
    <3> SUFFICES ASSUME ~r.disturbed
                 PROVE  Stacked(new.stack, r.target, D, F, R, {})
      OBVIOUS
    <3>1. (Spared(R, r.target) => result) /\ Stacked(r.stack, r.target, D, F, R, {})
      BY <1>2
    <3>2. Rest(r.stack[n], r.target, D, F, R, Child(r.stack, n, {}))
      BY <2>2, <3>1 DEF Stacked
    <3>3. Child(r.stack, n, {}) = {} /\ Last(r.stack) = r.stack[n]
      BY <2>2 DEF Child, Last
    <3> HIDE DEF n
    <3>4. Rest(frame, r.target, D, F, R, {})
      BY <2>1, <3>1, <3>2, <3>3 DEF ReturnsTo, Rest
    <3>5. frame.path = Last(r.stack).path /\ new.stack = [r.stack EXCEPT ![Len(r.stack)] = frame]
      BY <2>1 DEF ReturnsTo
    <3>6. QED
      BY <1>2, <3>1, <3>4, <3>5, Topped
  <2>9. new.disturbed = r.disturbed
    BY <2>1 DEF ReturnsTo
  <2>10. Undisturbed(new, D, F, R)
    BY <2>4, <2>6, <2>8, <2>9 DEF Undisturbed
  <2>11. QED
    BY <2>7, <2>10 DEF new
<1>3. QED
  BY <1>1, <1>2

(* What is known of a thread at a point of its removal. *)
LEMMA UnderWay ==
  ASSUME IInv, RemovalInv, NEW s \in Sessions, Me(s).at \in Deleting
  PROVE  /\ DOMAIN Me(s) = Fields /\ Walking(Me(s)) /\ Undisturbed(Me(s), dirs, files, refused)
         /\ Tree(dirs, files) /\ Me(s).stack \in Seq(Frames)
         /\ Me(s).target \in Paths /\ Me(s).path \in Paths
         /\ Me(s).stack # <<>> => Me(s).stack[1].path = Me(s).target
BY DEF IInv, Granted, RemovalInv, Walking, Me

LEMMA VisitRemoval ==
  ASSUME IInv, RemovalInv, NEW s \in Sessions, Visit(s)
  PROVE  RemovalInv'
<1> DEFINE r == Me(s)
           path == r.path
           To(point) == [r EXCEPT !.at = point]
<1>1. r.at = "visit" /\ r.at \in Deleting /\ UNCHANGED <<dirs, files, refused>>
  BY DEF Visit, At, Deleting, tree
<1>2. /\ DOMAIN r = Fields /\ Walking(r) /\ Undisturbed(r, dirs, files, refused)
      /\ r.stack \in Seq(Frames) /\ r.target \in Paths
      /\ r.stack # <<>> => r.stack[1].path = r.target
  BY <1>1, UnderWay
<1>3. \/ path \in dirs /\ Set(s, To("list"))
      \/ path \in files /\ Set(s, To("file"))
      \/ path \notin dirs \cup files /\ Set(s, Returned(r, FALSE))
  BY DEF Visit, isDirectory
<1> HIDE DEF r
<1>4. ASSUME NEW point \in {"list", "file"}, path \in IF point = "list" THEN dirs ELSE files,
             Set(s, To(point))
      PROVE  RemovalInv'
  <2>1. /\ To(point).at = point /\ To(point).target = r.target /\ To(point).path = path
        /\ To(point).stack = r.stack /\ To(point).disturbed = r.disturbed
    BY <1>2 DEF Fields
  <2> HIDE DEF To
  <2>2. Walking(To(point))
    BY <1>1, <1>2, <2>1 DEF Walking, Deleting
  <2>3. Undisturbed(To(point), dirs, files, refused)
    BY <1>1, <1>2, <1>4, <2>1 DEF Undisturbed
  <2>4. QED
    BY <1>1, <1>4, <2>2, <2>3, RemovalSetKeeps
<1>5. ASSUME path \notin dirs \cup files, Set(s, Returned(r, FALSE))
      PROVE  RemovalInv'
  <2>1. r.disturbed
    BY <1>1, <1>2, <1>5 DEF Undisturbed
  <2>2. Walking(Returned(r, FALSE)) /\ Undisturbed(Returned(r, FALSE), dirs, files, refused)
    BY <1>2, <2>1, ReturnedKeeps
  <2>3. QED
    BY <1>1, <1>5, <2>2, RemovalSetKeeps
<1>6. QED
  BY <1>3, <1>4, <1>5

LEMMA ListRemoval ==
  ASSUME IInv, RemovalInv, NEW s \in Sessions, ListFiles(s)
  PROVE  RemovalInv'
<1> DEFINE r == Me(s)
           path == r.path
           todo == Listed(path)
           frame == [path |-> path, todo |-> todo, success |-> TRUE]
           stack == Append(r.stack, frame)
           new == [r EXCEPT !.at = "entries", !.stack = stack]
<1>1. r.at = "list" /\ r.at \in Deleting /\ UNCHANGED <<dirs, files, refused>>
  BY DEF ListFiles, At, Deleting, tree
<1>2. /\ DOMAIN r = Fields /\ Walking(r) /\ Undisturbed(r, dirs, files, refused) /\ Tree(dirs, files)
      /\ r.stack \in Seq(Frames) /\ r.target \in Paths /\ path \in Paths
  BY <1>1, UnderWay
<1>3. UNCHANGED session \/ (path \in dirs /\ Set(s, new))
  BY DEF ListFiles, Enterable
<1>4. todo = Held(dirs, files, path) /\ todo \in SUBSET Paths
  BY <1>2 DEF Listed, Entries, Held, Tree
<1> HIDE DEF r, todo
<1>5. CASE UNCHANGED session
  BY <1>1, <1>5 DEF RemovalInv, Tree, Walking, Undisturbed
<1>6. CASE path \in dirs /\ Set(s, new)
  <2>1. frame \in Frames /\ frame.path = path /\ frame.todo = todo /\ frame.success
    BY <1>2, <1>4 DEF Frames
  <2> HIDE DEF path, frame
  <2>2. /\ stack \in Seq(Frames) /\ Len(stack) = Len(r.stack) + 1
        /\ stack[1] = IF r.stack = <<>> THEN frame ELSE r.stack[1]
    <3>1. CASE r.stack = <<>>
      BY <2>1, <3>1
    <3>2. CASE r.stack # <<>>
      <4>1. 1 \in 1 .. Len(r.stack)
        BY <1>2, <3>2, EmptySeq
      <4>2. QED
        BY <1>2, <2>1, <3>2, <4>1
    <3>3. QED
      BY <3>1, <3>2
  <2>3. stack # <<>>
    <3> HIDE DEF stack
    <3>1. Len(stack) # 0
      BY <1>2, <2>2, LenProperties
    <3>2. QED
      BY <3>1, EmptySeq
  <2>4. ~r.disturbed => Stacked(stack, r.target, dirs, files, refused, {})
    <3> SUFFICES ASSUME ~r.disturbed
                 PROVE  Stacked(stack, r.target, dirs, files, refused, {})
      OBVIOUS
    <3>1. /\ Len(path) = Len(r.target) + Len(r.stack) /\ Within(path, r.target)
          /\ Stacked(r.stack, r.target, dirs, files, refused, {path})
      BY <1>1, <1>2 DEF Undisturbed, path
    <3>2. Rest(frame, r.target, dirs, files, refused, {})
      BY <1>4, <1>6, <2>1, <3>1 DEF Rest
    <3>3. QED
      BY <1>2, <2>1, <3>1, <3>2, Pushed
  <2>5. /\ new.at = "entries" /\ new.target = r.target /\ new.path = r.path
        /\ new.stack = stack /\ new.disturbed = r.disturbed
    BY <1>2 DEF Fields
  <2> HIDE DEF new, stack
  <2>6. stack[1].path = r.target
    BY <1>1, <1>2, <2>1, <2>2 DEF Walking, path
  <2>7. Walking(new)
    BY <1>1, <1>2, <2>2, <2>3, <2>5, <2>6 DEF Walking, Deleting
  <2>8. Undisturbed(new, dirs, files, refused)
    BY <2>3, <2>4, <2>5 DEF Undisturbed
  <2>9. QED
    BY <1>1, <1>6, <2>7, <2>8, RemovalSetKeeps
<1>7. QED
  BY <1>3, <1>5, <1>6

LEMMA NextRemoval ==
  ASSUME IInv, RemovalInv, NEW s \in Sessions, NextEntry(s)
  PROVE  RemovalInv'
<1> DEFINE r == Me(s)
           n == Len(r.stack)
           top == r.stack[n]
<1>1. r.at = "entries" /\ r.at \in Deleting /\ UNCHANGED <<dirs, files, refused>>
  BY DEF NextEntry, At, Deleting, tree
<1>2. /\ DOMAIN r = Fields /\ Walking(r) /\ Undisturbed(r, dirs, files, refused) /\ Tree(dirs, files)
      /\ r.stack \in Seq(Frames) /\ r.target \in Paths /\ r.stack # <<>>
      /\ r.stack[1].path = r.target
  BY <1>1, UnderWay DEF Walking
<1>3. PICK entry \in Last(r.stack).todo :
        Set(s, [r EXCEPT !.at = "visit", !.path = entry, !.stack[n].todo = @ \ {entry}])
  BY DEF NextEntry
<1> DEFINE todo == top.todo \ {entry}
           frame == [top EXCEPT !.todo = todo]
           stack == [r.stack EXCEPT ![n] = frame]
           new == [r EXCEPT !.at = "visit", !.path = entry, !.stack = stack]
<1>4. Set(s, new)
  <2>1. [r.stack EXCEPT ![n].todo = @ \ {entry}] = stack
    OBVIOUS
  <2>2. QED
    BY <1>3, <2>1, Zenon
<1> HIDE DEF r
<1>5. n \in Nat \ {0} /\ n \in 1 .. n /\ top \in Frames /\ Last(r.stack) = top
  <2>1. n \in Nat \ {0} /\ n \in 1 .. n
    BY <1>2, EmptySeq
  <2>2. QED
    BY <1>2, <2>1, ElementOfSeq DEF Last
<1> HIDE DEF top
<1>6. entry \in top.todo /\ entry \in Paths /\ todo \in SUBSET Paths
  BY <1>3, <1>5 DEF Frames
<1>7. /\ frame \in Frames /\ frame.path = top.path /\ frame.todo = top.todo \ {entry}
      /\ frame.success = top.success
  <2> HIDE DEF todo
  <2>1. /\ frame \in Frames /\ frame.path = top.path /\ frame.todo = todo
        /\ frame.success = top.success
    BY <1>5, <1>6 DEF Frames
  <2>2. QED
    BY <2>1 DEF todo
<1> HIDE DEF frame
<1>8. /\ stack \in Seq(Frames) /\ Len(stack) = n
      /\ \A i \in 1 .. n : stack[i] = IF i = n THEN frame ELSE r.stack[i]
  BY <1>2, <1>5, <1>7, ExceptSeq
<1>9. ~r.disturbed => /\ entry \in dirs \cup files /\ Len(entry) = Len(r.target) + n
                      /\ Within(entry, r.target)
                      /\ Stacked(stack, r.target, dirs, files, refused, {entry})
  <2> SUFFICES ASSUME ~r.disturbed
               PROVE  /\ entry \in dirs \cup files /\ Len(entry) = Len(r.target) + n
                      /\ Within(entry, r.target)
                      /\ Stacked(stack, r.target, dirs, files, refused, {entry})
    OBVIOUS
  <2>1. Stacked(r.stack, r.target, dirs, files, refused, {})
    BY <1>1, <1>2 DEF Undisturbed
  <2>2. Rest(top, r.target, dirs, files, refused, {}) /\ Len(top.path) = Len(r.target) + n - 1
    <3>1. Child(r.stack, n, {}) = {}
      BY <1>5 DEF Child
    <3>2. QED
      BY <1>5, <2>1, <3>1 DEF Stacked, top
  <2>3. entry \in dirs \cup files /\ entry # <<>> /\ Front(entry) = top.path /\ Within(top.path, r.target)
    BY <1>6, <2>2 DEF Held, Rest
  <2>4. Within(entry, r.target)
    BY <1>2, <1>6, <2>3, WithinEntries
  <2>5. Len(entry) = Len(r.target) + n
    <3>1. Len(top.path) = Len(entry) - 1 /\ Len(entry) \in Nat /\ Len(r.target) \in Nat
      BY <1>2, <1>6, <2>3, PathFacts
    <3>2. Len(top.path) = Len(r.target) + n - 1 /\ n \in Nat
      BY <1>5, <2>2
    <3> HIDE DEF n
    <3>3. QED
      BY <3>1, <3>2
  <2>6. Rest(frame, r.target, dirs, files, refused, {entry})
    BY <1>6, <1>7, <2>2 DEF Rest
  <2>7. frame.path = Last(r.stack).path
    BY <1>5, <1>7
  <2> HIDE DEF stack
  <2>8. Stacked(stack, r.target, dirs, files, refused, {entry})
    BY <1>2, <1>7, <2>1, <2>6, <2>7, Topped DEF stack
  <2>9. QED
    BY <2>3, <2>4, <2>5, <2>8
<1>10. stack # <<>> /\ stack[1].path = r.target
  <2> HIDE DEF stack
  <2>1. stack # <<>>
    BY <1>5, <1>8, EmptySeq
  <2>2. QED
    BY <1>2, <1>5, <1>7, <1>8, <2>1 DEF top
<1>11. /\ new.at = "visit" /\ new.target = r.target /\ new.path = entry
       /\ new.stack = stack /\ new.disturbed = r.disturbed
  <2> HIDE DEF stack
  <2>1. QED
    BY <1>2 DEF Fields
<1> HIDE DEF new, stack
<1>12. Walking(new)
  BY <1>2, <1>6, <1>8, <1>10, <1>11 DEF Walking, Deleting
<1>13. Undisturbed(new, dirs, files, refused)
  BY <1>8, <1>9, <1>10, <1>11 DEF Undisturbed
<1>14. QED
  BY <1>1, <1>4, <1>12, <1>13, RemovalSetKeeps

(* What a delete leaves of the tree. *)
LEMMA DeletedTree ==
  ASSUME Tree(dirs, files), NEW path, Deletable(path)
  PROVE  /\ path \in dirs \cup files /\ Held(dirs, files, path) = {}
         /\ Tree(dirs \ {path}, files \ {path})
<1>1. path \in dirs \cup files /\ Held(dirs, files, path) = {}
  BY DEF Deletable, Entries, Held
<1>2. QED
  BY <1>1, TreeShrinks

LEMMA FileRemoval ==
  ASSUME IInv, RemovalInv, NEW s \in Sessions, DeleteFile(s)
  PROVE  RemovalInv'
<1> DEFINE r == Me(s)
           path == r.path
           D == dirs \ {path}
           F == files \ {path}
           result == Deletable(path)
<1>1. r.at = "file" /\ r.at \in Deleting /\ UNCHANGED refused
  BY DEF DeleteFile, Delete, At, Deleting
<1>2. /\ DOMAIN r = Fields /\ Walking(r) /\ Undisturbed(r, dirs, files, refused) /\ Tree(dirs, files)
      /\ r.stack \in Seq(Frames) /\ r.target \in Paths
      /\ r.stack # <<>> => r.stack[1].path = r.target
  BY <1>1, UnderWay
<1>3. result \in BOOLEAN
  BY DEF Deletable
<1>4. \/ result /\ dirs' = D /\ files' = F /\ SetAndDisturb(s, Returned(r, result))
      \/ ~result /\ UNCHANGED <<dirs, files>> /\ Set(s, Returned(r, result))
  BY DEF DeleteFile, Delete
<1>5. ~r.disturbed => /\ path \in files /\ Len(path) = Len(r.target) + Len(r.stack)
                      /\ Within(path, r.target)
                      /\ Stacked(r.stack, r.target, dirs, files, refused, {path})
  BY <1>1, <1>2 DEF Undisturbed
<1> HIDE DEF r, path
<1>6. CASE result /\ dirs' = D /\ files' = F /\ SetAndDisturb(s, Returned(r, result))
  <2>1. path \in dirs \cup files /\ Tree(D, F)
    BY <1>2, <1>6, DeletedTree
  <2>2. ~r.disturbed => Stacked(r.stack, r.target, D, F, refused, {})
    BY <1>2, <1>5, <2>1, EntryGone
  <2> HIDE DEF D, F, result
  <2>3. Walking(Returned(r, result)) /\ Undisturbed(Returned(r, result), D, F, refused)
    BY <1>2, <1>3, <1>6, <2>2, ReturnedKeeps
  <2>4. QED
    BY <1>1, <1>6, <2>1, <2>3, RemovalDisturbs
<1>7. CASE ~result /\ UNCHANGED <<dirs, files>> /\ Set(s, Returned(r, result))
  <2>1. ~r.disturbed => ~Spared(refused, r.target)
    <3> SUFFICES ASSUME ~r.disturbed
                 PROVE  ~Spared(refused, r.target)
      OBVIOUS
    <3>1. path \in files /\ path \in Paths /\ Held(dirs, files, path) = {}
      BY <1>2, <1>5, FileIsEmpty
    <3>2. <<"write", path>> \in refused
      BY <1>7, <3>1 DEF Deletable, Entries, Held, Refused
    <3>3. QED
      BY <1>5, <3>1, <3>2 DEF Spared
  <2>2. ~r.disturbed => Stacked(r.stack, r.target, dirs, files, refused, {})
    BY <1>5, <2>1, EntryKept
  <2> HIDE DEF result
  <2>3. Walking(Returned(r, result)) /\ Undisturbed(Returned(r, result), dirs, files, refused)
    BY <1>2, <1>3, <2>1, <2>2, ReturnedKeeps
  <2>4. QED
    BY <1>1, <1>7, <2>3, RemovalSetKeeps
<1>8. QED
  BY <1>4, <1>6, <1>7

(* The directory of the last frame, when nothing is left to do in it: if everything may
   be deleted, it is empty. *)
LEMMA DirectoryIsEmpty ==
  ASSUME NEW stack \in Seq(Frames), stack # <<>>, NEW target, NEW D, NEW F, NEW R,
         Stacked(stack, target, D, F, R, {}), Last(stack).todo = {}
  PROVE  /\ Len(Last(stack).path) = Len(target) + Len(stack) - 1
         /\ Last(stack).path \in D /\ Within(Last(stack).path, target)
         /\ Spared(R, target) => Last(stack).success /\ Held(D, F, Last(stack).path) = {}
<1> DEFINE n == Len(stack)
<1>1. n \in 1 .. n
  BY EmptySeq
<1>2. Child(stack, n, {}) = {}
  BY <1>1 DEF Child
<1>3. Rest(stack[n], target, D, F, R, {}) /\ Len(stack[n].path) = Len(target) + n - 1
  BY <1>1, <1>2 DEF Stacked
<1>4. QED
  BY <1>3 DEF Last, Rest

(* What DeleteDirectory does, in terms of the last frame. *)
LEMMA DirectoryStep ==
  ASSUME IInv, RemovalInv, NEW s \in Sessions, DeleteDirectory(s),
         NEW r, r = Me(s), NEW path, path = Last(r.stack).path, NEW stack, stack = Front(r.stack)
  PROVE  /\ r.at = "entries" /\ r.stack \in Seq(Frames) /\ r.stack # <<>> /\ Last(r.stack).todo = {}
         /\ path \in Paths /\ UNCHANGED refused
         /\ \E result \in BOOLEAN : \E below :
              /\ DOMAIN below = Fields /\ below.stack = stack
              /\ below.target = r.target /\ below.disturbed = r.disturbed
              /\ result = (Last(r.stack).success /\ Deletable(path))
              /\ \/ /\ result /\ dirs' = dirs \ {path} /\ files' = files \ {path}
                    /\ SetAndDisturb(s, Returned(below, result))
                 \/ ~result /\ UNCHANGED <<dirs, files>> /\ Set(s, Returned(below, result))
<1> DEFINE top == Last(r.stack)
           below == [r EXCEPT !.stack = stack]
           result == top.success /\ Deletable(path)
           again == top.success /\ result
<1>1. r.at = "entries" /\ r.at \in Deleting /\ top.todo = {} /\ UNCHANGED refused
  BY DEF DeleteDirectory, Delete, At, Deleting
<1>2. DOMAIN r = Fields /\ Walking(r) /\ r.stack \in Seq(Frames)
  BY <1>1, UnderWay
<1>3. r.stack # <<>>
  BY <1>1, <1>2 DEF Walking
<1>4. top \in Frames
  <2>1. Len(r.stack) \in 1 .. Len(r.stack)
    BY <1>2, <1>3, EmptySeq
  <2>2. QED
    BY <1>2, <2>1, ElementOfSeq DEF Last
<1>5. path \in Paths /\ result \in BOOLEAN
  BY <1>4 DEF Frames
<1>6. \/ /\ result /\ dirs' = dirs \ {path} /\ files' = files \ {path}
         /\ SetAndDisturb(s, Returned(below, again))
      \/ ~result /\ UNCHANGED <<dirs, files>> /\ Set(s, Returned(below, again))
  BY DEF DeleteDirectory, Delete, Succeeds
<1>7. again = result
  OBVIOUS
<1>8. DOMAIN below = Fields /\ below.stack = stack /\ below.target = r.target
      /\ below.disturbed = r.disturbed
  BY <1>2 DEF Fields
<1>9. result = (Last(r.stack).success /\ Deletable(path))
  OBVIOUS
<1> HIDE DEF again, result, below
<1>10. \/ /\ result /\ dirs' = dirs \ {path} /\ files' = files \ {path}
          /\ SetAndDisturb(s, Returned(below, result))
       \/ ~result /\ UNCHANGED <<dirs, files>> /\ Set(s, Returned(below, result))
  BY <1>6, <1>7
<1>11. QED
  BY <1>1, <1>2, <1>3, <1>5, <1>8, <1>9, <1>10

LEMMA DirectoryRemoval ==
  ASSUME IInv, RemovalInv, NEW s \in Sessions, DeleteDirectory(s)
  PROVE  RemovalInv'
<1> DEFINE r == Me(s)
           top == Last(r.stack)
           path == top.path
           stack == Front(r.stack)
           D == dirs \ {path}
           F == files \ {path}
<1>1. /\ r.at = "entries" /\ r.stack \in Seq(Frames) /\ r.stack # <<>> /\ top.todo = {}
      /\ path \in Paths /\ UNCHANGED refused
  BY DirectoryStep
<1>2. PICK result \in BOOLEAN : \E below :
        /\ DOMAIN below = Fields /\ below.stack = stack
        /\ below.target = r.target /\ below.disturbed = r.disturbed
        /\ result = (top.success /\ Deletable(path))
        /\ \/ result /\ dirs' = D /\ files' = F /\ SetAndDisturb(s, Returned(below, result))
           \/ ~result /\ UNCHANGED <<dirs, files>> /\ Set(s, Returned(below, result))
  BY DirectoryStep
<1>3. PICK below :
        /\ DOMAIN below = Fields /\ below.stack = stack
        /\ below.target = r.target /\ below.disturbed = r.disturbed
        /\ result = (top.success /\ Deletable(path))
        /\ \/ result /\ dirs' = D /\ files' = F /\ SetAndDisturb(s, Returned(below, result))
           \/ ~result /\ UNCHANGED <<dirs, files>> /\ Set(s, Returned(below, result))
  BY <1>2
<1>4. /\ Undisturbed(r, dirs, files, refused) /\ Tree(dirs, files)
      /\ r.at \in Deleting /\ r.target \in Paths /\ r.stack[1].path = r.target
  BY <1>1, UnderWay DEF Deleting
<1> HIDE DEF r
<1>5. ~r.disturbed => Stacked(r.stack, r.target, dirs, files, refused, {})
  BY <1>1, <1>4 DEF Undisturbed
<1>6. /\ stack \in Seq(Frames) /\ Len(stack) = Len(r.stack) - 1
      /\ \A i \in 1 .. Len(stack) : stack[i] = r.stack[i]
  BY <1>1, FrontIsShorter
<1>7. stack # <<>> => stack[1].path = r.target
  <2> HIDE DEF stack
  <2>1. stack # <<>> => 1 \in 1 .. Len(stack)
    BY <1>6, EmptySeq
  <2>2. QED
    BY <1>4, <1>6, <2>1
<1>8. ~r.disturbed => /\ Len(path) = Len(r.target) + Len(stack)
                      /\ Stacked(stack, r.target, dirs, files, refused, {path})
                      /\ (Spared(refused, r.target) => result)
  <2> SUFFICES ASSUME ~r.disturbed
               PROVE  /\ Len(path) = Len(r.target) + Len(stack)
                      /\ Stacked(stack, r.target, dirs, files, refused, {path})
                      /\ (Spared(refused, r.target) => result)
    OBVIOUS
  <2>1. Stacked(r.stack, r.target, dirs, files, refused, {})
    BY <1>5
  <2>2. /\ Len(path) = Len(r.target) + Len(r.stack) - 1
        /\ path \in dirs /\ Within(path, r.target)
        /\ Spared(refused, r.target) => top.success /\ Held(dirs, files, path) = {}
    BY <1>1, <2>1, DirectoryIsEmpty
  <2>3. Spared(refused, r.target) => result
    <3> HIDE DEF path
    <3>1. Spared(refused, r.target) => Deletable(path)
      BY <1>1, <2>2 DEF Spared, Deletable, Entries, Held, Refused
    <3>2. QED
      BY <1>3, <2>2, <3>1
  <2>4. Len(path) = Len(r.target) + Len(stack)
    <3>1. Len(r.target) \in Nat /\ Len(r.stack) \in Nat
      BY <1>1, <1>4, PathFacts, LenProperties
    <3> HIDE DEF path, stack
    <3>2. QED
      BY <1>6, <2>2, <3>1
  <2>5. Stacked(stack, r.target, dirs, files, refused, {path})
    BY <1>1, <1>4, <2>1, Popped
  <2>6. QED
    BY <2>3, <2>4, <2>5
<1> HIDE DEF top, path, stack
<1>9. CASE result /\ dirs' = D /\ files' = F /\ SetAndDisturb(s, Returned(below, result))
  <2>1. path \in dirs \cup files /\ Tree(D, F)
    BY <1>3, <1>4, <1>9, DeletedTree
  <2>2. ~r.disturbed => Stacked(stack, r.target, D, F, refused, {})
    BY <1>4, <1>6, <1>8, <2>1, EntryGone
  <2> HIDE DEF D, F
  <2>3. Walking(Returned(below, result)) /\ Undisturbed(Returned(below, result), D, F, refused)
    BY <1>3, <1>4, <1>6, <1>7, <1>9, <2>2, ReturnedKeeps
  <2>4. QED
    BY <1>1, <1>9, <2>1, <2>3, RemovalDisturbs
<1>10. CASE ~result /\ UNCHANGED <<dirs, files>> /\ Set(s, Returned(below, result))
  <2>1. ~r.disturbed => Stacked(stack, r.target, dirs, files, refused, {})
    BY <1>8, <1>10, EntryKept
  <2>2. Walking(Returned(below, result)) /\ Undisturbed(Returned(below, result), dirs, files, refused)
    BY <1>3, <1>4, <1>6, <1>7, <1>8, <2>1, ReturnedKeeps
  <2>3. QED
    BY <1>1, <1>10, <2>2, RemovalSetKeeps
<1>11. QED
  BY <1>3, <1>9, <1>10

----------------------------------------------------------------------------
(* The whole of Next. *)

LEMMA NextRemovalInv ==
  ASSUME IInv, RemovalInv, [Next]_vars
  PROVE  RemovalInv'
<1>1. ASSUME NEW s \in Sessions, Command(s) \/ OpenFile(s)
      PROVE  RemovalInv'
  BY <1>1, CommandRemoval, MakeRemoval, StoreRemoval, OpenRemoval, BeginRemoval DEF Command
<1>2. ASSUME NEW s \in Sessions, recursiveDelete(s)
      PROVE  RemovalInv'
  BY <1>2, VisitRemoval, ListRemoval, NextRemoval, FileRemoval, DirectoryRemoval
        DEF recursiveDelete
<1>3. ASSUME NEW s \in Sessions,
             Connect(s) \/ Receive(s) \/ EndOfInput(s) \/ TransferEnds(s) \/ Terminate(s)
      PROVE  RemovalInv'
  BY <1>3, ThreadsRemoval, SocketRemoval, TransferRemoval
<1>4. CASE UNCHANGED vars
  BY <1>4 DEF RemovalInv, Tree, Walking, Undisturbed, vars, tree
<1>5. QED
  BY <1>1, <1>2, <1>3, <1>4, ChangesRemoval DEF Next, Working

(* A removal ends in a step of its own thread, in one of three places. *)
LEMMA EndsByItself ==
  ASSUME IInv, [Next]_vars, NEW s \in Sessions, EndsRemoval(s)
  PROVE  Visit(s) \/ DeleteFile(s) \/ DeleteDirectory(s)
<1>1. /\ session[s].at \in Deleting /\ session'[s].at = "line" /\ session[s].run = "running"
      /\ session[s].at \notin {"line", "open", "data"} /\ session'[s].at # session[s].at
  BY DEF EndsRemoval, Me, IInv, Granted, Deleting
<1>2. ASSUME NEW t \in Sessions, NEW r, t # s, Set(t, r) \/ SetAndDisturb(t, r)
      PROVE  FALSE
  <2>1. CASE Set(t, r)
    BY <1>1, <1>2, <2>1 DEF Set
  <2>2. CASE SetAndDisturb(t, r)
    <3>1. session'[s] = Disturbed(session[s])
      BY <1>2, <2>2 DEF SetAndDisturb
    <3>2. session'[s].at = session[s].at
      BY <3>1, DisturbedSame DEF IInv, Granted, Same
    <3>3. QED
      BY <1>1, <3>2
  <2>3. QED
    BY <1>2, <2>1, <2>2
<1>3. session' # session
  BY <1>1
<1>4. ASSUME NEW t \in Sessions,
             Connect(t) \/ EndOfInput(t) \/ Command(t) \/ OpenFile(t) \/ TransferEnds(t)
      PROVE  FALSE
  <2>1. t # s
    BY <1>1, <1>4 DEF Connect, EndOfInput, Command, Refuse, USER, PASS, QUIT, CWD, CDUP, PWD, MKD, STOR,
         Transfer, RMD, OpenFile, TransferEnds, Runs, At, Me
  <2>2. \E r : Set(t, r) \/ SetAndDisturb(t, r)
    <3>1. CASE Connect(t) \/ EndOfInput(t)
      BY <3>1 DEF Connect, EndOfInput
    <3>2. CASE Refuse(t) \/ USER(t) \/ PASS(t) \/ QUIT(t)
      BY <3>2 DEF Refuse, USER, PASS, QUIT
    <3>3. CASE CWD(t) \/ CDUP(t) \/ PWD(t)
      BY <3>3 DEF CWD, CDUP, PWD, Crash
    <3>4. CASE MKD(t) \/ STOR(t) \/ RMD(t)
      BY <3>4 DEF MKD, STOR, RMD
    <3>5. CASE Transfer(t) \/ OpenFile(t) \/ TransferEnds(t)
      BY <3>5 DEF Transfer, Crash, OpenFile, TransferEnds
    <3>6. QED
      BY <1>4, <3>1, <3>2, <3>3, <3>4, <3>5 DEF Command
  <2>3. QED
    BY <1>2, <2>1, <2>2
<1>5. ASSUME NEW t \in Sessions, Receive(t) \/ Terminate(t)
      PROVE  FALSE
  <2> DEFINE Off == [session[t] EXCEPT !.socket = "closed"]
             With(n) == [session[t] EXCEPT !.lines = @ + n, !.ahead = n]
  <2>1. PICK n : Set(t, Off) \/ Set(t, With(n))
    BY <1>5 DEF Receive, Terminate, Me
  <2>2. DOMAIN session[t] = Fields
    BY DEF IInv, Granted
  <2>3. Off.at = session[t].at /\ With(n).at = session[t].at
    BY <2>2 DEF Fields
  <2> HIDE DEF Off, With
  <2>4. QED
    BY <1>1, <1>2, <2>1, <2>3 DEF Set, IInv
<1>6. ASSUME NEW t \in Sessions, ListFiles(t) \/ NextEntry(t)
      PROVE  FALSE
  <2> DEFINE r == Me(t)
             todo == Listed(r.path)
             frame == [path |-> r.path, todo |-> todo, success |-> TRUE]
             stack == Append(r.stack, frame)
             In == [r EXCEPT !.at = "entries", !.stack = stack]
             After(entry) == [r.stack EXCEPT ![Len(r.stack)].todo = @ \ {entry}]
             To(entry) == [r EXCEPT !.at = "visit", !.path = entry, !.stack = After(entry)]
  <2>1. PICK entry : Set(t, In) \/ Set(t, To(entry))
    <3>1. CASE ListFiles(t)
      BY <1>3, <3>1 DEF ListFiles
    <3>2. CASE NextEntry(t)
      <4>1. PICK entry : Set(t, [r EXCEPT !.at = "visit", !.path = entry,
                                          !.stack[Len(r.stack)].todo = @ \ {entry}])
        BY <3>2 DEF NextEntry
      <4>2. Set(t, To(entry))
        BY <4>1, Zenon
      <4>3. QED
        BY <4>2
    <3>3. QED
      BY <1>6, <3>1, <3>2
  <2>2. DOMAIN r = Fields
    BY DEF IInv, Granted, Me
  <2> HIDE DEF r, stack, After
  <2>3. In.at = "entries" /\ To(entry).at = "visit"
    BY <2>2 DEF Fields
  <2> HIDE DEF In, To
  <2>4. QED
    BY <1>1, <1>2, <2>1, <2>3 DEF Set, IInv
<1>7. ASSUME NEW t \in Sessions, Visit(t) \/ DeleteFile(t) \/ DeleteDirectory(t)
      PROVE  t = s
  <2>1. \E r : Set(t, r) \/ SetAndDisturb(t, r)
    <3>1. CASE Visit(t)
      BY <3>1 DEF Visit
    <3>2. CASE DeleteFile(t)
      BY <3>2 DEF DeleteFile, Delete
    <3>3. CASE DeleteDirectory(t)
      BY <3>3 DEF DeleteDirectory, Delete
    <3>4. QED
      BY <1>7, <3>1, <3>2, <3>3
  <2>2. QED
    BY <1>2, <2>1
<1>8. ~(ChangeAnonymous \/ ChangeLogin \/ ChangeRoot \/ Remount \/ Trouble)
  BY <1>1, ChangesFollow DEF Follows
<1>9. ~UNCHANGED vars
  BY <1>3 DEF vars
<1>10. QED
  BY <1>4, <1>5, <1>6, <1>7, <1>8, <1>9 DEF Next, Working, recursiveDelete

(* What is true when a removal ends: D and F are the tree before its last step, D1 and F1
   after it, and R what the file system refuses. *)
Ends(r, code, D, F, D1, F1, R) ==
  IF code = "250"
  THEN /\ r.target \in D \/ (r.disturbed /\ r.target \in F)
       /\ \A p \in D1 \cup F1 : ~Within(p, r.target)
  ELSE r.disturbed \/ (r.target \in D1 /\ ~Spared(R, r.target))

LEMMA VisitEnds ==
  ASSUME IInv, RemovalInv, NEW s \in Sessions, EndsRemoval(s), Visit(s)
  PROVE  Ends(Me(s), session'[s].code, dirs, files, dirs', files', refused)
<1> DEFINE r == Me(s)
           path == r.path
           To(point) == [r EXCEPT !.at = point]
           new == Returned(r, FALSE)
<1>1. r.at = "visit" /\ r.at \in Deleting /\ session'[s].at = "line"
  BY DEF Visit, At, EndsRemoval
<1>2. DOMAIN r = Fields /\ Undisturbed(r, dirs, files, refused) /\ r.stack \in Seq(Frames)
  BY <1>1, UnderWay
<1>3. \/ Set(s, To("list")) \/ Set(s, To("file"))
      \/ path \notin dirs \cup files /\ Set(s, new)
  BY DEF Visit, isDirectory
<1> HIDE DEF r
<1>4. To("list").at = "list" /\ To("file").at = "file"
  BY <1>2 DEF Fields
<1> HIDE DEF To
<1>5. path \notin dirs \cup files /\ session'[s] = new
  BY <1>1, <1>3, <1>4 DEF Set, IInv
<1>6. r.stack = <<>>
  <2> SUFFICES ASSUME r.stack # <<>>
               PROVE  FALSE
    OBVIOUS
  <2>1. PICK frame \in Frames : ReturnsTo(new, r, FALSE, frame)
    BY <1>2, ReturnedFields
  <2> HIDE DEF new
  <2>2. QED
    BY <1>1, <1>5, <2>1 DEF ReturnsTo
<1>7. new.code = "550"
  BY <1>2, <1>6, ReturnedFields
<1>8. r.disturbed
  BY <1>1, <1>2, <1>5 DEF Undisturbed
<1> HIDE DEF new
<1>9. QED
  BY <1>5, <1>7, <1>8 DEF Ends, r

(* The last call of delete: it is of the target, and what it returns is the reply. *)
LEMMA LastDelete ==
  ASSUME RemovalInv, NEW r, r.target \in Paths, Undisturbed(r, dirs, files, refused), r.at \in Deleting,
         NEW deleted \in BOOLEAN, NEW code, code = IF deleted THEN "250" ELSE "550",
         deleted => Deletable(r.target),
         ~r.disturbed => r.target \in dirs /\ (Spared(refused, r.target) => deleted),
         NEW D, NEW F, IF deleted THEN D = dirs \ {r.target} /\ F = files \ {r.target}
                       ELSE D = dirs /\ F = files
  PROVE  Ends(r, code, dirs, files, D, F, refused)
<1>1. CASE deleted
  <2>1. r.target \in dirs \cup files /\ Held(dirs, files, r.target) = {}
    BY <1>1 DEF Deletable, Entries, Held
  <2>2. \A p \in dirs \cup files : Within(p, r.target) => p = r.target
    BY <2>1, NothingBelow DEF RemovalInv
  <2>3. \A p \in D \cup F : ~Within(p, r.target)
    BY <1>1, <2>2
  <2>4. code = "250"
    BY <1>1
  <2>5. QED
    BY <2>1, <2>3, <2>4 DEF Ends
<1>2. CASE ~deleted
  <2>1. code = "550" /\ D = dirs
    BY <1>2
  <2>2. QED
    BY <1>2, <2>1 DEF Ends
<1>3. QED
  BY <1>1, <1>2

LEMMA FileEnds ==
  ASSUME IInv, RemovalInv, NEW s \in Sessions, EndsRemoval(s), DeleteFile(s)
  PROVE  Ends(Me(s), session'[s].code, dirs, files, dirs', files', refused)
<1> DEFINE r == Me(s)
           path == r.path
           result == Deletable(path)
           new == Returned(r, result)
<1>1. r.at = "file" /\ r.at \in Deleting /\ session'[s].at = "line"
  BY DEF DeleteFile, At, EndsRemoval
<1>2. /\ DOMAIN r = Fields /\ Walking(r) /\ Undisturbed(r, dirs, files, refused)
      /\ r.stack \in Seq(Frames) /\ r.target \in Paths /\ Tree(dirs, files)
  BY <1>1, UnderWay
<1>3. result \in BOOLEAN
  BY DEF Deletable
<1>4. /\ IF result THEN dirs' = dirs \ {path} /\ files' = files \ {path} ELSE dirs' = dirs /\ files' = files
      /\ Set(s, new) \/ SetAndDisturb(s, new)
  BY DEF DeleteFile, Delete
<1>5. session'[s] = new
  <2> HIDE DEF new
  <2>1. QED
    BY <1>4 DEF Set, SetAndDisturb, IInv
<1> HIDE DEF r, result
<1>6. r.stack = <<>>
  <2> SUFFICES ASSUME r.stack # <<>>
               PROVE  FALSE
    OBVIOUS
  <2>1. PICK frame \in Frames : ReturnsTo(new, r, result, frame)
    BY <1>2, <1>3, ReturnedFields
  <2> HIDE DEF new
  <2>2. QED
    BY <1>1, <1>5, <2>1 DEF ReturnsTo
<1>7. new.code = IF result THEN "250" ELSE "550"
  BY <1>2, <1>3, <1>6, ReturnedFields
<1> HIDE DEF new
<1>8. path = r.target
  BY <1>1, <1>2, <1>6 DEF Walking
<1>9. r.disturbed
  BY <1>1, <1>2, <1>6, <1>8 DEF Undisturbed, Tree
<1>10. Ends(r, session'[s].code, dirs, files, dirs', files', refused)
  BY <1>1, <1>2, <1>3, <1>4, <1>5, <1>7, <1>8, <1>9, LastDelete DEF result
<1>11. QED
  BY <1>10 DEF r

LEMMA DirectoryEnds ==
  ASSUME IInv, RemovalInv, NEW s \in Sessions, EndsRemoval(s), DeleteDirectory(s)
  PROVE  Ends(Me(s), session'[s].code, dirs, files, dirs', files', refused)
<1> DEFINE r == Me(s)
           top == Last(r.stack)
           path == top.path
           stack == Front(r.stack)
<1>1. /\ r.at = "entries" /\ r.stack \in Seq(Frames) /\ r.stack # <<>> /\ top.todo = {}
      /\ path \in Paths /\ UNCHANGED refused /\ session'[s].at = "line"
  BY DirectoryStep DEF EndsRemoval
<1>2. PICK result \in BOOLEAN : \E below :
        /\ DOMAIN below = Fields /\ below.stack = stack
        /\ below.target = r.target /\ below.disturbed = r.disturbed
        /\ result = (top.success /\ Deletable(path))
        /\ \/ /\ result /\ dirs' = dirs \ {path} /\ files' = files \ {path}
              /\ SetAndDisturb(s, Returned(below, result))
           \/ ~result /\ UNCHANGED <<dirs, files>> /\ Set(s, Returned(below, result))
  BY DirectoryStep
<1>3. PICK below :
        /\ DOMAIN below = Fields /\ below.stack = stack
        /\ result = (top.success /\ Deletable(path))
        /\ IF result THEN dirs' = dirs \ {path} /\ files' = files \ {path}
           ELSE dirs' = dirs /\ files' = files
        /\ SetAndDisturb(s, Returned(below, result)) \/ Set(s, Returned(below, result))
  BY <1>2
<1>4. /\ Undisturbed(r, dirs, files, refused) /\ Tree(dirs, files)
      /\ r.at \in Deleting /\ r.target \in Paths /\ r.stack[1].path = r.target
  BY <1>1, UnderWay DEF Deleting
<1> DEFINE new == Returned(below, result)
<1>5. session'[s] = new
  <2>1. SetAndDisturb(s, new) \/ Set(s, new)
    BY <1>3
  <2> HIDE DEF new
  <2>2. QED
    BY <2>1 DEF Set, SetAndDisturb, IInv
<1> HIDE DEF r
<1>6. stack \in Seq(Frames) /\ Len(stack) = Len(r.stack) - 1
  BY <1>1, FrontIsShorter
<1> HIDE DEF stack
<1>7. stack = <<>>
  <2> SUFFICES ASSUME stack # <<>>
               PROVE  FALSE
    OBVIOUS
  <2>1. PICK frame \in Frames : ReturnsTo(new, below, result, frame)
    BY <1>3, <1>6, ReturnedFields
  <2> HIDE DEF new
  <2>2. QED
    BY <1>1, <1>5, <2>1 DEF ReturnsTo
<1>8. new.code = IF result THEN "250" ELSE "550"
  BY <1>3, <1>6, <1>7, ReturnedFields
<1> HIDE DEF new
<1>9. path = r.target
  <2>1. Len(r.stack) = 1
    <3>1. Len(stack) = 0 /\ Len(r.stack) \in Nat
      BY <1>1, <1>7, EmptySeq, LenProperties
    <3>2. QED
      BY <1>6, <3>1
  <2>2. QED
    BY <1>4, <2>1 DEF Last
<1>10. ~r.disturbed => path \in dirs /\ (Spared(refused, r.target) => result)
  <2> SUFFICES ASSUME ~r.disturbed
               PROVE  path \in dirs /\ (Spared(refused, r.target) => result)
    OBVIOUS
  <2>1. Stacked(r.stack, r.target, dirs, files, refused, {})
    BY <1>1, <1>4 DEF Undisturbed
  <2>2. /\ path \in dirs /\ Within(path, r.target)
        /\ Spared(refused, r.target) => top.success /\ Held(dirs, files, path) = {}
    BY <1>1, <2>1, DirectoryIsEmpty
  <2> HIDE DEF path
  <2>3. Spared(refused, r.target) => Deletable(path)
    BY <1>1, <2>2 DEF Spared, Deletable, Entries, Held, Refused
  <2>4. QED
    BY <1>3, <2>2, <2>3
<1>11. result => Deletable(path)
  BY <1>3
<1> HIDE DEF path
<1>12. Ends(r, session'[s].code, dirs, files, dirs', files', refused)
  BY <1>3, <1>4, <1>5, <1>8, <1>9, <1>10, <1>11, LastDelete
<1>13. QED
  BY <1>12 DEF r

LEMMA RemovalEnds ==
  ASSUME IInv, RemovalInv, [Next]_vars, NEW s \in Sessions, EndsRemoval(s)
  PROVE  Ends(Me(s), session'[s].code, dirs, files, dirs', files', refused)
BY EndsByItself, VisitEnds, FileEnds, DirectoryEnds

LEMMA RemovalAlways == Spec => [](IInv /\ RemovalInv)
<1>1. IInv /\ RemovalInv /\ [Next]_vars => (IInv /\ RemovalInv)'
  BY NextIInv, NextRemovalInv
<1>2. Init => IInv /\ RemovalInv
  BY InitIInv, InitRemoval
<1>3. QED
  BY <1>1, <1>2, PTL DEF Spec

(* The reply of RMD tells what has happened to the directory, whatever other sessions make,
   store and remove in it meanwhile, whether its storage goes, and whatever the file
   system refuses: with 250 nothing of it is left, with 550 it is still there or somebody
   took part. *)
THEOREM RemovalsTellTheTruth == Spec => RemovalReplyIsTrue
<1> DEFINE Step ==
             \A s \in Sessions : EndsRemoval(s) =>
               IF session'[s].code = "250"
               THEN /\ Me(s).target \in dirs \/ (Me(s).disturbed /\ Me(s).target \in files)
                    /\ \A p \in dirs' \cup files' : ~Within(p, Me(s).target)
               ELSE Me(s).target \in dirs' \/ Me(s).disturbed
<1>1. IInv /\ RemovalInv /\ [Next]_vars => Step
  BY RemovalEnds DEF Ends
<1>2. QED
  BY <1>1, RemovalAlways, PTL DEF Spec, RemovalReplyIsTrue

(* A removal that nobody disturbs, of a directory in which everything may be deleted,
   removes everything, whatever the tree is. *)
THEOREM AloneItSucceeds == Spec => UndisturbedRemovalSucceeds
<1> DEFINE Step ==
             \A s \in Sessions :
               EndsRemoval(s) /\ ~Me(s).disturbed /\ Clean(Me(s).target) => session'[s].code = "250"
<1>1. IInv /\ RemovalInv /\ [Next]_vars => Step
  BY RemovalEnds DEF Ends, Clean, Refused, Spared
<1>2. QED
  BY <1>1, RemovalAlways, PTL DEF Spec, UndisturbedRemovalSucceeds

(* PWD finds the root's path too long only after the root has changed, because then and
   only then the working directory need not start with it. *)
LEMMA SubstringStays ==
  ASSUME IInv, NEW s \in Sessions, PWD(s), getChrootDir # NoPath,
         Me(s).workingDir # NoPath, ~Me(s).moved
  PROVE  UNCHANGED crashed
<1> DEFINE dir == Me(s).workingDir
<1>1. Me(s).run = "running"
  BY DEF PWD, Runs, At
<1>2. dir \in Paths /\ StartsWith(dir, chrootDir)
  BY <1>1 DEF IInv, Housed, Me
<1>3. getChrootDir = chrootDir /\ chrootDir \in Paths
  BY RootStartsWithRoot DEF getChrootDir
<1>4. Length[dir] >= Length[chrootDir] /\ Length[dir] \in Nat /\ Length[chrootDir] \in Nat
  BY <1>2, <1>3, LengthAssumption
<1>5. ~(dir = NoPath \/ getChrootDir = NoPath \/ Length[dir] < Length[getChrootDir])
  BY <1>3, <1>4
<1>6. QED
  BY <1>5 DEF PWD

(* No command throws by the session's own doing: CDUP, PWD and the lists want a working
   directory and a root, PWD one that the other starts with, and listFiles a directory
   that can be read.  All of them fail only after the owner, the storage, another session
   or the file system has done something. *)
THEOREM NobodyCrashesAlone == Spec => CrashNeedsCause
<1> DEFINE Step == crashed' /\ ~crashed => \E s \in Sessions : Working(s) /\ MayThrow(s)
<1>1. IInv /\ RemovalInv /\ [Next]_vars => Step
  <2> SUFFICES ASSUME IInv, RemovalInv, [Next]_vars, crashed' # crashed
               PROVE  \E s \in Sessions : Working(s) /\ MayThrow(s)
    OBVIOUS
  <2>1. PICK s \in Sessions : CDUP(s) \/ PWD(s) \/ Transfer(s) \/ ListFiles(s)
    <3>1. ASSUME NEW s \in Sessions, \/ Connect(s) \/ Receive(s) \/ EndOfInput(s) \/ Terminate(s)
                                     \/ Refuse(s) \/ USER(s) \/ PASS(s) \/ QUIT(s)
          PROVE  FALSE
      BY <3>1 DEF Connect, Receive, EndOfInput, Terminate, Refuse, USER, PASS, QUIT
    <3>2. ASSUME NEW s \in Sessions, CWD(s) \/ MKD(s) \/ STOR(s) \/ RMD(s) \/ OpenFile(s) \/ TransferEnds(s)
          PROVE  FALSE
      BY <3>2 DEF CWD, MKD, STOR, RMD, OpenFile, TransferEnds
    <3>3. ASSUME NEW s \in Sessions, Visit(s) \/ NextEntry(s) \/ DeleteFile(s) \/ DeleteDirectory(s)
          PROVE  FALSE
      BY <3>3 DEF Visit, NextEntry, DeleteFile, DeleteDirectory, Delete
    <3>4. ~(ChangeAnonymous \/ ChangeLogin \/ ChangeRoot \/ Remount \/ Trouble \/ UNCHANGED vars)
      BY DEF ChangeAnonymous, ChangeLogin, ChangeRoot, Change, Remount, Trouble, Changes, vars
    <3>5. QED
      BY <3>1, <3>2, <3>3, <3>4 DEF Next, Working, Command, recursiveDelete
  <2>2. Working(s)
    BY <2>1 DEF Working, Command, recursiveDelete
  <2>3. CASE CDUP(s) \/ Transfer(s)
    BY <2>2, <2>3 DEF CDUP, Transfer, Runs, At, MayThrow
  <2>4. CASE PWD(s)
    <3>1. Me(s).at = "line"
      BY <2>4 DEF PWD, Runs, At
    <3>2. QED
      BY <2>2, <2>4, <3>1, SubstringStays DEF MayThrow
  <2>5. CASE ListFiles(s)
    <3>1. Me(s).at = "list" /\ ~Enterable(Me(s).path)
      BY <2>5 DEF ListFiles, At
    <3>2. Undisturbed(Me(s), dirs, files, refused)
      BY DEF RemovalInv, Me
    <3>3. QED
      BY <2>2, <3>1, <3>2 DEF Undisturbed, Enterable, MayThrow, Deleting
  <2>6. QED
    BY <2>1, <2>3, <2>4, <2>5
<1>2. QED
  BY <1>1, RemovalAlways, PTL DEF Spec, CrashNeedsCause
=============================================================================
