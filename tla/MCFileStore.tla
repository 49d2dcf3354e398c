---------------------------- MODULE MCFileStore ----------------------------
(* Instances of FileStore for TLC.                                          *)
EXTENDS FileStore

CONSTANTS user, guest, a, b
UserAlone == {user}
UserAndGuest == {user, guest}
TwoNames == {a, b}
=============================================================================
