---------------------------- MODULE MCFtpService ----------------------------
(* Instances of FtpService for TLC: the sessions that may connect.          *)
EXTENDS FtpService

CONSTANTS s1, s2
OneSession == {s1}
TwoSessions == {s1, s2}
=============================================================================
