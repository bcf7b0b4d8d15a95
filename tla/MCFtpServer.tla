---------------------------- MODULE MCFtpServer ----------------------------
(* Instances of FtpServer for TLC.                                         *)
EXTENDS FtpServer
=============================================================================
