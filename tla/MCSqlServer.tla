---------------------------- MODULE MCSqlServer ----------------------------
(* SqlServer for TLC.                                                       *)
EXTENDS SqlServer
=============================================================================
