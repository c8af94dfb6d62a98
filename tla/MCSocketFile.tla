---------------------------- MODULE MCSocketFile ----------------------------
(* A small instance of SocketFile for TLC. *)
EXTENDS SocketFile
=============================================================================
