---------------------------- MODULE MCChatServer ----------------------------
(* The instances of ChatServer that TLC explores. *)
EXTENDS ChatServer

MCFds == {4, 5, 6}
=============================================================================
