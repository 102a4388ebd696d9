---------------------------- MODULE MCCommandExec ----------------------------
(* CommandExec with two exec requests, one after the other.                 *)
EXTENDS CommandExec
=============================================================================
