-------------------------------- MODULE MCDaemon --------------------------------
(* Instances of Daemon for TLC. *)
EXTENDS Daemon

CONSTANTS a, b
=============================================================================
