--------------------------- MODULE MCLateFillBooking ---------------------------
(* LateFillBooking on small instances: the daemon, and a recovery monitor. *)
EXTENDS LateFillBooking

CONSTANTS daemon, monitor

Both == {daemon, monitor}
Uniform == {Both, {}}
AllTroubles == Kinds

=============================================================================
