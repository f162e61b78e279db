--------------------------- MODULE MCEventTimer ----------------------------
(* Small instances of EventTimer for TLC. *)
EXTENDS EventTimer

CONSTANTS e1, e2, e3

=============================================================================
