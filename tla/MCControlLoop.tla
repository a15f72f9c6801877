--------------------------- MODULE MCControlLoop ---------------------------
(* Small instances of ControlLoop for TLC. *)
EXTENDS ControlLoop

CONSTANTS harm, privacy, truth, a, b

HardPair == {{harm, privacy}}
=============================================================================
