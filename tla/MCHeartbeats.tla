---------------------------- MODULE MCHeartbeats ----------------------------
(* Two rows, claimed together or one after the other, two failures, and a    *)
(* statement of the heart that takes up to a period.                          *)
EXTENDS Heartbeats

CONSTANTS i1, i2
=============================================================================
