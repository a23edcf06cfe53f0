--------------------------- MODULE MCCaptureProcess ---------------------------
(* Small instances of CaptureProcess for TLC. *)
EXTENDS CaptureProcess

CONSTANTS eth0, lo  \* interfaces
=============================================================================
