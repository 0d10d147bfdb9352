--------------------------- MODULE MCAckTimeout ---------------------------
(* Instances of AckTimeout for TLC. *)
EXTENDS AckTimeout
===========================================================================
