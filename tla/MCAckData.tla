----------------------------- MODULE MCAckData -----------------------------
(* Instances of AckData for TLC. *)
EXTENDS AckData
\* Two kinds of elements that fit beside each other.
TwoKinds == {[id |-> 1, length |-> 1], [id |-> 2, length |-> 1]}
============================================================================
