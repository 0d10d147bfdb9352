---------------------------- MODULE MCDelayedTrx ----------------------------
(* More identifiers than slots, so that a slot is reused while another      *)
(* window is open.                                                          *)
EXTENDS DelayedTrx
CONSTANTS i1, i2, i3
ThreeIds == {i1, i2, i3}
TwoIds == {i1, i2}
=============================================================================
