---------------------------- MODULE MCRadioCore ----------------------------
(* The priorities the scheduler may approve in each instance. *)
EXTENDS RadioCore

EveryPriority  == {IDLE, IDLE_LISTENING, PRIO_RX, PRIO_TX}
NoListening    == {IDLE, PRIO_RX, PRIO_TX}
NoReceiving    == {IDLE, IDLE_LISTENING, PRIO_TX}
AllOrNothing   == {IDLE, PRIO_TX}
=============================================================================
