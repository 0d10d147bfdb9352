------------------------------- MODULE MCSwi -------------------------------
(* An operation and a receive buffer.                                       *)
EXTENDS Swi
CONSTANTS op, buf
SomeKinds == {op, buf}
\* The sleep request succeeds, or the radio is busy.
Sleeps == {TRUE, FALSE}
=============================================================================
