------------------------------ MODULE MCCsmaCa ------------------------------
(* What the higher layer may write into the PIB in each instance. *)
EXTENDS CsmaCa

\* A legal value on each side of the default max_be, and one that is refused.
SomeMinBe    == {0, MAX_BE_DEFAULT + 1, CSMACA_BE_MAXIMUM + 1}
SomeMaxBe    == {MAX_BE_DEFAULT - 1, CSMACA_BE_MAXIMUM}
\* No second attempt, and two more.
SomeBackoffs == {0, 2}
\* FRAME_READY, CCA_START and the modes that do not ask during the backoff.
SomeModes    == {"FRAME_READY", "CCA_START", "CCA_DONE"}
LargestUint8 == {255}
AboveMaxBe   == {MAX_BE_DEFAULT + 1}
=============================================================================
