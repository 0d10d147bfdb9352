--------------------------- MODULE MCSerialization ---------------------------
EXTENDS Serialization
CONSTANTS t1, t2, f1, f2
TwoThreads == {t1, t2}
TwoFrames == {f1, f2}
=============================================================================
