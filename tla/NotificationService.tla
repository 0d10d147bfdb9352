------------------------- MODULE NotificationService -------------------------
(***************************************************************************)
(* What the higher layer may rely on: the notifications of the driver are  *)
(* delivered one at a time, each once, unaltered and in the order in which *)
(* they were accepted.  None is lost unless the driver is being            *)
(* reinitialised, when the oldest ones may be discarded.                   *)
(***************************************************************************)
EXTENDS Sequences, Integers

CONSTANT Note       \* the notifications

VARIABLES
    pending,        \* accepted and not yet delivered, the oldest first
    current,        \* the notification being delivered, or "none"
    blocked         \* a reinitialisation is in progress

vars == <<pending, current, blocked>>

\* Notifications wait in a sequence; at most one is being delivered.
TypeOK ==
    /\ pending \in Seq(Note) /\ current \in Note \cup {"none"}
    /\ blocked \in BOOLEAN

Init == pending = <<>> /\ current = "none" /\ blocked = FALSE

Accept(n) ==
    /\ ~blocked
    /\ pending' = Append(pending, n)
    /\ UNCHANGED <<current, blocked>>

Deliver ==
    /\ current = "none" /\ pending # <<>> /\ ~blocked
    /\ current' = Head(pending)
    /\ pending' = Tail(pending)
    /\ UNCHANGED blocked

Delivered == current' = "none" /\ UNCHANGED <<pending, blocked>>

Discard(n) ==
    /\ blocked
    /\ pending' = SubSeq(pending, n + 1, Len(pending))
    /\ blocked' \in BOOLEAN /\ UNCHANGED current

Reinit == blocked' \in BOOLEAN /\ UNCHANGED <<pending, current>>

Next ==
    \/ \E n \in Note : Accept(n)
    \/ Deliver \/ Delivered \/ Reinit
    \/ \E n \in 0..Len(pending) : Discard(n)

Spec == Init /\ [][Next]_vars
=============================================================================
