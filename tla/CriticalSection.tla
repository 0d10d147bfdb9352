-------------------------- MODULE CriticalSection --------------------------
(***************************************************************************)
(* The critical section of the 802.15.4 driver                             *)
(* (driver/src/nrf_802154_critical_section.c) under preemption.            *)
(*                                                                         *)
(* One core runs several contexts: the RADIO interrupt, the low-power      *)
(* timer interrupt, the radio scheduler (RSCH) interrupt and the client    *)
(* contexts that issue requests (threads, the SWI).  A context is          *)
(* preempted only by contexts of a more urgent priority (a smaller         *)
(* number), so the set of contexts that have begun and not finished is a   *)
(* stack ordered by priority and its most urgent member is the one that    *)
(* runs.  Everything between mcu_critical_enter and mcu_critical_exit is   *)
(* one step.                                                               *)
(*                                                                         *)
(* The scheduler's own side (who holds the timeslot, the pending flag) is  *)
(* the closed service layer: it is modelled from how the driver uses it.   *)
(***************************************************************************)
EXTENDS Integers, Sequences

CONSTANTS
    Clients,    \* contexts that call nrf_802154_critical_section_enter
    Radio,      \* nrf_802154_radio_irq_handler
    LpTimer,    \* the timer handler that runs on_rx_prestarted_timeout
    Rsch,       \* the radio scheduler's timeslot interrupt
    Prio,       \* NVIC priority of each context
    MaxNest,    \* bound on the depth of nested sections (uint8_t in the code)
    LateIrq     \* may a RADIO event fire before the section that enabled the
                \* RADIO interrupt (trx_enable) is left?

Ctx == Clients \cup {Radio, LpTimer, Rsch}

\* NESTED_CRITICAL_SECTION_ALLOWED_PRIORITY_NONE
NONE == -1

ASSUME PrioAssumption == Prio \in [Ctx -> Nat]
ASSUME BoundAssumption == MaxNest \in Nat \ {0} /\ LateIrq \in BOOLEAN
ASSUME RolesAssumption ==
    /\ Radio \notin Clients /\ LpTimer \notin Clients /\ Rsch \notin Clients
    /\ Radio # LpTimer /\ Radio # Rsch /\ LpTimer # Rsch
\* The timeslot signal is the most urgent interrupt of the system (MPSL runs
\* it at priority 0).
ASSUME RschAssumption == \A c \in Ctx \ {Rsch} : Prio[Rsch] < Prio[c]

VARIABLES
    active,      \* contexts that have begun and not returned
    pc,          \* where each context is
    owners,      \* who entered each of the open sections, outermost first
    notifying,   \* the depths at which a notification runs that allowed nesting
    cnt,         \* m_nested_critical_section_counter
    allowed,     \* m_nested_critical_section_allowed_priority
    radioIrq,    \* RADIO interrupt enabled in the NVIC
    lptimerCs,   \* the low-power timer's critical section is in effect
    approved,    \* nrf_802154_rsch_prec_is_approved(RSCH_PREC_RAAL, ...)
    notified,    \* the approval last given to the core (m_rsch_priority)
    pending,     \* a scheduler event waits for the section to be left
    unmasked,    \* trx_enable enabled RADIO inside the open section
    failed,      \* an assertion of nesting_allow or nesting_deny has failed
                 \* since the outermost section was entered
    renotified   \* since then a request made in a callback notified in turn

csVars   == <<owners, cnt, allowed, notifying, failed, renotified>>
maskVars == <<radioIrq, lptimerCs, unmasked>>
rschVars == <<approved, notified, pending>>
vars == <<active, pc, csVars, maskVars, rschVars>>

Running(c) == c \in active /\ \A d \in active \ {c} : Prio[c] < Prio[d]
Holds(c)   == owners # <<>> /\ owners[Len(owners)] = c
Notifying(c) == \E i \in notifying : owners[i] = c
InPc(c, l) == Running(c) /\ pc[c] = l
Goto(c, l) == pc' = [pc EXCEPT ![c] = l]

Init ==
    /\ active = {}
    /\ pc = [c \in Ctx |-> "off"]
    /\ owners = <<>>
    /\ notifying = {}
    /\ cnt = 0
    /\ allowed = NONE
    /\ radioIrq = FALSE
    /\ lptimerCs = FALSE
    /\ approved = FALSE
    /\ notified = FALSE
    /\ pending = FALSE
    /\ unmasked = FALSE
    /\ failed = FALSE
    /\ renotified = FALSE

-----------------------------------------------------------------------------
(* Entering and leaving *)

MayEnterAnyPriority(c, forced) == forced \/ cnt = 0 \/ allowed # NONE

\* The three conditions under which critical_section_enter grants the section.
MayEnter(c, forced) == forced \/ cnt = 0 \/ allowed = Prio[c]

\* The granted branch of critical_section_enter, radio_critical_section_enter
\* included.
Entered(c) ==
    /\ Len(owners) < MaxNest
    /\ owners' = Append(owners, c)
    /\ cnt' = cnt + 1
    /\ lptimerCs' = IF cnt' = 1 THEN TRUE ELSE lptimerCs
    /\ radioIrq' = IF cnt' = 1 /\ approved THEN FALSE ELSE radioIrq
    /\ UNCHANGED <<allowed, notifying, unmasked, failed, renotified>>

\* nrf_802154_critical_section_enter from a request.  A refused request
\* changes nothing.
Enter(c) ==
    /\ InPc(c, "run")
    /\ c \in Clients \/ Notifying(c)
    /\ MayEnter(c, FALSE)
    /\ Entered(c)
    /\ UNCHANGED <<active, pc, rschVars>>

\* nrf_802154_critical_section_forcefully_enter: the first thing the RADIO
\* interrupt and the prestarted timeout do.
ForcefullyEnter(c) ==
    /\ InPc(c, "forced")
    /\ MayEnter(c, TRUE)
    /\ Entered(c)
    /\ Goto(c, "run")
    /\ UNCHANGED <<active, rschVars>>

\* A section may be left once the notification made inside it is over.
MayExit(c) == InPc(c, "run") /\ Holds(c) /\ Len(owners) \notin notifying

MustProcessLate == cnt = 0 /\ pending

\* Leaving the last section with a scheduler event pending.
MustProcess == cnt = 1 /\ pending

\* critical_section_exit, last section, with a scheduler event pending: the
\* MCU critical section is left before the event is processed.
ExitFindsPending(c) ==
    /\ MayExit(c)
    /\ MustProcess
    /\ Goto(c, "pend")
    /\ UNCHANGED <<active, csVars, maskVars, rschVars>>

\* critical_section_exit: the step that decrements the counter.
Exit(c) ==
    /\ MayExit(c)
    /\ ~MustProcess
    /\ owners' = SubSeq(owners, 1, Len(owners) - 1)
    /\ cnt' = cnt - 1
    /\ radioIrq' = IF cnt' = 0 /\ approved THEN TRUE ELSE radioIrq
    /\ lptimerCs' = IF cnt' = 0 THEN FALSE ELSE lptimerCs
    /\ unmasked' = (unmasked /\ cnt' # 0)
    /\ failed' = (failed /\ cnt' # 0)
    /\ renotified' = (renotified /\ cnt' # 0)
    /\ UNCHANGED <<active, pc, allowed, notifying, rschVars>>

\* nrf_802154_critical_section_nesting_allow, around a notification made from
\* inside a section.  A request made in a callback may notify in turn
\* (nrf_802154_receive does when no buffer is free), and then the assertion
\* finds the permission already given.  A failed assertion is recorded and the
\* code goes on, as in a build without assertions.
NestingAllow(c) ==
    /\ InPc(c, "run")
    /\ c # LpTimer
    /\ Holds(c)
    /\ Len(owners) \notin notifying
    /\ failed' = (failed \/ allowed # NONE \/ cnt < 1)
    /\ renotified' = (renotified \/ Notifying(c))
    /\ allowed' = Prio[c]
    /\ notifying' = notifying \cup {Len(owners)}
    /\ UNCHANGED <<active, pc, owners, cnt, maskVars, rschVars>>

\* The notification is over: the sections nested in it have been left.
Denies(c) ==
    /\ InPc(c, "run")
    /\ Holds(c)
    /\ Len(owners) \in notifying
    /\ failed' = (failed \/ allowed = NONE \/ cnt < 1)
    /\ notifying' = notifying \ {Len(owners)}
    /\ UNCHANGED <<active, pc, owners, cnt, renotified, maskVars, rschVars>>

NestingDenyForgets(c) == Denies(c) /\ UNCHANGED allowed

\* nrf_802154_critical_section_nesting_deny
NestingDeny(c) == Denies(c) /\ allowed' = NONE

-----------------------------------------------------------------------------
(* The scheduler *)

\* nrf_802154_rsch_crit_sect_prio_changed as far as it concerns the section:
\* a newly granted timeslot runs nrf_802154_trx_enable, whose irq_init enables
\* the RADIO interrupt in the NVIC.
PrioChanged ==
    /\ notified' = approved
    /\ radioIrq' = (radioIrq \/ (approved /\ ~notified))
    /\ unmasked' = (unmasked \/ (approved /\ ~notified))
    /\ UNCHANGED <<approved, lptimerCs>>

\* nrf_802154_critical_section_rsch_process_pending
ProcessPending(c) ==
    /\ InPc(c, "pend")
    /\ pending' = FALSE
    /\ PrioChanged
    /\ Goto(c, "run")
    /\ UNCHANGED <<active, csVars>>

\* The timeslot interrupt offers its event to the core: at once when it gets
\* the section, through the pending flag when it does not.
RschOffer ==
    /\ InPc(Rsch, "event")
    /\ \/ /\ MayEnter(Rsch, FALSE)
          /\ Entered(Rsch)
          /\ Goto(Rsch, "deliver")
          /\ UNCHANGED pending
       \/ /\ ~MayEnter(Rsch, FALSE)
          /\ pending' = TRUE
          /\ Goto(Rsch, "run")
          /\ UNCHANGED <<csVars, maskVars>>
    /\ UNCHANGED <<active, approved, notified>>

RschDeliver ==
    /\ InPc(Rsch, "deliver")
    /\ PrioChanged
    /\ Goto(Rsch, "run")
    /\ UNCHANGED <<active, csVars, pending>>

-----------------------------------------------------------------------------
(* Contexts begin and end *)

\* What has to hold for each interrupt to be taken.
Raised(c) ==
    /\ c = Radio => radioIrq /\ approved /\ notified /\ (LateIrq \/ ~unmasked)
    /\ c = LpTimer => ~lptimerCs

Begin(c) ==
    /\ c \notin active
    /\ \A d \in active : Prio[c] < Prio[d]
    /\ Raised(c)
    /\ active' = active \cup {c}
    /\ Goto(c, CASE c \in {Radio, LpTimer} -> "forced"
                 [] c = Rsch -> "event"
                 [] OTHER -> "run")
    /\ approved' = IF c = Rsch THEN ~approved ELSE approved
    /\ UNCHANGED <<csVars, maskVars, notified, pending>>

End(c) ==
    /\ InPc(c, "run")
    /\ ~Holds(c)
    /\ active' = active \ {c}
    /\ Goto(c, "off")
    /\ UNCHANGED <<csVars, maskVars, rschVars>>

Next ==
    \/ \E c \in Ctx :
        \/ Begin(c) \/ End(c)
        \/ Enter(c) \/ ForcefullyEnter(c)
        \/ ExitFindsPending(c) \/ ProcessPending(c) \/ Exit(c)
        \/ NestingAllow(c) \/ NestingDeny(c)
    \/ RschOffer \/ RschDeliver

Spec == Init /\ [][Next]_vars

\* A handler is finite straight-line code: a context that gets to run again
\* and again ends its notifications, leaves its sections and returns.  Only one
\* context can have sections open, so one condition per depth is enough there.
Fairness ==
    /\ \A n \in 1..MaxNest :
          /\ SF_vars(\E c \in Ctx : NestingDeny(c) /\ Len(owners) = n)
          /\ SF_vars(\E c \in Ctx : Exit(c) /\ Len(owners) = n)
    /\ SF_vars(\E c \in Ctx : ExitFindsPending(c))
    /\ SF_vars(\E c \in Ctx : ProcessPending(c))
    /\ \A c \in Clients : SF_vars(End(c))
    /\ WF_vars(RschOffer \/ RschDeliver \/ End(Rsch))

FairSpec == Spec /\ Fairness

-----------------------------------------------------------------------------
(* Properties *)

\* The preempted contexts, m_nested_critical_section_counter's owners and the
\* pending scheduler notification stay in their ranges.
TypeOK ==
    /\ active \subseteq Ctx
    /\ pc \in [Ctx -> {"off", "run", "forced", "pend", "event", "deliver"}]
    /\ owners \in Seq(Ctx)
    /\ notifying \subseteq Nat
    /\ cnt \in Nat
    /\ allowed \in {NONE} \cup {Prio[c] : c \in Ctx}
    /\ radioIrq \in BOOLEAN /\ lptimerCs \in BOOLEAN /\ unmasked \in BOOLEAN
    /\ approved \in BOOLEAN /\ notified \in BOOLEAN /\ pending \in BOOLEAN
    /\ failed \in BOOLEAN /\ renotified \in BOOLEAN

\* The counter counts the open sections, and every open section was entered by
\* one and the same context: whatever preempts the holder (the RADIO and timer
\* interrupts enter by force) never gets into a section that somebody else
\* has open.
Exclusive ==
    /\ cnt = Len(owners)
    /\ \A i, j \in DOMAIN owners : owners[i] = owners[j]

\* The assertions of nesting_allow and nesting_deny fail only in a section
\* whose own callback made a request that notified in turn: never because of
\* another context's permission, nor of one left over from an earlier section,
\* whatever preempts the notification.
NestingAsserts == failed => renotified

\* The assertions of nesting_allow and nesting_deny (critical_section.c) as the
\* code states them.  False for notifications called directly.
NestingNeverFails == ~failed

\* The justification given in on_rx_prestarted_timeout: when the timeout runs,
\* an unforced enter would have succeeded as well.
TimerFindsSectionFree == InPc(LpTimer, "forced") => cnt = 0

\* A scheduler event is not lost: when nobody has a section open and the
\* scheduler is not in the middle of delivering, the core knows the approval
\* in force, no event is pending, and the RADIO interrupt is enabled if the
\* timeslot is granted.
IdleConsistent ==
    cnt = 0 /\ pc[Rsch] # "event" =>
        /\ approved = notified
        /\ ~pending
        /\ approved => radioIrq

\* A pending event is delivered.
PendingDelivered == pending ~> ~pending

\* trx.c, nrf_802154_trx_swi_irq_handler: "If we are in critical section, the
\* RADIO_IRQ is disabled on NVIC."
RadioMaskedInSection == cnt > 0 /\ approved /\ notified => ~radioIrq

=============================================================================
