------------------------------ MODULE LocalTime ------------------------------
(***************************************************************************)
(* Time for the stack.  Timer 3 overflows every 10 ms and raises one       *)
(* pending flag; TIM3_IRQHandler adds 10 to lwip_localtime, a 32-bit       *)
(* counter that wraps, and clears the flag; the main loop calls            *)
(* lwip_periodic_handle, which calls etharp_tmr when ARP_TMR_INTERVAL has  *)
(* passed since ARPTimer.                                                  *)
(*                                                                         *)
(* The Ethernet interrupt preempts both, for as long as it has frames, and *)
(* timer 3's interrupt preempts the main loop: an overflow that finds the  *)
(* flag still set is not counted.                                          *)
(***************************************************************************)
EXTENDS Integers, FiniteSetsExt

CONSTANTS Tick,       \* 10, what an overflow adds
          Interval,   \* ARP_TMR_INTERVAL
          Wrap,       \* 2^32
          LateMax     \* bound on the real time that is kept as history

ASSUME TimeAssumption ==
    /\ {Tick, Interval, Wrap, LateMax} \subseteq Nat \ {0}
    /\ Tick <= Interval /\ Interval + Tick < Wrap /\ Interval <= LateMax

VARIABLES uif,              \* TIM3's update flag
          eth,              \* the Ethernet interrupt is running
          isr,              \* TIM3_IRQHandler: "idle", "add" or "clear"
          lwip_localtime,
          ARPTimer,
          main,             \* lwip_periodic_handle: "check", "set" or "etharp_tmr"
          passed            \* history: real time since ARPTimer was set

timevars == <<uif, eth, isr, lwip_localtime, ARPTimer, main, passed>>

TimeInit ==
    /\ uif = FALSE /\ eth = FALSE /\ isr = "idle"
    /\ lwip_localtime = 0 /\ ARPTimer = 0
    /\ main = "check"
    /\ passed = 0
-----------------------------------------------------------------------------
(* The timer overflows. *)
Overflow ==
    /\ uif' = TRUE
    /\ passed' = Min({passed + Tick, LateMax})
    /\ UNCHANGED <<eth, isr, lwip_localtime, ARPTimer, main>>

EthEnter == ~eth /\ eth' = TRUE  /\ UNCHANGED <<uif, isr, lwip_localtime, ARPTimer, main, passed>>
EthLeave == eth  /\ eth' = FALSE /\ UNCHANGED <<uif, isr, lwip_localtime, ARPTimer, main, passed>>
-----------------------------------------------------------------------------
(* TIM3_IRQHandler. *)

Tim3Enter ==
    /\ ~eth /\ isr = "idle" /\ uif
    /\ isr' = "add"
    /\ UNCHANGED <<uif, eth, lwip_localtime, ARPTimer, main, passed>>

Tim3Add ==
    /\ ~eth /\ isr = "add"
    /\ lwip_localtime' = (lwip_localtime + Tick) % Wrap
    /\ isr' = "clear"
    /\ UNCHANGED <<uif, eth, ARPTimer, main, passed>>

(* Also clears the flag of an overflow since the handler was entered. *)
Tim3Clear ==
    /\ ~eth /\ isr = "clear"
    /\ uif' = FALSE
    /\ isr' = "idle"
    /\ UNCHANGED <<eth, lwip_localtime, ARPTimer, main, passed>>

Tim3 == Tim3Enter \/ Tim3Add \/ Tim3Clear
-----------------------------------------------------------------------------
(* lwip_periodic_handle. *)

MainRuns == ~eth /\ isr = "idle"

\* Mutation: a deadline is compared, which wraps before the counter does.
CheckDeadline ==
    /\ MainRuns /\ main = "check"
    /\ main' = IF lwip_localtime >= ARPTimer + Interval THEN "set" ELSE "check"
    /\ UNCHANGED <<uif, eth, isr, lwip_localtime, ARPTimer, passed>>

(* if ((lwip_localtime - ARPTimer) >= ARP_TMR_INTERVAL), in 32 bits. *)
Check ==
    /\ MainRuns /\ main = "check"
    /\ main' = IF (lwip_localtime - ARPTimer) % Wrap >= Interval THEN "set" ELSE "check"
    /\ UNCHANGED <<uif, eth, isr, lwip_localtime, ARPTimer, passed>>

\* Mutation: the next period starts where this one should have ended.
SetByInterval ==
    /\ MainRuns /\ main = "set"
    /\ ARPTimer' = (ARPTimer + Interval) % Wrap
    /\ main' = "etharp_tmr"
    /\ passed' = 0
    /\ UNCHANGED <<uif, eth, isr, lwip_localtime>>

(* ARPTimer = lwip_localtime, which may have moved since the test. *)
SetTimer ==
    /\ MainRuns /\ main = "set"
    /\ ARPTimer' = lwip_localtime
    /\ main' = "etharp_tmr"
    /\ passed' = 0
    /\ UNCHANGED <<uif, eth, isr, lwip_localtime>>

(* etharp_tmr ages the ARP table. *)
AgeArp ==
    /\ MainRuns /\ main = "etharp_tmr"
    /\ main' = "check"
    /\ UNCHANGED <<uif, eth, isr, lwip_localtime, ARPTimer, passed>>

lwip_periodic_handle == Check \/ SetTimer \/ AgeArp

TimeNext == Overflow \/ EthEnter \/ EthLeave \/ Tim3 \/ lwip_periodic_handle

(* The timer runs, the Ethernet interrupt returns, and what it preempts goes on *)
(* in between.                                                                  *)
Fairness ==
    /\ WF_timevars(Overflow)
    /\ WF_timevars(EthLeave)
    /\ SF_timevars(Tim3)
    /\ SF_timevars(lwip_periodic_handle)

TimeSpec == TimeInit /\ [][TimeNext]_timevars /\ Fairness
-----------------------------------------------------------------------------
TimeTypeOK ==
    /\ uif \in BOOLEAN /\ eth \in BOOLEAN
    /\ isr \in {"idle", "add", "clear"}
    /\ lwip_localtime \in 0 .. Wrap - 1 /\ ARPTimer \in 0 .. Wrap - 1
    /\ main \in {"check", "set", "etharp_tmr"}
    /\ passed \in 0 .. LateMax

(* Lost ticks make the clock late, never early: etharp_tmr is never called less *)
(* than its interval after the last call set ARPTimer, but for the one tick     *)
(* that may have been pending then; also across the wrap of the counter.        *)
NeverEarly == main = "set" => passed + Tick >= Interval

(* The ARP table is aged for ever, across the wrap of the counter. *)
KeepsAging == []<>(main = "etharp_tmr")
=============================================================================
