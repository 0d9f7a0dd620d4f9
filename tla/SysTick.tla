------------------------------- MODULE SysTick -------------------------------
(***************************************************************************)
(* The system timer, the systick part of hw/intc/armv7m_nvic.c.  Its state  *)
(* is not a counter but a QEMU timer: while it counts, "tick" is the        *)
(* virtual time of the next expiry, and while it is paused, the time that   *)
(* was left.  The callback of an expired timer runs when the main loop gets *)
(* to it, so virtual time may pass beyond a deadline.                       *)
(***************************************************************************)
EXTENDS Integers

CONSTANTS
  Scales,      \* <<system, external>> nanoseconds per count, set by the RCC
  Reloads,     \* values written to SYST_RVR
  MaxTime      \* bound on the virtual time

ASSUME SysTickAssumption ==
  /\ Scales \subseteq (Nat \ {0}) \X (Nat \ {0})
  /\ Reloads \subseteq Nat /\ MaxTime \in Nat

VARIABLES
  now,         \* QEMU_CLOCK_VIRTUAL
  ENABLE, TICKINT, CLKSOURCE, COUNTFLAG,        \* systick.control
  reload, tick,
  timer,       \* deadline of systick.timer, or NoTimer
  system_clock_scale, external_ref_clock_scale,
  pending,     \* exception 15 in the interrupt controller
  span, ran,   \* history: length of the current count, time it was counting
  spent        \* history: a count with reload 0 ended and nothing loaded since

sysTickVars ==
  <<now, ENABLE, TICKINT, CLKSOURCE, COUNTFLAG, reload, tick, timer,
    system_clock_scale, external_ref_clock_scale, pending, span, ran, spent>>

NoTimer == -1

systick_scale(clksource) ==
  IF clksource THEN system_clock_scale ELSE external_ref_clock_scale

Period(clksource) == (reload + 1) * systick_scale(clksource)

\* systick_reload(s, 1) of an enabled timer: a full count from now on.
Load(clksource) ==
  /\ tick' = now + Period(clksource) /\ timer' = tick'
  /\ span' = Period(clksource) /\ ran' = 0 /\ spent' = FALSE

Keep == UNCHANGED <<tick, timer, span, ran, spent>>
-----------------------------------------------------------------------------
\* The callback; without the reset the next count is laid against the last
\* deadline, not against the present.
systick_timer_tick ==
  /\ timer # NoTimer /\ timer <= now
  /\ COUNTFLAG' = TRUE
  /\ pending' = (pending \/ TICKINT)
  /\ IF reload = 0
     THEN /\ ENABLE' = FALSE /\ timer' = NoTimer /\ spent' = TRUE
          /\ UNCHANGED <<tick, span, ran>>
     ELSE /\ tick' = tick + Period(CLKSOURCE) /\ timer' = tick'
          /\ span' = Period(CLKSOURCE) /\ ran' = now - tick /\ spent' = FALSE
          /\ UNCHANGED ENABLE
  /\ UNCHANGED <<now, TICKINT, CLKSOURCE, reload,
                 system_clock_scale, external_ref_clock_scale>>

Enable(clksource) ==
  IF tick # 0
  THEN tick' = tick + now /\ timer' = tick' /\ UNCHANGED <<span, ran, spent>>
  ELSE Load(clksource)

\* Mutant: the time left is not taken out of the deadline.
DisableAbsolute ==
  /\ timer' = NoTimer
  /\ UNCHANGED <<tick, span, ran, spent>>

Disable ==
  /\ timer' = NoTimer
  /\ tick' = IF tick - now < 0 THEN 0 ELSE tick - now
  /\ UNCHANGED <<span, ran, spent>>

\* 0x10, control and status: COUNTFLAG is kept.
WriteCSR(enable, tickint, clksource) ==
  /\ ENABLE' = enable /\ TICKINT' = tickint /\ CLKSOURCE' = clksource
  /\ IF enable # ENABLE
     THEN IF enable THEN Enable(clksource) ELSE Disable
     ELSE IF clksource # CLKSOURCE /\ ENABLE THEN Load(clksource)
     ELSE Keep
  /\ UNCHANGED <<now, COUNTFLAG, reload, pending,
                 system_clock_scale, external_ref_clock_scale>>

\* 0x14, reload value.
WriteRVR(value) ==
  /\ reload' = value
  /\ Keep
  /\ UNCHANGED <<now, ENABLE, TICKINT, CLKSOURCE, COUNTFLAG, pending,
                 system_clock_scale, external_ref_clock_scale>>

\* 0x18, current value: "Writes reload the timer".
WriteCVR ==
  /\ IF ENABLE THEN Load(CLKSOURCE) ELSE Keep
  /\ COUNTFLAG' = FALSE
  /\ UNCHANGED <<now, ENABLE, TICKINT, CLKSOURCE, reload, pending,
                 system_clock_scale, external_ref_clock_scale>>

\* A read of 0x10 clears the flag it returns.
ReadCSR ==
  /\ COUNTFLAG' = FALSE
  /\ Keep
  /\ UNCHANGED <<now, ENABLE, TICKINT, CLKSOURCE, reload, pending,
                 system_clock_scale, external_ref_clock_scale>>

systick_reset ==
  /\ ENABLE' = FALSE /\ TICKINT' = FALSE /\ CLKSOURCE' = FALSE /\ COUNTFLAG' = FALSE
  /\ reload' = 0 /\ tick' = 0 /\ timer' = NoTimer /\ pending' = FALSE
  /\ span' = 0 /\ ran' = 0 /\ spent' = FALSE
  /\ UNCHANGED <<now, system_clock_scale, external_ref_clock_scale>>

\* The RCC sets both scales when HCLK changes; a count that is under way is
\* left as it is.
stm32_rcc_hclk_upd_irq_handler(scale) ==
  /\ system_clock_scale' = scale[1] /\ external_ref_clock_scale' = scale[2]
  /\ Keep
  /\ UNCHANGED <<now, ENABLE, TICKINT, CLKSOURCE, COUNTFLAG, reload, pending>>

\* The CPU takes the exception.
armv7m_nvic_acknowledge_irq ==
  /\ pending /\ pending' = FALSE
  /\ Keep
  /\ UNCHANGED <<now, ENABLE, TICKINT, CLKSOURCE, COUNTFLAG, reload,
                 system_clock_scale, external_ref_clock_scale>>

Advance ==
  /\ now < MaxTime /\ now' = now + 1
  /\ ran' = IF ENABLE THEN ran + 1 ELSE ran
  /\ UNCHANGED <<ENABLE, TICKINT, CLKSOURCE, COUNTFLAG, reload, tick, timer,
                 system_clock_scale, external_ref_clock_scale, pending, span, spent>>

SysTickInit ==
  /\ now = 0
  /\ ENABLE = FALSE /\ TICKINT = FALSE /\ CLKSOURCE = FALSE /\ COUNTFLAG = FALSE
  /\ reload = 0 /\ tick = 0 /\ timer = NoTimer /\ pending = FALSE
  /\ \E scale \in Scales :
       system_clock_scale = scale[1] /\ external_ref_clock_scale = scale[2]
  /\ span = 0 /\ ran = 0 /\ spent = FALSE

SysTickNext ==
  \/ systick_timer_tick \/ WriteCVR \/ ReadCSR \/ systick_reset \/ Advance
  \/ armv7m_nvic_acknowledge_irq
  \/ \E e, t, c \in BOOLEAN : WriteCSR(e, t, c)
  \/ \E value \in Reloads : WriteRVR(value)
  \/ \E scale \in Scales : stm32_rcc_hclk_upd_irq_handler(scale)

SysTickSpec == SysTickInit /\ [][SysTickNext]_sysTickVars
-----------------------------------------------------------------------------
\* The deadline and the time left are exact through every sequence of pauses,
\* resumptions, late callbacks and changes of clock or reload value: while the
\* timer counts, its deadline is as far away as the count has left to run, and
\* a pause keeps what was left (nothing, if the expiry was already due).  The
\* one exception is a count that ended with SYST_RVR = 0, which leaves the old
\* deadline behind.
KeepsTime ==
  /\ ENABLE => timer = tick
  /\ ~ENABLE => timer = NoTimer
  /\ ENABLE /\ ~spent => tick - now = span - ran
  /\ ~ENABLE /\ ~spent => tick = IF span - ran < 0 THEN 0 ELSE span - ran

\* The SysTick exception is never early: the callback finds that the timer has
\* been counting for a whole period, however often it was paused.
NoEarlyTick ==
  [][systick_timer_tick /\ ~spent => ran >= span]_sysTickVars
=============================================================================
