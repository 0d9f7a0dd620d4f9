------------------------------ MODULE Stm32Timer -----------------------------
(***************************************************************************)
(* A general timer, hw/timer/stm32_timer.c: firmware writing its registers, *)
(* the RCC changing its clock, the expiry of its ptimer and the bottom half *)
(* stm32_timer_tick, in any order.  Capture/compare and DMA registers only  *)
(* store what is written and are left out, and so is the trigger flag of SR.*)
(***************************************************************************)
EXTENDS Ptimer

CONSTANTS
  ARRs, CNTs,     \* values written to ARR and CNT
  TimPeriods,     \* periods the clock and the prescaler give, in nanoseconds
  CountWord       \* 2^32: the counter is computed in uint32_t

VARIABLE tim
\* timer: the ptimer; clock: the period of the timer's clock, 0 while the RCC
\* keeps it off; OneShot: bit 2 of CR1.  deaf is history: CEN was last written
\* while the ptimer had no frequency.

TimInit ==
  tim = [timer |-> ptimer_init, clock |-> 0,
         CEN |-> FALSE, OneShot |-> FALSE, DIR |-> FALSE, CMS |-> FALSE,
         down |-> FALSE, arr |-> 0, UIF |-> FALSE, deaf |-> FALSE]

\* A clock that is off leaves the old frequency.
stm32_timer_freq(t) ==
  IF t.clock = 0 THEN t ELSE [t EXCEPT !.timer = ptimer_set_freq(@, t.clock)]

\* Counting up is counting down from the reload value.
stm32_timer_set_count(t, cnt) ==
  [t EXCEPT !.timer = ptimer_set_count(@, IF t.down THEN cnt ELSE (t.arr - cnt) % CountWord)]

\* "count" is the value a running ptimer would be stopped at.
stm32_timer_update(t, count) ==
  LET f == [stm32_timer_freq(t) EXCEPT !.down = t.DIR /\ ~t.CMS]
  IN  [f EXCEPT !.timer = IF t.CEN THEN ptimer_run(@, ~t.OneShot) ELSE ptimer_stop(@, count)]

\* The interrupt line follows the flag, whatever DIER holds.
stm32_timer_update_UIF(t, value) == [t EXCEPT !.UIF = value]
-----------------------------------------------------------------------------
WriteCR1(cen, oneshot, dir, cms) ==
  LET t == [tim EXCEPT !.CEN = cen, !.OneShot = oneshot, !.DIR = dir, !.CMS = cms]
  IN  \E count \in Counts(stm32_timer_freq(t).timer) :
        LET u == stm32_timer_update(t, count)
        IN  tim' = [u EXCEPT !.deaf = cen /\ u.timer.period = 0]

\* A bit written as 0 is toggled, not cleared.
WriteSR(uif) == tim' = stm32_timer_update_UIF(tim, IF uif THEN tim.UIF ELSE ~tim.UIF)

\* EGR with UG set
WriteEGR == tim' = [tim EXCEPT !.timer = ptimer_set_limit(@, tim.arr, TRUE)]

WriteCNT(cnt) == tim' = stm32_timer_set_count(tim, cnt)

WriteARR(arr) ==
  tim' = [tim EXCEPT !.arr = arr, !.timer = ptimer_set_limit(@, arr, TRUE)]

\* A write of PSC changes the period of a clock that is on; a change of the
\* clock tree changes it or switches the clock off.
WritePSC(period) ==
  /\ tim.clock # 0
  /\ tim' = stm32_timer_freq([tim EXCEPT !.clock = period])

stm32_timer_clk_irq_handler(period) ==
  tim' = stm32_timer_freq([tim EXCEPT !.clock = period])

Expire == tim.timer.armed /\ tim' = [tim EXCEPT !.timer = ptimer_tick(@)]

\* Mutant: a center-aligned timer is not restarted.
stm32_timer_tickCMS ==
  /\ tim.timer.bh
  /\ LET u == stm32_timer_update_UIF([tim EXCEPT !.timer = TakeBh(@)], TRUE)
         c == stm32_timer_set_count(u, IF u.down THEN u.arr ELSE 0)
         m == [c EXCEPT !.down = IF c.CMS THEN ~@ ELSE @]
     IN  IF m.OneShot THEN tim' = [m EXCEPT !.CEN = FALSE]
         ELSE IF m.CMS THEN tim' = m
         ELSE \E count \in Counts(stm32_timer_freq(m).timer) :
                tim' = stm32_timer_update(m, count)

\* The bottom half: the count starts again, and in one shot mode CEN falls
\* while the ptimer runs on.
stm32_timer_tick ==
  /\ tim.timer.bh
  /\ LET u == stm32_timer_update_UIF([tim EXCEPT !.timer = TakeBh(@)], TRUE)
         c == stm32_timer_set_count(u, IF u.down THEN u.arr ELSE 0)
         m == [c EXCEPT !.down = IF c.CMS THEN ~@ ELSE @]
     IN  IF m.OneShot THEN tim' = [m EXCEPT !.CEN = FALSE]
         ELSE \E count \in Counts(stm32_timer_freq(m).timer) :
                tim' = stm32_timer_update(m, count)

TimNext ==
  \/ \E cen, oneshot, dir, cms \in BOOLEAN : WriteCR1(cen, oneshot, dir, cms)
  \/ \E uif \in BOOLEAN : WriteSR(uif)
  \/ WriteEGR
  \/ \E cnt \in CNTs : WriteCNT(cnt)
  \/ \E arr \in ARRs : WriteARR(arr)
  \/ \E period \in TimPeriods : WritePSC(period)
  \/ \E period \in TimPeriods \cup {0} : stm32_timer_clk_irq_handler(period)
  \/ Expire \/ stm32_timer_tick
-----------------------------------------------------------------------------
\* CEN and the ptimer behind it agree through expiries, late bottom halves,
\* reprogramming and changes of the clock: an enabled timer is counting or has
\* a bottom half on its way that restarts it, and outside one shot mode a
\* disabled one is stopped.  The exception is a timer that was enabled before
\* its clock: the ptimer refuses to run and the clock does not start it.
RunsWhileEnabled ==
  /\ tim.CEN /\ ~tim.deaf => tim.timer.enabled # 0 \/ tim.timer.bh
  /\ ~tim.CEN /\ ~tim.OneShot => tim.timer.enabled = 0
=============================================================================
