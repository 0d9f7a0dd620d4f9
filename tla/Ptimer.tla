------------------------------- MODULE Ptimer --------------------------------
(***************************************************************************)
(* QEMU's periodic timer, hw/core/ptimer.c, on which the general timers and *)
(* the RTC count.  A ptimer counts down from "delta"; at zero it does not   *)
(* call its device but schedules a bottom half, which the main loop runs    *)
(* later, once however often it was scheduled.  Virtual time is left out:   *)
(* an armed timer may expire at any moment, and a running counter has any   *)
(* value up to the one it started from.                                     *)
(***************************************************************************)
EXTENDS Integers

CONSTANT MinTimeout   \* 10000: no timeout is shorter, in nanoseconds

ptimer_init ==
  [enabled |-> 0,        \* 1: periodic, 2: one shot
   limit |-> 0, delta |-> 0, period |-> 0,
   armed |-> FALSE,      \* its QEMUTimer is pending
   bh |-> FALSE]         \* its bottom half is scheduled

\* The timer is armed, unless there is nothing to count; it is then left as it
\* is, which may be armed.
ptimer_reload(p) ==
  LET q == IF p.delta = 0 THEN [p EXCEPT !.bh = TRUE, !.delta = p.limit] ELSE p
  IN  IF q.delta = 0 \/ q.period = 0 THEN [q EXCEPT !.enabled = 0]
      ELSE [q EXCEPT !.armed = TRUE]

Reloaded(p) == IF p.enabled # 0 THEN ptimer_reload(p) ELSE p

\* The callback of the QEMUTimer
ptimer_tick(p) ==
  LET q == [p EXCEPT !.bh = TRUE, !.delta = 0, !.armed = FALSE]
  IN  IF p.enabled = 2 THEN [q EXCEPT !.enabled = 0] ELSE ptimer_reload(q)

\* The values ptimer_get_count may return
Counts(p) == IF p.enabled # 0 THEN 0..p.delta ELSE {p.delta}

ptimer_set_count(p, count) == Reloaded([p EXCEPT !.delta = count])

ptimer_run(p, oneshot) ==
  IF p.enabled # 0 \/ p.period = 0 THEN p
  ELSE ptimer_reload([p EXCEPT !.enabled = IF oneshot THEN 2 ELSE 1])

\* "count" is what ptimer_get_count returns.
ptimer_stop(p, count) ==
  IF p.enabled = 0 THEN p
  ELSE [p EXCEPT !.delta = count, !.armed = FALSE, !.enabled = 0]

ptimer_set_freq(p, period) == Reloaded([p EXCEPT !.period = period])

ptimer_set_limit(p, value, reload) ==
  LET limit == IF value * p.period < MinTimeout /\ p.period # 0
               THEN MinTimeout \div p.period ELSE value
  IN  IF reload THEN Reloaded([p EXCEPT !.limit = limit, !.delta = limit])
      ELSE [p EXCEPT !.limit = limit]

\* The main loop takes the bottom half off its list and calls the device.
TakeBh(p) == [p EXCEPT !.bh = FALSE]
=============================================================================
