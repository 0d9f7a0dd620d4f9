------------------------------- MODULE Stm32Rtc ------------------------------
(***************************************************************************)
(* The real-time clock, hw/timer/stm32_rtc.c.  Its counter and its alarm    *)
(* are pairs of half words that the firmware writes one at a time, while    *)
(* the bottom half stm32_rtc_tick counts on.  A write outside the           *)
(* configuration mode, or an access the register does not allow, ends the   *)
(* emulator (hw_error).                                                     *)
(***************************************************************************)
EXTENDS Ptimer

CONSTANTS
  Half,           \* 2^16
  Values,         \* values written to the half words
  Prescalers, RtcPeriods

VARIABLE rtc
\* freq: the period of RTCCLK, 0 while the RCC keeps it off; CRL and CRH: the
\* names of the bits set, an interrupt and its flag sharing one name; the halves
\* of CNT and ALR.  RTOFF is left out: it is set before a write returns.
\* Histories: "base" is the value a write of both halves of CNT left, counted
\* on, or NoBase after other writes; "high" is the upper half just written, as
\* long as no carry changed it.

Interrupts == {"SEC", "ALR", "OW"}
CRLBits == Interrupts \cup {"RSF", "CNF"}
NoBase == -1

RtcReset(ptimer, freq) ==
  [ptimer |-> ptimer, freq |-> freq, prescaler |-> 1, CRL |-> {}, CRH |-> {},
   CNTH |-> 0, CNTL |-> 0, ALRH |-> Half - 1, ALRL |-> Half - 1,
   ended |-> FALSE, base |-> 0, high |-> NoBase]

RtcInit == rtc = RtcReset(ptimer_init, 0)

\* The rest of a period is counted by a one shot ptimer that the tick starts
\* again.
Restarted(p, prescaler) == ptimer_run(ptimer_set_count(p, prescaler + 1), TRUE)

\* The interrupt is a pulse to the NVIC.  Bit numbers are used as masks: with
\* 0 | 1 | 2 as the mask, raising it clears the flags SECF and ALRF.
stm32_rtc_update_irq(r) ==
  IF r.CRH \cap r.CRL # {} THEN [r EXCEPT !.CRL = @ \ {"SEC", "ALR"}] ELSE r
-----------------------------------------------------------------------------
\* A clock that goes off leaves the ptimer running.
stm32_rtc_clk_irq_handler(period) ==
  /\ ~rtc.ended
  /\ rtc' = [rtc EXCEPT !.freq = period,
               !.ptimer = IF period = 0 THEN @
                          ELSE Restarted(ptimer_set_freq(@, period), rtc.prescaler)]

Expire == ~rtc.ended /\ rtc.ptimer.armed /\ rtc' = [rtc EXCEPT !.ptimer = ptimer_tick(@)]

\* Mutants: the carry is lost; the ptimer is restarted only when an interrupt
\* is enabled.
stm32_rtc_tickNoCarry ==
  /\ ~rtc.ended /\ rtc.ptimer.bh
  /\ LET r == [rtc EXCEPT !.CNTL = (@ + 1) % Half,
                 !.base = IF @ = NoBase THEN @ ELSE (@ + 1) % (Half * Half),
                 !.high = NoBase, !.CRL = @ \cup {"RSF"}]
     IN  rtc' = [stm32_rtc_update_irq(r) EXCEPT !.ptimer = Restarted(TakeBh(@), r.prescaler)]

stm32_rtc_tickQuiet ==
  /\ ~rtc.ended /\ rtc.ptimer.bh
  /\ rtc' = [rtc EXCEPT !.ptimer = IF rtc.CRH # {} THEN Restarted(TakeBh(@), rtc.prescaler)
                                   ELSE TakeBh(@)]

\* The bottom half.  SECF is set when any interrupt is enabled, ALRF when its
\* own is.
stm32_rtc_tick ==
  /\ ~rtc.ended /\ rtc.ptimer.bh
  /\ LET cnt == (rtc.CNTH * Half + rtc.CNTL + 1) % (Half * Half)
         alarm == "ALR" \in rtc.CRH /\ cnt = rtc.ALRH * Half + rtc.ALRL
         r == [rtc EXCEPT
                 !.CNTH = cnt \div Half, !.CNTL = cnt % Half,
                 !.base = IF @ = NoBase THEN @ ELSE (@ + 1) % (Half * Half),
                 !.high = IF cnt % Half = 0 THEN NoBase ELSE @,
                 !.CRL = @ \cup {"RSF"} \cup (IF rtc.CRH # {} THEN {"SEC"} ELSE {})
                           \cup (IF alarm THEN {"ALR"} ELSE {})]
     IN  rtc' = [stm32_rtc_update_irq(r) EXCEPT !.ptimer = Restarted(TakeBh(@), r.prescaler)]

\* CRH, without an update of the interrupt
WriteCRH(value) == ~rtc.ended /\ rtc' = [rtc EXCEPT !.CRH = value]

\* A flag of CRL stays set only where a 1 is written; CNF is written.
WriteCRL(value) ==
  /\ ~rtc.ended
  /\ rtc' = [rtc EXCEPT !.CRL = ((@ \cap value) \ {"CNF"}) \cup (value \cap {"CNF"})]

\* The registers of the configuration mode
Config(r) == ~rtc.ended /\ rtc' = IF "CNF" \in rtc.CRL THEN r ELSE [rtc EXCEPT !.ended = TRUE]

WritePRL(value) == Config([rtc EXCEPT !.prescaler = value])

WriteCNTH(value) == Config([rtc EXCEPT !.CNTH = value, !.high = value, !.base = NoBase])

WriteCNTL(value) ==
  Config([rtc EXCEPT !.CNTL = value, !.high = NoBase,
            !.base = IF rtc.high = NoBase THEN NoBase ELSE rtc.high * Half + value])

WriteALRH(value) == Config([rtc EXCEPT !.ALRH = value])

WriteALRL(value) == Config([rtc EXCEPT !.ALRL = value])

\* A read of PRLH or PRLL, a write of DIVH or DIVL
BadAccess == ~rtc.ended /\ rtc' = [rtc EXCEPT !.ended = TRUE]

\* A reset does not stop the ptimer.
stm32_rtc_reset == ~rtc.ended /\ rtc' = RtcReset(rtc.ptimer, rtc.freq)

RtcNext ==
  \/ \E period \in RtcPeriods \cup {0} : stm32_rtc_clk_irq_handler(period)
  \/ Expire \/ stm32_rtc_tick \/ stm32_rtc_reset \/ BadAccess
  \/ \E value \in SUBSET Interrupts : WriteCRH(value)
  \/ \E value \in SUBSET CRLBits : WriteCRL(value)
  \/ \E value \in Prescalers : WritePRL(value)
  \/ \E value \in Values :
       WriteCNTH(value) \/ WriteCNTL(value) \/ WriteALRH(value) \/ WriteALRL(value)
-----------------------------------------------------------------------------
\* Once RTCCLK was on, the clock never stops: the one shot ptimer is running or
\* the bottom half that restarts it is on its way, through every change of the
\* clock, of the prescaler and every reset.
RtcKeepsRunning ==
  rtc.ptimer.period # 0 => rtc.ptimer.enabled = 2 \/ rtc.ptimer.bh

\* After RTC_SetCounter has written both halves of the counter, it holds that
\* value and one more for every tick since, also across the carry from CNTL to
\* CNTH and the wrap at 2^32.  The exception is a carry between the two writes.
CounterExact ==
  rtc.base # NoBase => rtc.CNTH * Half + rtc.CNTL = rtc.base
=============================================================================
