------------------------------- MODULE Stm32Adc ------------------------------
(***************************************************************************)
(* The analog-digital converter, hw/arm/stm32_adc.c: single conversions     *)
(* started by software, the timer that completes them and the interrupt.    *)
(* The sample itself, made up when a conversion starts, and the sample      *)
(* times are left out, and so are the registers that are only stored.  With *)
(* them goes the clock: it sets the sample times, and a write without it    *)
(* gets a warning (stm32_rcc_check_periph_clk) and takes effect all the     *)
(* same.                                                                    *)
(***************************************************************************)
EXTENDS Integers

VARIABLE adc
\* EOC is the only flag of SR that is ever set; timer: conv_timer is armed;
\* irq: curr_irq_level, asserted unless 0;
\* ended: after a hw_error or a failed assertion.

Registers(a) == [a EXCEPT !.EOC = FALSE, !.EOCIE = FALSE, !.JEOCIE = FALSE, !.ADON = FALSE]

AdcInit ==
  adc = [EOC |-> FALSE, EOCIE |-> FALSE, JEOCIE |-> FALSE, ADON |-> FALSE,
         timer |-> FALSE, irq |-> 0, ended |-> FALSE]

\* CR1 >> 6 meets the unshifted SR: EOC and JEOCIE make bit 1 of the level.
Level(a) ==
  IF a.EOC THEN (IF a.EOCIE THEN 1 ELSE 0) + (IF a.JEOCIE THEN 2 ELSE 0) ELSE 0

\* Mutant: one bit is compared with one bit.
stm32_ADC_update_irqBit(a) ==
  IF Level(a) % 2 # a.irq % 2 THEN [a EXCEPT !.irq = Level(a)] ELSE a

\* One bit of the new level is compared with the whole old one.
stm32_ADC_update_irq(a) ==
  IF Level(a) % 2 # a.irq THEN [a EXCEPT !.irq = Level(a)] ELSE a

\* EOC falls without an update of the interrupt.
stm32_adc_start_conv(a) == [a EXCEPT !.EOC = FALSE, !.timer = TRUE]
-----------------------------------------------------------------------------
Fail == adc' = [adc EXCEPT !.ended = TRUE]

Write(ok, a) == ~adc.ended /\ IF ok THEN adc' = a ELSE Fail

\* SR takes nothing but zeros.
stm32_ADC_SR_write(zeros) == Write(zeros, stm32_ADC_update_irq([adc EXCEPT !.EOC = FALSE]))

WriteCR1(eocie, jeocie) ==
  Write(TRUE, stm32_ADC_update_irq([adc EXCEPT !.EOCIE = eocie, !.JEOCIE = jeocie]))

\* "analog": SQR3 holds one of the 18 channels, and its pin is an analog input,
\* or it has none.
stm32_ADC_CR2_write(adon, swstart, analog) ==
  LET a == [adc EXCEPT !.ADON = adon]
  IN  Write(swstart => adon /\ analog, IF swstart THEN stm32_adc_start_conv(a) ELSE a)

stm32_ADC_SQR1_write(single) == Write(single, adc)

stm32_ADC_DR_read ==
  /\ ~adc.ended
  /\ IF adc.ADON /\ adc.EOC THEN adc' = stm32_ADC_update_irq([adc EXCEPT !.EOC = FALSE])
     ELSE Fail

stm32_adc_conv_timer_expire ==
  /\ ~adc.ended /\ adc.timer
  /\ adc' = stm32_ADC_update_irq([adc EXCEPT !.timer = FALSE, !.EOC = TRUE])

\* The timer of a conversion in progress stays armed.
stm32_adc_reset == ~adc.ended /\ adc' = stm32_ADC_update_irq(Registers(adc))

AdcNext ==
  \/ \E b \in BOOLEAN : stm32_ADC_SR_write(b) \/ stm32_ADC_SQR1_write(b)
  \/ \E eocie, jeocie \in BOOLEAN : WriteCR1(eocie, jeocie)
  \/ \E adon, swstart, analog \in BOOLEAN : stm32_ADC_CR2_write(adon, swstart, analog)
  \/ stm32_ADC_DR_read \/ stm32_adc_conv_timer_expire \/ stm32_adc_reset
-----------------------------------------------------------------------------
\* The interrupt of a finished conversion is asserted as long as it is enabled,
\* and an asserted one can be explained: by the flag, or by a conversion that
\* was started over the last one and still runs; and by an enabled interrupt.
AdcIrqExplained ==
  /\ adc.EOC /\ adc.EOCIE => adc.irq # 0
  /\ adc.irq # 0 => adc.EOC \/ adc.timer
  /\ adc.irq # 0 => adc.EOCIE \/ adc.JEOCIE
=============================================================================
