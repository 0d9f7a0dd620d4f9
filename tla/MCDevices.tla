------------------------------ MODULE MCDevices -------------------------------
(***************************************************************************)
(* The devices of the board, each by itself.  They share no state until     *)
(* something connects them, so a guest that drives one of them while the    *)
(* others rest meets every state that they have side by side.               *)
(***************************************************************************)
EXTENDS Stm32Exti, Stm32Iwdg, Stm32Dma

CONSTANTS
  Ports, Pins, Configs,                        \* the GPIO
  PortIds, ExtiLines,                          \* the AFIO
  MinTimeout,                                  \* the periodic timers
  ARRs, CNTs, TimPeriods, CountWord,           \* a general timer
  Half, Values, Prescalers, RtcPeriods         \* the RTC

ASSUME DevicesAssumption ==
  /\ Half \in Nat \ {0} /\ Values \subseteq 0..(Half - 1) /\ Prescalers \subseteq Nat
  /\ 0 \in PortIds

VARIABLES
  CRy, ODR, input, dir_mask, out,   \* the GPIO ports
  EXTICR, conn, REMAP,              \* the AFIO
  tim, rtc, adc,
  driven                            \* the device the guest drives

\* Transmission, reception, circular buffers of words and at the data register, a
\* copy, and a circular transmission of half words, which is refused.
Use(flags, size, ndtr, par, mar) ==
  [DIR |-> "DIR" \in flags, CIRC |-> "CIRC" \in flags, PINC |-> "PINC" \in flags,
   MINC |-> "MINC" \in flags, MEM2MEM |-> "MEM2MEM" \in flags, psize |-> size, msize |-> size,
   ndtr |-> ndtr, par |-> par, mar |-> mar]
DmaUses ==
  {Use({"DIR", "MINC"}, 0, 2, 14, 1), Use({"MINC"}, 0, 2, 14, 3),
   Use({"CIRC", "MINC"}, 2, 2, 12, 5), Use({"MEM2MEM", "PINC", "MINC"}, 2, 2, 1, 5),
   Use({"CIRC"}, 0, 2, 14, 3), Use({"CIRC", "DIR"}, 1, 1, 12, 1)}

Gpio == INSTANCE Stm32Gpio
Afio == INSTANCE Stm32Afio
Tim == INSTANCE Stm32Timer
Rtc == INSTANCE Stm32Rtc
Adc == INSTANCE Stm32Adc

gpioVars == <<CRy, ODR, input, dir_mask, out>>
afioVars == <<EXTICR, conn, REMAP>>
otherVars == <<tim, rtc, dma, adc>>
devicesVars == <<extiVars, iwdgVars, gpioVars, afioVars, otherVars, driven>>

DevicesInit ==
  /\ Init /\ IwdgInit /\ Gpio!Init /\ Afio!Init
  /\ Tim!TimInit /\ Rtc!RtcInit /\ DmaInit /\ Adc!AdcInit
  /\ driven \in {"exti", "gpio", "afio", "iwdg", "tim", "rtc", "dma", "adc"}

Iwdg(step) ==
  driven = "iwdg" /\ step /\ UNCHANGED <<extiVars, gpioVars, afioVars, otherVars, driven>>

DevicesNext ==
  \/ /\ driven = "exti" /\ Next
     /\ UNCHANGED <<iwdgVars, gpioVars, afioVars, otherVars, driven>>
  \/ /\ driven = "gpio" /\ Gpio!Next
     /\ UNCHANGED <<extiVars, iwdgVars, afioVars, otherVars, driven>>
  \/ /\ driven = "afio" /\ Afio!Next
     /\ UNCHANGED <<extiVars, iwdgVars, gpioVars, otherVars, driven>>
  \/ Iwdg(IwdgNext)
  \/ /\ \/ driven = "tim" /\ Tim!TimNext /\ UNCHANGED <<rtc, dma, adc>>
        \/ driven = "rtc" /\ Rtc!RtcNext /\ UNCHANGED <<tim, dma, adc>>
        \/ driven = "dma" /\ DmaNext /\ UNCHANGED <<tim, rtc, adc>>
        \/ driven = "adc" /\ Adc!AdcNext /\ UNCHANGED <<tim, rtc, dma>>
     /\ UNCHANGED <<extiVars, iwdgVars, gpioVars, afioVars, driven>>

\* The fairness of the watchdog's specification
DevicesSpec ==
  /\ DevicesInit /\ [][DevicesNext]_devicesVars
  /\ WF_devicesVars(Iwdg(Elapse)) /\ WF_devicesVars(Iwdg(iwdg_timer_expired))
  /\ WF_devicesVars(Iwdg(qemu_system_reset))
-----------------------------------------------------------------------------
\* Driving only the bits that change (stm32_gpio_GPIOx_ODR_write) never takes
\* an output pin out of step with its register.
OutputsStayInSync == Gpio!OutputsStayInSync

\* Rerouting a line (stm32_afio_AFIO_EXTICR_write) never adds a source to it,
\* whatever connections earlier resets left behind.
OnlyResetAddsSources == Afio!OnlyResetAddsSources

\* An enabled general timer (stm32_timer.c) is counting or about to be
\* restarted, a disabled one is stopped.
RunsWhileEnabled == Tim!RunsWhileEnabled

\* The RTC (stm32_rtc.c) never stops once its clock was on.
RtcKeepsRunning == Rtc!RtcKeepsRunning

\* The two halves of the RTC's counter hold what was written and the ticks
\* since.
CounterExact == Rtc!CounterExact

\* The interrupt of the ADC (stm32_adc.c) is there when it must be, and only
\* then.
AdcIrqExplained == Adc!AdcIrqExplained
=============================================================================
