----------------------------- MODULE PinRouting ------------------------------
(***************************************************************************)
(* From a pin to an interrupt line: the GPIO ports relay the edges of their *)
(* pins (stm32_gpio.c), the AFIO connects a port to each EXTI line          *)
(* (stm32_afio.c), the EXTI latches (stm32_exti.c).  Of the ports only the  *)
(* input levels matter: stm32_gpio_in_trigger looks at nothing else.        *)
(***************************************************************************)
EXTENDS Integers

CONSTANTS
  PortIds,    \* indices of the ports in use
  ExtiLines   \* the pins, and so the EXTI lines, in use

ASSUME RoutingAssumption ==
  PortIds \subseteq 0..6 /\ 0 \in PortIds /\ ExtiLines \subseteq 0..15

VARIABLES
  input,                       \* the <<port, pin>> that are high
  EXTICR, conn, REMAP,   \* the AFIO
  IMR, RTSR, FTSR, SWIER, PR, irq, abort,   \* the EXTI
  ever,       \* history: ports each line was routed to since power-on
  fresh       \* history: no machine reset since power-on

Afio == INSTANCE Stm32Afio
Exti == INSTANCE Stm32Exti WITH Lines <- ExtiLines

afioVars == <<EXTICR, conn, REMAP>>
extiVars == <<IMR, RTSR, FTSR, SWIER, PR, irq, abort>>
history == <<ever, fresh>>
vars == <<input, EXTICR, conn, REMAP,
          IMR, RTSR, FTSR, SWIER, PR, irq, abort, ever, fresh>>
-----------------------------------------------------------------------------
\* Mutant: every port relays the pin to the EXTI, connected or not.
in_triggerAlways(port, pin, level) ==
  /\ input' = IF level = 1 THEN input \cup {<<port, pin>>} ELSE input \ {<<port, pin>>}
  /\ Exti!stm32_exti_gpio_in_handler(pin, level)
  /\ UNCHANGED <<afioVars, history>>

\* The port records the level and raises or lowers in_irq, which leads to the
\* EXTI when the AFIO connected it.
stm32_gpio_in_trigger(port, pin, level) ==
  /\ input' = IF level = 1 THEN input \cup {<<port, pin>>} ELSE input \ {<<port, pin>>}
  /\ IF <<port, pin>> \in conn
     THEN Exti!stm32_exti_gpio_in_handler(pin, level)
     ELSE ~abort /\ UNCHANGED extiVars
  /\ UNCHANGED <<afioVars, history>>

\* The board reports changes only (stm32_f103_key_event, with
\* last_button_pressed the level last reported).
key_event(port, pin, level) ==
  /\ level = (IF <<port, pin>> \in input THEN 0 ELSE 1)
  /\ stm32_gpio_in_trigger(port, pin, level)

\* The guest writes a register of the AFIO (one that routes a line in use) or
\* of the EXTI.
WriteEXTICR(index, value) ==
  /\ ~abort
  /\ Afio!LinesOf(index) # {}
  /\ Afio!WriteEXTICR(index, value)
  /\ ever' = [line \in ExtiLines |-> ever[line] \cup {EXTICR'[line]}]
  /\ UNCHANGED <<input, extiVars, fresh>>

WriteExti(value) ==
  /\ \/ Exti!WriteIMR(value)
     \/ Exti!WriteRTSR(value)
     \/ Exti!WriteFTSR(value)
     \/ Exti!WriteSWIER(value)
     \/ Exti!WritePR(value)
  /\ UNCHANGED <<input, afioVars, history>>

\* qemu_system_reset resets every device; the ports keep their inputs.
Reset ==
  /\ Afio!stm32_afio_reset
  /\ Exti!stm32_exti_reset
  /\ ever' = [line \in ExtiLines |-> ever[line] \cup {0}]
  /\ fresh' = FALSE
  /\ UNCHANGED input

Init ==
  /\ input = {}
  /\ Afio!Init
  /\ Exti!Init
  /\ ever = [line \in ExtiLines |-> {0}]
  /\ fresh = TRUE

Next ==
  \/ \E port \in PortIds, pin \in ExtiLines, level \in {0, 1} : key_event(port, pin, level)
  \/ \E index \in 0..3, value \in [ExtiLines -> PortIds] : WriteEXTICR(index, value)
  \/ \E value \in SUBSET ExtiLines : WriteExti(value)
  \/ Reset

Spec == Init /\ [][Next]_vars
-----------------------------------------------------------------------------
\* A connection the AFIO has not made at some time does not exist, and before
\* the first machine reset there is exactly one per line.
ConnectionsExplained ==
  /\ ~abort
  /\ \A line \in ExtiLines :
       /\ EXTICR[line] \in Afio!Sources(line)
       /\ Afio!Sources(line) \subseteq ever[line]
       /\ fresh => Afio!Sources(line) = {EXTICR[line]}

\* The three devices together keep the promise of EdgeLatch: each line latches
\* the edges of the pin it is routed to, none is dropped by rerouting, masking
\* or acknowledging other lines, and no other pin is heard unless a reset left
\* its connection behind.
Latch == INSTANCE EdgeLatch
  WITH pins <- input, sel <- EXTICR, unmasked <- IMR,
       rising <- RTSR, falling <- FTSR, latched <- PR
LatchSpec == Latch!Spec
=============================================================================
