------------------------------ MODULE Stm32Exti ------------------------------
(***************************************************************************)
(* The external interrupt controller, hw/gpio/stm32_exti.c.  A register is  *)
(* the set of lines whose bit is set.  A register write visits the lines    *)
(* one by one; every pending bit it changes goes in the same direction, so  *)
(* the loop's effect is that of changing all of them at once.               *)
(***************************************************************************)
EXTENDS Integers

CONSTANTS
  Lines       \* the lines whose bits the guest writes

EXTI_LINE_COUNT == 20
GpioLines == Lines \cap (0..15)

\* The outputs stm32_init wires to the NVIC; number 8 (line 17) is left open.
Irqs == (0..9) \ {8}

ASSUME ExtiAssumption == Lines \subseteq 0..(EXTI_LINE_COUNT - 1)

VARIABLES
  IMR, RTSR, FTSR, SWIER, PR,  \* the registers
  irq,        \* level of each wired output
  abort       \* a failed assert ended the process

extiRegs == <<IMR, RTSR, FTSR, SWIER, PR>>
extiVars == <<extiRegs, irq, abort>>

\* Mutant: line 4 is taken for one of the shared ones.
IrqOfOffByOne(pos) == IF pos < 4 THEN pos
                      ELSE IF pos <= 9 THEN 5
                      ELSE IF pos <= 15 THEN 6
                      ELSE pos - 9

\* Lines 5-9 and 10-15 share an output.  There is none for line 19: the last
\* branch of stm32_exti_change_EXTI_PR_bit is assert(false).
IrqOf(pos) == IF pos <= 4 THEN pos
              ELSE IF pos <= 9 THEN 5
              ELSE IF pos <= 15 THEN 6
              ELSE pos - 9
-----------------------------------------------------------------------------
\* Mutants: the software interrupt bit outlives the pending bit; an
\* acknowledgement does not lower the output.
change_PR_keepsSWIER(S, value, swier) ==
  LET changed == IF value = 1 THEN S \ PR ELSE S \cap PR
  IN  /\ PR' = IF value = 1 THEN PR \cup changed ELSE PR \ changed
      /\ SWIER' = swier
      /\ irq' = [i \in Irqs |-> IF \E l \in changed : IrqOf(l) = i
                                THEN value ELSE irq[i]]
      /\ abort' = (19 \in changed)

change_PR_noIrqClear(S, value, swier) ==
  LET changed == IF value = 1 THEN S \ PR ELSE S \cap PR
  IN  /\ PR' = IF value = 1 THEN PR \cup changed ELSE PR \ changed
      /\ SWIER' = IF value = 1 THEN swier ELSE swier \ changed
      /\ irq' = [i \in Irqs |-> IF \E l \in changed : IrqOf(l) = i /\ value = 1
                                THEN value ELSE irq[i]]
      /\ abort' = (19 \in changed)

\* stm32_exti_change_EXTI_PR_bit for every line of S, with swier the software
\* interrupt bits its caller left.
stm32_exti_change_EXTI_PR_bit(S, value, swier) ==
  LET changed == IF value = 1 THEN S \ PR ELSE S \cap PR
  IN  /\ PR' = IF value = 1 THEN PR \cup changed ELSE PR \ changed
      /\ SWIER' = IF value = 1 THEN swier ELSE swier \ changed
      /\ irq' = [i \in Irqs |-> IF \E l \in changed : IrqOf(l) = i
                                THEN value ELSE irq[i]]
      /\ abort' = (19 \in changed)

\* Only lines that are not masked become pending.
stm32_exti_trigger(S, swier) ==
  stm32_exti_change_EXTI_PR_bit(S \cap IMR, 1, swier)

\* A GPIO relays an edge of the pin connected to the line.
stm32_exti_gpio_in_handler(pin, level) ==
  /\ ~abort
  /\ IF pin \in (IF level = 1 THEN RTSR ELSE FTSR)
     THEN stm32_exti_trigger({pin}, SWIER)
     ELSE UNCHANGED <<SWIER, PR, irq, abort>>
  /\ UNCHANGED <<IMR, RTSR, FTSR>>
-----------------------------------------------------------------------------
(***************************************************************************)
(* Register writes by the guest; reads have no effect.                      *)
(***************************************************************************)
WriteIMR(value) ==
  /\ ~abort
  /\ IMR' = value
  /\ UNCHANGED <<RTSR, FTSR, SWIER, PR, irq, abort>>

\* update_TSR_bit: a line whose trigger selection changes stops pending.
update_TSR_bit(old, value) ==
  stm32_exti_change_EXTI_PR_bit((old \ value) \cup (value \ old), 0, SWIER)

WriteRTSR(value) ==
  /\ ~abort
  /\ update_TSR_bit(RTSR, value)
  /\ RTSR' = value
  /\ UNCHANGED <<IMR, FTSR>>

WriteFTSR(value) ==
  /\ ~abort
  /\ update_TSR_bit(FTSR, value)
  /\ FTSR' = value
  /\ UNCHANGED <<IMR, RTSR>>

\* Only a bit that goes from 0 to 1 triggers.
WriteSWIER(value) ==
  /\ ~abort
  /\ stm32_exti_trigger(value \ SWIER, SWIER \cup value)
  /\ UNCHANGED <<IMR, RTSR, FTSR>>

\* Writing 1 clears.
WritePR(value) ==
  /\ ~abort
  /\ stm32_exti_change_EXTI_PR_bit(value, 0, SWIER)
  /\ UNCHANGED <<IMR, RTSR, FTSR>>

\* Machine reset; the interrupt controller forgets its levels at the same
\* time (arm_gic_common_reset), the EXTI does not touch its outputs.
stm32_exti_reset ==
  /\ ~abort
  /\ IMR' = {} /\ RTSR' = {} /\ FTSR' = {} /\ SWIER' = {} /\ PR' = {}
  /\ irq' = [i \in Irqs |-> 0]
  /\ UNCHANGED abort

Init ==
  /\ IMR = {} /\ RTSR = {} /\ FTSR = {} /\ SWIER = {} /\ PR = {}
  /\ irq = [i \in Irqs |-> 0]
  /\ abort = FALSE

Next ==
  \/ \E v \in SUBSET Lines :
       WriteIMR(v) \/ WriteRTSR(v) \/ WriteFTSR(v) \/ WriteSWIER(v) \/ WritePR(v)
  \/ \E pin \in GpioLines, level \in {0, 1} : stm32_exti_gpio_in_handler(pin, level)
  \/ stm32_exti_reset

Spec == Init /\ [][Next]_extiVars
-----------------------------------------------------------------------------
\* The registers hold bits of existing lines, an output is high or low.
TypeOK ==
  /\ IMR \subseteq Lines /\ RTSR \subseteq Lines /\ FTSR \subseteq Lines
  /\ SWIER \subseteq Lines /\ PR \subseteq Lines
  /\ irq \in [Irqs -> {0, 1}]
  /\ abort \in BOOLEAN

\* An output that is high has a pending line behind it: whatever sequence of
\* edges, software triggers, acknowledgements and trigger changes led there,
\* the interrupt handler finds a pending bit to serve.
NoSpuriousIrq ==
  ~abort => \A i \in Irqs : irq[i] = 1 => \E l \in PR : IrqOf(l) = i

\* A line that does not share its output drives it with its pending bit.
PrivateIrqFollowsPending ==
  ~abort => \A l \in Lines :
    l \in (0..4) \cup {16, 18} => (irq[IrqOf(l)] = 1 <=> l \in PR)

\* A line that stops pending, by acknowledgement, change of trigger selection
\* or reset, can be triggered by software again: its SWIER bit, which ignores
\* further writes while set, is cleared with the pending bit.
AcknowledgeRearms ==
  [][\A l \in PR : l \notin PR' => l \notin SWIER']_extiVars

\* "Set the Pending flag for this line, which will trigger the interrupt"
\* (stm32_exti_trigger): a pending line keeps its output raised, also when it
\* shares the output with others.
PendingRaisesIrq ==
  ~abort => \A l \in PR : IrqOf(l) \in Irqs => irq[IrqOf(l)] = 1
=============================================================================
