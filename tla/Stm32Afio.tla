------------------------------ MODULE Stm32Afio ------------------------------
(***************************************************************************)
(* Alternate function I/O, hw/gpio/stm32_afio.c: which port each EXTI line  *)
(* listens to, and the USART remap bits.  A port is its index, 0 for GPIOA; *)
(* a nibble of AFIO_EXTICR above 6 names no port and is not written here.   *)
(***************************************************************************)
EXTENDS Integers

CONSTANTS
  PortIds,    \* indices of the ports in use, among 0..6, with 0
  ExtiLines   \* the EXTI lines in use, among 0..15

VARIABLES
  EXTICR,     \* AFIO_EXTICR: the nibble of each line
  conn,       \* the <<port, line>> whose in_irq leads to the EXTI
  REMAP       \* USART1_REMAP, USART2_REMAP, USART3_REMAP

afioVars == <<EXTICR, conn, REMAP>>

\* The ports whose pin reaches an EXTI line.
Sources(line) == {port \in PortIds : <<port, line>> \in conn}

\* The four lines of register "index".
LinesOf(index) == {line \in ExtiLines : line \div 4 = index}

\* AFIO_MAPR, which the USART1 and USART2 bits are extracted from, is never
\* assigned: it keeps the 0 it was allocated with.
AFIO_MAPR == 0

\* stm32_afio_AFIO_MAPR_write
MAPR_write(value) ==
  REMAP' = [USART1 |-> (AFIO_MAPR \div 4) % 2,
            USART2 |-> (AFIO_MAPR \div 8) % 2,
            USART3 |-> (value \div 16) % 4]

\* Mutant: the old connection is kept.
EXTICR_writeKeeps(index, value) ==
  LET new == {<<value[line], line>> : line \in LinesOf(index)}
  IN  /\ conn' = conn \cup new
      /\ EXTICR' = [line \in ExtiLines |->
                      IF line \in LinesOf(index) THEN value[line] ELSE EXTICR[line]]

\* stm32_afio_AFIO_EXTICR_write: each line is taken from its old port and
\* given to the new one.
EXTICR_write(index, value) ==
  LET old == {<<EXTICR[line], line>> : line \in LinesOf(index)}
      new == {<<value[line], line>> : line \in LinesOf(index)}
  IN  /\ conn' = (conn \ old) \cup new
      /\ EXTICR' = [line \in ExtiLines |->
                      IF line \in LinesOf(index) THEN value[line] ELSE EXTICR[line]]

WriteEXTICR(index, value) ==
  EXTICR_write(index, value) /\ UNCHANGED REMAP

WriteMAPR(value) ==
  MAPR_write(value) /\ UNCHANGED <<EXTICR, conn>>

\* Machine reset writes 0 to the five registers with init = true, which skips
\* the disconnection.
stm32_afio_reset ==
  /\ MAPR_write(0)
  /\ conn' = conn \cup {<<0, line>> : line \in ExtiLines}
  /\ EXTICR' = [line \in ExtiLines |-> 0]

\* The state after the reset that ends the machine's creation.
Init ==
  /\ EXTICR = [line \in ExtiLines |-> 0]
  /\ conn = {<<0, line>> : line \in ExtiLines}
  /\ REMAP = [USART1 |-> 0, USART2 |-> 0, USART3 |-> 0]

Next ==
  \/ \E index \in 0..3, value \in [ExtiLines -> PortIds] :
       LinesOf(index) # {} /\ WriteEXTICR(index, value)
  \/ \E bits \in 0..31 : WriteMAPR(bits * 4)
  \/ stm32_afio_reset

Spec == Init /\ [][Next]_afioVars
-----------------------------------------------------------------------------
\* A line that gets another source gets it in exchange for one it had, or by
\* a reset.
ResetAdds ==
  \A line \in ExtiLines : \A new \in Sources(line)' \ Sources(line) :
    \/ stm32_afio_reset
    \/ \E old \in Sources(line) : Sources(line)' = (Sources(line) \ {old}) \cup {new}

\* Only a reset leaves a line listening to more ports than before: rerouting
\* a line, even one with a stale connection, takes a source away for the one it
\* gives (stm32_afio_AFIO_EXTICR_write).
OnlyResetAddsSources == [][ResetAdds]_afioVars
=============================================================================
