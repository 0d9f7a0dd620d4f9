---------------------------- MODULE RoutingProofs ----------------------------
(***************************************************************************)
(* PinRouting implements EdgeLatch, for every set of ports and lines.  The  *)
(* inductive invariant is ConnectionsExplained with the types of what it    *)
(* talks about; the EXTI's part of a step is the change of its pending set. *)
(***************************************************************************)
EXTENDS PinRouting, TLAPS

Registers ==
  /\ IMR \subseteq ExtiLines /\ RTSR \subseteq ExtiLines /\ FTSR \subseteq ExtiLines
  /\ SWIER \subseteq ExtiLines /\ PR \subseteq ExtiLines

Routes ==
  /\ EXTICR \in [ExtiLines -> PortIds]
  /\ conn \subseteq PortIds \X ExtiLines
  /\ ever \in [ExtiLines -> SUBSET PortIds]
  /\ fresh \in BOOLEAN
  /\ \A line \in ExtiLines :
       /\ <<EXTICR[line], line>> \in conn
       /\ \A port \in PortIds : <<port, line>> \in conn => port \in ever[line]
       /\ fresh => \A port \in PortIds : <<port, line>> \in conn => port = EXTICR[line]

IInv == Registers /\ Routes /\ ~abort

\* Routes says of pairs what ConnectionsExplained says of sets of sources.
LEMMA Explained == IInv => ConnectionsExplained
<1> SUFFICES ASSUME IInv, NEW line \in ExtiLines
             PROVE  /\ EXTICR[line] \in Afio!Sources(line)
                    /\ Afio!Sources(line) \subseteq ever[line]
                    /\ fresh => Afio!Sources(line) = {EXTICR[line]}
  BY DEF ConnectionsExplained, IInv
<1>1. /\ EXTICR[line] \in PortIds
      /\ <<EXTICR[line], line>> \in conn
      /\ \A port \in PortIds : <<port, line>> \in conn => port \in ever[line]
      /\ fresh => \A port \in PortIds : <<port, line>> \in conn => port = EXTICR[line]
  BY DEF IInv, Routes
<1>2. Afio!Sources(line) = {port \in PortIds : <<port, line>> \in conn}
  BY DEF Afio!Sources
<1> QED BY <1>1, <1>2

\* What stm32_exti_change_EXTI_PR_bit does to the pending set; line 19, whose
\* change fails an assertion, has no pin.
LEMMA Pending ==
  ASSUME Registers, ~abort,
         NEW S, S \subseteq ExtiLines,
         NEW value \in {0, 1},
         NEW swier, swier \subseteq ExtiLines,
         Exti!stm32_exti_change_EXTI_PR_bit(S, value, swier)
  PROVE  /\ PR' = IF value = 1 THEN PR \cup S ELSE PR \ S
         /\ SWIER' \subseteq ExtiLines /\ PR' \subseteq ExtiLines
         /\ ~abort'
<1>1. 19 \notin ExtiLines
  BY RoutingAssumption DEF RoutingAssumption
<1>2. /\ PR' = IF value = 1 THEN PR \cup (S \ PR) ELSE PR \ (S \cap PR)
      /\ SWIER' = IF value = 1 THEN swier ELSE swier \ (S \cap PR)
      /\ abort' = (19 \in IF value = 1 THEN S \ PR ELSE S \cap PR)
  BY DEF Exti!stm32_exti_change_EXTI_PR_bit
<1>3. PR \subseteq ExtiLines
  BY DEF Registers
<1>4. PR' = IF value = 1 THEN PR \cup S ELSE PR \ S
  BY <1>2
<1>5. ~abort'
  <2>1. 19 \notin IF value = 1 THEN S \ PR ELSE S \cap PR
    BY <1>1, <1>3
  <2> QED BY <1>2, <2>1, Zenon
<1>6. SWIER' \subseteq ExtiLines /\ PR' \subseteq ExtiLines
  BY <1>2, <1>3
<1> QED BY <1>4, <1>5, <1>6

\* An edge of a pin: heard exactly when the port is connected to the line.
LEMMA EdgeStep ==
  ASSUME IInv, NEW port \in PortIds, NEW pin \in ExtiLines, NEW level \in {0, 1},
         key_event(port, pin, level)
  PROVE  IInv' /\ Latch!Edge(port, pin)
<1> DEFINE armed == IF level = 1 THEN RTSR ELSE FTSR
<1>1. /\ level = (IF <<port, pin>> \in input THEN 0 ELSE 1)
      /\ input' = IF level = 1 THEN input \cup {<<port, pin>>} ELSE input \ {<<port, pin>>}
      /\ UNCHANGED <<EXTICR, conn, ever, fresh>>
      /\ <<port, pin>> \notin conn => UNCHANGED extiVars
      /\ <<port, pin>> \in conn => Exti!stm32_exti_gpio_in_handler(pin, level)
  BY DEF key_event, stm32_gpio_in_trigger, afioVars, history
<1>2. Registers /\ Routes /\ ~abort
  BY DEF IInv
<1>3. Routes'
  BY <1>1, <1>2 DEF Routes
<1>4. ASSUME <<port, pin>> \in conn
      PROVE  Registers' /\ ~abort' /\ PR' = PR \cup ({pin} \cap armed \cap IMR)
  <2>1. UNCHANGED <<IMR, RTSR, FTSR>>
    BY <1>1, <1>4 DEF Exti!stm32_exti_gpio_in_handler
  <2>2. CASE pin \in armed
    <3>1. PICK S \in SUBSET ExtiLines : S = {pin} \cap IMR
      <4>1. {pin} \cap IMR \in SUBSET ExtiLines
        BY <1>2 DEF Registers
      <4> QED BY <4>1, Zenon
    <3>2. Exti!stm32_exti_change_EXTI_PR_bit(S, 1, SWIER)
      BY <1>1, <1>4, <2>2, <3>1 DEF Exti!stm32_exti_gpio_in_handler, Exti!stm32_exti_trigger
    <3>3. SWIER \subseteq ExtiLines
      BY <1>2 DEF Registers
    <3>4. PR' = PR \cup S /\ SWIER' \subseteq ExtiLines /\ PR' \subseteq ExtiLines /\ ~abort'
      <4>1. S \subseteq ExtiLines
        OBVIOUS
      <4>2. /\ PR' = IF 1 = 1 THEN PR \cup S ELSE PR \ S
            /\ SWIER' \subseteq ExtiLines /\ PR' \subseteq ExtiLines /\ ~abort'
        BY <1>2, <3>2, <3>3, <4>1, Pending, Zenon
      <4> QED BY <4>2
    <3>5. PR' = PR \cup ({pin} \cap armed \cap IMR)
      BY <2>2, <3>1, <3>4
    <3>6. Registers'
      BY <1>2, <2>1, <3>4, Zenon DEF Registers
    <3> QED BY <3>4, <3>5, <3>6
  <2>3. CASE pin \notin armed
    <3>1. UNCHANGED <<SWIER, PR, abort>>
      BY <1>1, <1>4, <2>3 DEF Exti!stm32_exti_gpio_in_handler
    <3>2. Registers' /\ ~abort'
      BY <1>2, <2>1, <3>1, Zenon DEF Registers
    <3>3. PR' = PR \cup ({pin} \cap armed \cap IMR)
      BY <2>3, <3>1
    <3> QED BY <3>2, <3>3
  <2> QED BY <2>2, <2>3
<1>5. ASSUME <<port, pin>> \notin conn
      PROVE  Registers' /\ ~abort' /\ PR' = PR
  <2>1. UNCHANGED IMR /\ UNCHANGED RTSR /\ UNCHANGED FTSR
        /\ UNCHANGED SWIER /\ UNCHANGED PR /\ UNCHANGED abort
    BY <1>1, <1>5 DEF extiVars
  <2> QED BY <1>2, <2>1, Zenon DEF Registers
<1>6. UNCHANGED <<IMR, RTSR, FTSR>>
  <2>1. CASE <<port, pin>> \in conn
    BY <1>1, <2>1 DEF Exti!stm32_exti_gpio_in_handler
  <2>2. CASE <<port, pin>> \notin conn
    BY <1>1, <2>2 DEF extiVars
  <2> QED BY <2>1, <2>2
<1>7. IInv'
  BY <1>3, <1>4, <1>5 DEF IInv
<1>8. <<port, pin>> \in conn => Latch!MayHear(port, pin)
  <2>1. /\ <<port, pin>> \in conn => port \in ever[pin]
        /\ fresh => (<<port, pin>> \in conn => port = EXTICR[pin])
    BY <1>2, Zenon DEF Routes
  <2> QED BY <2>1, Zenon DEF Latch!MayHear
<1>9. <<port, pin>> \notin conn => ~Latch!MustHear(port, pin)
  BY <1>2 DEF Routes, Latch!MustHear
<1>10. Latch!Edge(port, pin)
  <2>1. CASE level = 1
    <3>1. <<port, pin>> \notin input /\ input' = input \cup {<<port, pin>>}
      BY <1>1, <2>1
    <3>2. \/ Latch!MayHear(port, pin) /\ Latch!Hear(pin, RTSR)
          \/ ~Latch!MustHear(port, pin) /\ PR' = PR
      BY <1>4, <1>5, <1>8, <1>9, <2>1 DEF Latch!Hear
    <3> QED BY <1>1, <1>6, <3>1, <3>2 DEF Latch!Edge
  <2>2. CASE level = 0
    <3>1. <<port, pin>> \in input /\ input' = input \ {<<port, pin>>}
      BY <1>1, <2>2
    <3>2. \/ Latch!MayHear(port, pin) /\ Latch!Hear(pin, FTSR)
          \/ ~Latch!MustHear(port, pin) /\ PR' = PR
      BY <1>4, <1>5, <1>8, <1>9, <2>2 DEF Latch!Hear
    <3> QED BY <1>1, <1>6, <3>1, <3>2 DEF Latch!Edge
  <2> QED BY <2>1, <2>2
<1> QED BY <1>7, <1>10

\* Rerouting lines takes each of them from the port it was routed to.
LEMMA RouteStep ==
  ASSUME IInv, NEW index \in 0..3, NEW value \in [ExtiLines -> PortIds],
         WriteEXTICR(index, value)
  PROVE  IInv' /\ \E new \in [ExtiLines -> PortIds] : Latch!Route(new)
<1> DEFINE Set == Afio!LinesOf(index)
           new == [line \in ExtiLines |-> IF line \in Set THEN value[line] ELSE EXTICR[line]]
<1>1. Registers /\ Routes /\ ~abort
  BY DEF IInv
<1>2. /\ conn' = (conn \ {<<EXTICR[line], line>> : line \in Set})
                   \cup {<<value[line], line>> : line \in Set}
      /\ EXTICR' = new
      /\ ever' = [line \in ExtiLines |-> ever[line] \cup {EXTICR'[line]}]
      /\ input' = input /\ fresh' = fresh
      /\ IMR' = IMR /\ RTSR' = RTSR /\ FTSR' = FTSR
      /\ SWIER' = SWIER /\ PR' = PR /\ abort' = abort
  BY DEF WriteEXTICR, Afio!WriteEXTICR, Afio!EXTICR_write, extiVars
<1>3. Set \subseteq ExtiLines
  BY DEF Afio!LinesOf
<1> HIDE DEF Set
<1>4. /\ EXTICR \in [ExtiLines -> PortIds] /\ conn \subseteq PortIds \X ExtiLines
      /\ ever \in [ExtiLines -> SUBSET PortIds]
      /\ new \in [ExtiLines -> PortIds]
  BY <1>1 DEF Routes
<1>5. \A port \in PortIds, line \in ExtiLines :
        <<port, line>> \in conn' <=> IF line \in Set
                                    THEN \/ port = value[line]
                                         \/ port # EXTICR[line] /\ <<port, line>> \in conn
                                    ELSE <<port, line>> \in conn
  BY <1>2, <1>3, <1>4
<1>6. /\ EXTICR' \in [ExtiLines -> PortIds] /\ conn' \subseteq PortIds \X ExtiLines
      /\ ever' \in [ExtiLines -> SUBSET PortIds] /\ fresh' \in BOOLEAN
  <2>1. EXTICR' \in [ExtiLines -> PortIds]
    BY <1>2, <1>4
  <2>2. conn' \subseteq PortIds \X ExtiLines
    BY <1>2, <1>3, <1>4
  <2>3. ever' \in [ExtiLines -> SUBSET PortIds]
    BY <1>2, <1>4, <2>1
  <2>4. fresh' \in BOOLEAN
    BY <1>1, <1>2, Zenon DEF Routes
  <2> QED BY <2>1, <2>2, <2>3, <2>4
<1>7. ASSUME NEW line \in ExtiLines
      PROVE  /\ <<EXTICR'[line], line>> \in conn'
             /\ \A port \in PortIds : <<port, line>> \in conn' => port \in ever'[line]
             /\ fresh => \A port \in PortIds : <<port, line>> \in conn' => port = EXTICR'[line]
  <2>1. /\ <<EXTICR[line], line>> \in conn
        /\ \A port \in PortIds : <<port, line>> \in conn => port \in ever[line]
        /\ fresh => \A port \in PortIds : <<port, line>> \in conn => port = EXTICR[line]
    BY <1>1 DEF Routes
  <2>2. /\ EXTICR'[line] = IF line \in Set THEN value[line] ELSE EXTICR[line]
        /\ ever'[line] = ever[line] \cup {EXTICR'[line]}
        /\ EXTICR'[line] \in PortIds /\ EXTICR[line] \in PortIds
    BY <1>2, <1>4, <1>6
  <2>3. <<EXTICR'[line], line>> \in conn'
    BY <1>5, <2>1, <2>2
  <2>4. ASSUME NEW port \in PortIds, <<port, line>> \in conn'
        PROVE  port \in ever'[line] /\ (fresh => port = EXTICR'[line])
    <3>1. CASE line \in Set
      BY <1>5, <2>1, <2>2, <2>4, <3>1
    <3>2. CASE line \notin Set
      BY <1>5, <2>1, <2>2, <2>4, <3>2
    <3> QED BY <3>1, <3>2
  <2> QED BY <2>3, <2>4
<1>8. Routes'
  BY <1>2, <1>6, <1>7 DEF Routes
<1>9. Registers' /\ ~abort'
  BY <1>1, <1>2, Zenon DEF Registers
<1>10. Latch!Route(new)
  <2>1. ever' = [line \in ExtiLines |-> ever[line] \cup {new[line]}]
    BY <1>2
  <2> HIDE DEF new
  <2> QED BY <1>2, <2>1 DEF Latch!Route
<1> QED BY <1>4, <1>8, <1>9, <1>10 DEF IInv

\* The writes to the EXTI leave the routes alone.
LEMMA ExtiStep ==
  ASSUME IInv, NEW value \in SUBSET ExtiLines, WriteExti(value)
  PROVE  IInv' /\ Latch!Next
<1>1. Registers /\ Routes /\ ~abort /\ SWIER \subseteq ExtiLines /\ value \subseteq ExtiLines
  BY DEF IInv, Registers
<1>2. /\ input' = input /\ EXTICR' = EXTICR /\ conn' = conn
      /\ ever' = ever /\ fresh' = fresh
  BY DEF WriteExti, afioVars, history
<1>3. Routes'
  BY <1>1, <1>2 DEF Routes
<1>4. ASSUME Exti!WriteIMR(value)
      PROVE  Registers' /\ ~abort' /\ Latch!Mask(value)
  <2>1. /\ IMR' = value /\ RTSR' = RTSR /\ FTSR' = FTSR
        /\ SWIER' = SWIER /\ PR' = PR /\ abort' = abort
    BY <1>4 DEF Exti!WriteIMR
  <2>2. Registers' /\ ~abort'
    BY <1>1, <2>1, Zenon DEF Registers
  <2> QED BY <1>2, <2>1, <2>2 DEF Latch!Mask
<1>5. ASSUME Exti!WriteRTSR(value)
      PROVE  Registers' /\ ~abort' /\ Latch!Listen(value, FTSR)
  <2>1. PICK S \in SUBSET ExtiLines : S = (RTSR \ value) \cup (value \ RTSR)
    BY <1>1, Zenon DEF Registers
  <2>2. Exti!stm32_exti_change_EXTI_PR_bit(S, 0, SWIER)
    BY <1>5, <2>1 DEF Exti!WriteRTSR, Exti!update_TSR_bit
  <2>3. /\ PR' = IF 0 = 1 THEN PR \cup S ELSE PR \ S
        /\ SWIER' \subseteq ExtiLines /\ PR' \subseteq ExtiLines /\ ~abort'
    <3>1. S \subseteq ExtiLines
      OBVIOUS
    <3> QED BY <1>1, <2>2, <3>1, Pending, Zenon
  <2>4. IMR' = IMR /\ RTSR' = value /\ FTSR' = FTSR
    BY <1>5 DEF Exti!WriteRTSR
  <2>5. Registers'
    BY <1>1, <2>3, <2>4, Zenon DEF Registers
  <2>6. PR' = {line \in PR : /\ line \in RTSR <=> line \in value
                             /\ line \in FTSR <=> line \in FTSR}
    BY <2>1, <2>3
  <2> QED BY <1>2, <2>3, <2>4, <2>5, <2>6 DEF Latch!Listen
<1>6. ASSUME Exti!WriteFTSR(value)
      PROVE  Registers' /\ ~abort' /\ Latch!Listen(RTSR, value)
  <2>1. PICK S \in SUBSET ExtiLines : S = (FTSR \ value) \cup (value \ FTSR)
    BY <1>1, Zenon DEF Registers
  <2>2. Exti!stm32_exti_change_EXTI_PR_bit(S, 0, SWIER)
    BY <1>6, <2>1 DEF Exti!WriteFTSR, Exti!update_TSR_bit
  <2>3. /\ PR' = IF 0 = 1 THEN PR \cup S ELSE PR \ S
        /\ SWIER' \subseteq ExtiLines /\ PR' \subseteq ExtiLines /\ ~abort'
    <3>1. S \subseteq ExtiLines
      OBVIOUS
    <3> QED BY <1>1, <2>2, <3>1, Pending, Zenon
  <2>4. IMR' = IMR /\ RTSR' = RTSR /\ FTSR' = value
    BY <1>6 DEF Exti!WriteFTSR
  <2>5. Registers'
    BY <1>1, <2>3, <2>4, Zenon DEF Registers
  <2>6. PR' = {line \in PR : /\ line \in RTSR <=> line \in RTSR
                             /\ line \in FTSR <=> line \in value}
    BY <2>1, <2>3
  <2> QED BY <1>2, <2>3, <2>4, <2>5, <2>6 DEF Latch!Listen
<1>7. ASSUME Exti!WriteSWIER(value)
      PROVE  Registers' /\ ~abort' /\ \E S \in SUBSET ExtiLines : Latch!Trigger(S)
  <2>1. PICK S \in SUBSET ExtiLines : S = (value \ SWIER) \cap IMR
    BY <1>1, Zenon DEF Registers
  <2>2. PICK swier \in SUBSET ExtiLines : swier = SWIER \cup value
    BY <1>1, Zenon
  <2>3. Exti!stm32_exti_change_EXTI_PR_bit(S, 1, swier)
    BY <1>7, <2>1, <2>2 DEF Exti!WriteSWIER, Exti!stm32_exti_trigger
  <2>4. /\ PR' = IF 1 = 1 THEN PR \cup S ELSE PR \ S
        /\ SWIER' \subseteq ExtiLines /\ PR' \subseteq ExtiLines /\ ~abort'
    <3>1. S \subseteq ExtiLines /\ swier \subseteq ExtiLines
      OBVIOUS
    <3> QED BY <1>1, <2>3, <3>1, Pending, Zenon
  <2>5. IMR' = IMR /\ RTSR' = RTSR /\ FTSR' = FTSR
    BY <1>7 DEF Exti!WriteSWIER
  <2>6. Registers'
    BY <1>1, <2>4, <2>5, Zenon DEF Registers
  <2>7. PR' = PR \cup (S \cap IMR)
    BY <2>1, <2>4
  <2>8. Latch!Trigger(S)
    BY <1>2, <2>5, <2>7 DEF Latch!Trigger
  <2> QED BY <2>4, <2>6, <2>8
<1>8. ASSUME Exti!WritePR(value)
      PROVE  Registers' /\ ~abort' /\ Latch!Acknowledge(value)
  <2>1. Exti!stm32_exti_change_EXTI_PR_bit(value, 0, SWIER)
    BY <1>8 DEF Exti!WritePR
  <2>2. /\ PR' = IF 0 = 1 THEN PR \cup value ELSE PR \ value
        /\ SWIER' \subseteq ExtiLines /\ PR' \subseteq ExtiLines /\ ~abort'
    BY <1>1, <2>1, Pending, Zenon
  <2>3. IMR' = IMR /\ RTSR' = RTSR /\ FTSR' = FTSR
    BY <1>8 DEF Exti!WritePR
  <2>4. Registers'
    BY <1>1, <2>2, <2>3, Zenon DEF Registers
  <2> QED BY <1>2, <2>2, <2>3, <2>4 DEF Latch!Acknowledge
<1>9. Registers' /\ ~abort' /\ Latch!Next
  BY <1>4, <1>5, <1>6, <1>7, <1>8, Zenon DEF WriteExti, Latch!Next
<1> QED BY <1>3, <1>9 DEF IInv

\* A machine reset keeps old connections and adds the one to port 0.
LEMMA ResetStep == IInv /\ Reset => IInv' /\ Latch!Reset
<1> SUFFICES ASSUME IInv, Reset PROVE IInv' /\ Latch!Reset
  OBVIOUS
<1>1. /\ conn' = conn \cup {<<0, line>> : line \in ExtiLines}
      /\ EXTICR' = [line \in ExtiLines |-> 0]
      /\ ever' = [line \in ExtiLines |-> ever[line] \cup {0}]
      /\ fresh' = FALSE /\ input' = input
      /\ IMR' = {} /\ RTSR' = {} /\ FTSR' = {} /\ SWIER' = {} /\ PR' = {}
      /\ abort' = abort
  BY DEF Reset, Afio!stm32_afio_reset, Exti!stm32_exti_reset
<1>2. Routes /\ ~abort /\ 0 \in PortIds
  BY RoutingAssumption DEF IInv, RoutingAssumption
<1>3. Routes'
  <2>1. /\ EXTICR \in [ExtiLines -> PortIds] /\ conn \subseteq PortIds \X ExtiLines
        /\ ever \in [ExtiLines -> SUBSET PortIds]
    BY <1>2 DEF Routes
  <2>2. /\ EXTICR' \in [ExtiLines -> PortIds] /\ conn' \subseteq PortIds \X ExtiLines
        /\ ever' \in [ExtiLines -> SUBSET PortIds] /\ fresh' \in BOOLEAN
    <3>1. EXTICR' \in [ExtiLines -> PortIds]
      BY <1>1, <1>2
    <3>2. conn' \subseteq PortIds \X ExtiLines
      BY <1>1, <1>2, <2>1
    <3>3. ever' \in [ExtiLines -> SUBSET PortIds]
      BY <1>1, <1>2, <2>1
    <3>4. fresh' \in BOOLEAN
      BY <1>1, Zenon
    <3> QED BY <3>1, <3>2, <3>3, <3>4, Zenon
  <2>3. ASSUME NEW line \in ExtiLines
        PROVE  /\ <<EXTICR'[line], line>> \in conn'
               /\ \A port \in PortIds : <<port, line>> \in conn' => port \in ever'[line]
    <3>1. \A port \in PortIds : <<port, line>> \in conn => port \in ever[line]
      BY <1>2, Zenon DEF Routes
    <3>2. EXTICR'[line] = 0 /\ ever'[line] = ever[line] \cup {0}
      BY <1>1, <2>1
    <3> QED BY <1>1, <3>1, <3>2
  <2> QED BY <1>1, <2>2, <2>3 DEF Routes
<1>4. Registers' /\ ~abort'
  BY <1>1, <1>2, Zenon DEF Registers
<1> QED BY <1>1, <1>3, <1>4 DEF IInv, Latch!Reset

\* After stm32_init nothing is latched, in the code and in the abstract latch.
LEMMA Initially == Init => IInv /\ Latch!Init
<1> SUFFICES ASSUME Init PROVE IInv /\ Latch!Init
  OBVIOUS
<1>1. /\ input = {} /\ EXTICR = [line \in ExtiLines |-> 0]
      /\ conn = {<<0, line>> : line \in ExtiLines}
      /\ IMR = {} /\ RTSR = {} /\ FTSR = {} /\ SWIER = {} /\ PR = {} /\ abort = FALSE
      /\ ever = [line \in ExtiLines |-> {0}] /\ fresh = TRUE
  BY DEF Init, Afio!Init, Exti!Init
<1>2. 0 \in PortIds
  BY RoutingAssumption DEF RoutingAssumption
<1>3. Routes
  BY <1>1, <1>2 DEF Routes
<1>4. Registers /\ ~abort
  BY <1>1, Zenon DEF Registers
<1> QED BY <1>1, <1>3, <1>4 DEF IInv, Latch!Init

\* Every step keeps the invariant and is a step of the abstract latch, or none.
LEMMA Step == IInv /\ [Next]_vars => IInv' /\ [Latch!Next]_Latch!latchVars
<1> SUFFICES ASSUME IInv, [Next]_vars PROVE IInv' /\ [Latch!Next]_Latch!latchVars
  OBVIOUS
<1>1. ASSUME NEW port \in PortIds, NEW pin \in ExtiLines, NEW level \in {0, 1},
             key_event(port, pin, level)
      PROVE  IInv' /\ Latch!Next
  BY <1>1, EdgeStep, Zenon DEF Latch!Next
<1>2. ASSUME NEW index \in 0..3, NEW value \in [ExtiLines -> PortIds],
             WriteEXTICR(index, value)
      PROVE  IInv' /\ Latch!Next
  BY <1>2, RouteStep, Zenon DEF Latch!Next
<1>3. ASSUME NEW value \in SUBSET ExtiLines, WriteExti(value)
      PROVE  IInv' /\ Latch!Next
  BY <1>3, ExtiStep, Zenon
<1>4. CASE Reset
  BY <1>4, ResetStep, Zenon DEF Latch!Next
<1>5. CASE UNCHANGED vars
  BY <1>5 DEF vars, IInv, Registers, Routes, Latch!latchVars
<1> QED BY <1>1, <1>2, <1>3, <1>4, <1>5, Zenon DEF Next

\* The connections of the AFIO are always explained by the guest's writes and
\* the machine resets, and no edge or write stops the emulator.
THEOREM ConnectionsCorrect == Spec => []ConnectionsExplained
<1>1. Init => IInv
  BY Initially
<1>2. IInv /\ [Next]_vars => IInv'
  BY Step
<1> QED BY <1>1, <1>2, Explained, PTL DEF Spec

\* GPIO, AFIO and EXTI together implement EdgeLatch.
THEOREM Implements == Spec => LatchSpec
<1>1. Init => IInv /\ Latch!Init
  BY Initially
<1>2. IInv /\ [Next]_vars => IInv' /\ [Latch!Next]_Latch!latchVars
  BY Step
<1> QED BY <1>1, <1>2, PTL DEF Spec, LatchSpec, Latch!Spec
=============================================================================
