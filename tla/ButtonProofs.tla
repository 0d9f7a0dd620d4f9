----------------------------- MODULE ButtonProofs -----------------------------
(***************************************************************************)
(* Proofs about ButtonLed, for any number of resets.  The inductive         *)
(* invariant follows a press through the board: the EXTI's pending bit is   *)
(* the level of its output, which is the level the NVIC knows; a pending    *)
(* interrupt has that level behind it; and from its entry until it          *)
(* acknowledges, the handler owns the bit, because main's writes that could *)
(* clear it all come before the interrupt is enabled.                       *)
(***************************************************************************)
EXTENDS ButtonLed, TLAPS

\* The EXTI: only line 0 and its rising edge are used.
ExtiInv ==
  /\ IMR \subseteq {0} /\ RTSR \subseteq {0} /\ FTSR = {}
  /\ SWIER \subseteq {0} /\ PR \subseteq {0}
  /\ irq[0] = (IF 0 \in PR THEN 1 ELSE 0)
  /\ ~abort

\* What main has set up before its next access.
MainInv ==
  /\ pc \in 1..14 /\ tmp \subseteq {0}
  /\ pc < 11 => RTSR = {} /\ PR = {}
  /\ pc > 7 => IMR = {0}
  /\ enabled = IF pc > 12 THEN {EXTI0} ELSE {}

\* What gic_update leaves behind when there is one interrupt.
Updated ==
  IF EXTI0 \in enabled \cap pending
  THEN /\ current_pending = EXTI0
       /\ parent_irq = IF prio[EXTI0] < running_priority THEN 1 ELSE 0
  ELSE current_pending = Nvic!None /\ parent_irq = 0

\* The NVIC's registers.
LineInv ==
  /\ level = (IF 0 \in PR THEN {EXTI0} ELSE {})
  /\ pending \subseteq {EXTI0}
  /\ prio \in [{EXTI0} -> 0..255] /\ last_active \in [{EXTI0} -> Int]
  /\ Updated
  /\ ~fault

\* Outside the handler an enabled interrupt is pending when its line is up.
ThreadInv ==
  exception = 0 =>
    /\ magic = FALSE /\ frames = <<>> /\ hpc = "test"
    /\ running_irq = Nvic!None /\ running_priority = 256
    /\ pending = IF pc > 12 THEN level ELSE {}

\* In it, the bit stays set until it is acknowledged.
HandlerInv ==
  exception = EXTI0 =>
    /\ pc > 12 /\ frames = <<<<0, FALSE>>>>
    /\ running_irq = EXTI0 /\ running_priority = prio[EXTI0]
    /\ last_active[EXTI0] = Nvic!None
    /\ magic \in BOOLEAN /\ (magic => hpc = "test")
    /\ ~magic /\ hpc # "return" => 0 \in PR /\ pending = {}
    /\ pending \subseteq level

DemoInv ==
  /\ exception \in {0, EXTI0}
  /\ hpc \in {"test", "write", "clear", "return"}
  /\ led_status \in {0, 1} /\ latches \in {0, 1}
  /\ OneTogglePerLatch

IInv == ExtiInv /\ MainInv /\ LineInv /\ ThreadInv /\ HandlerInv /\ DemoInv
-----------------------------------------------------------------------------
\* NVIC_Init writes a priority of eight bits.
LEMMA PriorityFits == NVIC_priority(0, 15, 15) \in 0..255
<1> DEFINE bits == lsl(15, 4 - 7) + (15 % (lsr(15, 7) + 1))
<1>1. (0 \div 256) % 8 = 0 /\ 7 - 0 = 7
  OBVIOUS
<1>2. lsl(15, 4 - 7) \in Int
  <2>1. (4 - 7) % 256 \in Nat
    <3>1. \A x \in Int : x % 256 \in Nat OBVIOUS
    <3>2. 4 - 7 \in Int OBVIOUS
    <3> QED BY <3>1, <3>2, Zenon
  <2>2. 2^((4 - 7) % 256) \in Int BY <2>1
  <2> QED BY <2>2 DEF lsl
<1>3. lsr(15, 7) \in Nat
  <2>1. 7 % 256 = 7 /\ 2^7 \in Int /\ 2^7 > 0 OBVIOUS
  <2> QED BY <2>1 DEF lsr
<1>4. bits \in Int
  BY <1>2, <1>3
<1>5. NVIC_priority(0, 15, 15) = (bits * 16) % 256
  BY <1>1, ZenonT(60) DEF NVIC_priority
<1> HIDE DEF bits
<1> QED BY <1>4, <1>5

\* What stm32_exti_change_EXTI_PR_bit does to line 0: the output follows.
LEMMA ChangeBits ==
  ASSUME ExtiInv, NEW S \in SUBSET {0}, NEW value \in {0, 1}, NEW swier \in SUBSET {0},
         Exti!stm32_exti_change_EXTI_PR_bit(S, value, swier)
  PROVE  /\ PR' = (IF value = 1 THEN PR \cup S ELSE PR \ S)
         /\ PR' \subseteq {0} /\ SWIER' \subseteq {0}
         /\ irq'[0] = (IF 0 \in PR' THEN 1 ELSE 0)
         /\ ~abort'
<1> DEFINE changed == IF value = 1 THEN S \ PR ELSE S \cap PR
<1>1. /\ PR' = (IF value = 1 THEN PR \cup changed ELSE PR \ changed)
      /\ SWIER' = (IF value = 1 THEN swier ELSE swier \ changed)
      /\ irq' = [i \in Exti!Irqs |-> IF \E l \in changed : Exti!IrqOf(l) = i
                                     THEN value ELSE irq[i]]
      /\ abort' = (19 \in changed)
  BY Zenon DEF Exti!stm32_exti_change_EXTI_PR_bit
<1>2. PR \subseteq {0} /\ irq[0] = (IF 0 \in PR THEN 1 ELSE 0) /\ changed \subseteq {0}
  BY DEF ExtiInv
<1>3. 0 \in Exti!Irqs /\ Exti!IrqOf(0) = 0
  BY DEF Exti!Irqs, Exti!IrqOf
<1>4. (\E l \in changed : Exti!IrqOf(l) = 0) <=> 0 \in changed
  BY <1>2, <1>3
<1>5. irq'[0] = IF 0 \in changed THEN value ELSE irq[0]
  BY <1>1, <1>3, <1>4
<1>6. 19 \notin changed
  BY <1>2
<1>7. ~abort'
  BY <1>1, <1>6, Zenon
<1>8. /\ PR' = (IF value = 1 THEN PR \cup S ELSE PR \ S)
      /\ PR' \subseteq {0} /\ SWIER' \subseteq {0}
  BY <1>1, <1>2
<1>9. irq'[0] = (IF 0 \in PR' THEN 1 ELSE 0)
  BY <1>1, <1>2, <1>5
<1> QED BY <1>7, <1>8, <1>9

\* gic_update leaves that.
LEMMA Update ==
  ASSUME Nvic!gic_update, pending' \subseteq {EXTI0} PROVE Updated'
<1>1. CASE EXTI0 \in enabled' \cap pending'
  BY <1>1 DEF Nvic!gic_update, Updated
<1>2. CASE EXTI0 \notin enabled' \cap pending'
  <2>1. enabled' \cap pending' = {}
    BY <1>2
  <2> QED BY <1>2, <2>1, Zenon DEF Nvic!gic_update, Updated
<1> QED BY <1>1, <1>2

\* What the EXTI's output does to the NVIC: only a rising line becomes pending.
LEMMA Ring ==
  ASSUME ExtiInv, LineInv, enabled \subseteq {EXTI0}, PR' \subseteq {0},
         irq'[0] = (IF 0 \in PR' THEN 1 ELSE 0), Wired
  PROVE  /\ UNCHANGED <<enabled, running_irq, running_priority, exception, magic, frames>>
         /\ UNCHANGED <<last_active, prio>>
         /\ pending' = (IF 0 \in PR' \ PR THEN pending \cup enabled ELSE pending)
         /\ latches' = (IF 0 \in PR' \ PR THEN 1 - latches ELSE latches)
         /\ LineInv'
<1> DEFINE rose == 0 \in PR' \ PR
           fell == 0 \in PR \ PR'
<1>1. /\ PR \subseteq {0} /\ irq[0] = (IF 0 \in PR THEN 1 ELSE 0)
      /\ level = (IF 0 \in PR THEN {EXTI0} ELSE {})
      /\ pending \subseteq {EXTI0} /\ Updated /\ ~fault
      /\ prio \in [{EXTI0} -> 0..255] /\ last_active \in [{EXTI0} -> Int]
  BY Zenon DEF ExtiInv, LineInv
<1>2. PR' \ PR # {} <=> rose
  BY <1>1, Zenon
<1>3. /\ irq'[0] # irq[0] => Nvic!gic_set_irq(EXTI0, irq'[0])
      /\ irq'[0] = irq[0] => UNCHANGED nvicVars
      /\ latches' = (IF rose THEN 1 - latches ELSE latches)
  BY <1>2, Zenon DEF Wired
<1>4. CASE rose \/ fell
  <2>1. irq'[0] = (IF rose THEN 1 ELSE 0) /\ irq'[0] # irq[0] /\ (irq'[0] = 1 <=> rose)
    BY <1>1, <1>4
  <2>2. Nvic!gic_set_irq(EXTI0, irq'[0])
    BY <1>3, <2>1, Zenon
  <2>3. /\ level' = (IF irq'[0] = 1 THEN level \cup {EXTI0} ELSE level \ {EXTI0})
        /\ pending' = (IF irq'[0] = 1 THEN pending \cup ({EXTI0} \cap enabled) ELSE pending)
        /\ UNCHANGED <<enabled, prio>> /\ Nvic!Unmoved /\ Nvic!gic_update
    BY <2>2, Zenon DEF Nvic!gic_set_irq
  <2>4. /\ UNCHANGED <<enabled, running_irq, running_priority, exception, magic, frames>>
        /\ UNCHANGED <<last_active, prio>> /\ fault' = fault
    BY <2>3 DEF Nvic!Unmoved
  <2>5. level' = (IF 0 \in PR' THEN {EXTI0} ELSE {})
    BY <1>1, <1>4, <2>1, <2>3
  <2>6. /\ pending' = (IF rose THEN pending \cup enabled ELSE pending)
        /\ pending' \subseteq {EXTI0}
    BY <1>1, <2>1, <2>3
  <2>7. Updated'
    BY <2>3, <2>6, Update, Zenon
  <2>8. LineInv'
    BY <1>1, <2>4, <2>5, <2>6, <2>7, Zenon DEF LineInv
  <2> QED BY <1>3, <2>4, <2>6, <2>8, Zenon
<1>5. CASE ~rose /\ ~fell
  <2>1. PR' = PR /\ irq'[0] = irq[0]
    <3>1. 0 \in PR' <=> 0 \in PR BY <1>5, Zenon
    <3>2. CASE 0 \in PR
      <4>1. PR = {0} /\ PR' = {0} BY <1>1, <3>1, <3>2, ZenonT(60)
      <4> QED BY <1>1, <3>1, <3>2, <4>1
    <3>3. CASE 0 \notin PR
      <4>1. PR = {} /\ PR' = {} BY <1>1, <3>1, <3>3
      <4> QED BY <1>1, <3>1, <3>3, <4>1
    <3> QED BY <3>2, <3>3
  <2>2. UNCHANGED nvicVars
    BY <1>3, <2>1, Zenon
  <2>3. /\ UNCHANGED <<enabled, running_irq, running_priority, exception, magic, frames>>
        /\ UNCHANGED <<last_active, prio>>
        /\ level' = level /\ pending' = pending /\ fault' = fault
        /\ current_pending' = current_pending /\ parent_irq' = parent_irq
    BY <2>2 DEF nvicVars
  <2>4. Updated'
    BY <1>1, <2>3 DEF Updated
  <2>5. LineInv'
    BY <1>1, <2>1, <2>3, <2>4, Zenon DEF LineInv
  <2> QED BY <1>3, <1>5, <2>3, <2>5, Zenon
<1> QED BY <1>4, <1>5

\* A set of lines 0 is empty when it lacks line 0.
LEMMA Bit == \A S \in SUBSET {0} : S # {} <=> 0 \in S
BY Zenon

\* The devices when no access reaches them.
LEMMA Idle ==
  ASSUME ExtiInv, LineInv, UNCHANGED <<extiVars, nvicVars>>
  PROVE  /\ ExtiInv' /\ LineInv'
         /\ UNCHANGED <<enabled, running_irq, running_priority, exception, magic, frames>>
         /\ UNCHANGED <<last_active, prio, level, pending, PR, IMR, RTSR>>
<1>1. /\ UNCHANGED <<enabled, running_irq, running_priority, exception, magic, frames>>
      /\ UNCHANGED <<last_active, prio, level, pending, PR, IMR, RTSR>>
      /\ UNCHANGED <<FTSR, SWIER, irq, abort, fault, current_pending, parent_irq>>
  BY Zenon DEF extiVars, nvicVars
<1>2. ExtiInv'
  BY <1>1, Zenon DEF ExtiInv
<1>3. Updated'
  BY <1>1, Zenon DEF Updated, LineInv
<1>4. LineInv'
  BY <1>1, <1>3, Zenon DEF LineInv
<1> QED BY <1>1, <1>2, <1>4, Zenon

\* The output does not enable or disable.
LEMMA Enabled == ASSUME Wired PROVE enabled' = enabled
BY Zenon DEF Wired, Nvic!gic_set_irq, nvicVars

\* A step that latches line 0, or leaves it alone.
LEMMA Latching ==
  ASSUME IInv, ExtiInv', MainInv', Wired, PR \subseteq PR',
         pc' > 12 <=> pc > 12, UNCHANGED <<hpc, led_status, demo>>
  PROVE  IInv'
<1> DEFINE rose == 0 \in PR' \ PR
<1>1. ExtiInv /\ MainInv /\ LineInv /\ ThreadInv /\ HandlerInv /\ DemoInv
  BY Zenon DEF IInv
<1>2. /\ PR \subseteq {0} /\ PR' \subseteq {0}
      /\ irq'[0] = (IF 0 \in PR' THEN 1 ELSE 0)
  BY <1>1, Zenon DEF ExtiInv
<1>3. enabled = (IF pc > 12 THEN {EXTI0} ELSE {}) /\ enabled \subseteq {EXTI0}
  BY <1>1 DEF MainInv
<1>4. /\ UNCHANGED <<enabled, running_irq, running_priority, exception, magic, frames>>
      /\ UNCHANGED <<last_active, prio>>
      /\ pending' = (IF rose THEN pending \cup enabled ELSE pending)
      /\ latches' = (IF rose THEN 1 - latches ELSE latches)
      /\ LineInv'
  BY <1>1, <1>2, <1>3, Ring, Zenon
<1>5. /\ level = (IF 0 \in PR THEN {EXTI0} ELSE {})
      /\ level' = (IF 0 \in PR' THEN {EXTI0} ELSE {})
      /\ pending \subseteq {EXTI0}
  BY <1>1, <1>4, Zenon DEF LineInv
<1>6. 0 \in PR' <=> 0 \in PR \/ rose
  OBVIOUS
<1>7. ThreadInv'
  <2> SUFFICES ASSUME exception = 0
               PROVE  /\ magic' = FALSE /\ frames' = <<>> /\ hpc' = "test"
                      /\ running_irq' = Nvic!None /\ running_priority' = 256
                      /\ pending' = IF pc' > 12 THEN level' ELSE {}
    BY <1>4, Zenon DEF ThreadInv
  <2>1. /\ magic = FALSE /\ frames = <<>> /\ hpc = "test"
        /\ running_irq = Nvic!None /\ running_priority = 256
        /\ pending = IF pc > 12 THEN level ELSE {}
    BY <1>1, Zenon DEF ThreadInv
  <2>2. pending' = IF pc' > 12 THEN level' ELSE {}
    <3> HIDE DEF rose
    <3> QED BY <1>3, <1>4, <1>5, <1>6, <2>1, Zenon
  <2> QED BY <1>4, <2>1, <2>2, Zenon
<1>8. HandlerInv'
  <2> SUFFICES ASSUME exception = EXTI0
               PROVE  /\ pc' > 12 /\ frames' = <<<<0, FALSE>>>>
                      /\ running_irq' = EXTI0 /\ running_priority' = prio'[EXTI0]
                      /\ last_active'[EXTI0] = Nvic!None
                      /\ magic' \in BOOLEAN /\ (magic' => hpc' = "test")
                      /\ ~magic' /\ hpc' # "return" => 0 \in PR' /\ pending' = {}
                      /\ pending' \subseteq level'
    BY <1>4, Zenon DEF HandlerInv
  <2>1. /\ pc > 12 /\ frames = <<<<0, FALSE>>>>
        /\ running_irq = EXTI0 /\ running_priority = prio[EXTI0]
        /\ last_active[EXTI0] = Nvic!None
        /\ magic \in BOOLEAN /\ (magic => hpc = "test")
        /\ ~magic /\ hpc # "return" => 0 \in PR /\ pending = {}
        /\ pending \subseteq level
    BY <1>1, Zenon DEF HandlerInv
  <2>2. 0 \in PR => 0 \in PR' /\ pending' = pending
    BY <1>4, <1>6, Zenon
  <2>3. pending' \subseteq level'
    <3> HIDE DEF rose
    <3> QED BY <1>3, <1>4, <1>5, <1>6, <2>1
  <2> QED BY <1>4, <2>1, <2>2, <2>3, Zenon
<1>9. DemoInv'
  <2>1. /\ exception' \in {0, EXTI0} /\ hpc' \in {"test", "write", "clear", "return"}
        /\ led_status' \in {0, 1} /\ latches \in {0, 1}
    BY <1>1, <1>4, Zenon DEF DemoInv
  <2>2. rose => hpc # "clear"
    BY <1>1, Zenon DEF ThreadInv, HandlerInv, DemoInv
  <2>3. latches' \in {0, 1}
    BY <1>4, <2>1
  <2>4. OneTogglePerLatch'
    <3> SUFFICES ASSUME demo # "button_int_infinite"
                 PROVE  led_status = IF 0 \in PR' /\ hpc # "clear"
                                     THEN 1 - latches' ELSE latches'
      BY <1>2, Bit, Zenon DEF OneTogglePerLatch
    <3>1. led_status = IF 0 \in PR /\ hpc # "clear" THEN 1 - latches ELSE latches
      BY <1>1, <1>2, Bit, Zenon DEF OneTogglePerLatch, DemoInv
    <3>2. CASE rose
      BY <1>4, <2>1, <2>2, <3>1, <3>2
    <3>3. CASE ~rose
      <4>1. 0 \in PR' <=> 0 \in PR BY <1>6, <3>3, Zenon
      <4> QED BY <1>4, <3>1, <3>3, <4>1, Zenon
    <3> QED BY <3>2, <3>3
  <2> QED BY <2>1, <2>3, <2>4, Zenon DEF DemoInv
<1> QED BY <1>4, <1>7, <1>8, <1>9, Zenon DEF IInv

\* A key: an edge reaches the EXTI if the AFIO connects the pin, and only a
\* rising one is armed, from the write "rtsr on" of main on.
LEMMA KeyStep ==
  ASSUME IInv, NEW make \in BOOLEAN, stm32_f103_key_event(make) PROVE IInv'
<1> DEFINE edge == IF make THEN 1 ELSE 0
           armed == IF edge = 1 THEN RTSR ELSE FTSR
<1>1. ExtiInv /\ MainInv
  BY Zenon DEF IInv
<1>2. /\ <<0, 0>> \in conn => Exti!stm32_exti_gpio_in_handler(0, edge)
      /\ <<0, 0>> \notin conn => UNCHANGED extiVars
      /\ Wired /\ UNCHANGED <<guestVars, demo>>
  BY Zenon DEF stm32_f103_key_event
<1>3. pc' = pc /\ tmp' = tmp /\ UNCHANGED <<hpc, led_status, demo>>
  BY <1>2, Zenon DEF guestVars
<1>4. /\ IMR \subseteq {0} /\ RTSR \subseteq {0} /\ FTSR = {}
      /\ SWIER \subseteq {0} /\ PR \subseteq {0} /\ ~abort
  BY <1>1, Zenon DEF ExtiInv
<1>5. CASE <<0, 0>> \in conn /\ 0 \in armed
  <2>1. /\ Exti!stm32_exti_change_EXTI_PR_bit({0} \cap IMR, 1, SWIER)
        /\ UNCHANGED <<IMR, RTSR, FTSR>>
    BY <1>2, <1>5, Zenon DEF Exti!stm32_exti_gpio_in_handler, Exti!stm32_exti_trigger
  <2>2. 0 \in RTSR
    BY <1>4, <1>5
  <2>3. {0} \cap IMR \in SUBSET {0} /\ SWIER \in SUBSET {0} /\ 1 \in {0, 1}
    BY <1>4
  <2>4. /\ PR' = (IF 1 = 1 THEN PR \cup ({0} \cap IMR) ELSE PR \ ({0} \cap IMR))
        /\ PR' \subseteq {0} /\ SWIER' \subseteq {0}
        /\ irq'[0] = (IF 0 \in PR' THEN 1 ELSE 0) /\ ~abort'
    BY <1>1, <2>1, <2>3, ChangeBits, Zenon
  <2>5. PR \subseteq PR'
    BY <2>4
  <2>6. ExtiInv'
    BY <1>4, <2>1, <2>4, Zenon DEF ExtiInv
  <2>7. ~(pc < 11)
    BY <1>1, <2>2, Zenon DEF MainInv
  <2>8. enabled' = enabled
    BY <1>2, Enabled, Zenon
  <2>9. MainInv'
    BY <1>1, <1>3, <2>1, <2>7, <2>8, Zenon DEF MainInv
  <2> QED BY <1>2, <1>3, <2>5, <2>6, <2>9, Latching, Zenon
<1>6. CASE ~(<<0, 0>> \in conn /\ 0 \in armed)
  <2>1. UNCHANGED <<IMR, RTSR, FTSR, SWIER, PR, irq, abort>>
    <3>1. CASE <<0, 0>> \in conn
      BY <1>2, <1>6, <3>1, Zenon DEF Exti!stm32_exti_gpio_in_handler
    <3>2. CASE <<0, 0>> \notin conn
      BY <1>2, <3>2, Zenon DEF extiVars
    <3> QED BY <3>1, <3>2
  <2>2. ExtiInv'
    BY <1>1, <2>1, Zenon DEF ExtiInv
  <2>3. enabled' = enabled
    BY <1>2, Enabled, Zenon
  <2>4. MainInv'
    BY <1>1, <1>3, <2>1, <2>3, Zenon DEF MainInv
  <2>5. PR \subseteq PR' BY <2>1
  <2> QED BY <1>2, <1>3, <2>2, <2>4, <2>5, Latching, Zenon
<1> QED BY <1>5, <1>6, Zenon

\* Which devices the accesses of main reach.
LEMMA Accesses ==
  ASSUME NEW access, Do(access)
  PROVE  \/ /\ access \in {"led off", "led output", "button input", "exticr"}
            /\ UNCHANGED <<extiVars, nvicVars, latches>>
         \/ access = "imr off" /\ Exti!WriteIMR(IMR \ {0}) /\ Wired
         \/ access = "imr on" /\ Exti!WriteIMR(IMR \cup {0}) /\ Wired
         \/ access = "rtsr off" /\ Exti!WriteRTSR(RTSR \ {0}) /\ Wired
         \/ access = "ftsr off" /\ Exti!WriteFTSR(FTSR \ {0}) /\ Wired
         \/ access = "rtsr on" /\ Exti!WriteRTSR(RTSR \cup {0}) /\ Wired
         \/ /\ access = "priority" /\ UNCHANGED <<extiVars, latches>>
            /\ Nvic!SetPriority(EXTI0, NVIC_priority(0, 15, 15))
         \/ /\ access = "enable" /\ UNCHANGED <<extiVars, latches>>
            /\ Nvic!SetEnable({EXTI0})
BY ZenonT(60) DEF Do, GPIO_WriteBit, GPIO_Init, GpioOnly, ExtiOnly, NvicOnly

\* The order of the accesses.
LEMMA Order ==
  /\ Len(Main) = 12
  /\ Main[1] = "led off" /\ Main[2] = "led output" /\ Main[3] = "button input"
  /\ Main[4] = "exticr" /\ Main[5] = "exticr" /\ Main[6] = "imr off"
  /\ Main[7] = "imr on" /\ Main[8] = "rtsr off" /\ Main[9] = "ftsr off"
  /\ Main[10] = "rtsr on" /\ Main[11] = "priority" /\ Main[12] = "enable"
BY DEF Main

\* Each access is made at its place.
LEMMA Places ==
  ASSUME NEW i \in 1..12
  PROVE  /\ Main[i] \in {"led off", "led output", "button input", "exticr"} => i \in 1..5
         /\ Main[i] = "imr off" => i = 6
         /\ Main[i] = "imr on" => i = 7
         /\ Main[i] = "rtsr off" => i = 8
         /\ Main[i] = "ftsr off" => i = 9
         /\ Main[i] = "rtsr on" => i = 10
         /\ Main[i] = "priority" => i = 11
         /\ Main[i] = "enable" => i = 12
<1>1. \/ i = 1 \/ i = 2 \/ i = 3 \/ i = 4 \/ i = 5 \/ i = 6
      \/ i = 7 \/ i = 8 \/ i = 9 \/ i = 10 \/ i = 11 \/ i = 12
  OBVIOUS
<1>2. CASE i = 1
  <2>1. Main[i] = "led off" BY <1>2, Order, Zenon
  <2>2. i \in 1..5 BY <1>2
  <2> QED BY <2>1, <2>2, Zenon
<1>3. CASE i = 2
  <2>1. Main[i] = "led output" BY <1>3, Order, Zenon
  <2>2. i \in 1..5 BY <1>3
  <2> QED BY <2>1, <2>2, Zenon
<1>4. CASE i = 3
  <2>1. Main[i] = "button input" BY <1>4, Order, Zenon
  <2>2. i \in 1..5 BY <1>4
  <2> QED BY <2>1, <2>2, Zenon
<1>5. CASE i = 4
  <2>1. Main[i] = "exticr" BY <1>5, Order, Zenon
  <2>2. i \in 1..5 BY <1>5
  <2> QED BY <2>1, <2>2, Zenon
<1>6. CASE i = 5
  <2>1. Main[i] = "exticr" BY <1>6, Order, Zenon
  <2>2. i \in 1..5 BY <1>6
  <2> QED BY <2>1, <2>2, Zenon
<1>7. CASE i = 6 BY <1>7, Order, Zenon
<1>8. CASE i = 7 BY <1>8, Order, Zenon
<1>9. CASE i = 8 BY <1>9, Order, Zenon
<1>10. CASE i = 9 BY <1>10, Order, Zenon
<1>11. CASE i = 10 BY <1>11, Order, Zenon
<1>12. CASE i = 11 BY <1>12, Order, Zenon
<1>13. CASE i = 12 BY <1>13, Order, Zenon
<1> QED BY <1>1, <1>2, <1>3, <1>4, <1>5, <1>6, <1>7,
           <1>8, <1>9, <1>10, <1>11, <1>12, <1>13, Zenon

\* A change of the trigger selection before anything could be latched.
LEMMA Selection ==
  ASSUME ExtiInv, PR = {}, NEW S \in SUBSET {0},
         Exti!stm32_exti_change_EXTI_PR_bit(S, 0, SWIER)
  PROVE  /\ PR' = {} /\ SWIER' \subseteq {0}
         /\ irq'[0] = (IF 0 \in PR' THEN 1 ELSE 0) /\ ~abort'
<1>1. SWIER \in SUBSET {0} /\ 0 \in {0, 1}
  BY DEF ExtiInv
<1>2. /\ PR' = (IF 0 = 1 THEN PR \cup S ELSE PR \ S) /\ SWIER' \subseteq {0}
      /\ irq'[0] = (IF 0 \in PR' THEN 1 ELSE 0) /\ ~abort'
  BY <1>1, ChangeBits, Zenon
<1>3. PR' = {}
  BY <1>2
<1> QED BY <1>2, <1>3, Zenon

\* main sets the EXTI up while line 0 cannot be latched.
LEMMA SetupStep ==
  ASSUME IInv, pc < 11, pc' = pc + 1, tmp' = tmp, UNCHANGED <<hpc, led_status, demo>>, Wired,
         \/ pc = 6 /\ Exti!WriteIMR(IMR \ {0})
         \/ pc = 7 /\ Exti!WriteIMR(IMR \cup {0})
         \/ pc = 8 /\ Exti!WriteRTSR(RTSR \ {0})
         \/ pc = 9 /\ Exti!WriteFTSR(FTSR \ {0})
         \/ pc = 10 /\ Exti!WriteRTSR(RTSR \cup {0})
  PROVE  IInv'
<1>1. ExtiInv /\ MainInv
  BY Zenon DEF IInv
<1>2. /\ IMR \subseteq {0} /\ RTSR = {} /\ FTSR = {} /\ SWIER \subseteq {0} /\ PR = {}
      /\ irq[0] = (IF 0 \in PR THEN 1 ELSE 0) /\ ~abort
  BY <1>1, Zenon DEF ExtiInv, MainInv
<1>3. /\ pc \in 1..14 /\ tmp \subseteq {0} /\ (pc > 7 => IMR = {0})
      /\ enabled = (IF pc > 12 THEN {EXTI0} ELSE {})
  BY <1>1, Zenon DEF MainInv
<1>4. /\ IMR' \subseteq {0} /\ RTSR' \subseteq {0} /\ FTSR' = {} /\ SWIER' \subseteq {0}
      /\ PR' = {} /\ irq'[0] = (IF 0 \in PR' THEN 1 ELSE 0) /\ ~abort'
      /\ (pc < 10 => RTSR' = {}) /\ (pc > 6 => IMR' = {0})
  <2>1. CASE pc = 6 /\ Exti!WriteIMR(IMR \ {0})
    <3>1. IMR' = IMR \ {0} /\ UNCHANGED <<RTSR, FTSR, SWIER, PR, irq, abort>>
      BY <2>1, Zenon DEF Exti!WriteIMR
    <3> QED BY <1>2, <2>1, <3>1
  <2>2. CASE pc = 7 /\ Exti!WriteIMR(IMR \cup {0})
    <3>1. IMR' = IMR \cup {0} /\ UNCHANGED <<RTSR, FTSR, SWIER, PR, irq, abort>>
      BY <2>2, Zenon DEF Exti!WriteIMR
    <3> QED BY <1>2, <2>2, <3>1, Zenon
  <2>3. CASE pc = 8 /\ Exti!WriteRTSR(RTSR \ {0})
    <3> DEFINE S == (RTSR \ (RTSR \ {0})) \cup ((RTSR \ {0}) \ RTSR)
    <3>1. /\ Exti!stm32_exti_change_EXTI_PR_bit(S, 0, SWIER)
          /\ RTSR' = RTSR \ {0} /\ UNCHANGED <<IMR, FTSR>>
      BY <2>3, Zenon DEF Exti!WriteRTSR, Exti!update_TSR_bit
    <3>2. S \in SUBSET {0} BY <1>2
    <3> HIDE DEF S
    <3>3. /\ PR' = {} /\ SWIER' \subseteq {0}
          /\ irq'[0] = (IF 0 \in PR' THEN 1 ELSE 0) /\ ~abort'
      BY <1>1, <1>2, <3>1, <3>2, Selection, Zenon
    <3> QED BY <1>2, <1>3, <2>3, <3>1, <3>3
  <2>4. CASE pc = 9 /\ Exti!WriteFTSR(FTSR \ {0})
    <3> DEFINE S == (FTSR \ (FTSR \ {0})) \cup ((FTSR \ {0}) \ FTSR)
    <3>1. /\ Exti!stm32_exti_change_EXTI_PR_bit(S, 0, SWIER)
          /\ FTSR' = FTSR \ {0} /\ UNCHANGED <<IMR, RTSR>>
      BY <2>4, Zenon DEF Exti!WriteFTSR, Exti!update_TSR_bit
    <3>2. S \in SUBSET {0} BY <1>2
    <3> HIDE DEF S
    <3>3. /\ PR' = {} /\ SWIER' \subseteq {0}
          /\ irq'[0] = (IF 0 \in PR' THEN 1 ELSE 0) /\ ~abort'
      BY <1>1, <1>2, <3>1, <3>2, Selection, Zenon
    <3> QED BY <1>2, <1>3, <2>4, <3>1, <3>3
  <2>5. CASE pc = 10 /\ Exti!WriteRTSR(RTSR \cup {0})
    <3> DEFINE S == (RTSR \ (RTSR \cup {0})) \cup ((RTSR \cup {0}) \ RTSR)
    <3>1. /\ Exti!stm32_exti_change_EXTI_PR_bit(S, 0, SWIER)
          /\ RTSR' = RTSR \cup {0} /\ UNCHANGED <<IMR, FTSR>>
      BY <2>5, Zenon DEF Exti!WriteRTSR, Exti!update_TSR_bit
    <3>2. S \in SUBSET {0} BY <1>2
    <3> HIDE DEF S
    <3>3. /\ PR' = {} /\ SWIER' \subseteq {0}
          /\ irq'[0] = (IF 0 \in PR' THEN 1 ELSE 0) /\ ~abort'
      BY <1>1, <1>2, <3>1, <3>2, Selection, Zenon
    <3> QED BY <1>2, <1>3, <2>5, <3>1, <3>3
  <2> QED BY <2>1, <2>2, <2>3, <2>4, <2>5, Zenon
<1>5. ExtiInv'
  BY <1>4 DEF ExtiInv
<1>6. enabled' = enabled
  BY Enabled
<1>7. MainInv'
  BY <1>3, <1>4, <1>6 DEF MainInv
<1>8. (pc' > 12 <=> pc > 12) /\ PR \subseteq PR'
  BY <1>2, <1>3
<1> QED BY <1>5, <1>7, <1>8, Latching, Zenon

\* Steps of the NVIC and the CPU leave the EXTI and the demo's parity alone.
LEMMA NvicOnlyStep ==
  ASSUME IInv, UNCHANGED <<extiVars, latches, led_status, hpc, demo>>
  PROVE  /\ ExtiInv' /\ OneTogglePerLatch' /\ UNCHANGED <<IMR, RTSR, PR>>
         /\ led_status' \in {0, 1} /\ latches' \in {0, 1}
         /\ hpc' \in {"test", "write", "clear", "return"}
<1>1. UNCHANGED <<IMR, RTSR, FTSR, SWIER, PR, irq, abort>>
  BY Zenon DEF extiVars
<1>2. ExtiInv /\ DemoInv
  BY Zenon DEF IInv
<1>3. ExtiInv'
  BY <1>1, <1>2, Zenon DEF ExtiInv
<1>4. OneTogglePerLatch'
  BY <1>1, <1>2, Zenon DEF DemoInv, OneTogglePerLatch
<1> QED BY <1>1, <1>2, <1>3, <1>4, Zenon DEF DemoInv

\* main gives the interrupt its priority and enables it: a press latched
\* before is pending at once.
LEMMA NvicSetupStep ==
  ASSUME IInv, exception = 0, pc' = pc + 1, tmp' = tmp,
         UNCHANGED <<extiVars, latches, led_status, hpc, demo>>,
         \/ pc = 11 /\ Nvic!SetPriority(EXTI0, NVIC_priority(0, 15, 15))
         \/ pc = 12 /\ Nvic!SetEnable({EXTI0})
  PROVE  IInv'
<1>1. MainInv /\ LineInv /\ ThreadInv
  BY Zenon DEF IInv
<1>2. /\ ExtiInv' /\ OneTogglePerLatch' /\ UNCHANGED <<IMR, RTSR, PR>>
      /\ led_status' \in {0, 1} /\ latches' \in {0, 1}
      /\ hpc' \in {"test", "write", "clear", "return"}
  BY NvicOnlyStep, Zenon
<1>3. /\ magic = FALSE /\ frames = <<>> /\ hpc = "test"
      /\ running_irq = Nvic!None /\ running_priority = 256
      /\ pending = IF pc > 12 THEN level ELSE {}
  BY <1>1, Zenon DEF ThreadInv
<1>4. /\ level = (IF 0 \in PR THEN {EXTI0} ELSE {}) /\ ~fault
      /\ prio \in [{EXTI0} -> 0..255] /\ last_active \in [{EXTI0} -> Int]
  BY <1>1, Zenon DEF LineInv
<1>5. /\ pc \in 1..14 /\ tmp \subseteq {0} /\ (pc > 7 => IMR = {0})
      /\ enabled = (IF pc > 12 THEN {EXTI0} ELSE {})
  BY <1>1, Zenon DEF MainInv
<1>6. /\ level' = level /\ Nvic!Unmoved /\ Nvic!gic_update
      /\ prio' \in [{EXTI0} -> 0..255]
      /\ enabled' = (IF pc' > 12 THEN {EXTI0} ELSE {})
      /\ pending' = (IF pc' > 12 THEN level ELSE {})
  <2>1. CASE pc = 11 /\ Nvic!SetPriority(EXTI0, NVIC_priority(0, 15, 15))
    <3>1. /\ prio' = [prio EXCEPT ![EXTI0] = NVIC_priority(0, 15, 15)]
          /\ level' = level /\ enabled' = enabled /\ pending' = pending
          /\ Nvic!Unmoved /\ Nvic!gic_update
      BY <2>1, Zenon DEF Nvic!SetPriority
    <3>2. prio' \in [{EXTI0} -> 0..255]
      BY <1>4, <3>1, PriorityFits, SMTT(60)
    <3> QED BY <1>3, <1>5, <2>1, <3>1, <3>2
  <2>2. CASE pc = 12 /\ Nvic!SetEnable({EXTI0})
    <3>1. /\ enabled' = enabled \cup {EXTI0} /\ pending' = pending \cup ({EXTI0} \cap level)
          /\ level' = level /\ prio' = prio /\ Nvic!Unmoved /\ Nvic!gic_update
      BY <2>2, Zenon DEF Nvic!SetEnable
    <3> QED BY <1>3, <1>4, <1>5, <2>2, <3>1
  <2> QED BY <2>1, <2>2, Zenon
<1>7. /\ last_active' = last_active /\ running_irq' = running_irq
      /\ running_priority' = running_priority /\ exception' = exception
      /\ magic' = magic /\ frames' = frames /\ fault' = fault
  BY <1>6, Zenon DEF Nvic!Unmoved
<1>8. pending' \subseteq {EXTI0}
  BY <1>4, <1>6
<1>9. LineInv'
  BY <1>2, <1>4, <1>6, <1>7, <1>8, Update, Zenon DEF LineInv
<1>10. MainInv'
  BY <1>2, <1>5, <1>6 DEF MainInv
<1>11. ThreadInv'
  BY <1>3, <1>6, <1>7, Zenon DEF ThreadInv
<1>12. 0 # EXTI0
  BY DEF EXTI0
<1>13. HandlerInv'
  BY <1>7, <1>12, Zenon DEF HandlerInv
<1>14. DemoInv'
  BY <1>2, <1>7, Zenon DEF DemoInv
<1> QED BY <1>2, <1>9, <1>10, <1>11, <1>13, <1>14, Zenon DEF IInv

\* An access of main.
LEMMA MainStep == ASSUME IInv, main PROVE IInv'
<1>1. /\ exception = 0 /\ pc <= Len(Main) /\ Do(Main[pc]) /\ pc' = pc + 1
      /\ tmp' = tmp /\ hpc' = hpc /\ led_status' = led_status /\ demo' = demo
  BY Zenon DEF main
<1>2. /\ ExtiInv /\ MainInv /\ LineInv /\ ThreadInv /\ HandlerInv /\ DemoInv
      /\ pc \in 1..14
  BY Zenon DEF IInv, MainInv
<1>3. pc \in 1..12
  <2>1. Len(Main) = 12 BY Order, Zenon
  <2> QED BY <1>1, <1>2, <2>1
<1>4. CASE /\ Main[pc] \in {"led off", "led output", "button input", "exticr"}
           /\ UNCHANGED <<extiVars, nvicVars, latches>>
  <2>1. pc < 6
    <3>1. pc \in 1..5 BY <1>3, <1>4, Places, Zenon
    <3> QED BY <3>1
  <2>2. /\ ExtiInv' /\ LineInv'
        /\ UNCHANGED <<enabled, running_irq, running_priority, exception, magic, frames>>
        /\ UNCHANGED <<last_active, prio, level, pending, PR, IMR, RTSR>>
    BY <1>2, <1>4, Idle, Zenon
  <2>3. (pc' > 12 <=> pc > 12) /\ pc' \in 1..14 /\ pc < 11 /\ ~(pc' > 7)
    BY <1>1, <1>2, <2>1
  <2>4. MainInv'
    BY <1>1, <1>2, <2>2, <2>3, Zenon DEF MainInv
  <2>5. ThreadInv' /\ HandlerInv'
    BY <1>1, <1>2, <2>2, <2>3, Zenon DEF ThreadInv, HandlerInv
  <2>6. DemoInv'
    BY <1>1, <1>2, <1>4, <2>2, Zenon DEF DemoInv, OneTogglePerLatch
  <2> QED BY <2>2, <2>4, <2>5, <2>6, Zenon DEF IInv
<1>5. CASE /\ Wired
           /\ \/ Main[pc] = "imr off" /\ Exti!WriteIMR(IMR \ {0})
              \/ Main[pc] = "imr on" /\ Exti!WriteIMR(IMR \cup {0})
              \/ Main[pc] = "rtsr off" /\ Exti!WriteRTSR(RTSR \ {0})
              \/ Main[pc] = "ftsr off" /\ Exti!WriteFTSR(FTSR \ {0})
              \/ Main[pc] = "rtsr on" /\ Exti!WriteRTSR(RTSR \cup {0})
  <2>1. \/ pc = 6 /\ Exti!WriteIMR(IMR \ {0})
        \/ pc = 7 /\ Exti!WriteIMR(IMR \cup {0})
        \/ pc = 8 /\ Exti!WriteRTSR(RTSR \ {0})
        \/ pc = 9 /\ Exti!WriteFTSR(FTSR \ {0})
        \/ pc = 10 /\ Exti!WriteRTSR(RTSR \cup {0})
    BY <1>3, <1>5, Places, Zenon
  <2>2. pc < 11
    <3>1. pc = 6 \/ pc = 7 \/ pc = 8 \/ pc = 9 \/ pc = 10 BY <2>1, Zenon
    <3> QED BY <3>1
  <2> QED BY <1>1, <1>5, <2>1, <2>2, SetupStep, Zenon
<1>6. CASE /\ UNCHANGED <<extiVars, latches>>
           /\ \/ /\ Main[pc] = "priority"
                 /\ Nvic!SetPriority(EXTI0, NVIC_priority(0, 15, 15))
              \/ Main[pc] = "enable" /\ Nvic!SetEnable({EXTI0})
  <2>1. \/ pc = 11 /\ Nvic!SetPriority(EXTI0, NVIC_priority(0, 15, 15))
        \/ pc = 12 /\ Nvic!SetEnable({EXTI0})
    BY <1>3, <1>6, Places, Zenon
  <2> QED BY <1>1, <1>6, <2>1, NvicSetupStep, Zenon
<1> QED BY <1>1, <1>4, <1>5, <1>6, Accesses, Zenon

\* The loop of software_int: the second half of SWIER |= 1 may latch line 0.
LEMMA SoftwareStep == ASSUME IInv, EXTI_GenerateSWInterrupt PROVE IInv'
<1>1. /\ ExtiInv /\ MainInv /\ LineInv /\ ThreadInv /\ HandlerInv /\ DemoInv
      /\ pc \in 1..14 /\ tmp \subseteq {0} /\ IMR \subseteq {0} /\ SWIER \subseteq {0}
  BY Zenon DEF IInv, MainInv, ExtiInv
<1>2. Len(Main) = 12
  BY Order, Zenon
<1>3. /\ exception = 0 /\ pc > 12
      /\ UNCHANGED <<hpc, led_status, demo>>
      /\ \/ /\ pc = 12 + 1 /\ pc' = pc + 1 /\ tmp' = SWIER
            /\ UNCHANGED <<extiVars, nvicVars, latches>>
         \/ /\ pc = 12 + 2 /\ pc' = pc - 1 /\ tmp' = {}
            /\ Exti!WriteSWIER(tmp \cup {0}) /\ Wired
  BY <1>2, Zenon DEF EXTI_GenerateSWInterrupt, ExtiOnly
<1>4. /\ pc' > 12 /\ ~(pc < 11) /\ ~(pc' < 11) /\ pc > 7 /\ pc' \in 1..14
      /\ tmp' \subseteq {0}
  <2>1. \/ pc = 12 + 1 /\ pc' = pc + 1 /\ tmp' = SWIER
        \/ pc = 12 + 2 /\ pc' = pc - 1 /\ tmp' = {}
    BY <1>3, Zenon
  <2>2. (pc = 13 /\ pc' = 14) \/ (pc = 14 /\ pc' = 13)
    BY <2>1
  <2>3. {} \subseteq {0} OBVIOUS
  <2>4. tmp' \subseteq {0}
    BY <1>1, <2>1, <2>3, Zenon
  <2> QED BY <2>2, <2>4
<1>5. CASE UNCHANGED <<extiVars, nvicVars, latches>>
  <2>1. /\ ExtiInv' /\ LineInv'
        /\ UNCHANGED <<enabled, running_irq, running_priority, exception, magic, frames>>
        /\ UNCHANGED <<last_active, prio, level, pending, PR, IMR, RTSR>>
    BY <1>1, <1>5, Idle, Zenon
  <2>2. MainInv'
    BY <1>1, <1>3, <1>4, <2>1, Zenon DEF MainInv
  <2>3. ThreadInv' /\ HandlerInv'
    BY <1>1, <1>3, <1>4, <2>1, Zenon DEF ThreadInv, HandlerInv
  <2>4. DemoInv'
    BY <1>1, <1>3, <1>5, <2>1, Zenon DEF DemoInv, OneTogglePerLatch
  <2> QED BY <2>1, <2>2, <2>3, <2>4, Zenon DEF IInv
<1>6. CASE Exti!WriteSWIER(tmp \cup {0}) /\ Wired
  <2> DEFINE S == ((tmp \cup {0}) \ SWIER) \cap IMR
             swier == SWIER \cup (tmp \cup {0})
  <2>1. /\ Exti!stm32_exti_change_EXTI_PR_bit(S, 1, swier)
        /\ IMR' = IMR /\ RTSR' = RTSR /\ FTSR' = FTSR
    BY <1>6, Zenon DEF Exti!WriteSWIER, Exti!stm32_exti_trigger
  <2>2. S \in SUBSET {0} /\ swier \in SUBSET {0} /\ 1 \in {0, 1}
    BY <1>1
  <2> HIDE DEF S, swier
  <2>3. /\ PR' = (IF 1 = 1 THEN PR \cup S ELSE PR \ S)
        /\ PR' \subseteq {0} /\ SWIER' \subseteq {0}
        /\ irq'[0] = (IF 0 \in PR' THEN 1 ELSE 0) /\ ~abort'
    BY <1>1, <2>1, <2>2, ChangeBits, Zenon
  <2>4. PR \subseteq PR'
    BY <2>3
  <2>5. ExtiInv'
    BY <1>1, <2>1, <2>3, Zenon DEF ExtiInv
  <2>6. enabled' = enabled
    BY <1>6, Enabled, Zenon
  <2>7. MainInv'
    BY <1>1, <1>3, <1>4, <2>1, <2>6, Zenon DEF MainInv
  <2> QED BY <1>3, <1>4, <1>6, <2>4, <2>5, <2>7, Latching, Zenon
<1> QED BY <1>3, <1>5, <1>6, Zenon

\* EXTI0_IRQHandler: the test and the toggle leave the devices alone.
LEMMA ToggleStep ==
  ASSUME IInv, exception = EXTI0, ~magic,
         UNCHANGED <<extiVars, nvicVars, latches, pc, tmp, demo>>,
         \/ /\ hpc = "test" /\ hpc' = IF PR \cap IMR # {} THEN "write" ELSE "return"
            /\ led_status' = led_status
         \/ /\ hpc = "write" /\ led_status' = 1 - led_status
            /\ hpc' = IF demo = "button_int_infinite" THEN "return" ELSE "clear"
  PROVE  IInv'
<1>1. ExtiInv /\ MainInv /\ LineInv /\ ThreadInv /\ HandlerInv /\ DemoInv
  BY Zenon DEF IInv
<1>2. /\ ExtiInv' /\ LineInv'
      /\ UNCHANGED <<enabled, running_irq, running_priority, exception, magic, frames>>
      /\ UNCHANGED <<last_active, prio, level, pending, PR, IMR, RTSR>>
  BY <1>1, Idle, Zenon
<1>3. 0 \in PR /\ pending = {} /\ 0 \in IMR
  <2>1. 0 \in PR /\ pending = {} /\ pc > 12
    BY <1>1, Zenon DEF HandlerInv
  <2>2. pc > 7
    BY <1>1, <2>1 DEF MainInv
  <2> QED BY <1>1, <2>1, <2>2, Zenon DEF MainInv
<1>4. PR \cap IMR # {} /\ PR # {}
  BY <1>3
<1>5. hpc' \in {"write", "clear", "return"}
  BY <1>4, Zenon
<1>6. MainInv'
  BY <1>1, <1>2, Zenon DEF MainInv
<1>7. 0 # EXTI0
  BY DEF EXTI0
<1>8. ThreadInv'
  BY <1>2, <1>7, Zenon DEF ThreadInv
<1>9. HandlerInv'
  BY <1>1, <1>2, <1>3, Zenon DEF HandlerInv
<1>10. led_status \in {0, 1} /\ latches \in {0, 1} /\ latches' = latches
  BY <1>1, Zenon DEF DemoInv
<1>11. led_status' \in {0, 1} /\ latches' \in {0, 1}
  BY <1>10
<1>12. OneTogglePerLatch'
  <2> SUFFICES ASSUME demo # "button_int_infinite"
               PROVE  led_status' = IF PR # {} /\ hpc' # "clear" THEN 1 - latches ELSE latches
    BY <1>2, Zenon DEF OneTogglePerLatch
  <2>1. led_status = 1 - latches
    BY <1>1, <1>4, Zenon DEF DemoInv, OneTogglePerLatch
  <2>2. CASE hpc = "test"
    <3>1. hpc' = "write" /\ led_status' = led_status BY <1>4, <2>2, Zenon
    <3> QED BY <1>4, <2>1, <3>1, Zenon
  <2>3. CASE hpc = "write"
    <3>1. hpc' = "clear" /\ led_status' = 1 - led_status BY <2>3, Zenon
    <3>2. led_status' = latches BY <1>10, <2>1, <3>1
    <3> QED BY <3>1, <3>2, Zenon
  <2> QED BY <2>2, <2>3, Zenon
<1>13. DemoInv'
  BY <1>1, <1>2, <1>5, <1>11, <1>12, Zenon DEF DemoInv
<1> QED BY <1>2, <1>6, <1>8, <1>9, <1>13, Zenon DEF IInv

\* Its acknowledgement lowers the line, and the interrupt is not pending: it
\* was taken for this bit, and no edge could be latched since.
LEMMA ClearStep ==
  ASSUME IInv, exception = EXTI0, ~magic, hpc = "clear", hpc' = "return",
         Exti!WritePR({0}), Wired, UNCHANGED <<pc, tmp, led_status, demo>>
  PROVE  IInv'
<1>1. ExtiInv /\ MainInv /\ LineInv /\ ThreadInv /\ HandlerInv /\ DemoInv
  BY Zenon DEF IInv
<1>2. /\ pc > 12 /\ frames = <<<<0, FALSE>>>>
      /\ running_irq = EXTI0 /\ running_priority = prio[EXTI0]
      /\ last_active[EXTI0] = Nvic!None /\ 0 \in PR /\ pending = {}
  BY <1>1, Zenon DEF HandlerInv
<1>3. /\ Exti!stm32_exti_change_EXTI_PR_bit({0}, 0, SWIER)
      /\ IMR' = IMR /\ RTSR' = RTSR /\ FTSR' = FTSR
  BY Zenon DEF Exti!WritePR
<1>4. {0} \in SUBSET {0} /\ SWIER \in SUBSET {0} /\ 0 \in {0, 1} /\ PR \subseteq {0}
  BY <1>1 DEF ExtiInv
<1>5. /\ PR' = (IF 0 = 1 THEN PR \cup {0} ELSE PR \ {0})
      /\ PR' \subseteq {0} /\ SWIER' \subseteq {0}
      /\ irq'[0] = (IF 0 \in PR' THEN 1 ELSE 0) /\ ~abort'
  BY <1>1, <1>3, <1>4, ChangeBits, Zenon
<1>6. PR' = {}
  BY <1>4, <1>5
<1>7. ExtiInv'
  BY <1>1, <1>3, <1>5, Zenon DEF ExtiInv
<1>8. enabled \subseteq {EXTI0}
  BY <1>1 DEF MainInv
<1>9. /\ UNCHANGED <<enabled, running_irq, running_priority, exception, magic, frames>>
      /\ UNCHANGED <<last_active, prio>>
      /\ pending' = (IF 0 \in PR' \ PR THEN pending \cup enabled ELSE pending)
      /\ latches' = (IF 0 \in PR' \ PR THEN 1 - latches ELSE latches)
      /\ LineInv'
  BY <1>1, <1>5, <1>8, Ring, Zenon
<1>10. pending' = {} /\ latches' = latches
  BY <1>2, <1>6, <1>9, Zenon
<1>11. ~(pc < 11)
  BY <1>1, <1>2 DEF MainInv
<1>12. MainInv'
  BY <1>1, <1>3, <1>9, <1>11, Zenon DEF MainInv
<1>13. 0 # EXTI0 /\ {} \subseteq level'
  BY DEF EXTI0
<1>14. ThreadInv'
  BY <1>9, <1>13, Zenon DEF ThreadInv
<1>15. HandlerInv'
  BY <1>1, <1>2, <1>9, <1>10, <1>13, Zenon DEF HandlerInv
<1>16. DemoInv'
  BY <1>1, <1>6, <1>9, <1>10, Zenon DEF DemoInv, OneTogglePerLatch
<1> QED BY <1>7, <1>9, <1>12, <1>14, <1>15, <1>16, Zenon DEF IInv

\* The handler branches to the return code.
LEMMA ReturnStep ==
  ASSUME IInv, exception = EXTI0, ~magic, hpc = "return", hpc' = "test",
         Nvic!Return, UNCHANGED <<extiVars, latches, pc, tmp, led_status, demo>>
  PROVE  IInv'
<1>1. ExtiInv /\ MainInv /\ LineInv /\ ThreadInv /\ HandlerInv /\ DemoInv
  BY Zenon DEF IInv
<1>2. /\ magic' = TRUE /\ exception' = exception /\ frames' = frames /\ fault' = fault
      /\ level' = level /\ enabled' = enabled /\ pending' = pending /\ prio' = prio
      /\ last_active' = last_active /\ running_irq' = running_irq
      /\ running_priority' = running_priority
      /\ current_pending' = current_pending /\ parent_irq' = parent_irq
  BY Zenon DEF Nvic!Return, Nvic!gicVars
<1>3. UNCHANGED <<IMR, RTSR, FTSR, SWIER, PR, irq, abort>>
  BY Zenon DEF extiVars
<1>4. ExtiInv' /\ MainInv'
  BY <1>1, <1>2, <1>3, Zenon DEF ExtiInv, MainInv
<1>5. LineInv'
  BY <1>1, <1>2, <1>3, Zenon DEF LineInv, Updated
<1>6. 0 # EXTI0
  BY DEF EXTI0
<1>7. ThreadInv' /\ HandlerInv'
  BY <1>1, <1>2, <1>3, <1>6, Zenon DEF ThreadInv, HandlerInv
<1>8. DemoInv'
  BY <1>1, <1>2, <1>3, Zenon DEF DemoInv, OneTogglePerLatch
<1> QED BY <1>4, <1>5, <1>7, <1>8, Zenon DEF IInv

\* A step of the handler.
LEMMA HandlerStep == ASSUME IInv, EXTI0_IRQHandler PROVE IInv'
<1>1. exception = EXTI0 /\ ~magic /\ UNCHANGED <<pc, tmp, demo>>
  BY Zenon DEF EXTI0_IRQHandler
<1>2. \/ /\ UNCHANGED <<extiVars, nvicVars, latches>>
         /\ \/ /\ hpc = "test" /\ hpc' = IF PR \cap IMR # {} THEN "write" ELSE "return"
               /\ led_status' = led_status
            \/ /\ hpc = "write" /\ led_status' = 1 - led_status
               /\ hpc' = IF demo = "button_int_infinite" THEN "return" ELSE "clear"
      \/ /\ hpc = "clear" /\ hpc' = "return" /\ led_status' = led_status
         /\ Exti!WritePR({0}) /\ Wired
      \/ /\ hpc = "return" /\ hpc' = "test" /\ led_status' = led_status
         /\ Nvic!Return /\ UNCHANGED <<extiVars, latches>>
  BY Zenon DEF EXTI0_IRQHandler, GPIO_WriteBit, GpioOnly, ExtiOnly, NvicOnly
<1> QED BY <1>1, <1>2, ToggleStep, ClearStep, ReturnStep, Zenon

\* Exception entry: the interrupt taken has line 0 pending behind it, and the
\* running handler is never preempted by itself.
LEMMA EntryStep ==
  ASSUME IInv, Nvic!TakeInterrupt, UNCHANGED <<extiVars, latches, guestVars, demo>>
  PROVE  IInv'
<1>1. ExtiInv /\ MainInv /\ LineInv /\ ThreadInv /\ HandlerInv /\ DemoInv
  BY Zenon DEF IInv
<1>2. UNCHANGED <<pc, tmp, hpc, led_status>>
  BY Zenon DEF guestVars
<1>3. /\ ExtiInv' /\ OneTogglePerLatch' /\ UNCHANGED <<IMR, RTSR, PR>>
      /\ led_status' \in {0, 1} /\ latches' \in {0, 1}
      /\ hpc' \in {"test", "write", "clear", "return"}
  BY <1>2, NvicOnlyStep, Zenon
<1>4. /\ level = (IF 0 \in PR THEN {EXTI0} ELSE {}) /\ ~fault
      /\ pending \subseteq {EXTI0} /\ Updated
      /\ prio \in [{EXTI0} -> 0..255] /\ last_active \in [{EXTI0} -> Int]
  BY <1>1, Zenon DEF LineInv
<1>5. parent_irq = 1
  BY Zenon DEF Nvic!TakeInterrupt, Nvic!Interruptible
<1>6. /\ EXTI0 \in enabled \cap pending /\ current_pending = EXTI0
      /\ prio[EXTI0] < running_priority
  BY <1>4, <1>5 DEF Updated
<1>7. prio[EXTI0] \in 0..255
  BY <1>4
<1>8. exception = 0
  <2>1. exception # EXTI0
    <3> SUFFICES ASSUME exception = EXTI0 PROVE FALSE OBVIOUS
    <3>1. running_priority = prio[EXTI0] BY <1>1, Zenon DEF HandlerInv
    <3> QED BY <1>6, <1>7, <3>1
  <2> QED BY <1>1, <2>1, Zenon DEF DemoInv
<1>9. /\ magic = FALSE /\ frames = <<>> /\ hpc = "test"
      /\ running_irq = Nvic!None /\ running_priority = 256
      /\ pending = IF pc > 12 THEN level ELSE {}
  BY <1>1, <1>8, Zenon DEF ThreadInv
<1>10. EXTI0 # Nvic!None /\ ~(prio[EXTI0] >= running_priority)
  <2>1. EXTI0 # Nvic!None BY DEF EXTI0, Nvic!None
  <2>2. running_priority = 256 BY <1>9, Zenon
  <2>3. ~(prio[EXTI0] >= running_priority) BY <1>7, <2>2
  <2> QED BY <2>1, <2>3
<1>11. /\ Nvic!gic_acknowledge_irq(EXTI0)
       /\ frames' = Append(frames, <<exception, magic>>)
       /\ exception' = EXTI0 /\ magic' = FALSE /\ fault' = fault
  BY <1>6, <1>10, Zenon DEF Nvic!TakeInterrupt
<1>12. /\ last_active' = [last_active EXCEPT ![EXTI0] = running_irq]
       /\ pending' = pending \ {EXTI0}
       /\ level' = level /\ enabled' = enabled /\ prio' = prio
       /\ Nvic!gic_set_running_irq(EXTI0)
  BY <1>11, Zenon DEF Nvic!gic_acknowledge_irq
<1>13. /\ running_irq' = EXTI0 /\ running_priority' = prio[EXTI0] /\ Nvic!gic_update
  BY <1>10, <1>12, Zenon DEF Nvic!gic_set_running_irq
<1>14. pending' = {} /\ pc > 12 /\ 0 \in PR
  BY <1>4, <1>6, <1>9, <1>12
<1>15. frames' = <<<<0, FALSE>>>>
  <2>1. \A f : Append(<<>>, f) = <<f>> OBVIOUS
  <2> QED BY <1>8, <1>9, <1>11, <2>1, Zenon
<1>16. last_active' \in [{EXTI0} -> Int] /\ last_active'[EXTI0] = Nvic!None
  BY <1>4, <1>9, <1>12 DEF Nvic!None
<1>17. pending' \subseteq {EXTI0} /\ {} \subseteq level'
  BY <1>14
<1>18. LineInv'
  BY <1>3, <1>4, <1>11, <1>12, <1>13, <1>16, <1>17, Update, Zenon DEF LineInv
<1>19. MainInv'
  BY <1>1, <1>2, <1>3, <1>12, Zenon DEF MainInv
<1>20. 0 # EXTI0 /\ FALSE \in BOOLEAN
  BY DEF EXTI0
<1>21. ThreadInv'
  BY <1>11, <1>20, Zenon DEF ThreadInv
<1>22. HandlerInv'
  BY <1>2, <1>3, <1>11, <1>12, <1>13, <1>14, <1>15, <1>16, <1>17, <1>20, Zenon
     DEF HandlerInv
<1>23. DemoInv'
  BY <1>3, <1>11, Zenon DEF DemoInv
<1> QED BY <1>3, <1>18, <1>19, <1>21, <1>22, <1>23, Zenon DEF IInv

\* Exception return: a line that is still up, or up again, is pending.
LEMMA ExitStep ==
  ASSUME IInv, Nvic!do_v7m_exception_exit, UNCHANGED <<extiVars, latches, guestVars, demo>>
  PROVE  IInv'
<1>1. ExtiInv /\ MainInv /\ LineInv /\ ThreadInv /\ HandlerInv /\ DemoInv
  BY Zenon DEF IInv
<1>2. UNCHANGED <<pc, tmp, hpc, led_status>>
  BY Zenon DEF guestVars
<1>3. /\ ExtiInv' /\ OneTogglePerLatch' /\ UNCHANGED <<IMR, RTSR, PR>>
      /\ led_status' \in {0, 1} /\ latches' \in {0, 1}
      /\ hpc' \in {"test", "write", "clear", "return"}
  BY <1>2, NvicOnlyStep, Zenon
<1>4. /\ level = (IF 0 \in PR THEN {EXTI0} ELSE {}) /\ ~fault
      /\ pending \subseteq {EXTI0}
      /\ prio \in [{EXTI0} -> 0..255] /\ last_active \in [{EXTI0} -> Int]
  BY <1>1, Zenon DEF LineInv
<1>5. /\ magic /\ Nvic!gic_complete_irq(exception)
      /\ exception' = frames[Len(frames)][1]
      /\ magic' = frames[Len(frames)][2]
      /\ frames' = SubSeq(frames, 1, Len(frames) - 1)
      /\ fault' = fault
  BY Zenon DEF Nvic!do_v7m_exception_exit
<1>6. exception = EXTI0
  BY <1>1, <1>5, Zenon DEF ThreadInv, DemoInv
<1>7. /\ pc > 12 /\ frames = <<<<0, FALSE>>>> /\ hpc = "test"
      /\ running_irq = EXTI0 /\ last_active[EXTI0] = Nvic!None
      /\ pending \subseteq level
  BY <1>1, <1>5, <1>6, Zenon DEF HandlerInv
<1>8. exception' = 0 /\ magic' = FALSE /\ frames' = <<>>
  BY <1>5, <1>7
<1>9. /\ pending' = pending \cup ({EXTI0} \cap {EXTI0} \cap enabled \cap level)
      /\ level' = level /\ enabled' = enabled /\ prio' = prio /\ last_active' = last_active
      /\ Nvic!gic_set_running_irq(Nvic!None)
  BY <1>5, <1>6, <1>7, Zenon DEF Nvic!gic_complete_irq
<1>10. running_irq' = Nvic!None /\ running_priority' = 256 /\ Nvic!gic_update
  BY <1>9, Zenon DEF Nvic!gic_set_running_irq
<1>11. enabled = {EXTI0}
  BY <1>1, <1>7, Zenon DEF MainInv
<1>12. pending' = level' /\ pending' \subseteq {EXTI0}
  BY <1>4, <1>7, <1>9, <1>11
<1>13. LineInv'
  BY <1>3, <1>4, <1>5, <1>9, <1>10, <1>12, Update, Zenon DEF LineInv
<1>14. MainInv'
  BY <1>1, <1>2, <1>3, <1>9, Zenon DEF MainInv
<1>15. 0 # EXTI0
  BY DEF EXTI0
<1>16. ThreadInv' /\ HandlerInv'
  BY <1>2, <1>7, <1>8, <1>10, <1>12, <1>15, Zenon DEF ThreadInv, HandlerInv
<1>17. DemoInv'
  BY <1>3, <1>8, Zenon DEF DemoInv
<1> QED BY <1>3, <1>13, <1>14, <1>16, <1>17, Zenon DEF IInv

\* A reset, in any state of program, handler and devices.
LEMMA ResetStep == ASSUME IInv, qemu_system_reset PROVE IInv'
<1>1. /\ IMR' = {} /\ RTSR' = {} /\ FTSR' = {} /\ SWIER' = {} /\ PR' = {}
      /\ irq' = [i \in Exti!Irqs |-> 0] /\ abort' = abort
  BY Zenon DEF qemu_system_reset, Exti!stm32_exti_reset
<1>2. /\ level' = {} /\ pending' = {} /\ enabled' = {}
      /\ running_irq' = Nvic!None /\ running_priority' = 256
      /\ current_pending' = Nvic!None /\ parent_irq' = 0
      /\ exception' = 0 /\ magic' = FALSE /\ frames' = <<>>
      /\ prio' = prio /\ last_active' = last_active /\ fault' = fault
  BY Zenon DEF qemu_system_reset, Nvic!qemu_devices_reset, Nvic!RaisedByUartReset
<1>3. /\ pc' = 1 /\ tmp' = {} /\ hpc' = "test" /\ led_status' = 0 /\ latches' = 0
  BY Zenon DEF qemu_system_reset
<1>4. 0 \in Exti!Irqs /\ irq'[0] = 0 /\ {} \subseteq {0} /\ 0 \notin {}
  BY <1>1 DEF Exti!Irqs
<1>5. ~abort /\ ~fault /\ prio \in [{EXTI0} -> 0..255] /\ last_active \in [{EXTI0} -> Int]
  BY Zenon DEF IInv, ExtiInv, LineInv
<1>6. ExtiInv'
  BY <1>1, <1>4, <1>5, Zenon DEF ExtiInv
<1>7. 1 \in 1..14 /\ ~(1 > 7) /\ ~(1 > 12) /\ 0 # EXTI0 /\ {} \subseteq {EXTI0}
  BY DEF EXTI0
<1>8. MainInv'
  BY <1>1, <1>2, <1>3, <1>4, <1>7, Zenon DEF MainInv
<1>9. EXTI0 \notin {} \cap {}
  OBVIOUS
<1>10. LineInv'
  BY <1>1, <1>2, <1>4, <1>5, <1>7, <1>9, Zenon DEF LineInv, Updated
<1>11. ThreadInv' /\ HandlerInv'
  BY <1>2, <1>3, <1>7, Zenon DEF ThreadInv, HandlerInv
<1>12. DemoInv'
  BY <1>1, <1>2, <1>3, Zenon DEF DemoInv, OneTogglePerLatch
<1> QED BY <1>6, <1>8, <1>10, <1>11, <1>12, Zenon DEF IInv

\* The board as it is created, with the button up and main at its start.
LEMMA Initially == Init => IInv
<1> SUFFICES ASSUME Init PROVE IInv OBVIOUS
<1>1. /\ IMR = {} /\ RTSR = {} /\ FTSR = {} /\ SWIER = {} /\ PR = {}
      /\ irq = [i \in Exti!Irqs |-> 0] /\ abort = FALSE
  BY Zenon DEF Init, Exti!Init
<1>2. /\ level = {} /\ pending = {} /\ enabled = {}
      /\ prio = [i \in Nvic!All |-> 0] /\ last_active = [i \in Nvic!All |-> 0]
      /\ running_irq = Nvic!None /\ running_priority = 256
      /\ current_pending = Nvic!None /\ parent_irq = 0
      /\ exception = 0 /\ magic = FALSE /\ frames = <<>> /\ fault = FALSE
  BY Zenon DEF Init, Nvic!Init
<1>3. /\ pc = 1 /\ tmp = {} /\ hpc = "test" /\ led_status = 0 /\ latches = 0
  BY Zenon DEF Init
<1>4. 0 \in Exti!Irqs /\ irq[0] = 0 /\ {} \subseteq {0} /\ 0 \notin {}
  BY <1>1 DEF Exti!Irqs
<1>5. Nvic!All = {EXTI0}
  BY DEF Nvic!All
<1>6. prio \in [{EXTI0} -> 0..255] /\ last_active \in [{EXTI0} -> Int]
  BY <1>2, <1>5
<1>7. ExtiInv
  BY <1>1, <1>4, Zenon DEF ExtiInv
<1>8. 1 \in 1..14 /\ ~(1 > 7) /\ ~(1 > 12) /\ 0 # EXTI0 /\ {} \subseteq {EXTI0}
  BY DEF EXTI0
<1>9. MainInv
  BY <1>1, <1>2, <1>3, <1>4, <1>8, Zenon DEF MainInv
<1>10. EXTI0 \notin {} \cap {}
  OBVIOUS
<1>11. LineInv
  BY <1>1, <1>2, <1>4, <1>6, <1>8, <1>10, Zenon DEF LineInv, Updated
<1>12. ThreadInv /\ HandlerInv
  BY <1>2, <1>3, <1>8, Zenon DEF ThreadInv, HandlerInv
<1>13. DemoInv
  BY <1>1, <1>2, <1>3, Zenon DEF DemoInv, OneTogglePerLatch
<1> QED BY <1>7, <1>9, <1>11, <1>12, <1>13, Zenon DEF IInv

\* Nothing changes when nothing moves.
LEMMA Still == ASSUME IInv, UNCHANGED vars PROVE IInv'
<1>1. /\ UNCHANGED <<extiVars, nvicVars, latches, pc, tmp, hpc, led_status, demo>>
  BY Zenon DEF vars, guestVars
<1>2. ExtiInv /\ MainInv /\ LineInv /\ ThreadInv /\ HandlerInv /\ DemoInv
  BY Zenon DEF IInv
<1>3. /\ ExtiInv' /\ LineInv'
      /\ UNCHANGED <<enabled, running_irq, running_priority, exception, magic, frames>>
      /\ UNCHANGED <<last_active, prio, level, pending, PR, IMR, RTSR>>
  BY <1>1, <1>2, Idle, Zenon
<1>4. MainInv' /\ ThreadInv' /\ HandlerInv' /\ DemoInv'
  BY <1>1, <1>2, <1>3, Zenon
     DEF MainInv, ThreadInv, HandlerInv, DemoInv, OneTogglePerLatch
<1> QED BY <1>3, <1>4, Zenon DEF IInv

\* The invariant is inductive.
LEMMA Always == Spec => []IInv
<1>1. IInv /\ [Next]_vars => IInv'
  <2> SUFFICES ASSUME IInv, [Next]_vars PROVE IInv' OBVIOUS
  <2>1. ASSUME cpu_exec PROVE IInv'
    <3>1. /\ Nvic!TakeInterrupt \/ Nvic!do_v7m_exception_exit
          /\ UNCHANGED <<extiVars, latches, guestVars, demo>>
      BY <2>1, Zenon DEF cpu_exec, NvicOnly
    <3> QED BY <3>1, EntryStep, ExitStep, Zenon
  <2> QED BY <2>1, KeyStep, MainStep, SoftwareStep, HandlerStep, ResetStep, Still, Zenon
          DEF Next, Guest
<1> QED BY <1>1, Initially, PTL DEF Spec

\* Whenever EXTI0_IRQHandler asks for the pending flag it finds it set, for
\* every interleaving of keys, exceptions and any number of resets: the test
\* the demos make is never false.
THEOREM HandlerAlwaysFindsPending == Spec => []HandlerFindsPending
<1>1. IInv => HandlerFindsPending
  <2> SUFFICES ASSUME IInv, exception = EXTI0, ~magic, hpc = "test"
               PROVE  0 \in PR \cap IMR
    BY Zenon DEF HandlerFindsPending
  <2>1. 0 \in PR /\ pc > 12
    BY Zenon DEF IInv, HandlerInv
  <2>2. pc \in 1..14 /\ (pc > 7 => IMR = {0})
    BY Zenon DEF IInv, MainInv
  <2>3. pc > 7
    BY <2>1, <2>2
  <2> QED BY <2>1, <2>2, <2>3
<1> QED BY <1>1, Always, PTL

\* The demo toggles once for each time line 0 became pending, however the
\* presses, the handler's accesses and any number of resets interleave: no
\* press that was latched is lost, and none is served twice.
THEOREM TogglesOncePerLatch == Spec => []OneTogglePerLatch
<1>1. IInv => OneTogglePerLatch
  BY Zenon DEF IInv, DemoInv
<1> QED BY <1>1, Always, PTL

\* A press latched after the program enabled the interrupt is never waiting
\* unheard.
NeverUnheard == pc > 12 /\ PR # {} => exception = EXTI0 \/ Nvic!Interruptible

\* What PressServed rests on besides fairness: while line 0 is pending and main
\* has enabled its interrupt, the handler is running or the CPU finds its
\* interrupt line up.  A press latched while the handler runs, after it cleared
\* the flag, brings the line up again when the exception ends
\* (gic_complete_irq, gic_update).
THEOREM LatchedIsHeard == Spec => []NeverUnheard
<1>1. IInv => NeverUnheard
  <2> SUFFICES ASSUME IInv, pc > 12, PR # {}, exception # EXTI0
               PROVE  Nvic!Interruptible
    BY Zenon DEF NeverUnheard
  <2>1. exception = 0
    BY Zenon DEF IInv, DemoInv
  <2>2. magic = FALSE /\ running_priority = 256 /\ pending = level
    BY <2>1, Zenon DEF IInv, ThreadInv
  <2>3. 0 \in PR
    <3>1. PR \subseteq {0}
      BY Zenon DEF IInv, ExtiInv
    <3> QED BY <3>1, Zenon
  <2>4. level = {EXTI0} /\ enabled = {EXTI0}
    BY <2>3, Zenon DEF IInv, LineInv, MainInv
  <2>5. EXTI0 \in enabled \cap pending
    BY <2>2, <2>4, Zenon
  <2>6. prio[EXTI0] < running_priority
    <3>1. prio[EXTI0] \in 0..255
      BY Zenon DEF IInv, LineInv
    <3>2. \A x \in 0..255 : x < 256
      OBVIOUS
    <3> QED BY <2>2, <3>1, <3>2, Zenon
  <2>7. parent_irq = 1
    BY <2>5, <2>6, Zenon DEF IInv, LineInv, Updated
  <2> QED BY <2>2, <2>7, Zenon DEF Nvic!Interruptible
<1> QED BY <1>1, Always, PTL
=============================================================================
