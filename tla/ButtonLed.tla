------------------------------ MODULE ButtonLed ------------------------------
(***************************************************************************)
(* The Blue Pill board (hw/arm/stm32_f103c8.c) running the demos            *)
(* button_int, button_int_infinite and software_int: the B key raises pin 0 *)
(* of GPIO A, the AFIO routes it to line 0 of the EXTI, whose interrupt     *)
(* runs a handler that toggles the LED on pin 13 of GPIO C.  The devices    *)
(* are the project's own modules.  A step of the guest is one access to a   *)
(* register; keys, the interrupt line and resets come in between.           *)
(***************************************************************************)
EXTENDS Integers, Sequences

CONSTANTS
  MaxResets   \* bound on machine resets

ASSUME ButtonAssumption == MaxResets \in Nat

Demos == {"button_int", "button_int_infinite", "software_int"}

VARIABLES
  demo,                                         \* the program that was loaded
  CRy, ODR, input, dir_mask, out,               \* GPIO A (0) and C (2)
  EXTICR, conn, REMAP,                    \* the AFIO
  IMR, RTSR, FTSR, SWIER, PR, irq, abort,       \* the EXTI
  level, enabled, pending, prio, last_active, running_irq, running_priority,
  current_pending, parent_irq, exception, magic, frames, primask, fault,
  pressed,    \* last_button_pressed of the board
  pc,         \* next access of main: 1..Len(Main), then its loop
  tmp,        \* SWIER as the loop of software_int read it
  hpc,        \* next access of EXTI0_IRQHandler
  led_status, \* variable of the demo
  latches,    \* history: parity of the times line 0 became pending
  resets

EXTI0 == 22                \* exception number of EXTI0_IRQn, 6
Led == 13

Gpio == INSTANCE Stm32Gpio
          WITH Ports <- {0, 2}, Pins <- {0, Led}, Configs <- {3, 4}
Afio == INSTANCE Stm32Afio WITH PortIds <- {0, 2}, ExtiLines <- {0}
Exti == INSTANCE Stm32Exti WITH Lines <- {0}
Nvic == INSTANCE Nvic WITH Internal <- {}, External <- {EXTI0}, Uarts <- {},
                           Priorities <- 0..255, StirValues <- {}

gpioVars == <<CRy, ODR, input, dir_mask, out>>
afioVars == <<EXTICR, conn, REMAP>>
extiVars == <<IMR, RTSR, FTSR, SWIER, PR, irq, abort>>
nvicVars == <<level, enabled, pending, prio, last_active, running_irq,
              running_priority, current_pending, parent_irq,
              exception, magic, frames, primask, fault>>
guestVars == <<pc, tmp, hpc, led_status>>
vars == <<gpioVars, afioVars, extiVars, nvicVars, guestVars,
          demo, pressed, latches, resets>>
-----------------------------------------------------------------------------
\* The EXTI's output 0 is an input of the NVIC; becoming pending is counted.
Wired ==
  /\ IF irq'[0] # irq[0] THEN Nvic!gic_set_irq(EXTI0, irq'[0])
                         ELSE UNCHANGED nvicVars
  /\ latches' = IF PR' \ PR # {} THEN 1 - latches ELSE latches

\* Only a change of the button is passed on.
stm32_f103_key_event(make) ==
  /\ make # pressed
  /\ pressed' = make
  /\ Gpio!stm32_gpio_in_trigger(0, 0, IF make THEN 1 ELSE 0)
  /\ IF <<0, 0>> \in conn
     THEN Exti!stm32_exti_gpio_in_handler(0, IF make THEN 1 ELSE 0)
     ELSE UNCHANGED extiVars
  /\ Wired
  /\ UNCHANGED <<afioVars, guestVars, demo, resets>>
-----------------------------------------------------------------------------
(***************************************************************************)
(* The guest's accesses.  A device not named in one is left alone.          *)
(***************************************************************************)
GpioOnly == UNCHANGED <<afioVars, extiVars, nvicVars, latches>>
ExtiOnly == Wired /\ UNCHANGED <<gpioVars, afioVars>>
NvicOnly == UNCHANGED <<gpioVars, afioVars, extiVars, latches>>

GPIO_WriteBit(pin, value) ==
  /\ IF value = 1 THEN Gpio!WriteBSRR(2, {pin}, {}) ELSE Gpio!WriteBRR(2, {pin})
  /\ GpioOnly

\* The last access of GPIO_Init, to the half with the pin.
GPIO_Init(port, pin, mode) ==
  /\ Gpio!WriteCR(port, IF pin < 8 THEN Gpio!Low ELSE Gpio!High,
                  [CRy[port] EXCEPT ![pin] = mode])
  /\ GpioOnly

\* NVIC_Init computes the priority with a register the emulator reads as 0
\* (SCB->AIRCR) and the CPU's shifts: a count's low byte counts, and 32 or
\* more leaves nothing.
lsl(value, count) ==
  IF count % 256 >= 32 THEN 0 ELSE value * 2^(count % 256)
lsr(value, count) ==
  IF count % 256 >= 32 THEN 0 ELSE value \div 2^(count % 256)

NVIC_priority(aircr, preemption, sub) ==
  LET group == (7 - ((aircr \div 256) % 8))
      bits == lsl(preemption, 4 - group) + (sub % (lsr(15, group) + 1))
  IN  (bits * 16) % 256

\* main in the order of its accesses to registers: init_led, init_button,
\* enable_button_interrupts (GPIO_EXTILineConfig, EXTI_Init, NVIC_Init).
Main == <<"led off", "led output", "button input", "exticr", "exticr",
          "imr off", "imr on", "rtsr off", "ftsr off", "rtsr on",
          "priority", "enable">>

Do(access) ==
  \/ access = "led off" /\ GPIO_WriteBit(Led, 1)
  \/ access = "led output" /\ GPIO_Init(2, Led, 3)
  \/ access = "button input" /\ GPIO_Init(0, 0, 4)
  \/ /\ access = "exticr"
     /\ Afio!WriteEXTICR(0, [line \in {0} |-> 0])
     /\ UNCHANGED <<gpioVars, extiVars, nvicVars, latches>>
  \/ access = "imr off" /\ Exti!WriteIMR(IMR \ {0}) /\ ExtiOnly
  \/ access = "imr on" /\ Exti!WriteIMR(IMR \cup {0}) /\ ExtiOnly
  \/ access = "rtsr off" /\ Exti!WriteRTSR(RTSR \ {0}) /\ ExtiOnly
  \/ access = "ftsr off" /\ Exti!WriteFTSR(FTSR \ {0}) /\ ExtiOnly
  \/ access = "rtsr on" /\ Exti!WriteRTSR(RTSR \cup {0}) /\ ExtiOnly
  \/ access = "priority" /\ Nvic!SetPriority(EXTI0, NVIC_priority(0, 15, 15)) /\ NvicOnly
  \/ access = "enable" /\ Nvic!SetEnable({EXTI0}) /\ NvicOnly

main ==
  /\ exception = 0 /\ pc <= Len(Main)
  /\ Do(Main[pc])
  /\ pc' = pc + 1
  /\ UNCHANGED <<tmp, hpc, led_status, demo, pressed, resets>>

\* The loop of software_int: EXTI->SWIER |= EXTI_Line0 reads and then writes.
EXTI_GenerateSWInterrupt ==
  /\ demo = "software_int" /\ exception = 0 /\ pc > Len(Main)
  /\ \/ /\ pc = Len(Main) + 1
        /\ pc' = pc + 1 /\ tmp' = SWIER
        /\ UNCHANGED <<extiVars, nvicVars, latches, gpioVars, afioVars>>
     \/ /\ pc = Len(Main) + 2
        /\ pc' = pc - 1 /\ tmp' = {}
        /\ Exti!WriteSWIER(tmp \cup {0})
        /\ ExtiOnly
  /\ UNCHANGED <<hpc, led_status, demo, pressed, resets>>
-----------------------------------------------------------------------------
\* Mutant: the handler returns without acknowledging.
IRQHandlerNeverClears ==
  /\ exception = EXTI0 /\ ~magic
  /\ \/ /\ hpc = "test"
        /\ hpc' = IF PR \cap IMR # {} THEN "write" ELSE "return"
        /\ UNCHANGED <<gpioVars, afioVars, extiVars, nvicVars, latches, led_status>>
     \/ /\ hpc = "write" /\ hpc' = "return"
        /\ GPIO_WriteBit(Led, 1 - led_status)
        /\ led_status' = 1 - led_status
     \/ /\ hpc = "return" /\ hpc' = "test"
        /\ Nvic!Return /\ NvicOnly
        /\ UNCHANGED led_status
  /\ UNCHANGED <<pc, tmp, demo, pressed, resets>>

\* EXTI_GetITStatus, GPIO_WriteBit, EXTI_ClearITPendingBit, return.
EXTI0_IRQHandler ==
  /\ exception = EXTI0 /\ ~magic
  /\ \/ /\ hpc = "test"
        /\ hpc' = IF PR \cap IMR # {} THEN "write" ELSE "return"
        /\ UNCHANGED <<gpioVars, afioVars, extiVars, nvicVars, latches, led_status>>
     \/ /\ hpc = "write"
        /\ hpc' = IF demo = "button_int_infinite" THEN "return" ELSE "clear"
        /\ GPIO_WriteBit(Led, 1 - led_status)
        /\ led_status' = 1 - led_status
     \/ /\ hpc = "clear" /\ hpc' = "return"
        /\ Exti!WritePR({0}) /\ ExtiOnly
        /\ UNCHANGED led_status
     \/ /\ hpc = "return" /\ hpc' = "test"
        /\ Nvic!Return /\ NvicOnly
        /\ UNCHANGED led_status
  /\ UNCHANGED <<pc, tmp, demo, pressed, resets>>

\* The CPU enters and leaves the exception.
cpu_exec ==
  /\ Nvic!TakeInterrupt \/ Nvic!do_v7m_exception_exit
  /\ NvicOnly
  /\ UNCHANGED <<guestVars, demo, pressed, resets>>

\* The board has no reset handler: the button keeps its state.
qemu_system_reset ==
  /\ resets < MaxResets /\ resets' = resets + 1
  /\ Gpio!stm32_gpio_reset /\ Afio!stm32_afio_reset /\ Exti!stm32_exti_reset
  /\ Nvic!qemu_devices_reset
  /\ pc' = 1 /\ tmp' = {} /\ hpc' = "test" /\ led_status' = 0 /\ latches' = 0
  /\ UNCHANGED <<demo, pressed>>

Init ==
  /\ demo \in Demos
  /\ Gpio!Init /\ Afio!Init /\ Exti!Init /\ Nvic!Init
  /\ pressed = FALSE
  /\ pc = 1 /\ tmp = {} /\ hpc = "test" /\ led_status = 0
  /\ latches = 0 /\ resets = 0

Guest == main \/ EXTI_GenerateSWInterrupt \/ EXTI0_IRQHandler
Next ==
  \/ \E make \in BOOLEAN : stm32_f103_key_event(make)
  \/ Guest
  \/ cpu_exec
  \/ qemu_system_reset

\* The CPU thread keeps running, and looks at its interrupt line between
\* translation blocks.
Spec == Init /\ [][Next]_vars /\ WF_vars(Guest) /\ WF_vars(cpu_exec)
-----------------------------------------------------------------------------
\* "should this always be true if we are inside the interrupt handle?" asks
\* EXTI0_IRQHandler: yes.  Whenever the handler looks, line 0 is pending, even
\* when it runs again because the key was pressed while it was returning.
HandlerFindsPending ==
  exception = EXTI0 /\ ~magic /\ hpc = "test" => 0 \in PR \cap IMR

\* Each time line 0 becomes pending the demo toggles its state exactly once:
\* led_status has the parity of the latched presses, less the one not served.
OneTogglePerLatch ==
  demo # "button_int_infinite" =>
    led_status = IF PR # {} /\ hpc # "clear" THEN 1 - latches ELSE latches

\* A press that was latched is served: however keys and resets interleave with
\* the guest, line 0 does not stay pending.
PressServed == demo = "button_int" => (PR # {} ~> PR = {})

\* Two demos toggle the LED's state forever unless the machine is reset: the
\* loop of software_int without a key being pressed, and, once line 0 is
\* pending, button_int_infinite, whose DO_NOT_CLEAR_IT_PENDING_FLAG "will cause
\* the interrupt handler to repeatedly run in an infinite loop".
KeepsToggling ==
  \A r \in 0..MaxResets, s \in {0, 1} :
    (/\ demo = "software_int" \/ (demo = "button_int_infinite" /\ PR # {})
     /\ pc > Len(Main) /\ resets = r) ~> (led_status = s \/ resets > r)
=============================================================================
