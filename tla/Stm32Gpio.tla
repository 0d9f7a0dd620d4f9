------------------------------ MODULE Stm32Gpio ------------------------------
(***************************************************************************)
(* The GPIO ports, hw/gpio/stm32_gpio.c: identical devices, so the state is *)
(* indexed by port.  A 16-bit register is the set of pins whose bit is set; *)
(* GPIOx_CRy gives each pin its four configuration bits.                    *)
(***************************************************************************)
EXTENDS Integers

CONSTANTS
  Ports,      \* the ports in use
  Pins,       \* the pins in use, among 0..15
  Configs     \* configuration bits the guest gives to a pin, in 0..15

VARIABLES
  CRy,        \* GPIOx_CRy: configuration bits of each pin
  ODR,        \* GPIOx_ODR
  input,      \* the field "in": level of each pin as the board drives it
  dir_mask,   \* output pins
  out         \* level the board sees on each output wire

gpioVars == <<CRy, ODR, input, dir_mask, out>>

get_mode_bits(config) == config % 4

Low == {pin \in Pins : pin < 8}
High == Pins \ Low

\* Configuration 4, a floating input.
ResetConfig == [pin \in Pins |-> 4]
-----------------------------------------------------------------------------
\* The board changes the level of a pin; the caller relays it to in_irq.
stm32_gpio_in_trigger(port, pin, level) ==
  /\ input' = [input EXCEPT ![port] = IF level = 1 THEN @ \cup {pin} ELSE @ \ {pin}]
  /\ UNCHANGED <<CRy, ODR, dir_mask, out>>

\* Mutant: bits that are set are not driven.
ODR_writeSkips(port, value) ==
  LET changed == (ODR[port] \ value) \cap dir_mask[port]
  IN  /\ ODR' = [ODR EXCEPT ![port] = value]
      /\ out' = [out EXCEPT ![port] = (@ \ changed) \cup (changed \cap value)]

\* stm32_gpio_update_dir: the pins of one half follow their mode bits.
stm32_gpio_update_dir(port, pins) ==
  dir_mask' = [dir_mask EXCEPT ![port] =
    (@ \ pins) \cup {pin \in pins : get_mode_bits(CRy'[port][pin]) # 0}]

\* Only output pins whose register bit changes are driven.
stm32_gpio_GPIOx_ODR_write(port, value) ==
  LET changed == (ODR[port] \ value) \cup (value \ ODR[port])
      changed_out == changed \cap dir_mask[port]
  IN  /\ ODR' = [ODR EXCEPT ![port] = value]
      /\ out' = [out EXCEPT ![port] = (@ \ changed_out) \cup (changed_out \cap value)]
-----------------------------------------------------------------------------
(***************************************************************************)
(* Register writes by the guest; reads have no effect.                      *)
(***************************************************************************)
\* GPIOx_CRL configures the low half of the pins, GPIOx_CRH the high half.
WriteCR(port, pins, config) ==
  /\ CRy' = [CRy EXCEPT ![port] =
               [pin \in Pins |-> IF pin \in pins THEN config[pin] ELSE @[pin]]]
  /\ stm32_gpio_update_dir(port, pins)
  /\ UNCHANGED <<ODR, input, out>>

WriteODR(port, value) ==
  /\ stm32_gpio_GPIOx_ODR_write(port, value)
  /\ UNCHANGED <<CRy, input, dir_mask>>

\* The two halves of GPIOx_BSRR: lower and upper are their bits.
WriteBSRR(port, lower, upper) ==
  /\ stm32_gpio_GPIOx_ODR_write(port, (ODR[port] \ upper) \cup lower)
  /\ UNCHANGED <<CRy, input, dir_mask>>

WriteBRR(port, value) ==
  /\ stm32_gpio_GPIOx_ODR_write(port, ODR[port] \ value)
  /\ UNCHANGED <<CRy, input, dir_mask>>

\* Machine reset: every port lowers all its wires and keeps its input.
stm32_gpio_reset ==
  /\ CRy' = [port \in Ports |-> ResetConfig]
  /\ ODR' = [port \in Ports |-> {}]
  /\ dir_mask' = [port \in Ports |-> {}]
  /\ out' = [port \in Ports |-> {}]
  /\ UNCHANGED input

Init ==
  /\ CRy = [port \in Ports |-> ResetConfig]
  /\ ODR = [port \in Ports |-> {}]
  /\ input = [port \in Ports |-> {}]
  /\ dir_mask = [port \in Ports |-> {}]
  /\ out = [port \in Ports |-> {}]

Guest(port) ==
  \/ \E config \in [Pins -> Configs] :
       WriteCR(port, Low, config) \/ WriteCR(port, High, config)
  \/ \E value \in SUBSET Pins : WriteODR(port, value) \/ WriteBRR(port, value)
  \/ \E lower, upper \in SUBSET Pins : WriteBSRR(port, lower, upper)

Next ==
  \/ \E port \in Ports : Guest(port)
  \/ \E port \in Ports, pin \in Pins, level \in {0, 1} :
       stm32_gpio_in_trigger(port, pin, level)
  \/ stm32_gpio_reset

Spec == Init /\ [][Next]_gpioVars
-----------------------------------------------------------------------------
\* A wire that shows its register bit keeps showing it as long as its pin is
\* an output: no write to ODR, BSRR or BRR gets lost by driving only the bits
\* that change (stm32_gpio_GPIOx_ODR_write).
OutputsStayInSync ==
  [][\A port \in Ports : \A pin \in dir_mask[port] \cap dir_mask'[port] :
       (pin \in out[port] <=> pin \in ODR[port])
         => (pin \in out'[port] <=> pin \in ODR'[port])]_gpioVars
=============================================================================
