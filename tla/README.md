# Verification of the STM32 devices of emulador-stm32-Bluepill

The repository runs programs for an STM32F103 ("Blue Pill") in a QEMU fork with
models of the chip's devices, and connects its serial port and its pins to the
outside world. This directory holds TLA+ models of those devices, of the parts of QEMU
that drive them, of example programs that run on them and of the gateway that
connects the serial port with a phone. TLC checks the models on small instances;
TLAPS proves the theorems for every instance.

The paths below are relative to `src/docker/qemu/qemu_stm32/` (the emulator), to
`src/docker/stm32_demos/` (programs and the library they use) or, for the
gateway, to `src/gateway-windows/`.

## 1. The system

| Part | Code | State | Changes it | Interacts with |
|---|---|---|---|---|
| USART | `hw/char/stm32_uart.c` | SR, DR (RDR, TDR), BRR, CR1, CR3, baud rate, three timers, cached interrupt level | register accesses, deliveries, timers, clock changes, reset | NVIC, RCC, AFIO and GPIO (pin check), DMA, character back end |
| Serial back end | `qemu-char.c`, `main-loop.c` | connection, unread bytes, cached `max_size` | main loop iteration, the peer | USART |
| EXTI | `hw/gpio/stm32_exti.c` | IMR, RTSR, FTSR, SWIER, PR, ten outputs | edges, register writes, reset | AFIO/GPIO in, NVIC out |
| GPIO | `hw/gpio/stm32_gpio.c` | CRL/CRH, ODR, inputs, direction cache, output wires | register writes, board, reset | AFIO, EXTI, board, USART |
| AFIO | `hw/gpio/stm32_afio.c` | EXTICR, remap bits, the connections made | register writes, reset | GPIO, EXTI, USART |
| NVIC and exceptions | `hw/intc/arm_gic.c`, `hw/intc/armv7m_nvic.c`, `target-arm/helper.c`, `cpu-exec.c` | enable, pending, level, priorities, `last_active` chain, running and best pending interrupt; the CPU's exception, stacked frames, PRIMASK | device lines, register writes, exception entry and return, reset | every device, the CPU |
| SysTick | `hw/intc/armv7m_nvic.c` | control, reload, deadline or time left | callback, register writes, reset | RCC (scales), NVIC |
| Clock tree | `hw/arm/stm32_clktree.c` | input, scale, enable and frequency of each clock, notifications | calls of the RCC, recursively | RCC, users of clocks |
| RCC | `hw/arm/stm32_rcc.c` | CR, CFGR, AHBENR, APB1ENR, APB2ENR, BDCR, CSR, SysTick scales | register writes, HCLK changes, reset | clock tree, all devices |
| Periodic timer | `hw/core/ptimer.c` | limit, count, period, bottom half | calls, expiry | timers, RTC |
| Timers | `hw/timer/stm32_timer.c` | CR1, SR, reload, direction, a ptimer | bottom half, register writes, clock changes | NVIC, RCC |
| RTC | `hw/timer/stm32_rtc.c` | halves of counter and alarm, prescaler, flags, a ptimer | bottom half, register writes, clock changes, reset | RCC, NVIC |
| Watchdog | `hw/arm/stm32_iwdg.c` | lock, prescaler, reload, timer | register writes, expiry, reset | RCC (reset reason), machine |
| DMA | `hw/arm/stm32_dma.c` | channels, ISR, the circular channel and its timer | requests, register writes, timer, reset | USART, memory, NVIC |
| ADC | `hw/arm/stm32_adc.c` | EOC, enables, conversion timer, interrupt level | register accesses, timer, reset | NVIC, GPIO |
| Board | `hw/arm/stm32_f103c8.c`, `hw/arm/stm32.c` | button, LED | keys | GPIO |
| Demos | `STM32F103C8T6/*` with the StdPeriph library | program counter and variables | register accesses | all devices |
| Gateway | `gateway_bluetooth_java` | two sockets, two threads, shutdown hook | phone, emulator, Ctrl+C | serial back end (as its peer), Android app |

What makes this code hard to test: devices, CPU and main loop share state and
take turns in an order the host decides; the main loop uses an answer it got
before it waited; timers act through callbacks and bottom halves that come late,
after the guest has reprogrammed the device; interrupt lines are levels that move
while their interrupt is enabled, pending or active; the CPU and the interrupt
controller each record the nesting; connections and timers outlive a reset; the
clock tree calls itself while it changes; programs make read-modify-writes that
interrupts split; threads wait in reads that nothing but a peer ends.
`PROJECT.json` lists these as hazards, each at its line.

## 2. Modules

Each handler of a device runs under QEMU's global lock, so it is one action,
including everything it calls. `hw_error`, a failed `assert`, a division by zero
and a wild pointer end the process: they set `abort` (`fault` in `Nvic`, `ended` in the
devices with one record), and no action is enabled after it. Operators keep the
names of the functions they model; the write of a register without a function of
its own is `Write` and the register's name. A definition whose comment begins with "Mutant"
is a deliberate error; it breaks one property when it replaces the definition after
it, which shows that the property depends on that code.

**Stm32Uart** (`stm32_uart.c`). The build options `STM32_UART_NO_BAUD_DELAY` and
`STM32_UART_ENABLE_OVERRUN` are constants. An action for each register access,
the three timers, a delivery, a clock change, a DMA request (the part of
`stm32_dma.c` that re-enters the UART), a pin or remap change and a reset. The third
timer exists in the build with delays: while DMAT is set it raises a DMA request and then
completes a transmission, of its own accord.
`written`, `out`, `acc` and `got` are histories of the bytes that went in and
out on each side.

**UartLink** extends it with the TCP back end and the main loop: an iteration
asks `can_receive`, waits in poll with the lock released while the guest runs,
then delivers by the old answer, and then runs timers. The peer (external code)
sends, closes and reconnects. **UartEcho** replaces the arbitrary guest by the
`uart_echo` demo, one register access per step. `uart_echo/main.c` holds two functions
`main`, of which a compiler takes one; the first is modelled.

**Stm32Exti**, **Stm32Gpio**, **Stm32Afio** model one device each. A register is
the set of lines or pins whose bit is 1. The EXTI writes its lines in a loop; all
changes go in one direction, so they are made at once.

**EdgeLatch** is an abstract specification: a line latches the edges of the pin it
is routed to. After a machine reset it also allows (but does not demand) the edges of pins
the line was routed to earlier. **PinRouting** composes GPIO inputs, AFIO and EXTI,
and is shown to implement EdgeLatch.

**Nvic** models the controller in its NVIC revision, with one CPU, and the entry
and return of exceptions. Interrupts carry exception numbers. `frames` is the
CPU's stack of exception frames, `last_active` the controller's chain. An
assumption about the guest is part of the next-state relation: it does not
change the priority of an active interrupt (nothing in the repository does). A machine
reset (`qemu_devices_reset`) resets the CPU, then the devices, then the controller, and
lowers the lines of the UARTs (`Uarts`) on the way, to which the controller still answers.

**ButtonLed** composes GPIO, AFIO, EXTI and NVIC with the board and the demos
`button_int`, `button_int_infinite` (the same source with
`DO_NOT_CLEAR_IT_PENDING_FLAG`) and `software_int`. A guest step is one register
access; `main` and the handler have separate program counters. The demo is chosen
in the initial state.

**ClockTree** models `clktree_recalc_output_freq` call by call, with an explicit
stack, so that the states in the middle of a propagation exist. **Stm32Rcc** uses
what ClockTree shows (a finished operation leaves all frequencies consistent) and
computes frequencies from the configuration after each operation of a register
write. `SystemInit` and the StdPeriph commands that switch clocks are its guest.

**SysTick** keeps virtual time explicitly: the state of this timer is a deadline
while it counts and a remaining time while it is paused. `span` and `ran` are
histories: the length of the current count, and for how long it has counted.

**Ptimer** (`ptimer.c`) is the timer that the next two count on: operators on a
record, one per function. Virtual time is left out: an armed timer may expire at any
moment, and its bottom half is a flag that the main loop takes some time later.
**Stm32Timer** and **Stm32Rtc** use it. In Stm32Timer `deaf` is history (the timer
was enabled before its clock); in Stm32Rtc `base` and `high` are (what the counter
was set to and has ticked since, and the upper half on its own). Registers that
the code only stores are left out.
**RtcDemo** is the demo `rtc` on Stm32Rtc, one register access per step; the library
changes CRL by reading it and writing it back, which are two.

**Stm32Iwdg** counts in time left: `timer` until the watchdog bites, and the
history `owed`, which is what is left of the time the firmware was promised at the
last feed. The firmware may hang at any moment; the reset it then gets is
a request that the main loop carries out later; the monitor can ask for one too.

**Stm32Dma** drives the controller through the calls of the StdPeriph library, one
register access per step, with the requests of USART1 and the expiry of the
circular channel's timer in between. Memory is the history `from`: which byte the
last step put at each address. **Stm32Adc** keeps what the interrupt depends on. A write
with the ADC's clock off only warns, so the clock is no part of it.

**BluetoothGateway** (`App`, `ClientBluetooth`, `ClientTelnet`, `ReceiverThread`,
`TransmitterThread`): a program counter for main, both threads and the shutdown
hook. A step ends at every blocking call, send, close and test of the interrupt flag.
Each constructor may fail and leave null, each peer may leave, and every
exception goes where the `catch` blocks send it. The phone (the Android app) and
QEMU are external. From the phone come bytes: a character is one byte (`Ascii`) or two
(`TwoByte`), each read is decoded by itself, and a character that two reads share becomes
replacement characters (`Bad`). `println` ends what it sends with the platform's line separator
(`Separator`). From the emulator come characters: its reader decodes the stream as a whole.

The modules `MC*` set constants and compose; `*Proofs` hold the proofs. `MCDevices`
puts EXTI, GPIO, AFIO, watchdog, timer, RTC, DMA and ADC side by side; they share no
state, so each behaviour drives one of them (`driven`). `MCClocks` does this for
clock tree, RCC and SysTick, and `MCUart` chooses one of the two builds.

## 3. What is checked

Runs that pass, with the distinct states TLC visits:

| Run | States | Shows |
|---|---|---|
| `uart_device` | 2,820,872 | Both builds of the UART. The interrupt level is what flags and enables call for (`IrqFollowsFlags`); bytes leave in the order written (`TxInOrder`) and are read in the order received (`RxInOrder`); the baud rate follows clock and divisor (`BaudFollowsClock`). |
| `echo` | 85,250 | The demo is never stopped by the emulator (`PollingNeverFaults`), loses nothing (`NothingLost`), answers each character exactly (`EchoExact`); each character the UART has accepted, or that waits in the socket of a connected peer with the receiver on, is answered unless a reset or a disconnection comes first, and a connection that was hung up is given up (`EveryCharacterAnswered`). |
| `devices` | 726,589 | See below. |
| `pin_routing` | 360,000 | GPIO, AFIO and EXTI implement EdgeLatch (`LatchSpec`); each connection was once selected (`ConnectionsExplained`). |
| `nvic_nesting` | 737,976 | Stack and chain agree and are ordered by priority (`NestingMatches`); the best interrupt is taken (`BestIsTaken`); only a machine reset that finds a UART asserting its line leaves the CPU called without an interrupt to acknowledge (`OnlyResetStrands`); only a clear by the guest forgets a raised, enabled interrupt (`OnlyClearForgets`). |
| `button` | 944 | `button_int`: each latched press is served, once (`PressServed`, `OneTogglePerLatch`), the handler never runs for nothing (`HandlerFindsPending`). `button_int_infinite` and `software_int` toggle for ever (`KeepsToggling`): in the latter the loop's read-modify-write of SWIER never jams the trigger. |
| `clocks` | 181,731 | Frequencies are consistent when an operation is done (`Settled`); users are told once at most (`ToldOnce`); the recursion ends (`RecursionEnds`). `SystemInit` brings HCLK to 72 MHz from anything an application or a reset leaves (`ReachesFullSpeed`), without stopping it or overshooting (`StartupIsSmooth`); the SysTick scales follow HCLK (`ScalesFollow`). SysTick's deadline, and what it keeps while paused, are exact (`KeepsTime`). |
| `gateway` | 841,596 | While both peers stay nothing is lost, repeated or reordered, however streams are cut into messages; each message for the emulator is a non-empty text and exactly one line separator (`RelayExact`). After Ctrl+C one more byte from the phone, or both peers hanging up, ends the program (`ShutdownCompletes`). |

`devices`, by device:

- EXTI: no output without a pending line (`NoSpuriousIrq`); a line with its own output
  drives it exactly while pending (`PrivateIrqFollowsPending`); acknowledging rearms
  the software trigger (`AcknowledgeRearms`).
- GPIO: an output pin in step with its register stays so (`OutputsStayInSync`). AFIO: only
  a machine reset gives a line one more source, a write exchanges one for another
  (`OnlyResetAddsSources`).
- Timer: CEN and the ptimer behind it agree through late bottom halves, reprogramming
  and clock changes (`RunsWhileEnabled`).
- RTC: it never stops once its clock was on (`RtcKeepsRunning`); both halves of the
  counter are right after any writes and ticks (`CounterExact`), unless a tick carries from
  one to the other between the two writes that set them.
- Watchdog: firmware that feeds it in the promised time is never reset (`NeverEarly`);
  firmware that hangs with it enabled is (`WatchdogBites`).
- DMA: an enabled channel is inside the block it was given (`InsideBlock`, but for a
  circular one that requests of USART1 find); a memory to memory channel copies its
  block and nothing else (`CopyExact`, for blocks apart from each other and from
  peripherals).
- ADC: an enabled interrupt follows the flag, and an asserted one can be explained
  (`AdcIrqExplained`).

Runs that show a disagreement between the code and what a comment, a README or
the library says of it (each quoted under "findings" in `PROJECT.json`):

| Run | The code |
|---|---|
| `link_toggled` | Switching the receiver off and on makes the cached answer of `can_receive` stale: overrun in the build without overrun (`NoOverrun`). |
| `exti_shared` | Acknowledging one line lowers an output it shares with another pending line (`PendingRaisesIrq`). |
| `nvic_primask` | Interrupts are taken under PRIMASK (`MaskedNotTaken`). |
| `rtc_demo` | The second flag is cleared in the bottom half that sets it when its interrupt is enabled: the demo, which polls it, never shows the time (`SecondsShown`). |

The models are faithful to further places where the code departs from its
comments or from the hardware, and no run is spent on them, since each is visible
in one handler:

- UART: a character written while TC = 0 in the build without delays waits for good
  (`stm32_uart.c:578`); a clear of TC by `USART_ClearFlag` ends the emulator (`:506`).
- EXTI, GPIO, AFIO: line 19 reaches `assert(false)` (`stm32_exti.c:170`); the comment on
  BSRR has the halves swapped (`stm32_gpio.c:236`); remapping of USART1 and USART2 reads a
  field nothing writes (`stm32_afio.c:88`); a reset leaves old connections (`:117`).
- NVIC: an interrupt can be taken on a return code (`cpu-exec.c:497`); STIR triggers
  another interrupt than the one named (`armv7m_nvic.c:386`); a machine reset with an
  interrupt waiting and a UART asserting its line leaves the CPU's line up after the interrupt
  is forgotten (`armv7m_nvic.c:468`), and the CPU that takes it finds no vector, which ends the emulator.
- SysTick: enabling it resumes the last count instead of loading the reload value
  (`armv7m_nvic.c:81`).
- RCC: APB1ENR is kept without the bits of the UARTs, so the next read-modify-write
  switches them off (`stm32_rcc.c:559`); AHB enable bits act on the wrong clocks
  (`:524`); the RTC clock is left on (`:581`); APB prescaler 6 for 8 (`:459`); the PLL
  can be switched off under the CPU (`:365`).
- Timer: a 0 written to SR toggles the flag; the one-shot bit is inverted; a timer
  enabled before its clock stays dead; DIER is ignored; there is no reset handler.
- RTC: the interrupt clears SECF and ALRF, whichever caused it.
- Watchdog: RLR loses its top bit, and the period wraps at 2^32 (with prescaler 128
  from RLR 1343 on).
- DMA: flags cannot be cleared; a receive request searches the wrong address register
  and ends the emulator; the claim of the circular channel is never released; a
  memory to memory copy runs under the old CR and leaves EN set; an item is at most two
  bytes; a reset leaves the timer armed, which then indexes `stream[-1]`; only the timer
  reloads a circular block, so one that a request of USART1 has brought to its end is overrun.
- ADC: a write with the clock off takes effect; a restarted conversion leaves the interrupt asserted; JEOCIE enables EOC; the
  conversion timer survives a reset.
- Gateway: `interrupt()` does not end a blocked read, so after Ctrl+C the program
  waits for a byte or for a peer to leave. Each piece a read returns becomes a line of
  its own for the emulator (`ClientTelnet.java:40`), wherever the phone's text was cut, and a
  character cut in two is lost to replacement characters (`ClientBluetooth.java:60`).

### Bounds

- UART: at most `MaxTx` = 2 bytes written (one value above 8 bits) and `MaxRx` = 2
  received: two are enough for one byte to overtake, overwrite or repeat
  another, in data register and shift register. The divisors 1 and 20 on clocks of 0 and 10 reach
  the rate that is a division by zero. The shipped build, which has no timer for characters,
  is checked with one received value, the other with two. In `echo`, two characters and
  so 14 bytes of answer, over two connections.
- EXTI: lines 4, 5 and 6: one with its own output, two that share one.
- GPIO: pins 0, 7, 8: both halves of the configuration, and the boundary.
- AFIO: three ports, lines 0, 4, 5: two registers, and two lines of one.
- NVIC: one internal and two external interrupts, two guest priorities besides the
  reset value 0: three levels of nesting, ties included.
- Clock tree: four clocks in a diamond, frequencies modulo 8 so that products wrap.
- RCC: all oscillator subsets and the CFGR values listed in `MCClocks` (PLL multiplier 16,
  one AHB prescaler step, every source). Peripheral clocks and oscillators do not depend on
  each other in the code, so its application uses peripherals only at full speed and
  changes the speed only with them off. `MaxResets` = 1: the state after the
  first reset is that of any later one, with what the reset leaves alone included.
- SysTick: reload values 0, 1, 2, both scales, and `MaxTime` = 7 units of virtual
  time: several periods, with a pause in each.
- Ptimer: a shortest timeout of 2 with periods 1 and 2, so that limits are and are
  not raised; reload values 0, 1, 3; counts modulo 8.
- RTC: half words of one bit, so that both the carry and the wrap come soon.
- Watchdog: words of 8 and reload values modulo 4, so that the period wraps and
  a value does not fit its register, as with 2^32 and 0x800.
- DMA: two channels and 16 addresses, blocks of at most two items; six uses, listed
  in `MCDevices`.
- Gateway: two bytes from the phone, which are two characters or one that a read can cut,
  two characters from the emulator, with newlines among them, and the separator of Windows,
  where the gateway runs.

`CHECK_DEADLOCK FALSE` appears where the process may end or a bound stops
the guest: the UART, `devices` and `exti_shared` (`abort`, `ended`), `gateway` (the
program ends) and `nvic_primask`.

### Fairness

- `UartEcho`: weak fairness of a turn of the main loop, which never stops
  iterating; strong fairness of the guest, because the CPU thread can run only while the
  main loop waits with the lock released, which happens in every iteration.
- `ButtonLed`: weak fairness of the guest's next access and of `cpu_exec`
  taking an interrupt, both in the CPU thread's endless loop. No fairness of keys or resets.
- `ClockTree`: weak fairness of the recursion: it is one function call.
- `Stm32Rcc`: weak fairness of `SystemInit`, the guest's program.
- `Stm32Iwdg`: weak fairness of time, of a due timer and of the main loop's reset;
  none of the firmware.
- `RtcDemo`: weak fairness of the guest, of the ptimer's expiry and of the bottom half.
- `BluetoothGateway`: weak fairness of each thread that can go on. None of
  `acceptAndOpen`, of the peers or of Ctrl+C.

## 4. What is proved

All theorems hold for every value of the constants the named assumptions allow,
without the bounds above.

**UartProofs**: `TypeOK`, `IrqFollowsFlags`, `TxInOrder`, `RxInOrder`,
`BaudFollowsClock`, from `UartAssumption`. `TxInOrder` is not inductive: a state
with TC set and a byte in TDR would send out of order. `TxState` relates TXE, TC, TDR
and the two histories, and `RxState` does so for the receiver. A DMA request and
a reset go through the same handlers, so lemmas about the helper functions carry
most steps. For the `uart_echo` demo, under `DemoSetup` (the build the repository
makes: no baud delay, no overrun; the demo's pins; a divisor the clock can serve): `PollingNeverFaults`,
`NothingLost`, `EchoExact`, for any input. None is inductive: that an
access of DR does not fault depends on how far the program is (`Program`), and
that the answer of `can_receive` the main loop kept is still true when it is used,
on the fact that nothing arrives during a wait that began with RDR full (its last conjunct).
`BackendIsWoken` is the part of `EveryCharacterAnswered` that is no matter of fairness: a wait
that leaves out the socket of a connected peer has a deadline, because the receive timer is
armed with the first character and re-arms itself ever after (`Woken`).
In the build with delays two timers complete a transmission, and the DMA controller may write
a character between them: `TxState` holds after each handler it passes through, which
`DmaTxCompleteFacts` and `DmaTxWriteFacts` say.

**RoutingProofs**: `ConnectionsExplained`, and the refinement
`Spec => LatchSpec`. The invariant says that each connection was selected at some
time, the present selection is connected, and before a reset it is alone; with
it every step of the devices maps to a step or a stutter of EdgeLatch.

**NvicProofs**: `TypeOK`, `OnlyResetStrands`, `NestingMatches`, `BestIsTaken`,
`OnlyClearForgets`, for any interrupts and nesting depth. The strengthening is
`LineOk`: the CPU's line and the best pending interrupt are what `gic_update` would
compute (`LineUp`), or a reset has left the line up with nothing pending (`Stranded`),
which the next `gic_update` ends. Without it a stale line could come about in other ways.

**ClockProofs**: `TypeOK`, `Settled`, `ToldOnce`, for every tree whose inputs are
created before their users (`ClockAssumption`). In the middle of a propagation
a clock may lag behind its input only while a pending call still has it to visit (`Fed`);
calls are for ever later clocks (`Down`), so what callers hold stays true
(`Held`), and a child still to be visited has not been told (`Fresh`, `Reached`).
The same invariant gives the two facts that `RecursionEnds` rests on besides fairness: no
clock is entered again while a call for it is pending (`NoReentry`), and each turn uses up a
clock not yet told, a child to visit, or a call (`RecursionDescends`).

For the system timer, from `SysTickAssumption` and without a bound on time: `KeepsTime`,
which is inductive with the types (`TickInv`), and from it that the callback never
comes before a whole period was counted (`NotEarly`). For the RCC, from
`RccAssumption` (a crystal between 256 Hz and 8 MHz, which is what the board's is;
CFGR fields within their widths; SW not 3, which the code refuses) and whatever the
application writes: `ScalesFollow`, the action property `StartupIsSmooth`, and that the last
statement of `SystemInit` leaves HCLK at nine times the crystal (`StartupEndsFast`, which
`ReachesFullSpeed` rests on). The
invariant says what HCLK is in terms of the registers, that it is 0 or such that
the scale does not divide to 0 (`Frequencies`), and what each
statement of `SystemInit` has left for the next (`Progress`): the statement that
switches HCLK to the PLL is smooth only because the ones before it set the
multiplier and turned HSE and PLL on. A register write announces several HCLK frequencies, so the step
is an induction over that sequence.

**DeviceProofs**, from `DevicesAssumption`: `AdcIrqExplained`; `CounterExact` and
`RtcKeepsRunning`; `RunsWhileEnabled`. The RTC's invariant `RtcOk` adds that each half stays in its
range, and that a half written by itself is remembered as long as no carry has changed it (`CounterOk`); its
ptimer runs as a one shot only (`OneShotOk`). The timer's invariant `TimOk` has two
parts, because a handler passes through states between: `Sane` holds at every call,
and `Running` after the last one. Both need that a running ptimer has
a period, since a reload with none stops it without a bottom half. The watchdog,
from `IwdgAssumption`: `NeverEarly`, by the invariant that the
timer never has less left than `owed` (`Covered`), which needs that a started watchdog
has its timer armed (`StartedIsArmed`). `PeriodFits` does the arithmetic for the real
numbers, 2^32 and 0x800: up to prescaler 64 no period wraps.

For the EXTI, in the same module: `TypeOK`, `NoSpuriousIrq`, `PrivateIrqFollowsPending`
(inductive together) and the action property `AcknowledgeRearms`; the lemma
`PendingChange` is about the one function all changes go through. For the GPIO
`OutputsStayInSync`, of any ports and pins. For the AFIO `OnlyResetAddsSources`, of any lines
and ports: the present selection is always connected (`AfioOk`), so a write
of EXTICR takes one source from a line before it adds one.

**ButtonProofs**, for any number of resets (`ButtonAssumption`): `HandlerFindsPending` and
`OneTogglePerLatch`. Both are about a key, EXTI, NVIC, CPU and program at once, so the
invariant follows a press through the board: the EXTI's pending bit is the level of its output
(`ExtiInv`), which is the level the NVIC knows (`LineInv`); outside the handler an enabled
interrupt is pending exactly when that level is up (`ThreadInv`); and from its entry until
it acknowledges the handler owns the bit (`HandlerInv`), because the writes of main
that could clear it come before the interrupt is enabled (`MainInv`). From it also
`LatchedIsHeard`: a press latched after that is in its handler or can interrupt the CPU at
once, the part of `PressServed` that is no matter of fairness.

**DmaProofs**, for every set of channels and width of addresses, from `DmaAssumption`
(what firmware asks for fits the registers and is at least one item, which `DMA_Init`
asserts, `stm32f10x_dma.c:209`): `InsideBlock` and the action property `CopyExact`. The
invariant `DmaOk` says of every channel that no library call is at work on that it
is in its block (`Inside`), and of the other how far the call has come (`Stopping`,
`Starting`). A channel cannot be moved from under `DMA_Init`, because a write of NDTR to an
enabled one ends the emulator; what `DMA_Cmd` writes back is what it read, because
nothing changes a disabled channel in between. `InsideBlock` excepts the circular blocks
that hold the data register of USART1 (`Away`): requests move through them without a
reload, and a proof for all blocks fails there. `CopyExact` goes item by item
(`Copying`, `CopyItem`), on addresses that may wrap round.

**GatewayProofs**: `RelayExact`, for streams of any length cut into messages
anywhere. The invariant adds which thread holds a message when (`Hands`), that nothing
moved before both connections exist (`Fresh`), that each line is cut at its
newline (`Lines`), and that what was relayed, is in hand and is still unread
is a beginning of what was sent, even after a peer has left (`UpOk`, `DownOk`). On the way
to the emulator what was sent are bytes and what was relayed are texts between separators:
`Carries` compares them position by position, and lets only bytes that are not ASCII arrive as replacements.
It rests on lemmas about `Joined`, the text of a sequence of messages, which is defined by
recursion: what appending a message does to it. `ShutdownIsOrderly` needs none of this: a socket is closed by the program only after the
hook has told the receiver to end, and the hook is done only when both threads are (`EndInv`).

Where a proof needs induction over the natural numbers (the frequencies of one register
write, the items of a block, the messages of a stream) it is done with a least
counterexample: `Least` takes one from the library's theorem about well-founded
relations, `Induction` states the result for a set in place of a predicate.

Every safety property of the passing runs is stated by a theorem. Only model-checked is
liveness (`EveryCharacterAnswered`, `PressServed`, `KeepsToggling`, `RecursionEnds`,
`ReachesFullSpeed`, `WatchdogBites`, `ShutdownCompletes`): it needs fairness and ENABLED, which
are out of the prover's reach. What it rests on besides fairness is proved: `BackendIsWoken`,
`LatchedIsHeard`, `NoReentry` and `RecursionDescends`, `StartupEndsFast`, `StartedIsArmed`,
`ShutdownIsOrderly`.

## 5. What is not modelled

- DAC: register writes become samples in a file, and no later step depends on them.
- CRC unit: a polynomial division over 32 bits. A small width would check another
  polynomial, and the real one is out of TLC's reach.
- FreeRTOS: a third-party kernel, unchanged here. Its demos use UART, SysTick and
  NVIC through operations modelled here.
- Boards other than the Blue Pill differ in wiring alone.
- Android app: user interface. What it does to the link (send, pause, resume) is the
  phone of BluetoothGateway.
- The rest of QEMU and of the libraries: upstream code, used through the calls modelled.
  It makes up nearly all lines of the repository.
- Within modelled devices: registers the code does not implement (EMR, LCKR, EVCR,
  RCC interrupts), registers it only stores (capture/compare and DIER of the timers,
  IFCR, the injected channels of the ADC), sampled values and sample times, output of
  the TCP back end (which blocks), characters of the gateway that Java keeps as two `char`
  (outside the basic plane), and inputs that leave an array or divide by zero,
  named among the hazards.
