------------------------------ MODULE Stm32Uart ------------------------------
(***************************************************************************)
(* The USART device model, hw/char/stm32_uart.c.  Its two build options     *)
(* (l.34-35, qemu_stm32/README) are constants: with NoBaudDelay, which the  *)
(* repository ships, a transmission completes inside the register write;    *)
(* without it tx_timer and the "receiving" flag simulate the line's speed.  *)
(*                                                                          *)
(* A handler runs with QEMU's global lock held: it is one step.  The static *)
(* functions of the source are operators; where one runs inside another it  *)
(* takes the flags and the interrupt line as its caller left them.          *)
(* hw_error, a failed assert and a division by zero end the process: abort. *)
(***************************************************************************)
EXTENDS Integers, Sequences

CONSTANTS
  Periph,       \* which UART this device is (the "periph" property)
  BoardMap,     \* afio_board_map, given by stm32_uart_connect
  NoBaudDelay,  \* is STM32_UART_NO_BAUD_DELAY defined?
  EnableOverrun,\* is STM32_UART_ENABLE_OVERRUN defined?
  DRValues,     \* values the guest writes to USART_DR
  RxBytes,      \* bytes the character backend delivers
  CR1Values,    \* the bits the guest writes to USART_CR1
  BRRValues,    \* values the guest writes to USART_BRR
  Freqs,        \* frequencies of the UART's peripheral clock
  Remaps,       \* values the guest gives the UART's field of AFIO_MAPR
  PinModes,     \* configurations the guest gives the GPIO pins
  MaxTx,        \* bound: bytes handed to the transmitter
  MaxRx         \* bound: bytes delivered to the receiver

Bit == {0, 1}
Byte == 0..255
Data == 0..511      \* what USART_DR holds: eight or nine bits
Divisor == {n \in Nat : n < 65536} \* what USART_BRR holds
DmaBits == IF NoBaudDelay THEN {"DMAR"} ELSE {"DMAR", "DMAT"}
CR1Type == [UE: Bit, TE: Bit, RE: Bit, TXEIE: Bit, TCIE: Bit, RXNEIE: Bit]

\* The GPIO pin check_tx_pin looks at, by remap value; "none" is assert(false).
TxPin == [UART1 |-> <<"PA9", "PB6">>,
          UART2 |-> <<"PA2", "PD5">>,
          UART3 |-> <<"PB10", "PC10", "none", "PD8">>]
Pins == {"PA9", "PB6", "PA2", "PD5", "PB10", "PC10", "PD8"}

ASSUME UartAssumption ==
  /\ Periph \in {"UART1", "UART2", "UART3"}
  /\ BoardMap \in Nat
  /\ NoBaudDelay \in BOOLEAN /\ EnableOverrun \in BOOLEAN
  /\ DRValues \subseteq Nat
  /\ RxBytes \subseteq Byte
  /\ CR1Values \subseteq CR1Type
  /\ BRRValues \subseteq Divisor
  /\ Freqs \subseteq Nat /\ 0 \in Freqs
  /\ 0 \in Remaps /\ Remaps \subseteq 0..(Len(TxPin[Periph]) - 1)
  /\ "input" \in PinModes /\ PinModes \subseteq {"input", "output", "alternate"}
  /\ MaxTx \in Nat /\ MaxRx \in Nat

VARIABLES
  SR,           \* USART_SR_TXE, _TC, _RXNE, _ORE
  CR1,          \* the USART_CR1 fields
  CR3,          \* the DMA bits set in USART_CR3
  RDR, TDR, BRR,
  bits_per_sec,
  sr_read_since_ore_set,
  receiving,
  rx_timer, tx_timer,   \* are they armed?
  line,         \* curr_irq_level, and the level the interrupt controller holds
  out,          \* history: what went to the character backend
  written,      \* history: what USART_DR accepted and has not been dropped
  acc,          \* history: what was stored in USART_RDR
  got,          \* history: positions in acc that reads of USART_DR returned
  abort,        \* hw_error, a failed assert or SIGFPE ended the process
  clk,          \* what stm32_rcc_get_periph_freq returns for this UART
  remap,        \* what stm32_afio_get_periph_map returns for this UART
  pin           \* configuration of the GPIO pins

cfgVars == <<CR1, CR3, BRR, bits_per_sec>>
rxVars == <<RDR, acc, sr_read_since_ore_set, receiving, rx_timer>>
txVars == <<TDR, tx_timer, out, written>>
envVars == <<clk, remap, pin>>
vars == <<SR, line, got, abort, cfgVars, rxVars, txVars, envVars>>
-----------------------------------------------------------------------------
(***************************************************************************)
(* Helper functions.                                                        *)
(***************************************************************************)
\* ns_per_char, the length of the timers' delays, is computed with it: the
\* second division has bits_per_sec as divisor.
stm32_uart_baud_update(brr, freq) ==
  /\ bits_per_sec' = IF brr = 0 \/ freq = 0 THEN 0 ELSE freq \div brr
  /\ abort' = (brr # 0 /\ freq # 0 /\ bits_per_sec' = 0)

IrqLevel(s, c) ==
  IF \/ c.TCIE = 1 /\ s.TC = 1
     \/ c.TXEIE = 1 /\ s.TXE = 1
     \/ c.RXNEIE = 1 /\ (s.ORE = 1 \/ s.RXNE = 1)
  THEN 1 ELSE 0

stm32_uart_update_irq(l, s, c) ==
  IF IrqLevel(s, c) # l.curr_irq_level
  THEN [irq |-> IrqLevel(s, c), curr_irq_level |-> IrqLevel(s, c)]
  ELSE l

Ch(value) == value % 256

\* What the transmitter's functions work on.
Tx(s, l, o, t) == [SR |-> s, line |-> l, out |-> o, tx_timer |-> t]

\* stm32_uart_tx_complete with nothing waiting in TDR.
TxDone(s, l, o) ==
  LET s1 == [s EXCEPT !.TC = 1]
  IN  Tx(s1, stm32_uart_update_irq(l, s1, CR1), o, FALSE)

\* Mutant: the character sent is the one in TDR.
StartTxFromTDR(s, l, o, value) ==
  LET s1 == [s EXCEPT !.TC = 0]
  IN  IF ~NoBaudDelay THEN Tx(s1, l, Append(o, Ch(TDR)), TRUE)
      ELSE TxDone(s1, l, Append(o, Ch(TDR)))

\* stm32_uart_start_tx.  With NoBaudDelay it calls stm32_uart_tx_complete,
\* which may call it once more for the character in TDR.
stm32_uart_start_tx(s, l, o, value) ==
  LET s1 == [s EXCEPT !.TC = 0]
      o1 == Append(o, Ch(value))
      s2 == [s1 EXCEPT !.TXE = 1]
  IN  IF ~NoBaudDelay THEN Tx(s1, l, o1, TRUE)
      ELSE IF s.TXE = 1 THEN TxDone(s1, l, o1)
      ELSE TxDone(s2, stm32_uart_update_irq(l, s2, CR1), Append(o1, Ch(TDR)))

stm32_uart_tx_complete(s, l, o) ==
  LET s1 == [s EXCEPT !.TXE = 1]
  IN  IF s.TXE = 1 THEN TxDone(s, l, o)
      ELSE stm32_uart_start_tx(s1, stm32_uart_update_irq(l, s1, CR1), o, TDR)

\* stm32_uart_check_tx_pin returns instead of stopping the process.
TxPinReady ==
  LET p == TxPin[Periph][remap + 1]
  IN  p # "none" /\ pin[p] = "alternate"
-----------------------------------------------------------------------------
(***************************************************************************)
(* The two halves of USART_DR, also reached from the DMA controller: s and  *)
(* l are the flags and the line before the access, RDR', acc' and           *)
(* sr_read_since_ore_set' what the caller made of the receive buffer.       *)
(***************************************************************************)
\* Mutant: RXNE survives the read.
DR_readKeepsRXNE(s, l) ==
  LET ok == CR1.UE = 1 /\ CR1.RE = 1 /\ s.RXNE = 1
  IN  /\ abort' = ~ok
      /\ SR' = s /\ line' = l
      /\ got' = IF ok THEN Append(got, Len(acc')) ELSE got
      /\ UNCHANGED txVars

stm32_uart_USART_DR_read(s, l) ==
  LET s1 == [s EXCEPT !.RXNE = 0,
                      !.ORE = IF sr_read_since_ore_set' THEN 0 ELSE @]
      ok == CR1.UE = 1 /\ CR1.RE = 1 /\ s.RXNE = 1
  IN  /\ abort' = ~ok
      /\ SR' = IF ok THEN s1 ELSE s
      /\ line' = IF ok THEN stm32_uart_update_irq(l, s1, CR1) ELSE l
      /\ got' = IF ok THEN Append(got, Len(acc')) ELSE got
      /\ UNCHANGED txVars

DR_writeError(s, l) ==
  /\ CR1.UE = 0 \/ CR1.TE = 0 \/ ~TxPinReady \/ (s.TC = 0 /\ s.TXE = 0)
  /\ abort' = TRUE
  /\ SR' = s /\ line' = l
  /\ UNCHANGED txVars

DR_writeStart(s, l, v) ==
  LET t == stm32_uart_start_tx(s, l, out, v)
  IN  /\ s.TC = 1
      /\ SR' = t.SR /\ line' = stm32_uart_update_irq(t.line, t.SR, CR1)
      /\ out' = t.out /\ tx_timer' = t.tx_timer
      /\ UNCHANGED TDR

\* Mutant: TXE stays set with a character in TDR.
DR_writeParkOpen(s, l, v) ==
  /\ s.TC = 0 /\ s.TXE = 1
  /\ TDR' = v
  /\ SR' = s /\ line' = stm32_uart_update_irq(l, s, CR1)
  /\ UNCHANGED <<out, tx_timer>>

DR_writePark(s, l, v) ==
  LET s1 == [s EXCEPT !.TXE = 0]
  IN  /\ s.TC = 0 /\ s.TXE = 1
      /\ TDR' = v
      /\ SR' = s1 /\ line' = stm32_uart_update_irq(l, s1, CR1)
      /\ UNCHANGED <<out, tx_timer>>

stm32_uart_USART_DR_write(s, l, value) ==
  LET v == value % 512
  IN  \/ DR_writeError(s, l) /\ UNCHANGED got
      \/ /\ CR1.UE = 1 /\ CR1.TE = 1 /\ TxPinReady
         /\ DR_writeStart(s, l, v) \/ DR_writePark(s, l, v)
         /\ written' = Append(written, Ch(v))
         /\ UNCHANGED <<got, abort>>
-----------------------------------------------------------------------------
(***************************************************************************)
(* Register accesses by the guest.                                          *)
(***************************************************************************)
\* Mutant: a read of USART_SR clears RXNE.
ReadSRClears ==
  /\ ~abort
  /\ SR' = [SR EXCEPT !.RXNE = 0]
  /\ line' = stm32_uart_update_irq(line, SR', CR1)
  /\ UNCHANGED <<got, abort, cfgVars, rxVars, txVars, envVars>>

ReadSR ==
  /\ ~abort
  /\ sr_read_since_ore_set' = (sr_read_since_ore_set \/ SR.ORE = 1)
  /\ UNCHANGED <<SR, line, got, abort, cfgVars, RDR, acc, receiving, rx_timer,
                 txVars, envVars>>

\* Mutant: the flags change without stm32_uart_update_irq.
SR_writeSilent(tc, rxne) ==
  LET ok == tc = 0 /\ rxne = 0
  IN  /\ SR' = IF ok THEN [SR EXCEPT !.TC = 0, !.RXNE = 0] ELSE SR
      /\ UNCHANGED line
      /\ abort' = ~ok

\* A write is deposited over the value read, with that read's side effect;
\* tc and rxne are the bits of the deposited value.
stm32_uart_USART_SR_write(tc, rxne) ==
  LET s1 == [SR EXCEPT !.TC = 0, !.RXNE = 0]
      ok == tc = 0 /\ rxne = 0
  IN  /\ SR' = IF ok THEN s1 ELSE SR
      /\ line' = IF ok THEN stm32_uart_update_irq(line, s1, CR1) ELSE line
      /\ abort' = ~ok

WriteSR(tc, rxne) ==
  /\ ~abort
  /\ sr_read_since_ore_set' = (sr_read_since_ore_set \/ SR.ORE = 1)
  /\ stm32_uart_USART_SR_write(tc, rxne)
  /\ UNCHANGED <<got, cfgVars, RDR, acc, receiving, rx_timer, txVars, envVars>>

ReadDR ==
  /\ ~abort
  /\ UNCHANGED <<rxVars, cfgVars, envVars>>
  /\ stm32_uart_USART_DR_read(SR, line)

WriteDR(value) ==
  /\ ~abort /\ Len(written) < MaxTx
  /\ UNCHANGED <<rxVars, cfgVars, envVars>>
  /\ stm32_uart_USART_DR_write(SR, line, value)

WriteBRR(value) ==
  /\ ~abort
  /\ BRR' = value
  /\ stm32_uart_baud_update(value, clk)
  /\ UNCHANGED <<SR, line, got, CR1, CR3, rxVars, txVars, envVars>>

WriteCR1(value) ==
  /\ ~abort
  /\ abort' = (value.UE = 1 /\ remap # BoardMap)
  /\ CR1' = value
  /\ line' = stm32_uart_update_irq(line, SR, value)
  /\ UNCHANGED <<SR, got, CR3, BRR, bits_per_sec, rxVars, txVars, envVars>>

\* DMAT arms tx_dma_timer; with NoBaudDelay it only prints a warning, and
\* DmaBits leaves it out.
WriteCR3(value) ==
  /\ ~abort
  /\ CR3' = value
  /\ UNCHANGED <<SR, line, got, abort, CR1, BRR, bits_per_sec, rxVars, txVars,
                 envVars>>
-----------------------------------------------------------------------------
(***************************************************************************)
(* Character backend, timers, clock and reset.                              *)
(***************************************************************************)
\* Mutant: a full buffer does not count.
can_receiveAlways == IF CR1.UE = 1 /\ CR1.RE = 1 /\ receiving THEN 0 ELSE 1

stm32_uart_can_receive ==
  IF CR1.UE = 1 /\ CR1.RE = 1
     /\ (receiving \/ (~EnableOverrun /\ SR.RXNE = 1))
  THEN 0 ELSE 1

\* What the DMA controller does to the UART before its request returns: it
\* stops the process (no channel, bad size), leaves the UART alone (channel
\* disabled), or accesses USART_DR in the direction the channel is set up for.
DmaRequest(s, l) ==
  \/ abort' = TRUE /\ SR' = s /\ line' = l /\ UNCHANGED <<got, txVars>>
  \/ SR' = s /\ line' = l /\ UNCHANGED <<abort, got, txVars>>
  \/ stm32_uart_USART_DR_read(s, l)
  \/ /\ Len(written) < MaxTx
     /\ \E v \in DRValues : stm32_uart_USART_DR_write(s, l, v)

\* Mutant: without a baud delay the timer is thought unnecessary.
NoRxTimer(s, l) ==
  /\ SR' = s /\ line' = l
  /\ UNCHANGED <<receiving, rx_timer, abort, got, txVars>>

\* The end of stm32_uart_receive without DMA.
StartRxTimer(s, l) ==
  /\ receiving' = (receiving \/ ~NoBaudDelay)
  /\ rx_timer' = TRUE
  /\ SR' = s /\ line' = l
  /\ UNCHANGED <<abort, got, txVars>>

stm32_uart_receive(byte) ==
  LET on == CR1.UE = 1 /\ CR1.RE = 1
      overrun == on /\ SR.RXNE = 1
      s1 == IF overrun THEN [SR EXCEPT !.ORE = 1] ELSE SR
      l1 == IF overrun THEN stm32_uart_update_irq(line, s1, CR1) ELSE line
      s2 == IF on THEN [s1 EXCEPT !.RXNE = 1] ELSE s1
      l2 == IF on THEN stm32_uart_update_irq(l1, s2, CR1) ELSE l1
  IN  /\ ~abort /\ Len(acc) < MaxRx
      /\ RDR' = IF on THEN byte ELSE RDR
      /\ acc' = IF on THEN Append(acc, byte) ELSE acc
      /\ sr_read_since_ore_set' = (sr_read_since_ore_set /\ ~overrun)
      /\ \/ "DMAR" \in CR3 /\ DmaRequest(s2, l2) /\ UNCHANGED <<receiving, rx_timer>>
         \/ "DMAR" \notin CR3 /\ StartRxTimer(s2, l2)
      /\ UNCHANGED <<cfgVars, envVars>>

\* The timer re-arms itself.
stm32_uart_rx_timer_expire ==
  /\ ~abort /\ rx_timer
  /\ receiving' = FALSE
  /\ UNCHANGED <<SR, line, got, abort, cfgVars, RDR, acc, sr_read_since_ore_set,
                 rx_timer, txVars, envVars>>

stm32_uart_tx_timer_expire ==
  LET t == stm32_uart_tx_complete(SR, line, out)
  IN  /\ ~abort /\ tx_timer
      /\ SR' = t.SR /\ line' = t.line /\ out' = t.out /\ tx_timer' = t.tx_timer
      /\ UNCHANGED <<TDR, written, got, abort, cfgVars, rxVars, envVars>>

\* stm32_uart_tx_complete at the end of stm32_uart_tx_dma_timer_expire: tx_timer
\* stays armed if it is.
DmaTxComplete(s, l, o, armed) ==
  LET t == stm32_uart_tx_complete(s, l, o)
  IN  SR' = t.SR /\ line' = t.line /\ out' = t.out /\ tx_timer' = (armed \/ t.tx_timer)

\* The DMA controller writes USART_DR, to the line or to TDR, from where
\* stm32_uart_tx_complete sends it at once.
DmaTxWrite(v) ==
  LET t == stm32_uart_start_tx(SR, line, out, v)
      full == stm32_uart_update_irq(line, [SR EXCEPT !.TXE = 0], CR1)
      u == stm32_uart_start_tx(SR, stm32_uart_update_irq(full, SR, CR1), out, v)
  IN  /\ CR1.UE = 1 /\ CR1.TE = 1 /\ TxPinReady
      /\ \/ /\ SR.TC = 1
            /\ DmaTxComplete(t.SR, stm32_uart_update_irq(t.line, t.SR, CR1), t.out, TRUE)
            /\ UNCHANGED TDR
         \/ /\ SR.TC = 0 /\ SR.TXE = 1
            /\ TDR' = v
            /\ SR' = u.SR /\ line' = u.line /\ out' = u.out /\ tx_timer' = u.tx_timer
      /\ written' = Append(written, Ch(v))

\* tx_dma_timer, armed whenever DMAT is set: with it clear the handler does
\* nothing.  The controller's answer, one of those of DmaRequest, is part of it.
stm32_uart_tx_dma_timer_expire ==
  LET s1 == [SR EXCEPT !.RXNE = 0, !.ORE = IF sr_read_since_ore_set THEN 0 ELSE @]
  IN  /\ ~abort /\ ~NoBaudDelay /\ "DMAT" \in CR3
      /\ \/ abort' = TRUE /\ UNCHANGED <<SR, line, got, txVars>>
         \/ /\ DmaTxComplete(SR, line, out, tx_timer)
            /\ UNCHANGED <<TDR, written, got, abort>>
         \/ /\ CR1.UE = 1 /\ CR1.RE = 1 /\ SR.RXNE = 1
            /\ DmaTxComplete(s1, stm32_uart_update_irq(line, s1, CR1), out, tx_timer)
            /\ got' = Append(got, Len(acc))
            /\ UNCHANGED <<TDR, written, abort>>
         \/ /\ Len(written) < MaxTx
            /\ \E value \in DRValues : DmaTxWrite(value % 512)
            /\ UNCHANGED <<got, abort>>
      /\ UNCHANGED <<cfgVars, rxVars, envVars>>

\* Mutant: the handler only reacts when the clock stops.
clk_irq_handlerIgnores(freq) ==
  /\ ~abort
  /\ clk' = freq
  /\ bits_per_sec' = IF freq = 0 THEN 0 ELSE bits_per_sec
  /\ UNCHANGED <<SR, line, got, abort, CR1, CR3, BRR, rxVars, txVars, remap, pin>>

\* The clock tree stores the new frequency and raises the UART's clock IRQ.
stm32_uart_clk_irq_handler(freq) ==
  /\ ~abort
  /\ clk' = freq
  /\ stm32_uart_baud_update(BRR, freq)
  /\ UNCHANGED <<SR, line, got, CR1, CR3, BRR, rxVars, txVars, remap, pin>>

\* The guest reprograms AFIO_MAPR or a pin's mode; the UART is not told.
WriteMAPR(map) ==
  /\ ~abort
  /\ remap' = map
  /\ UNCHANGED <<SR, line, got, abort, cfgVars, rxVars, txVars, clk, pin>>

ConfigurePin(p, mode) ==
  /\ ~abort
  /\ pin' = [pin EXCEPT ![p] = mode]
  /\ UNCHANGED <<SR, line, got, abort, cfgVars, rxVars, txVars, clk, remap>>

ResetSR == [TXE |-> 1, TC |-> 1, RXNE |-> 0, ORE |-> 0]
AllClear == [UE |-> 0, TE |-> 0, RE |-> 0, TXEIE |-> 0, TCIE |-> 0, RXNEIE |-> 0]

\* Machine reset.  The interrupt controller (arm_gic_common_reset), the AFIO
\* and the GPIOs are reset with the UART, the RCC stops its clock; the timers
\* are left as they are, and a character waiting in TDR is dropped.
stm32_uart_reset ==
  /\ ~abort
  /\ SR' = ResetSR /\ CR1' = AllClear /\ CR3' = {} /\ BRR' = 0
  /\ bits_per_sec' = 0
  /\ line' = stm32_uart_update_irq([line EXCEPT !.irq = 0], ResetSR, AllClear)
  /\ written' = out
  /\ clk' = 0 /\ remap' = 0 /\ pin' = [p \in Pins |-> "input"]
  /\ UNCHANGED <<got, abort, rxVars, TDR, tx_timer, out>>
-----------------------------------------------------------------------------
\* struct Stm32Uart is allocated zeroed; stm32_uart_init ends with a reset.
Init ==
  /\ SR = ResetSR /\ CR1 = AllClear /\ CR3 = {} /\ BRR = 0 /\ bits_per_sec = 0
  /\ RDR = 0 /\ TDR = 0
  /\ sr_read_since_ore_set = FALSE /\ receiving = FALSE
  /\ rx_timer = FALSE /\ tx_timer = FALSE
  /\ line = [irq |-> 0, curr_irq_level |-> 0]
  /\ out = << >> /\ written = << >> /\ acc = << >> /\ got = << >>
  /\ abort = FALSE
  /\ clk = 0 /\ remap = 0 /\ pin = [p \in Pins |-> "input"]

TxPins == {TxPin[Periph][i] : i \in 1..Len(TxPin[Periph])} \cap Pins

Guest ==
  \/ ReadSR
  \/ \E tc, rxne \in Bit : WriteSR(tc, rxne)
  \/ ReadDR
  \/ \E v \in DRValues : WriteDR(v)
  \/ \E v \in BRRValues : WriteBRR(v)
  \/ \E v \in CR1Values : WriteCR1(v)
  \/ \E v \in SUBSET DmaBits : WriteCR3(v)
  \/ \E m \in Remaps : WriteMAPR(m)
  \/ \E p \in TxPins, m \in PinModes : ConfigurePin(p, m)
  \/ \E f \in Freqs : stm32_uart_clk_irq_handler(f)

Next ==
  \/ Guest
  \/ \E b \in RxBytes : stm32_uart_receive(b)
  \/ stm32_uart_rx_timer_expire
  \/ stm32_uart_tx_timer_expire
  \/ stm32_uart_tx_dma_timer_expire
  \/ stm32_uart_reset

Spec == Init /\ [][Next]_vars
-----------------------------------------------------------------------------
(***************************************************************************)
(* Properties.                                                              *)
(***************************************************************************)
\* Every register field, history and cached value keeps the width it has in
\* struct Stm32Uart: what leaves for the backend is 8 bits, TDR holds 9.
TypeOK ==
  /\ SR \in [TXE: Bit, TC: Bit, RXNE: Bit, ORE: Bit]
  /\ CR1 \in CR1Type /\ CR3 \subseteq DmaBits
  /\ RDR \in Byte /\ TDR \in Data /\ BRR \in Divisor
  /\ bits_per_sec \in Nat
  /\ sr_read_since_ore_set \in BOOLEAN /\ receiving \in BOOLEAN
  /\ rx_timer \in BOOLEAN /\ tx_timer \in BOOLEAN
  /\ line \in [irq: Bit, curr_irq_level: Bit]
  /\ out \in Seq(Byte) /\ written \in Seq(Byte)
  /\ acc \in Seq(Byte) /\ got \in Seq(Nat)
  /\ abort \in BOOLEAN
  /\ clk \in Freqs /\ remap \in Remaps /\ pin \in [Pins -> PinModes]

\* While the emulator runs, the level the interrupt controller holds for this
\* UART is the one its enable and status bits call for: no handler of
\* stm32_uart.c, in any order, with any nested DMA access, changes a flag or
\* an enable without stm32_uart_update_irq reporting it, and the cached
\* curr_irq_level never suppresses a change the controller has not seen.
IrqFollowsFlags ==
  ~abort => line.irq = line.curr_irq_level /\ line.irq = IrqLevel(SR, CR1)

\* What reached the character backend is exactly what USART_DR accepted, in
\* order and once, except for one character that may still wait in TDR: the
\* TXE/TC hand-over of DR_write, start_tx, tx_complete and tx_timer neither
\* drops, repeats nor reorders a character.
TxInOrder ==
  ~abort => written = IF SR.TXE = 1 THEN out ELSE Append(out, Ch(TDR))

\* USART_DR returns each received character at most once and in the order of
\* arrival, and RDR holds the last one stored, whatever the guest does to SR,
\* CR1 and CR3 in between (stm32_uart_receive, stm32_uart_USART_DR_read).
RxInOrder ==
  ~abort =>
    /\ acc # << >> => RDR = acc[Len(acc)]
    /\ SR.RXNE = 1 => acc # << >>
    /\ \A i \in 1..Len(got) :
         /\ got[i] \in 1..(Len(acc) - SR.RXNE)
         /\ \A j \in 1..(i - 1) : got[j] < got[i]

\* The cached baud rate is the one the current BRR and peripheral clock give,
\* in whatever order the guest programs the RCC and the USART
\* (stm32_uart_baud_update, stm32_uart_clk_irq_handler).
BaudFollowsClock ==
  ~abort => bits_per_sec = IF BRR = 0 \/ clk = 0 THEN 0 ELSE clk \div BRR
=============================================================================
