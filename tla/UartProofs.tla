----------------------------- MODULE UartProofs ------------------------------
(***************************************************************************)
(* The properties of Stm32Uart for every value of its constants: any guest, *)
(* any backend, either build option, and no bound on the histories.         *)
(*                                                                          *)
(* TypeOK, IrqFollowsFlags and BaudFollowsClock would be inductive together.*)
(* TxInOrder is not: a state with TC set and a character waiting in TDR     *)
(* would send the two out of order.  TxState excludes it.                   *)
(*                                                                          *)
(* Then the uart_echo demo behind the character backend, for any            *)
(* characters, any number of them, any of the UARTs and every interleaving  *)
(* of the program, the main loop, the peer and resets.  None of its three   *)
(* properties is inductive.  That no access of USART_DR faults depends on   *)
(* how far the program is (Program); that the cached answer of              *)
(* stm32_uart_can_receive is not stale when tcp_chr_read uses it is its     *)
(* last conjunct: no character arrives during a wait that began with RDR    *)
(* full.                                                                    *)
(***************************************************************************)
EXTENDS UartEcho, TLAPS

LineType == [irq: Bit, curr_irq_level: Bit]
SRType == [TXE: Bit, TC: Bit, RXNE: Bit, ORE: Bit]

\* The interrupt line with wire and cache in agreement.
LineOK(l) == l \in LineType /\ l.irq = l.curr_irq_level

-----------------------------------------------------------------------------
(***************************************************************************)
(* The helper functions.                                                    *)
(***************************************************************************)
\* stm32_uart_update_irq leaves wire and cache equal to the level the flags
\* call for, provided they agreed before.
LEMMA UpdateIrq ==
  ASSUME NEW l \in LineType, NEW s, NEW c
  PROVE  /\ stm32_uart_update_irq(l, s, c) \in LineType
         /\ l.irq = l.curr_irq_level =>
              /\ stm32_uart_update_irq(l, s, c).irq = IrqLevel(s, c)
              /\ stm32_uart_update_irq(l, s, c).curr_irq_level = IrqLevel(s, c)
BY DEF stm32_uart_update_irq, IrqLevel, LineType, Bit

\* A character is eight bits wide, however wide the value.
LEMMA ChType == \A v \in Nat : Ch(v) \in Byte
BY DEF Ch, Byte

\* TxDone (the end of stm32_uart_tx_complete) sets TC and touches no other flag.
LEMMA TxDoneFacts ==
  ASSUME NEW s \in SRType, NEW l \in LineType, NEW o \in Seq(Byte)
  PROVE  /\ TxDone(s, l, o).SR \in SRType
         /\ TxDone(s, l, o).SR.TXE = s.TXE
         /\ TxDone(s, l, o).SR.TC = 1
         /\ TxDone(s, l, o).SR.RXNE = s.RXNE
         /\ TxDone(s, l, o).line \in LineType
         /\ l.irq = l.curr_irq_level =>
              /\ TxDone(s, l, o).line.irq = IrqLevel(TxDone(s, l, o).SR, CR1)
              /\ TxDone(s, l, o).line.irq = TxDone(s, l, o).line.curr_irq_level
         /\ TxDone(s, l, o).out = o
         /\ TxDone(s, l, o).tx_timer = FALSE
BY UpdateIrq DEF TxDone, Tx, SRType, Bit

\* What a transmitter function returns, with the flags, the characters sent and
\* the interrupt line in step.
TxResult(t, rxne, o) ==
  /\ t.SR \in SRType /\ t.SR.TXE = 1 /\ t.SR.RXNE = rxne
  /\ LineOK(t.line)
  /\ t.out = o
  /\ t.tx_timer \in BOOLEAN

\* stm32_uart_start_tx with an empty TDR sends exactly the given character and
\* leaves TDR empty.
LEMMA StartTxFacts ==
  ASSUME NEW s \in SRType, NEW l, LineOK(l), NEW o \in Seq(Byte),
         NEW v \in Nat, s.TXE = 1
  PROVE  TxResult(stm32_uart_start_tx(s, l, o, v), s.RXNE, Append(o, Ch(v)))
<1> DEFINE s1 == [s EXCEPT !.TC = 0]
           o1 == Append(o, Ch(v))
<1>1. s1 \in SRType /\ s1.TXE = 1 /\ s1.RXNE = s.RXNE
  BY DEF SRType, Bit
<1>2. o1 \in Seq(Byte)
  BY ChType
<1>3. CASE ~NoBaudDelay
  <2>1. stm32_uart_start_tx(s, l, o, v) = Tx(s1, l, o1, TRUE)
    BY <1>3 DEF stm32_uart_start_tx
  <2> HIDE DEF s1, o1
  <2> QED
    BY <1>1, <2>1 DEF TxResult, Tx, o1
<1>4. CASE NoBaudDelay
  <2>1. stm32_uart_start_tx(s, l, o, v) = TxDone(s1, l, o1)
    BY <1>4 DEF stm32_uart_start_tx
  <2> HIDE DEF s1, o1
  <2> DEFINE t == TxDone(s1, l, o1)
  <2>2. /\ t.SR \in SRType /\ t.SR.TXE = 1 /\ t.SR.RXNE = s.RXNE
        /\ LineOK(t.line) /\ t.out = o1 /\ t.tx_timer = FALSE
    <3>1. l \in LineType /\ l.irq = l.curr_irq_level
      BY DEF LineOK
    <3>2. t.SR \in SRType /\ t.SR.TXE = s1.TXE /\ t.SR.RXNE = s1.RXNE
      BY <1>1, <1>2, <3>1, TxDoneFacts, ZenonT(60)
    <3>3. /\ t.line \in LineType /\ t.line.irq = t.line.curr_irq_level
          /\ t.out = o1 /\ t.tx_timer = FALSE
      BY <1>1, <1>2, <3>1, TxDoneFacts, Zenon
    <3> QED
      BY <1>1, <3>2, <3>3 DEF LineOK
  <2> HIDE DEF t
  <2>3. TxResult(t, s.RXNE, o1)
    BY <2>2, Zenon DEF TxResult
  <2> QED
    BY <2>1, <2>3 DEF o1, t
<1> QED
  BY <1>3, <1>4
-----------------------------------------------------------------------------
(***************************************************************************)
(* The two halves of USART_DR, from any flags and line a caller may have.   *)
(***************************************************************************)
\* The transmitter's part of the invariant, over given values.
TxState(s, w, o, d) ==
  /\ s.TC = 1 => s.TXE = 1
  /\ w = IF s.TXE = 1 THEN o ELSE Append(o, Ch(d))

TxTypes(s, l, d, t, o, w) ==
  /\ s \in SRType /\ l \in LineType /\ d \in Data /\ t \in BOOLEAN
  /\ o \in Seq(Byte) /\ w \in Seq(Byte)

LineShows(l, s, c) == l.irq = IrqLevel(s, c) /\ l.curr_irq_level = IrqLevel(s, c)

\* A write of USART_DR, by the guest or by the DMA controller, keeps the
\* transmitter's order and reports the interrupt level.
LEMMA DRWriteFacts ==
  ASSUME TxTypes(SR, line, TDR, tx_timer, out, written),
         NEW s \in SRType, NEW l, NEW v \in Nat, abort = FALSE,
         LineOK(l), TxState(s, written, out, TDR),
         stm32_uart_USART_DR_write(s, l, v)
  PROVE  /\ TxTypes(SR, line, TDR, tx_timer, out, written)'
         /\ abort' \in BOOLEAN /\ got' = got
         /\ ~abort' => /\ LineShows(line', SR', CR1)
                       /\ TxState(SR', written', out', TDR')
                       /\ SR'.RXNE = s.RXNE
<1> DEFINE w == v % 512
<1>0. w \in Data /\ w \in Nat /\ Ch(w) \in Byte
  BY ChType DEF Data
<1> HIDE DEF w
<1>1. CASE DR_writeError(s, l) /\ UNCHANGED got
  BY <1>1 DEF DR_writeError, txVars, TxTypes, LineOK
<1>2. CASE DR_writeStart(s, l, w) /\ written' = Append(written, Ch(w))
           /\ UNCHANGED <<got, abort>>
  <2> DEFINE t == stm32_uart_start_tx(s, l, out, w)
  <2>1. s.TXE = 1 /\ written = out
    BY <1>2 DEF DR_writeStart, TxState
  <2>2. TxResult(t, s.RXNE, Append(out, Ch(w)))
    BY <1>0, <2>1, StartTxFacts DEF TxTypes
  <2>3. /\ SR' = t.SR /\ line' = stm32_uart_update_irq(t.line, t.SR, CR1)
        /\ out' = t.out /\ tx_timer' = t.tx_timer /\ TDR' = TDR
    BY <1>2 DEF DR_writeStart
  <2> HIDE DEF t
  <2>4. line' \in LineType /\ LineShows(line', SR', CR1)
    BY <2>2, <2>3, UpdateIrq DEF TxResult, LineOK, LineShows
  <2>5. written' = Append(out, Ch(w)) /\ out' = Append(out, Ch(w)) /\ SR'.TXE = 1
    BY <1>2, <2>1, <2>2, <2>3 DEF TxResult
  <2>6. SR' \in SRType /\ tx_timer' \in BOOLEAN /\ SR'.RXNE = s.RXNE
    BY <2>2, <2>3, Zenon DEF TxResult
  <2>7. Append(out, Ch(w)) \in Seq(Byte) /\ TDR' \in Data
    BY <1>0, <2>3 DEF TxTypes
  <2>8. TxTypes(SR, line, TDR, tx_timer, out, written)'
    BY <2>4, <2>5, <2>6, <2>7, Zenon DEF TxTypes
  <2>9. TxState(SR', written', out', TDR')
    BY <2>5 DEF TxState
  <2> QED
    BY <1>2, <2>4, <2>6, <2>8, <2>9, Zenon
<1>3. CASE DR_writePark(s, l, w) /\ written' = Append(written, Ch(w))
           /\ UNCHANGED <<got, abort>>
  <2> DEFINE s1 == [s EXCEPT !.TXE = 0]
  <2>1. s1 \in SRType /\ s1.TXE = 0 /\ s1.TC = s.TC /\ s1.RXNE = s.RXNE
    BY DEF SRType, Bit
  <2>2. /\ s.TC = 0 /\ s.TXE = 1 /\ TDR' = w /\ SR' = s1
        /\ line' = stm32_uart_update_irq(l, s1, CR1)
        /\ out' = out /\ tx_timer' = tx_timer
    BY <1>3 DEF DR_writePark
  <2> HIDE DEF s1
  <2>3. line' \in LineType /\ LineShows(line', SR', CR1)
    BY <2>2, UpdateIrq DEF LineOK, LineShows
  <2>4. Append(written, Ch(w)) \in Seq(Byte)
    BY <1>0 DEF TxTypes
  <2>5. TxTypes(SR, line, TDR, tx_timer, out, written)'
    BY <1>0, <1>3, <2>1, <2>2, <2>3, <2>4, Zenon DEF TxTypes
  <2>6. TxState(SR', written', out', TDR')
    BY <1>3, <2>1, <2>2 DEF TxState
  <2> QED
    BY <1>3, <2>1, <2>2, <2>3, <2>5, <2>6, Zenon
<1> QED
  BY <1>1, <1>2, <1>3 DEF stm32_uart_USART_DR_write, w

\* The receiver's part of the invariant, over given values.
RxState(rxne, a, g, r) ==
  /\ a # << >> => r = a[Len(a)]
  /\ rxne = 1 => a # << >>
  /\ \A i \in 1..Len(g) :
       /\ g[i] \in 1..(Len(a) - rxne)
       /\ \A j \in 1..(i - 1) : g[j] < g[i]

\* Reading the character in RDR returns a position no earlier read returned.
LEMMA RxRead ==
  ASSUME NEW a \in Seq(Byte), NEW g \in Seq(Nat), NEW r, RxState(1, a, g, r)
  PROVE  /\ Append(g, Len(a)) \in Seq(Nat)
         /\ RxState(0, a, Append(g, Len(a)), r)
<1> DEFINE g1 == Append(g, Len(a))
<1>1. /\ g1 \in Seq(Nat) /\ Len(g1) = Len(g) + 1 /\ g1[Len(g) + 1] = Len(a)
      /\ \A i \in 1..Len(g) : g1[i] = g[i]
  OBVIOUS
<1>2. a # << >> /\ Len(a) \in Nat /\ Len(a) > 0 /\ r = a[Len(a)]
  BY DEF RxState
<1>3. \A i \in 1..Len(g) : g[i] \in 1..(Len(a) - 1)
  BY DEF RxState
<1>4. \A i \in 1..Len(g) : \A j \in 1..(i - 1) : g[j] < g[i]
  BY DEF RxState
<1> HIDE DEF g1
<1>5. ASSUME NEW i \in 1..Len(g1)
      PROVE  g1[i] \in 1..(Len(a) - 0) /\ \A j \in 1..(i - 1) : g1[j] < g1[i]
  <2>1. CASE i \in 1..Len(g)
    <3>1. g1[i] = g[i] /\ \A j \in 1..(i - 1) : g1[j] = g[j]
      BY <1>1, <2>1, SMTT(60)
    <3> QED
      BY <1>2, <1>3, <1>4, <2>1, <3>1
  <2>2. CASE i = Len(g) + 1
    BY <1>1, <1>2, <1>3, <2>2
  <2> QED
    BY <1>1, <2>1, <2>2
<1> QED
  BY <1>1, <1>2, <1>5 DEF RxState, g1

\* Storing a character keeps what was read before it, lost or not.
LEMMA RxStore ==
  ASSUME NEW a \in Seq(Byte), NEW g \in Seq(Nat), NEW r, NEW x \in Bit,
         NEW b \in Byte, RxState(x, a, g, r)
  PROVE  Append(a, b) \in Seq(Byte) /\ RxState(1, Append(a, b), g, b)
<1> DEFINE a1 == Append(a, b)
<1>1. /\ a1 \in Seq(Byte) /\ Len(a1) = Len(a) + 1 /\ a1[Len(a1)] = b
      /\ a1 # << >> /\ Len(a) \in Nat
  <2>1. a1 \in Seq(Byte) /\ Len(a1) = Len(a) + 1 /\ Len(a) \in Nat
    OBVIOUS
  <2>2. a1[Len(a) + 1] = b
    OBVIOUS
  <2> HIDE DEF a1
  <2>3. a1 # << >>
    BY <2>1
  <2> QED
    BY <2>1, <2>2, <2>3
<1> HIDE DEF a1
<1>2. \A i \in 1..Len(g) : g[i] \in 1..(Len(a1) - 1)
  BY <1>1, SMTT(60) DEF RxState, Bit
<1> QED
  BY <1>1, <1>2 DEF RxState, a1

\* Clearing RXNE forgets a character but invents none.
LEMMA RxClear ==
  ASSUME NEW a \in Seq(Byte), NEW g \in Seq(Nat), NEW r, NEW x \in Bit,
         RxState(x, a, g, r)
  PROVE  RxState(0, a, g, r)
BY DEF RxState, Bit

\* What changing two status flags at once does to the others: RXNE and ORE
\* (USART_DR_read), TC and RXNE (USART_SR_write).
WithRx(s, x, y) == [s EXCEPT !.RXNE = x, !.ORE = y]
Cleared(s) == [s EXCEPT !.TC = 0, !.RXNE = 0]

\* Changing two flags keeps the type of SR and the other flags.
LEMMA TwoFlags ==
  ASSUME NEW s \in SRType, NEW x \in Bit, NEW y \in Bit
  PROVE  /\ WithRx(s, x, y) \in SRType /\ WithRx(s, x, y).TXE = s.TXE
         /\ WithRx(s, x, y).TC = s.TC /\ WithRx(s, x, y).RXNE = x
         /\ Cleared(s) \in SRType /\ Cleared(s).TXE = s.TXE
         /\ Cleared(s).TC = 0 /\ Cleared(s).RXNE = 0
<1>1. ASSUME NEW a \in SRType
      PROVE  /\ [a EXCEPT !.RXNE = x] \in SRType /\ [a EXCEPT !.TC = 0] \in SRType
             /\ [a EXCEPT !.ORE = y] \in SRType /\ [a EXCEPT !.RXNE = 0] \in SRType
  BY DEF SRType, Bit
<1>2. /\ [[s EXCEPT !.RXNE = x] EXCEPT !.ORE = y] \in SRType
      /\ [[s EXCEPT !.TC = 0] EXCEPT !.RXNE = 0] \in SRType
  BY <1>1, Zenon
<1> QED
  BY <1>2 DEF SRType, WithRx, Cleared

\* A read of USART_DR, by the guest or by the DMA controller.
LEMMA DRReadFacts ==
  ASSUME TxTypes(SR, line, TDR, tx_timer, out, written),
         NEW s \in SRType, NEW l, LineOK(l), TxState(s, written, out, TDR),
         acc' \in Seq(Byte), got \in Seq(Nat),
         RxState(s.RXNE, acc', got, RDR'),
         stm32_uart_USART_DR_read(s, l)
  PROVE  /\ TxTypes(SR, line, TDR, tx_timer, out, written)'
         /\ abort' \in BOOLEAN /\ got' \in Seq(Nat)
         /\ ~abort' => /\ LineShows(line', SR', CR1)
                       /\ TxState(SR', written', out', TDR')
                       /\ RxState(SR'.RXNE, acc', got', RDR')
<1> DEFINE x == IF sr_read_since_ore_set' THEN 0 ELSE s.ORE
           s1 == WithRx(s, 0, x)
           ok == CR1.UE = 1 /\ CR1.RE = 1 /\ s.RXNE = 1
<1>1. s1 \in SRType /\ s1.TXE = s.TXE /\ s1.TC = s.TC /\ s1.RXNE = 0
  <2>1. x \in Bit
    BY Zenon DEF SRType, Bit
  <2> HIDE DEF x
  <2>2. 0 \in Bit
    BY DEF Bit
  <2> QED
    BY <2>1, <2>2, TwoFlags, ZenonT(60)
<1>2. /\ abort' = ~ok
      /\ SR' = IF ok THEN s1 ELSE s
      /\ line' = IF ok THEN stm32_uart_update_irq(l, s1, CR1) ELSE l
      /\ got' = IF ok THEN Append(got, Len(acc')) ELSE got
      /\ TDR' = TDR /\ tx_timer' = tx_timer /\ out' = out /\ written' = written
  BY Zenon DEF stm32_uart_USART_DR_read, txVars, WithRx
<1>3. ok => s.RXNE = 1
  OBVIOUS
<1> HIDE DEF s1, ok
<1>4. CASE ok
  <2>1. SR' = s1 /\ line' = stm32_uart_update_irq(l, s1, CR1) /\ abort' = FALSE
        /\ got' = Append(got, Len(acc'))
    BY <1>2, <1>4, Zenon
  <2>2. line' \in LineType /\ LineShows(line', SR', CR1)
    BY <2>1, UpdateIrq DEF LineOK, LineShows
  <2>3. TxTypes(SR, line, TDR, tx_timer, out, written)'
    BY <1>1, <1>2, <2>1, <2>2, Zenon DEF TxTypes
  <2>4. TxState(SR', written', out', TDR')
    BY <1>1, <1>2, <2>1 DEF TxState
  <2>5. got' \in Seq(Nat) /\ RxState(0, acc', got', RDR')
    BY <1>3, <1>4, <2>1, RxRead
  <2> QED
    BY <1>1, <2>1, <2>2, <2>3, <2>4, <2>5, Zenon
<1>5. CASE ~ok
  <2>1. SR' = s /\ line' = l /\ abort' = TRUE /\ got' = got
    BY <1>2, <1>5, Zenon
  <2> QED
    BY <1>2, <2>1, Zenon DEF TxTypes, LineOK
<1> QED
  BY <1>4, <1>5
-----------------------------------------------------------------------------
(***************************************************************************)
(* The inductive invariant: the types by part of the device, and, while the *)
(* process runs, what the parts know of each other.                         *)
(***************************************************************************)
RxTypes ==
  /\ RDR \in Byte /\ acc \in Seq(Byte) /\ got \in Seq(Nat)
  /\ sr_read_since_ore_set \in BOOLEAN /\ receiving \in BOOLEAN
  /\ rx_timer \in BOOLEAN

CfgTypes ==
  CR1 \in CR1Type /\ CR3 \subseteq DmaBits /\ BRR \in Divisor /\ bits_per_sec \in Nat

EnvTypes == clk \in Freqs /\ remap \in Remaps /\ pin \in [Pins -> PinModes]

Baud(bps, b, f) == bps = IF b = 0 \/ f = 0 THEN 0 ELSE f \div b

Live ==
  /\ LineShows(line, SR, CR1)
  /\ TxState(SR, written, out, TDR)
  /\ RxState(SR.RXNE, acc, got, RDR)
  /\ Baud(bits_per_sec, BRR, clk)

IInv ==
  /\ TxTypes(SR, line, TDR, tx_timer, out, written)
  /\ RxTypes /\ CfgTypes /\ EnvTypes
  /\ abort \in BOOLEAN
  /\ ~abort => Live

\* Register widths, as far as the proofs need them.
LEMMA Zero == 0 \in Byte /\ 0 \in Data /\ 0 \in Divisor
BY SMT DEF Byte, Data, Divisor

\* stm32_uart_baud_update recomputes the rate from the register and the clock.
LEMMA BaudUpdate ==
  ASSUME NEW b \in Nat, NEW f \in Nat, stm32_uart_baud_update(b, f)
  PROVE  /\ bits_per_sec' \in Nat /\ abort' \in BOOLEAN
         /\ Baud(bits_per_sec', b, f)
<1>1. bits_per_sec' = IF b = 0 \/ f = 0 THEN 0 ELSE f \div b
  BY Zenon DEF stm32_uart_baud_update
<1>2. abort' \in BOOLEAN
  BY Zenon DEF stm32_uart_baud_update
<1>3. b # 0 => f \div b \in Nat
  OBVIOUS
<1>4. bits_per_sec' \in Nat
  BY <1>1, <1>3
<1> QED
  BY <1>1, <1>2, <1>4, Zenon DEF Baud

\* The device's initial state.
LEMMA InitIInv == Init => IInv
<1> SUFFICES ASSUME Init PROVE IInv
  OBVIOUS
<1>1. TxTypes(SR, line, TDR, tx_timer, out, written)
  <2>1. SR \in SRType /\ line \in LineType
    BY DEF Init, ResetSR, SRType, LineType, Bit
  <2>2. out \in Seq(Byte) /\ written \in Seq(Byte)
    BY DEF Init
  <2>3. TDR \in Data /\ tx_timer \in BOOLEAN
    BY Zero, Zenon DEF Init
  <2> QED
    BY <2>1, <2>2, <2>3, Zenon DEF TxTypes
<1>2. RxTypes /\ CfgTypes /\ abort \in BOOLEAN
  <2>1. acc \in Seq(Byte) /\ got \in Seq(Nat)
    BY DEF Init
  <2>2. CR1 \in CR1Type /\ CR3 \subseteq DmaBits /\ bits_per_sec \in Nat
    BY DEF Init, CR1Type, AllClear, Bit
  <2>3. RDR \in Byte /\ BRR \in Divisor
    BY Zero, Zenon DEF Init
  <2>4. /\ sr_read_since_ore_set \in BOOLEAN /\ receiving \in BOOLEAN
        /\ rx_timer \in BOOLEAN /\ abort \in BOOLEAN
    BY Zenon DEF Init
  <2> QED
    BY <2>1, <2>2, <2>3, <2>4, Zenon DEF RxTypes, CfgTypes
<1>3. EnvTypes
  BY UartAssumption DEF Init, EnvTypes
<1>4. LineShows(line, SR, CR1)
  BY DEF Init, LineShows, IrqLevel, ResetSR, AllClear
<1>5. TxState(SR, written, out, TDR)
  BY DEF Init, TxState, ResetSR
<1>6. RxState(SR.RXNE, acc, got, RDR)
  BY DEF Init, RxState, ResetSR
<1>7. Baud(bits_per_sec, BRR, clk)
  BY DEF Init, Baud
<1> QED
  BY <1>1, <1>2, <1>3, <1>4, <1>5, <1>6, <1>7, Zenon DEF IInv, Live
-----------------------------------------------------------------------------
(***************************************************************************)
(* Every step preserves it.                                                 *)
(***************************************************************************)
\* What IInv says before any step: the process runs.
LEMMA Running ==
  ASSUME IInv, ~abort
  PROVE  /\ abort = FALSE /\ Live /\ LineOK(line) /\ SR \in SRType
         /\ SR.RXNE \in Bit /\ TxState(SR, written, out, TDR)
<1>1. abort = FALSE /\ Live /\ TxState(SR, written, out, TDR)
  BY Zenon DEF IInv, Live
<1>2. SR \in SRType /\ line \in LineType
  BY Zenon DEF IInv, TxTypes
<1>3. line.irq = line.curr_irq_level
  BY <1>1 DEF Live, LineShows
<1> QED
  BY <1>1, <1>2, <1>3 DEF LineOK, SRType

\* A read of USART_SR only records that it happened.
LEMMA ReadSRStep == IInv /\ ReadSR => IInv'
<1> SUFFICES ASSUME IInv, ReadSR PROVE IInv'
  OBVIOUS
<1>1. abort = FALSE /\ Live
  BY Running DEF ReadSR
<1>2. /\ SR' = SR /\ line' = line /\ got' = got /\ abort' = abort /\ CR1' = CR1
      /\ CR3' = CR3 /\ BRR' = BRR /\ bits_per_sec' = bits_per_sec
      /\ RDR' = RDR /\ acc' = acc /\ receiving' = receiving
      /\ rx_timer' = rx_timer /\ TDR' = TDR /\ tx_timer' = tx_timer
      /\ out' = out /\ written' = written
      /\ clk' = clk /\ remap' = remap /\ pin' = pin
  BY Zenon DEF ReadSR, cfgVars, txVars, envVars
<1>3. sr_read_since_ore_set' \in BOOLEAN
  BY Zenon DEF ReadSR
<1> QED
  BY <1>1, <1>2, <1>3, Zenon
  DEF IInv, RxTypes, CfgTypes, EnvTypes, TxTypes, Live

\* A divisor is a natural number.
LEMMA DivisorNat == ASSUME NEW b \in Divisor PROVE b \in Nat
BY SMT DEF Divisor

\* Register widths and constants as natural numbers.
LEMMA Naturals1 == /\ \A b \in Divisor : b \in Nat
                   /\ \A f \in Freqs : f \in Nat
                   /\ \A v \in DRValues : v \in Nat
                   /\ \A v \in BRRValues : v \in Divisor
                   /\ \A v \in CR1Values : v \in CR1Type
                   /\ \A b \in RxBytes : b \in Byte
<1>1. \A b \in Divisor : b \in Nat
  BY DivisorNat, Zenon
<1> QED
  BY <1>1, UartAssumption, Zenon

\* A legal write of USART_SR clears TC and RXNE; any other ends the process.
LEMMA WriteSRStep ==
  ASSUME IInv, NEW tc, NEW rxne, WriteSR(tc, rxne) PROVE IInv'
<1> DEFINE ok == tc = 0 /\ rxne = 0
           s1 == Cleared(SR)
<1>1. abort = FALSE /\ Live /\ LineOK(line) /\ SR \in SRType /\ SR.RXNE \in Bit
  BY Running, Zenon DEF WriteSR
<1>2. /\ got' = got /\ CR1' = CR1
      /\ CR3' = CR3 /\ BRR' = BRR /\ bits_per_sec' = bits_per_sec
      /\ RDR' = RDR /\ acc' = acc /\ receiving' = receiving
      /\ rx_timer' = rx_timer /\ TDR' = TDR /\ tx_timer' = tx_timer
      /\ out' = out /\ written' = written
      /\ clk' = clk /\ remap' = remap /\ pin' = pin
  BY Zenon DEF WriteSR, cfgVars, txVars, envVars
<1>3. sr_read_since_ore_set' \in BOOLEAN
  BY Zenon DEF WriteSR
<1>4. /\ SR' = IF ok THEN s1 ELSE SR
      /\ line' = IF ok THEN stm32_uart_update_irq(line, s1, CR1) ELSE line
      /\ abort' = ~ok
  BY Zenon DEF WriteSR, stm32_uart_USART_SR_write, Cleared
<1>5. s1 \in SRType /\ s1.TXE = SR.TXE /\ s1.TC = 0 /\ s1.RXNE = 0
  BY <1>1, TwoFlags, Zenon
<1>6. RxTypes' /\ CfgTypes' /\ EnvTypes'
  BY <1>2, <1>3, Zenon DEF IInv, RxTypes, CfgTypes, EnvTypes
<1> HIDE DEF ok, s1
<1>7. CASE ok
  <2>1. SR' = s1 /\ line' = stm32_uart_update_irq(line, s1, CR1) /\ abort' = FALSE
    BY <1>4, <1>7, Zenon
  <2>2. line' \in LineType /\ LineShows(line', SR', CR1')
    BY <1>1, <1>2, <2>1, UpdateIrq DEF LineOK, LineShows
  <2>3. TxTypes(SR, line, TDR, tx_timer, out, written)'
    BY <1>2, <1>5, <2>1, <2>2, Zenon DEF IInv, TxTypes
  <2>4. TxState(SR, written, out, TDR)'
    BY <1>1, <1>2, <1>5, <2>1 DEF Live, TxState
  <2>5. RxState(0, acc, got, RDR)
    BY <1>1, RxClear, Zenon DEF IInv, RxTypes, Live
  <2> QED
    BY <1>1, <1>2, <1>5, <1>6, <2>1, <2>2, <2>3, <2>4, <2>5, Zenon DEF IInv, Live
<1>8. CASE ~ok
  <2>1. SR' = SR /\ line' = line /\ abort' = TRUE
    BY <1>4, <1>8, Zenon
  <2> QED
    BY <1>2, <1>6, <2>1, Zenon DEF IInv, TxTypes
<1> QED
  BY <1>7, <1>8

\* What both accesses to USART_DR leave alone.
LEMMA DRFrame ==
  ASSUME IInv, UNCHANGED <<rxVars, cfgVars, envVars>>
  PROVE  /\ RDR' = RDR /\ acc' = acc /\ CR1' = CR1 /\ BRR' = BRR /\ clk' = clk
         /\ bits_per_sec' = bits_per_sec
         /\ CfgTypes' /\ EnvTypes'
         /\ RDR' \in Byte /\ acc' \in Seq(Byte)
         /\ sr_read_since_ore_set' \in BOOLEAN /\ receiving' \in BOOLEAN
         /\ rx_timer' \in BOOLEAN
BY Zenon DEF IInv, rxVars, cfgVars, envVars, RxTypes, CfgTypes, EnvTypes

\* A guest reads USART_DR.
LEMMA ReadDRStep == IInv /\ ReadDR => IInv'
<1> SUFFICES ASSUME IInv, ReadDR PROVE IInv'
  OBVIOUS
<1>1. /\ abort = FALSE /\ Live /\ LineOK(line) /\ SR \in SRType
      /\ TxState(SR, written, out, TDR)
  BY Running, Zenon DEF ReadDR
<1>2. /\ RDR' = RDR /\ acc' = acc /\ CR1' = CR1 /\ BRR' = BRR /\ clk' = clk
      /\ bits_per_sec' = bits_per_sec
      /\ CfgTypes' /\ EnvTypes'
      /\ RDR' \in Byte /\ acc' \in Seq(Byte)
      /\ sr_read_since_ore_set' \in BOOLEAN /\ receiving' \in BOOLEAN
      /\ rx_timer' \in BOOLEAN
  BY DRFrame, Zenon DEF ReadDR
<1>3. stm32_uart_USART_DR_read(SR, line)
  BY Zenon DEF ReadDR
<1>4. RxState(SR.RXNE, acc', got, RDR') /\ got \in Seq(Nat)
  BY <1>1, <1>2, Zenon DEF Live, IInv, RxTypes
<1>5. TxTypes(SR, line, TDR, tx_timer, out, written)
  BY Zenon DEF IInv
<1>6. /\ TxTypes(SR, line, TDR, tx_timer, out, written)'
      /\ abort' \in BOOLEAN /\ got' \in Seq(Nat)
      /\ ~abort' => /\ LineShows(line', SR', CR1)
                    /\ TxState(SR', written', out', TDR')
                    /\ RxState(SR'.RXNE, acc', got', RDR')
  BY <1>1, <1>2, <1>3, <1>4, <1>5, DRReadFacts, Zenon
<1> QED
  BY <1>1, <1>2, <1>6, Zenon DEF IInv, Live, RxTypes

\* A guest writes USART_DR.
LEMMA WriteDRStep == ASSUME IInv, NEW v \in DRValues, WriteDR(v) PROVE IInv'
<1>1. /\ abort = FALSE /\ Live /\ LineOK(line) /\ SR \in SRType
      /\ TxState(SR, written, out, TDR)
  BY Running, Zenon DEF WriteDR
<1>2. /\ RDR' = RDR /\ acc' = acc /\ CR1' = CR1 /\ BRR' = BRR /\ clk' = clk
      /\ bits_per_sec' = bits_per_sec
      /\ CfgTypes' /\ EnvTypes'
      /\ RDR' \in Byte /\ acc' \in Seq(Byte)
      /\ sr_read_since_ore_set' \in BOOLEAN /\ receiving' \in BOOLEAN
      /\ rx_timer' \in BOOLEAN
  BY DRFrame, Zenon DEF WriteDR
<1>3. stm32_uart_USART_DR_write(SR, line, v) /\ v \in Nat
  BY Naturals1, Zenon DEF WriteDR
<1>5. TxTypes(SR, line, TDR, tx_timer, out, written) /\ got \in Seq(Nat)
  BY Zenon DEF IInv, RxTypes
<1>6. /\ TxTypes(SR, line, TDR, tx_timer, out, written)'
      /\ abort' \in BOOLEAN /\ got' = got
      /\ ~abort' => /\ LineShows(line', SR', CR1)
                    /\ TxState(SR', written', out', TDR')
                    /\ SR'.RXNE = SR.RXNE
  BY <1>1, <1>3, <1>5, DRWriteFacts, Zenon
<1> QED
  BY <1>1, <1>2, <1>5, <1>6, Zenon DEF IInv, Live, RxTypes

\* What the accesses that only configure the UART or its environment leave
\* alone: flags, buffers and timers.
DataFrame ==
  UNCHANGED <<SR, got, RDR, acc, sr_read_since_ore_set, receiving, rx_timer,
              TDR, tx_timer, out, written>>

\* Configuring the UART keeps its buffers and flags, so the invariant follows
\* from the new configuration's types, baud rate and interrupt level.
LEMMA ConfigureStep ==
  ASSUME IInv, ~abort, DataFrame, CfgTypes', EnvTypes', line' \in LineType,
         abort' \in BOOLEAN,
         ~abort' => LineShows(line', SR', CR1') /\ Baud(bits_per_sec', BRR', clk')
  PROVE  IInv'
<1>1. /\ SR' = SR /\ got' = got /\ RDR' = RDR /\ acc' = acc
      /\ sr_read_since_ore_set' = sr_read_since_ore_set
      /\ receiving' = receiving /\ rx_timer' = rx_timer /\ TDR' = TDR
      /\ tx_timer' = tx_timer /\ out' = out /\ written' = written
  BY Zenon DEF DataFrame
<1>2. Live
  BY Running, Zenon
<1>3. TxTypes(SR, line, TDR, tx_timer, out, written)' /\ RxTypes'
  BY <1>1, Zenon DEF IInv, TxTypes, RxTypes
<1> QED
  BY <1>1, <1>2, <1>3, Zenon DEF IInv, Live

\* The guest writes USART_BRR.
LEMMA WriteBRRStep == ASSUME IInv, NEW v \in BRRValues, WriteBRR(v) PROVE IInv'
<1>1. ~abort /\ BRR' = v /\ stm32_uart_baud_update(v, clk) /\ DataFrame
      /\ line' = line /\ CR1' = CR1 /\ CR3' = CR3 /\ clk' = clk
      /\ remap' = remap /\ pin' = pin /\ SR' = SR
  BY Zenon DEF WriteBRR, DataFrame, rxVars, txVars, envVars
<1>2. v \in Divisor /\ v \in Nat /\ clk \in Nat
  BY Naturals1, Zenon DEF IInv, EnvTypes
<1>3. bits_per_sec' \in Nat /\ abort' \in BOOLEAN /\ Baud(bits_per_sec', v, clk)
  BY <1>1, <1>2, BaudUpdate, Zenon
<1>4. CfgTypes' /\ EnvTypes' /\ line' \in LineType
  BY <1>1, <1>2, <1>3, Zenon DEF IInv, CfgTypes, EnvTypes, TxTypes
<1>5. LineShows(line', SR', CR1')
  BY <1>1, Running, Zenon DEF Live
<1>6. Baud(bits_per_sec', BRR', clk')
  BY <1>1, <1>3, Zenon
<1> QED
  BY <1>1, <1>3, <1>4, <1>5, <1>6, ConfigureStep, Zenon

\* The clock tree reports a new frequency.
LEMMA ClockStep ==
  ASSUME IInv, NEW f \in Freqs, stm32_uart_clk_irq_handler(f) PROVE IInv'
<1>1. ~abort /\ clk' = f /\ stm32_uart_baud_update(BRR, f) /\ DataFrame
      /\ line' = line /\ CR1' = CR1 /\ CR3' = CR3 /\ BRR' = BRR
      /\ remap' = remap /\ pin' = pin /\ SR' = SR
  BY Zenon DEF stm32_uart_clk_irq_handler, DataFrame, rxVars, txVars
<1>2. BRR \in Nat /\ f \in Nat
  BY Naturals1, Zenon DEF IInv, CfgTypes
<1>3. bits_per_sec' \in Nat /\ abort' \in BOOLEAN /\ Baud(bits_per_sec', BRR, f)
  BY <1>1, <1>2, BaudUpdate, Zenon
<1>4. CfgTypes' /\ EnvTypes' /\ line' \in LineType
  BY <1>1, <1>3, Zenon DEF IInv, CfgTypes, EnvTypes, TxTypes
<1>5. LineShows(line', SR', CR1')
  BY <1>1, Running, Zenon DEF Live
<1>6. Baud(bits_per_sec', BRR', clk')
  BY <1>1, <1>3, Zenon
<1> QED
  BY <1>1, <1>3, <1>4, <1>5, <1>6, ConfigureStep, Zenon

\* The guest writes USART_CR1.
LEMMA WriteCR1Step == ASSUME IInv, NEW v \in CR1Values, WriteCR1(v) PROVE IInv'
<1>1. ~abort /\ CR1' = v /\ line' = stm32_uart_update_irq(line, SR, v) /\ DataFrame
      /\ CR3' = CR3 /\ BRR' = BRR /\ bits_per_sec' = bits_per_sec
      /\ clk' = clk /\ remap' = remap /\ pin' = pin /\ SR' = SR
      /\ abort' \in BOOLEAN
  BY Zenon DEF WriteCR1, DataFrame, rxVars, txVars, envVars
<1>2. LineOK(line) /\ Baud(bits_per_sec, BRR, clk)
  BY <1>1, Running, Zenon DEF Live
<1>3. line' \in LineType /\ LineShows(line', SR', CR1')
  BY <1>1, <1>2, UpdateIrq DEF LineOK, LineShows
<1>4. CfgTypes' /\ EnvTypes'
  BY <1>1, Naturals1, Zenon DEF IInv, CfgTypes, EnvTypes
<1>5. Baud(bits_per_sec', BRR', clk')
  BY <1>1, <1>2, Zenon
<1> QED
  BY <1>1, <1>3, <1>4, <1>5, ConfigureStep, Zenon

\* The guest writes USART_CR3, AFIO_MAPR or a pin's configuration.
LEMMA OtherConfigStep ==
  ASSUME IInv,
         \/ \E v \in SUBSET DmaBits : WriteCR3(v)
         \/ \E m \in Remaps : WriteMAPR(m)
         \/ \E p \in TxPins, m \in PinModes : ConfigurePin(p, m)
  PROVE  IInv'
<1>1. /\ ~abort /\ DataFrame
      /\ line' = line /\ CR1' = CR1 /\ BRR' = BRR /\ bits_per_sec' = bits_per_sec
      /\ clk' = clk /\ SR' = SR /\ abort' = abort
  BY Zenon DEF WriteCR3, WriteMAPR, ConfigurePin, DataFrame, rxVars, txVars,
               cfgVars, envVars
<1>2. CR3' \subseteq DmaBits /\ remap' \in Remaps
  BY Zenon DEF WriteCR3, WriteMAPR, ConfigurePin, cfgVars, envVars,
               IInv, CfgTypes, EnvTypes
<1>3. pin' \in [Pins -> PinModes]
  <2>1. pin \in [Pins -> PinModes]
    BY Zenon DEF IInv, EnvTypes
  <2>2. pin' = pin \/ \E p \in TxPins, m \in PinModes : pin' = [pin EXCEPT ![p] = m]
    BY Zenon DEF WriteCR3, WriteMAPR, ConfigurePin, envVars
  <2> QED
    BY <2>1, <2>2
<1>4. Live
  BY <1>1, Running, Zenon
<1>5. CfgTypes' /\ EnvTypes' /\ line' \in LineType /\ abort' \in BOOLEAN
  BY <1>1, <1>2, <1>3, Zenon DEF IInv, CfgTypes, EnvTypes, TxTypes
<1>6. LineShows(line', SR', CR1') /\ Baud(bits_per_sec', BRR', clk')
  BY <1>1, <1>4, Zenon DEF Live
<1> QED
  BY <1>1, <1>5, <1>6, ConfigureStep, Zenon

\* stm32_uart_update_irq keeps wire and cache together.
LEMMA UpdateKeepsLine ==
  ASSUME NEW l, LineOK(l), NEW s, NEW c
  PROVE  /\ LineOK(stm32_uart_update_irq(l, s, c))
         /\ LineShows(stm32_uart_update_irq(l, s, c), s, c)
<1>1. l \in LineType /\ l.irq = l.curr_irq_level
  BY Zenon DEF LineOK
<1> QED
  BY <1>1, UpdateIrq, ZenonT(60) DEF LineOK, LineShows

\* The flags stm32_uart_receive works on.
WithORE(s) == [s EXCEPT !.ORE = 1]
WithRXNE(s) == [s EXCEPT !.RXNE = 1]

\* Changing one flag keeps the type of SR and the other flags.
LEMMA OneFlag ==
  ASSUME NEW s \in SRType
  PROVE  /\ WithORE(s) \in SRType /\ WithORE(s).TXE = s.TXE
         /\ WithORE(s).TC = s.TC /\ WithORE(s).RXNE = s.RXNE
         /\ WithRXNE(s) \in SRType /\ WithRXNE(s).TXE = s.TXE
         /\ WithRXNE(s).TC = s.TC /\ WithRXNE(s).RXNE = 1
BY DEF SRType, Bit, WithORE, WithRXNE

\* The DMA controller answers a request made with flags s and line l.
LEMMA DmaFacts ==
  ASSUME TxTypes(SR, line, TDR, tx_timer, out, written),
         NEW s \in SRType, NEW l, abort = FALSE, LineOK(l),
         LineShows(l, s, CR1), TxState(s, written, out, TDR),
         acc' \in Seq(Byte), got \in Seq(Nat),
         RxState(s.RXNE, acc', got, RDR'),
         DmaRequest(s, l)
  PROVE  /\ TxTypes(SR, line, TDR, tx_timer, out, written)'
         /\ abort' \in BOOLEAN /\ got' \in Seq(Nat)
         /\ ~abort' => /\ LineShows(line', SR', CR1)
                       /\ TxState(SR', written', out', TDR')
                       /\ RxState(SR'.RXNE, acc', got', RDR')
<1>1. CASE SR' = s /\ line' = l /\ UNCHANGED <<got, txVars>>
           /\ (abort' = TRUE \/ abort' = abort)
  <2>1. l \in LineType
    BY Zenon DEF LineOK
  <2> QED
    BY <1>1, <2>1, Zenon DEF txVars, TxTypes
<1>2. CASE stm32_uart_USART_DR_read(s, l)
  BY <1>2, DRReadFacts, Zenon
<1>3. ASSUME NEW v \in DRValues, stm32_uart_USART_DR_write(s, l, v)
      PROVE  /\ TxTypes(SR, line, TDR, tx_timer, out, written)'
             /\ abort' \in BOOLEAN /\ got' \in Seq(Nat)
             /\ ~abort' => /\ LineShows(line', SR', CR1)
                           /\ TxState(SR', written', out', TDR')
                           /\ RxState(SR'.RXNE, acc', got', RDR')
  <2>1. v \in Nat
    BY Naturals1, Zenon
  <2> QED
    BY <1>3, <2>1, DRWriteFacts, Zenon
<1> QED
  BY <1>1, <1>2, <1>3, Zenon DEF DmaRequest

\* A character arrives, with or without overrun, and may be taken by the DMA
\* controller in the same step.
LEMMA ReceiveStep ==
  ASSUME IInv, NEW b \in RxBytes, stm32_uart_receive(b) PROVE IInv'
<1> DEFINE on == CR1.UE = 1 /\ CR1.RE = 1
           overrun == on /\ SR.RXNE = 1
           s1 == IF overrun THEN WithORE(SR) ELSE SR
           l1 == IF overrun THEN stm32_uart_update_irq(line, s1, CR1) ELSE line
           s2 == IF on THEN WithRXNE(s1) ELSE s1
           l2 == IF on THEN stm32_uart_update_irq(l1, s2, CR1) ELSE l1
<1>1. /\ ~abort
      /\ RDR' = IF on THEN b ELSE RDR
      /\ acc' = IF on THEN Append(acc, b) ELSE acc
      /\ sr_read_since_ore_set' \in BOOLEAN
      /\ CR1' = CR1 /\ CR3' = CR3 /\ BRR' = BRR /\ bits_per_sec' = bits_per_sec
      /\ clk' = clk /\ remap' = remap /\ pin' = pin
  BY Zenon DEF stm32_uart_receive, cfgVars, envVars
<1>2. \/ DmaRequest(s2, l2) /\ receiving' = receiving /\ rx_timer' = rx_timer
      \/ /\ receiving' \in BOOLEAN /\ rx_timer' = TRUE
         /\ SR' = s2 /\ line' = l2 /\ UNCHANGED <<abort, got, txVars>>
  BY Zenon DEF stm32_uart_receive, StartRxTimer, WithORE, WithRXNE
<1>3. abort = FALSE /\ Live /\ LineOK(line) /\ SR \in SRType /\ SR.RXNE \in Bit
  BY <1>1, Running, Zenon
<1>4. s1 \in SRType /\ s1.TXE = SR.TXE /\ s1.TC = SR.TC /\ s1.RXNE = SR.RXNE
  BY <1>3, OneFlag, Zenon
<1> HIDE DEF s1
<1>5. s2 \in SRType /\ s2.TXE = SR.TXE /\ s2.TC = SR.TC
  BY <1>4, OneFlag, Zenon
<1>6. on => s2.RXNE = 1
  BY <1>4, OneFlag, Zenon
<1>7. ~on => s2 = SR /\ l2 = line
  BY Zenon DEF s1
<1>8. LineOK(l1)
  BY <1>3, UpdateKeepsLine, Zenon
<1> HIDE DEF l1, s2
<1>9. LineOK(l2) /\ (on => LineShows(l2, s2, CR1))
  BY <1>8, UpdateKeepsLine, Zenon
<1> HIDE DEF l2, on
<1>10. LineShows(l2, s2, CR1)
  BY <1>3, <1>7, <1>9, Zenon DEF Live
<1>11. TxState(s2, written, out, TDR)
  BY <1>3, <1>5 DEF Live, TxState
<1>12. RDR \in Byte /\ acc \in Seq(Byte) /\ got \in Seq(Nat) /\ b \in Byte
  BY Naturals1, Zenon DEF IInv, RxTypes
<1>13. RDR' \in Byte /\ acc' \in Seq(Byte) /\ RxState(s2.RXNE, acc', got, RDR')
  <2>1. CASE on
    BY <1>1, <1>3, <1>6, <1>12, <2>1, RxStore, Zenon DEF Live
  <2>2. CASE ~on
    BY <1>1, <1>3, <1>7, <1>12, <2>2, Zenon DEF Live
  <2> QED
    BY <2>1, <2>2
<1>14. /\ TxTypes(SR, line, TDR, tx_timer, out, written)'
       /\ abort' \in BOOLEAN /\ got' \in Seq(Nat)
       /\ ~abort' => /\ LineShows(line', SR', CR1)
                     /\ TxState(SR', written', out', TDR')
                     /\ RxState(SR'.RXNE, acc', got', RDR')
  <2>1. TxTypes(SR, line, TDR, tx_timer, out, written)
    BY Zenon DEF IInv
  <2>2. CASE DmaRequest(s2, l2)
    BY <1>3, <1>5, <1>9, <1>10, <1>11, <1>12, <1>13, <2>1, <2>2, DmaFacts, Zenon
  <2>3. CASE SR' = s2 /\ line' = l2 /\ UNCHANGED <<abort, got, txVars>>
    <3>1. l2 \in LineType
      BY <1>9, Zenon DEF LineOK
    <3> QED
      BY <1>3, <1>5, <1>10, <1>11, <1>12, <1>13, <2>1, <2>3, <3>1, Zenon
      DEF txVars, TxTypes
  <2> QED
    BY <1>2, <2>2, <2>3, Zenon
<1>15. receiving' \in BOOLEAN /\ rx_timer' \in BOOLEAN
  BY <1>2, Zenon DEF IInv, RxTypes
<1>16. RxTypes' /\ CfgTypes' /\ EnvTypes'
  BY <1>1, <1>13, <1>14, <1>15, Zenon DEF IInv, RxTypes, CfgTypes, EnvTypes
<1>17. Baud(bits_per_sec', BRR', clk')
  BY <1>1, <1>3, Zenon DEF Live
<1> QED
  BY <1>1, <1>14, <1>16, <1>17, Zenon DEF IInv, Live

\* rx_timer expires.
LEMMA RxTimerStep == IInv /\ stm32_uart_rx_timer_expire => IInv'
<1> SUFFICES ASSUME IInv, stm32_uart_rx_timer_expire PROVE IInv'
  OBVIOUS
<1>1. Live
  BY Running, Zenon DEF stm32_uart_rx_timer_expire
<1>2. /\ SR' = SR /\ line' = line /\ got' = got /\ abort' = abort /\ CR1' = CR1
      /\ CR3' = CR3 /\ BRR' = BRR /\ bits_per_sec' = bits_per_sec
      /\ RDR' = RDR /\ acc' = acc /\ receiving' = FALSE
      /\ sr_read_since_ore_set' = sr_read_since_ore_set
      /\ rx_timer' = rx_timer /\ TDR' = TDR /\ tx_timer' = tx_timer
      /\ out' = out /\ written' = written
      /\ clk' = clk /\ remap' = remap /\ pin' = pin
  BY Zenon DEF stm32_uart_rx_timer_expire, cfgVars, txVars, envVars
<1> QED
  BY <1>1, <1>2, Zenon DEF IInv, RxTypes, CfgTypes, EnvTypes, TxTypes, Live

\* stm32_uart_tx_complete sends the character in TDR, if there is one, and
\* leaves the line showing the flags although start_tx clears TC without
\* reporting it: TC is already clear whenever TDR holds a character.
LEMMA TxCompleteFacts ==
  ASSUME NEW s \in SRType, NEW l, LineOK(l), NEW o \in Seq(Byte), TDR \in Data,
         NEW w, TxState(s, w, o, TDR)
  PROVE  /\ TxResult(stm32_uart_tx_complete(s, l, o), s.RXNE, w)
         /\ LineShows(stm32_uart_tx_complete(s, l, o).line,
                      stm32_uart_tx_complete(s, l, o).SR, CR1)
<1> DEFINE s1 == [s EXCEPT !.TXE = 1]
           l1 == stm32_uart_update_irq(l, s1, CR1)
           t == stm32_uart_tx_complete(s, l, o)
<1>1. l \in LineType /\ l.irq = l.curr_irq_level
  BY Zenon DEF LineOK
<1>2. CASE s.TXE = 1
  <2> DEFINE d == TxDone(s, l, o)
  <2>1. t = d /\ w = o
    BY <1>2 DEF stm32_uart_tx_complete, TxState
  <2>2. /\ d.SR \in SRType /\ d.SR.TXE = s.TXE /\ d.SR.RXNE = s.RXNE
        /\ d.line \in LineType /\ d.line.irq = IrqLevel(d.SR, CR1)
        /\ d.line.irq = d.line.curr_irq_level
        /\ d.out = o /\ d.tx_timer = FALSE
    BY <1>1, TxDoneFacts, ZenonT(60)
  <2> HIDE DEF t, d
  <2>3. TxResult(d, s.RXNE, w) /\ LineShows(d.line, d.SR, CR1)
    BY <1>2, <2>1, <2>2, Zenon DEF TxResult, LineOK, LineShows
  <2> QED
    BY <2>1, <2>3, Zenon DEF t
<1>3. CASE s.TXE # 1
  <2>1. s1 \in SRType /\ s1.TXE = 1 /\ s1.RXNE = s.RXNE /\ s1.TC = s.TC
    BY DEF SRType, Bit
  <2>2. LineOK(l1) /\ LineShows(l1, s1, CR1)
    BY UpdateKeepsLine, Zenon
  <2>3. t = stm32_uart_start_tx(s1, l1, o, TDR)
    BY <1>3, Zenon DEF stm32_uart_tx_complete
  <2>4. w = Append(o, Ch(TDR)) /\ s.TC # 1
    BY <1>3 DEF TxState
  <2>5. TDR \in Nat
    BY DEF Data
  <2> HIDE DEF s1, l1, t
  <2>6. TxResult(t, s.RXNE, w)
    BY <2>1, <2>2, <2>3, <2>4, <2>5, StartTxFacts, Zenon
  <2>7. LineShows(t.line, t.SR, CR1)
    <3>1. CASE NoBaudDelay
      <4> DEFINE s2 == [s1 EXCEPT !.TC = 0]
                 o1 == Append(o, Ch(TDR))
                 d == TxDone(s2, l1, o1)
      <4>1. s2 \in SRType /\ s2.TXE = 1
        BY <2>1 DEF SRType, Bit
      <4>2. t = d
        BY <2>1, <2>3, <3>1, Zenon DEF stm32_uart_start_tx
      <4>3. o1 \in Seq(Byte)
        BY <2>5, ChType
      <4>4. l1 \in LineType /\ l1.irq = l1.curr_irq_level
        BY <2>2, Zenon DEF LineOK
      <4> HIDE DEF s2, o1
      <4>5. d.line.irq = IrqLevel(d.SR, CR1) /\ d.line.irq = d.line.curr_irq_level
        BY <4>1, <4>3, <4>4, TxDoneFacts, ZenonT(60)
      <4> HIDE DEF d
      <4> QED
        BY <4>2, <4>5, Zenon DEF LineShows
    <3>2. CASE ~NoBaudDelay
      <4> DEFINE s2 == [s1 EXCEPT !.TC = 0]
      <4>1. t.SR = s2 /\ t.line = l1
        BY <2>3, <3>2 DEF stm32_uart_start_tx, Tx
      <4>2. s1.TC = 0
        BY <2>1, <2>4 DEF SRType, Bit
      <4>3. s2 = s1
        BY <2>1, <4>2 DEF SRType
      <4> QED
        BY <2>2, <4>1, <4>3, Zenon
    <3> QED
      BY <3>1, <3>2
  <2> QED
    BY <2>6, <2>7 DEF t
<1> QED
  BY <1>2, <1>3

\* The end of stm32_uart_tx_dma_timer_expire, whatever the DMA controller did.
LEMMA DmaTxCompleteFacts ==
  ASSUME NEW s \in SRType, NEW l, LineOK(l), NEW o \in Seq(Byte), TDR \in Data,
         NEW w, TxState(s, w, o, TDR), NEW armed \in BOOLEAN,
         DmaTxComplete(s, l, o, armed)
  PROVE  /\ SR' \in SRType /\ SR'.TXE = 1 /\ SR'.RXNE = s.RXNE
         /\ line' \in LineType /\ LineShows(line', SR', CR1)
         /\ out' = w /\ tx_timer' \in BOOLEAN
<1> DEFINE t == stm32_uart_tx_complete(s, l, o)
<1>1. TxResult(t, s.RXNE, w) /\ LineShows(t.line, t.SR, CR1)
  BY TxCompleteFacts, Zenon
<1>2. /\ SR' = t.SR /\ line' = t.line /\ out' = t.out
      /\ tx_timer' = (armed \/ t.tx_timer)
  BY Zenon DEF DmaTxComplete
<1> HIDE DEF t
<1> QED
  BY <1>1, <1>2, Zenon DEF TxResult, LineOK

\* The transmitter after a step, in step with its line and its history.
TxStepOk ==
  /\ TxTypes(SR, line, TDR, tx_timer, out, written)'
  /\ LineShows(line', SR', CR1)
  /\ TxState(SR', written', out', TDR')

\* The DMA controller writes USART_DR while tx_dma_timer expires: the character
\* leaves at once, and tx_timer completes it again later.
LEMMA DmaTxWriteFacts ==
  ASSUME TxTypes(SR, line, TDR, tx_timer, out, written), LineOK(line),
         ~NoBaudDelay, TxState(SR, written, out, TDR),
         NEW v \in Data, DmaTxWrite(v)
  PROVE  TxStepOk /\ SR'.RXNE = SR.RXNE
<1> DEFINE t == stm32_uart_start_tx(SR, line, out, v)
           l0 == stm32_uart_update_irq(line, [SR EXCEPT !.TXE = 0], CR1)
           l1 == stm32_uart_update_irq(l0, SR, CR1)
           u == stm32_uart_start_tx(SR, l1, out, v)
           o1 == Append(out, Ch(v))
<1>1. /\ SR \in SRType /\ TDR \in Data /\ out \in Seq(Byte) /\ v \in Nat
  BY DEF TxTypes, Data
<1>2. o1 \in Seq(Byte) /\ (SR.TC = 1 => SR.TXE = 1)
  BY <1>1, ChType DEF TxState
<1>3. ASSUME SR.TXE = 1 PROVE written = out
  BY <1>3 DEF TxState
<1>4. CASE SR.TC = 1
  <2>1. SR.TXE = 1 /\ written' = Append(written, Ch(v)) /\ TDR' = TDR
        /\ DmaTxComplete(t.SR, stm32_uart_update_irq(t.line, t.SR, CR1), t.out, TRUE)
    <3>1. SR.TC # 0
      BY <1>4
    <3> QED
      BY <1>2, <1>4, <3>1, Zenon DEF DmaTxWrite
  <2>2. written' = o1
    BY <1>3, <2>1, Zenon
  <2>3. TxResult(t, SR.RXNE, o1)
    BY <1>1, <2>1, StartTxFacts, Zenon
  <2> DEFINE l2 == stm32_uart_update_irq(t.line, t.SR, CR1)
  <2> HIDE DEF t, o1
  <2>4. t.SR \in SRType /\ t.SR.RXNE = SR.RXNE /\ LineOK(l2) /\ t.out \in Seq(Byte)
    BY <1>2, <2>3, UpdateKeepsLine, Zenon DEF TxResult
  <2>5. TxState(t.SR, o1, t.out, TDR)
    BY <2>3 DEF TxResult, TxState
  <2> DEFINE s2 == t.SR
             o2 == t.out
  <2>6. DmaTxComplete(s2, l2, o2, TRUE) /\ TRUE \in BOOLEAN
    BY <2>1, Zenon
  <2>7. s2 \in SRType /\ LineOK(l2) /\ o2 \in Seq(Byte) /\ TxState(s2, o1, o2, TDR)
        /\ s2.RXNE = SR.RXNE
    BY <2>4, <2>5, Zenon
  <2> HIDE DEF s2, o2, l2
  <2>8. /\ SR' \in SRType /\ SR'.TXE = 1 /\ SR'.RXNE = s2.RXNE
        /\ line' \in LineType /\ LineShows(line', SR', CR1)
        /\ out' = o1 /\ tx_timer' \in BOOLEAN
    BY <1>1, <2>6, <2>7, DmaTxCompleteFacts, Zenon
  <2>9. TxTypes(SR, line, TDR, tx_timer, out, written)'
    BY <1>1, <1>2, <2>1, <2>2, <2>8, Zenon DEF TxTypes
  <2>10. TxState(SR', written', out', TDR')
    BY <2>2, <2>8 DEF TxState
  <2> QED
    BY <2>7, <2>8, <2>9, <2>10, Zenon DEF TxStepOk
<1>5. CASE SR.TC # 1
  <2>1. SR.TXE = 1 /\ written' = Append(written, Ch(v)) /\ TDR' = v
        /\ SR' = u.SR /\ line' = u.line /\ out' = u.out /\ tx_timer' = u.tx_timer
    BY <1>5, Zenon DEF DmaTxWrite
  <2>2. written' = o1
    BY <1>3, <2>1, Zenon
  <2>3. LineOK(l1) /\ LineShows(l1, SR, CR1)
    BY UpdateKeepsLine, Zenon
  <2>4. TxResult(u, SR.RXNE, o1)
    <3> HIDE DEF l1
    <3> QED
      BY <1>1, <2>1, <2>3, StartTxFacts, Zenon
  <2>5. u.SR = [SR EXCEPT !.TC = 0] /\ u.line = l1
    BY DEF stm32_uart_start_tx, Tx
  <2>6. [SR EXCEPT !.TC = 0] = SR
    BY <1>1, <1>5 DEF SRType, Bit
  <2> HIDE DEF u, l1, o1
  <2>7. LineShows(line', SR', CR1)
    BY <2>1, <2>3, <2>5, <2>6, Zenon
  <2>8. TxTypes(SR, line, TDR, tx_timer, out, written)'
    BY <1>2, <2>1, <2>2, <2>4, Zenon DEF TxTypes, TxResult, LineOK
  <2>9. TxState(SR', written', out', TDR') /\ SR'.RXNE = SR.RXNE
    BY <2>1, <2>2, <2>4 DEF TxState, TxResult
  <2> QED
    BY <2>7, <2>8, <2>9, Zenon DEF TxStepOk
<1> QED
  BY <1>4, <1>5

\* tx_timer expires.
LEMMA TxTimerStep == IInv /\ stm32_uart_tx_timer_expire => IInv'
<1> SUFFICES ASSUME IInv, stm32_uart_tx_timer_expire PROVE IInv'
  OBVIOUS
<1> DEFINE t == stm32_uart_tx_complete(SR, line, out)
<1>1. /\ Live /\ SR \in SRType /\ LineOK(line) /\ abort = FALSE
      /\ TxState(SR, written, out, TDR)
  BY Running, Zenon DEF stm32_uart_tx_timer_expire
<1>2. /\ SR' = t.SR /\ line' = t.line /\ out' = t.out /\ tx_timer' = t.tx_timer
      /\ TDR' = TDR /\ written' = written /\ got' = got /\ abort' = abort
      /\ CR1' = CR1 /\ CR3' = CR3 /\ BRR' = BRR /\ bits_per_sec' = bits_per_sec
      /\ RDR' = RDR /\ acc' = acc /\ receiving' = receiving
      /\ sr_read_since_ore_set' = sr_read_since_ore_set
      /\ rx_timer' = rx_timer /\ clk' = clk /\ remap' = remap /\ pin' = pin
  BY Zenon DEF stm32_uart_tx_timer_expire, cfgVars, rxVars, envVars
<1>3. out \in Seq(Byte) /\ TDR \in Data /\ written \in Seq(Byte)
  BY Zenon DEF IInv, TxTypes
<1>4. TxResult(t, SR.RXNE, written) /\ LineShows(t.line, t.SR, CR1)
  BY <1>1, <1>3, TxCompleteFacts, Zenon
<1> HIDE DEF t
<1>5. TxTypes(SR, line, TDR, tx_timer, out, written)'
  BY <1>2, <1>3, <1>4, Zenon DEF TxTypes, TxResult, LineOK
<1>6. /\ SR'.RXNE = SR.RXNE /\ SR'.TXE = 1 /\ out' = written'
      /\ LineShows(line', SR', CR1')
  BY <1>2, <1>4, Zenon DEF TxResult
<1>7. TxState(SR', written', out', TDR')
  BY <1>6 DEF TxState
<1> QED
  BY <1>1, <1>2, <1>5, <1>6, <1>7, Zenon
  DEF IInv, Live, RxTypes, CfgTypes, EnvTypes

\* tx_dma_timer expires.
LEMMA TxDmaTimerStep == IInv /\ stm32_uart_tx_dma_timer_expire => IInv'
<1> SUFFICES ASSUME IInv, stm32_uart_tx_dma_timer_expire PROVE IInv'
  OBVIOUS
<1> DEFINE x == IF sr_read_since_ore_set THEN 0 ELSE SR.ORE
           s1 == WithRx(SR, 0, x)
           l1 == stm32_uart_update_irq(line, s1, CR1)
<1>1. /\ Live /\ SR \in SRType /\ LineOK(line) /\ abort = FALSE
      /\ TxState(SR, written, out, TDR)
  BY Running, Zenon DEF stm32_uart_tx_dma_timer_expire
<1>2. /\ RDR' = RDR /\ acc' = acc /\ CR1' = CR1 /\ BRR' = BRR /\ clk' = clk
      /\ bits_per_sec' = bits_per_sec
      /\ CfgTypes' /\ EnvTypes'
      /\ RDR' \in Byte /\ acc' \in Seq(Byte)
      /\ sr_read_since_ore_set' \in BOOLEAN /\ receiving' \in BOOLEAN
      /\ rx_timer' \in BOOLEAN
  BY DRFrame, Zenon DEF stm32_uart_tx_dma_timer_expire
<1>3. /\ TxTypes(SR, line, TDR, tx_timer, out, written)
      /\ TDR \in Data /\ out \in Seq(Byte) /\ written \in Seq(Byte)
      /\ tx_timer \in BOOLEAN /\ got \in Seq(Nat) /\ acc \in Seq(Byte)
  BY Zenon DEF IInv, TxTypes, RxTypes
<1>4. RxState(SR.RXNE, acc, got, RDR) /\ Baud(bits_per_sec', BRR', clk')
  BY <1>1, <1>2, Zenon DEF Live
<1>5. SUFFICES /\ abort' \in BOOLEAN /\ got' \in Seq(Nat)
               /\ TxTypes(SR, line, TDR, tx_timer, out, written)'
               /\ ~abort' => TxStepOk /\ RxState(SR'.RXNE, acc, got', RDR)
  BY <1>2, <1>4, Zenon DEF IInv, Live, RxTypes, TxStepOk
<1>6. CASE abort' = TRUE /\ UNCHANGED <<SR, line, got, txVars>>
  BY <1>3, <1>6, Zenon DEF txVars, TxTypes
<1>7. CASE /\ DmaTxComplete(SR, line, out, tx_timer)
           /\ UNCHANGED <<TDR, written, got, abort>>
  <2>1. /\ SR' \in SRType /\ SR'.TXE = 1 /\ SR'.RXNE = SR.RXNE
        /\ line' \in LineType /\ LineShows(line', SR', CR1)
        /\ out' = written /\ tx_timer' \in BOOLEAN
    BY <1>1, <1>3, <1>7, DmaTxCompleteFacts, Zenon
  <2>2. TxTypes(SR, line, TDR, tx_timer, out, written)'
    BY <1>3, <1>7, <2>1, Zenon DEF TxTypes
  <2>3. TxState(SR', written', out', TDR')
    BY <1>7, <2>1 DEF TxState
  <2> QED
    BY <1>1, <1>3, <1>4, <1>7, <2>1, <2>2, <2>3, Zenon DEF TxStepOk
<1>8. CASE /\ CR1.UE = 1 /\ CR1.RE = 1 /\ SR.RXNE = 1
           /\ DmaTxComplete(s1, l1, out, tx_timer)
           /\ got' = Append(got, Len(acc))
           /\ UNCHANGED <<TDR, written, abort>>
  <2>1. x \in Bit /\ 0 \in Bit
    BY <1>1 DEF SRType, Bit
  <2> HIDE DEF x
  <2>2. s1 \in SRType /\ s1.TXE = SR.TXE /\ s1.TC = SR.TC /\ s1.RXNE = 0
    BY <1>1, <2>1, TwoFlags, ZenonT(60)
  <2> HIDE DEF s1
  <2>3. LineOK(l1)
    BY <1>1, UpdateKeepsLine, Zenon
  <2>4. TxState(s1, written, out, TDR)
    BY <1>1, <2>2 DEF TxState
  <2> HIDE DEF l1
  <2>5. /\ SR' \in SRType /\ SR'.TXE = 1 /\ SR'.RXNE = s1.RXNE
        /\ line' \in LineType /\ LineShows(line', SR', CR1)
        /\ out' = written /\ tx_timer' \in BOOLEAN
    BY <1>3, <1>8, <2>2, <2>3, <2>4, DmaTxCompleteFacts, Zenon
  <2>6. TxTypes(SR, line, TDR, tx_timer, out, written)'
    BY <1>3, <1>8, <2>5, Zenon DEF TxTypes
  <2>7. TxState(SR', written', out', TDR')
    BY <1>8, <2>5 DEF TxState
  <2>8. got' \in Seq(Nat) /\ RxState(0, acc, got', RDR)
    BY <1>3, <1>4, <1>8, RxRead
  <2> QED
    BY <1>1, <1>8, <2>2, <2>5, <2>6, <2>7, <2>8, Zenon DEF TxStepOk
<1>9. CASE /\ \E value \in DRValues : DmaTxWrite(value % 512)
           /\ ~NoBaudDelay
           /\ UNCHANGED <<got, abort>>
  <2>1. PICK value \in DRValues : DmaTxWrite(value % 512)
    BY <1>9, Zenon
  <2>2. value \in Nat
    BY Naturals1, Zenon
  <2>3. value % 512 \in Data
    BY <2>2 DEF Data
  <2>4. TxStepOk /\ SR'.RXNE = SR.RXNE
    BY <1>1, <1>3, <1>9, <2>1, <2>3, DmaTxWriteFacts, Zenon
  <2> QED
    BY <1>1, <1>3, <1>4, <1>9, <2>4, Zenon DEF TxStepOk
<1> QED
  BY <1>6, <1>7, <1>8, <1>9, Zenon DEF stm32_uart_tx_dma_timer_expire, WithRx

\* Machine reset: the line is low again on both sides, whatever the cache held.
LEMMA ResetStep == IInv /\ stm32_uart_reset => IInv'
<1> SUFFICES ASSUME IInv, stm32_uart_reset PROVE IInv'
  OBVIOUS
<1> DEFINE l0 == [line EXCEPT !.irq = 0]
<1>1. Live /\ SR.RXNE \in Bit /\ line \in LineType
  BY Running, Zenon DEF stm32_uart_reset, LineOK
<1>2. /\ SR' = ResetSR /\ CR1' = AllClear /\ CR3' = {} /\ BRR' = 0
      /\ bits_per_sec' = 0 /\ written' = out /\ clk' = 0 /\ remap' = 0
      /\ pin' = [p \in Pins |-> "input"]
      /\ got' = got /\ abort' = abort /\ RDR' = RDR /\ acc' = acc
      /\ sr_read_since_ore_set' = sr_read_since_ore_set
      /\ receiving' = receiving /\ rx_timer' = rx_timer /\ TDR' = TDR
      /\ tx_timer' = tx_timer /\ out' = out
      /\ line' = stm32_uart_update_irq(l0, ResetSR, AllClear)
  BY Zenon DEF stm32_uart_reset, rxVars
<1>3. l0 \in LineType /\ l0.irq = 0 /\ l0.curr_irq_level \in Bit
  BY <1>1 DEF LineType, Bit
<1>4. IrqLevel(ResetSR, AllClear) = 0
  BY DEF IrqLevel, ResetSR, AllClear
<1> HIDE DEF l0
<1>5. line' \in LineType /\ LineShows(line', SR', CR1')
  BY <1>2, <1>3, <1>4 DEF stm32_uart_update_irq, LineShows, LineType, Bit
<1>6. ResetSR \in SRType /\ ResetSR.TXE = 1 /\ ResetSR.RXNE = 0
  BY DEF ResetSR, SRType, Bit
<1>7. TxTypes(SR, line, TDR, tx_timer, out, written)'
  BY <1>2, <1>5, <1>6, Zenon DEF IInv, TxTypes
<1>8. TxState(SR', written', out', TDR')
  BY <1>2, <1>6 DEF TxState
<1>9. RxState(SR'.RXNE, acc', got', RDR')
  BY <1>1, <1>2, <1>6, RxClear, Zenon DEF IInv, RxTypes, Live
<1>10. CfgTypes' /\ Baud(bits_per_sec', BRR', clk')
  <2>1. AllClear \in CR1Type /\ 0 \in Bit /\ 0 \in Nat
    BY DEF AllClear, CR1Type, Bit
  <2> QED
    BY <1>2, <2>1, Zero, Zenon DEF CfgTypes, Baud
<1>11. EnvTypes'
  BY <1>2, UartAssumption DEF EnvTypes
<1> QED
  BY <1>2, <1>5, <1>7, <1>8, <1>9, <1>10, <1>11, Zenon DEF IInv, RxTypes, Live

\* No step of the device, of its guest or of its backend breaks the invariant.
LEMMA NextIInv == IInv /\ [Next]_vars => IInv'
<1> SUFFICES ASSUME IInv, [Next]_vars PROVE IInv'
  OBVIOUS
<1>1. CASE UNCHANGED vars
  BY <1>1, Zenon DEF vars, cfgVars, rxVars, txVars, envVars, IInv, Live,
                     RxTypes, CfgTypes, EnvTypes, TxTypes
<1>2. CASE Guest
  BY <1>2, ReadSRStep, WriteSRStep, ReadDRStep, WriteDRStep, WriteBRRStep,
     WriteCR1Step, OtherConfigStep, ClockStep, Zenon DEF Guest
<1>3. CASE \E b \in RxBytes : stm32_uart_receive(b)
  BY <1>3, ReceiveStep, Zenon
<1> QED
  BY <1>1, <1>2, <1>3, RxTimerStep, TxTimerStep, TxDmaTimerStep, ResetStep,
     Zenon DEF Next

\* IInv holds in every reachable state.
THEOREM Invariance == Spec => []IInv
<1>1. Init => IInv
  BY InitIInv
<1>2. IInv /\ [Next]_vars => IInv'
  BY NextIInv
<1> QED
  BY <1>1, <1>2, PTL DEF Spec

\* Every register of the UART keeps its width (TypeOK).
THEOREM TypeCorrect == Spec => []TypeOK
<1>1. IInv => TypeOK
  BY Zenon DEF IInv, TypeOK, TxTypes, RxTypes, CfgTypes, EnvTypes, SRType, LineType
<1> QED
  BY <1>1, Invariance, PTL

\* The interrupt line shows the flags after every handler (IrqFollowsFlags).
THEOREM IrqCorrect == Spec => []IrqFollowsFlags
<1>1. IInv => IrqFollowsFlags
  BY Zenon DEF IInv, IrqFollowsFlags, Live, LineShows
<1> QED
  BY <1>1, Invariance, PTL

\* The transmitter drops, repeats and reorders nothing (TxInOrder).
THEOREM TxCorrect == Spec => []TxInOrder
<1>1. IInv => TxInOrder
  BY Zenon DEF IInv, TxInOrder, Live, TxState
<1> QED
  BY <1>1, Invariance, PTL

\* The receiver hands out each character at most once and in order (RxInOrder).
THEOREM RxCorrect == Spec => []RxInOrder
<1>1. IInv => RxInOrder
  BY Zenon DEF IInv, RxInOrder, Live, RxState
<1> QED
  BY <1>1, Invariance, PTL

\* The cached baud rate follows the clock and the divisor (BaudFollowsClock).
THEOREM BaudCorrect == Spec => []BaudFollowsClock
<1>1. IInv => BaudFollowsClock
  BY Zenon DEF IInv, BaudFollowsClock, Live, Baud
<1> QED
  BY <1>1, Invariance, PTL
-----------------------------------------------------------------------------
Serving == {"wait", "receive", "ready", "send"}
Configured == {"cr1", "brr", "enable"} \cup Serving

\* The device as this program keeps it: no DMA, no remap, the transmitter
\* idle between two steps.
Device ==
  /\ DemoSetup
  /\ ~abort /\ CR3 = {} /\ remap = 0 /\ ~tx_timer
  /\ SR \in [TXE: {1}, TC: {1}, RXNE: Bit, ORE: {0}]
  /\ CR1 \in CR1Type /\ RDR \in Byte /\ clk \in Freqs
  /\ pin \in [Pins -> {"input", "output", "alternate"}]

Histories ==
  /\ acc \in Seq(Byte) /\ got \in Seq(Nat) /\ out \in Seq(Byte)
  /\ sock \in Seq(Byte) /\ reply \in Seq(Byte)
  /\ boot \in [out: Nat, acc: Nat, got: Nat]
  /\ boot.out <= Len(out) /\ boot.acc <= Len(acc) /\ boot.got <= Len(got)

\* How far the program is, and what it may rely on there
Program ==
  /\ pc \in {"clock", "pin"} \cup Configured
  /\ pc = "clock" => BRR = 0
  /\ pc \in Configured => pin[TxPin[Periph][1]] = "alternate"
  /\ pc \in Serving => CR1.UE = 1 /\ CR1.TE = 1 /\ CR1.RE = 1
  /\ pc \notin Serving => CR1.UE = 0 /\ SR.RXNE = 0
  /\ pc = "receive" => SR.RXNE = 1
  /\ pc \in {"ready", "send"} <=> reply # << >>
  /\ loop = "poll" /\ SR.RXNE = 1 => max_size = 0

\* RDR holds the last character, and only what was stored has been read.
Buffer ==
  /\ SR.RXNE = 1 => acc # << >> /\ RDR = acc[Len(acc)]
  /\ \A i \in 1..Len(got) : got[i] \in 1..Len(acc)

\* What the program has sent since it started at position b of o, and has
\* still to send
Sent(o, b, r) == SubSeq(o, b + 1, Len(o)) \o r

\* s are the answers to the characters of a read at positions g after b.
Answers(s, a, g, b) ==
  /\ Len(s) = 7 * (Len(g) - b)
  /\ \A i \in 1..(Len(g) - b) : \A j \in 1..7 :
       s[7 * (i - 1) + j] = Reply(a[g[b + i]])[j]

Echo == Answers(Sent(out, boot.out, reply), acc, got, boot.got)

EInv == Device /\ Histories /\ Program /\ Buffer /\ NothingLost /\ Echo
-----------------------------------------------------------------------------
(***************************************************************************)
(* What is sent and what is answered.                                       *)
(***************************************************************************)
\* An answer is seven characters of seven or eight bits.
LEMMA ReplyFacts ==
  ASSUME NEW x \in Byte PROVE Reply(x) \in Seq(Byte) /\ Len(Reply(x)) = 7
BY DEF Reply, Byte

\* What is sent is a sequence of characters.
LEMMA SentType ==
  ASSUME NEW o \in Seq(Byte), NEW b \in 0..Len(o), NEW r \in Seq(Byte)
  PROVE  /\ Sent(o, b, r) \in Seq(Byte)
         /\ Len(Sent(o, b, r)) = Len(o) - b + Len(r)
         /\ \A k \in 1..(Len(o) - b) : Sent(o, b, r)[k] = o[b + k]
         /\ \A k \in 1..Len(r) : Sent(o, b, r)[Len(o) - b + k] = r[k]
<1> DEFINE c == SubSeq(o, b + 1, Len(o))
<1>1. Len(o) \in Nat /\ b \in Nat OBVIOUS
<1>2. /\ c \in Seq(Byte) /\ Len(c) = Len(o) - b
      /\ \A k \in 1..(Len(o) - b) : c[k] = o[b + k]
  BY <1>1
<1> HIDE DEF c
<1>0. c \in Seq(Byte) BY <1>2
<1>3. c \o r \in Seq(Byte) /\ Len(c \o r) = Len(c) + Len(r) BY <1>0
<1>4. \A k \in 1..Len(c) : (c \o r)[k] = c[k] BY <1>2
<1>5. \A k \in 1..Len(r) : (c \o r)[Len(c) + k] = r[k] BY <1>2, SMTT(60)
<1>6. Sent(o, b, r) = c \o r BY DEF Sent, c
<1> DEFINE d == c \o r
<1> HIDE DEF d
<1>7. d \in Seq(Byte) /\ Len(d) = Len(o) - b + Len(r) BY <1>1, <1>2, <1>3 DEF d
<1>8. \A k \in 1..(Len(o) - b) : d[k] = o[b + k] BY <1>2, <1>4, Zenon DEF d
<1>9. \A k \in 1..Len(r) : d[Len(o) - b + k] = r[k] BY <1>2, <1>5 DEF d
<1> QED BY <1>6, <1>7, <1>8, <1>9, Zenon DEF d

\* Sending a character of the answer moves it and changes nothing else.
LEMMA SentSend ==
  ASSUME NEW o \in Seq(Byte), NEW b \in 0..Len(o), NEW r \in Seq(Byte), r # << >>
  PROVE  Sent(Append(o, Head(r)), b, Tail(r)) = Sent(o, b, r)
<1> DEFINE p == Append(o, Head(r))
<1>1. /\ p \in Seq(Byte) /\ Len(p) = Len(o) + 1 /\ Tail(r) \in Seq(Byte)
      /\ Len(o) \in Nat /\ Len(r) \in Nat /\ Len(r) > 0 /\ b \in 0..Len(p)
      /\ Len(Tail(r)) = Len(r) - 1 /\ b \in Nat /\ b <= Len(o)
      /\ \A k \in 1..Len(o) : p[k] = o[k]
      /\ p[Len(o) + 1] = r[1]
      /\ \A k \in 1..(Len(r) - 1) : Tail(r)[k] = r[k + 1]
  OBVIOUS
<1> DEFINE s == Sent(o, b, r)  t == Sent(p, b, Tail(r))
<1> HIDE DEF p
<1>2. /\ s \in Seq(Byte) /\ Len(s) = Len(o) - b + Len(r)
      /\ \A k \in 1..(Len(o) - b) : s[k] = o[b + k]
      /\ \A k \in 1..Len(r) : s[Len(o) - b + k] = r[k]
  BY SentType, Zenon
<1>3. /\ t \in Seq(Byte) /\ Len(t) = Len(p) - b + Len(Tail(r))
      /\ \A k \in 1..(Len(p) - b) : t[k] = p[b + k]
      /\ \A k \in 1..Len(Tail(r)) : t[Len(p) - b + k] = Tail(r)[k]
  BY <1>1, SentType, ZenonT(60)
<1> DEFINE u == Tail(r)
<1> HIDE DEF s, t, u
<1>4. Len(t) = Len(s) BY <1>1, <1>2, <1>3
<1>5. ASSUME NEW k \in 1..Len(s) PROVE t[k] = s[k]
  <2>1. CASE k <= Len(o) - b
    <3>1. /\ b + k \in 1..Len(o) /\ k \in 1..(Len(p) - b) /\ k \in 1..(Len(o) - b)
      BY <1>1, <1>2, <2>1
    <3> QED BY <1>1, <1>2, <1>3, <3>1, SMTT(60)
  <2>2. CASE k = Len(o) - b + 1
    <3>1. k \in 1..(Len(p) - b) /\ b + k = Len(o) + 1 /\ 1 \in 1..Len(r) BY <1>1, <2>2
    <3>2. t[k] = p[Len(o) + 1] BY <1>3, <3>1
    <3>3. s[Len(o) - b + 1] = r[1] BY <1>2, <3>1
    <3> QED BY <1>1, <2>2, <3>2, <3>3
  <2>3. CASE k > Len(o) - b + 1
    <3> DEFINE m == k - (Len(o) - b)
    <3>1. /\ m \in 2..Len(r) /\ k = Len(o) - b + m /\ k = Len(p) - b + (m - 1)
          /\ m - 1 \in 1..(Len(r) - 1) /\ m \in 1..Len(r)
      BY <1>1, <1>2, <2>3
    <3> HIDE DEF m
    <3>2. s[Len(o) - b + m] = r[m] BY <1>2, <3>1
    <3>3. t[Len(p) - b + (m - 1)] = Tail(r)[m - 1] BY <1>1, <1>3, <3>1, Zenon
    <3>4. Tail(r)[m - 1] = r[m - 1 + 1] BY <1>1, <3>1
    <3>5. m - 1 + 1 = m BY <3>1
    <3> QED BY <3>1, <3>2, <3>3, <3>4, <3>5, Zenon
  <2>4. Len(o) \in Nat /\ b \in Nat /\ k \in Nat BY <1>1, <1>2
  <2>5. k <= Len(o) - b \/ k = Len(o) - b + 1 \/ k > Len(o) - b + 1 BY <2>4
  <2> QED BY <2>1, <2>2, <2>3, <2>5, Zenon
<1>6. t = s BY <1>2, <1>3, <1>4, <1>5, SMTT(60)
<1> QED BY <1>6, Zenon DEF s, t, p

\* Reading a character adds its answer.
LEMMA AnswersRead ==
  ASSUME NEW o \in Seq(Byte), NEW b \in 0..Len(o), NEW a \in Seq(Byte), a # << >>,
         NEW g \in Seq(Nat), NEW c \in 0..Len(g),
         Answers(Sent(o, b, << >>), a, g, c)
  PROVE  Answers(Sent(o, b, Reply(a[Len(a)])), a, Append(g, Len(a)), c)
<1> DEFINE x == a[Len(a)]  r == Reply(x)  h == Append(g, Len(a))
           s == Sent(o, b, << >>)  t == Sent(o, b, r)
<1>1. /\ x \in Byte /\ h \in Seq(Nat) /\ Len(h) = Len(g) + 1
      /\ Len(g) \in Nat /\ c \in Nat /\ c <= Len(g)
      /\ Len(o) \in Nat /\ b \in Nat /\ b <= Len(o)
      /\ \A k \in 1..Len(g) : h[k] = g[k]
      /\ h[Len(g) + 1] = Len(a)
  OBVIOUS
<1> HIDE DEF x, h
<1>2. r \in Seq(Byte) /\ Len(r) = 7 BY <1>1, ReplyFacts
<1> HIDE DEF r
<1>3. /\ s \in Seq(Byte) /\ Len(s) = Len(o) - b
      /\ \A k \in 1..(Len(o) - b) : s[k] = o[b + k]
  <2>1. << >> \in Seq(Byte) /\ Len(<< >>) = 0 OBVIOUS
  <2>2. /\ s \in Seq(Byte) /\ Len(s) = Len(o) - b + Len(<< >>)
        /\ \A k \in 1..(Len(o) - b) : s[k] = o[b + k]
    BY <2>1, SentType, ZenonT(60)
  <2> HIDE DEF s
  <2>3. Len(s) = Len(o) - b BY <1>1, <2>1, <2>2
  <2> QED BY <2>2, <2>3
<1>4. /\ t \in Seq(Byte) /\ Len(t) = Len(o) - b + 7
      /\ \A k \in 1..(Len(o) - b) : t[k] = o[b + k]
      /\ \A k \in 1..7 : t[Len(o) - b + k] = r[k]
  <2>1. /\ t \in Seq(Byte) /\ Len(t) = Len(o) - b + Len(r)
        /\ \A k \in 1..(Len(o) - b) : t[k] = o[b + k]
        /\ \A k \in 1..Len(r) : t[Len(o) - b + k] = r[k]
    BY <1>2, SentType, ZenonT(60)
  <2> QED BY <1>2, <2>1, Zenon
<1> HIDE DEF s, t
<1>5. /\ Len(s) = 7 * (Len(g) - c)
      /\ \A i \in 1..(Len(g) - c) : \A j \in 1..7 :
           s[7 * (i - 1) + j] = Reply(a[g[c + i]])[j]
  BY Zenon DEF Answers, s
<1> DEFINE n == Len(g) - c  m == Len(o) - b
<1>0. n \in Nat /\ m \in Nat /\ m = 7 * n /\ Len(h) - c = n + 1 /\ Len(t) = m + 7
  <2>1. Len(s) = 7 * (Len(g) - c) BY <1>5, Zenon
  <2>2. Len(s) = Len(o) - b /\ Len(t) = Len(o) - b + 7 BY <1>3, <1>4, Zenon
  <2>3. /\ Len(g) \in Nat /\ Len(o) \in Nat /\ b \in Nat /\ c \in Nat /\ c <= Len(g)
        /\ b <= Len(o) /\ Len(h) = Len(g) + 1
    BY <1>1, Zenon
  <2> QED BY <2>1, <2>2, <2>3
<1>6. Len(t) = 7 * (Len(h) - c)
  <2> HIDE DEF n, m
  <2>1. 7 * (Len(h) - c) = 7 * (n + 1) /\ Len(t) = m + 7 BY <1>0, Zenon
  <2>2. m + 7 = 7 * (n + 1) BY <1>0, SMTT(60)
  <2> QED BY <2>1, <2>2, Zenon
<1>7. ASSUME NEW i \in 1..(Len(h) - c), NEW j \in 1..7
      PROVE  t[7 * (i - 1) + j] = Reply(a[h[c + i]])[j]
  <2>1. CASE i = Len(g) - c + 1
    <3>1. c + i = Len(g) + 1 /\ 7 * (i - 1) + j = Len(o) - b + j BY <1>1, <1>3, <1>5, <2>1, SMTT(60)
    <3>2. t[Len(o) - b + j] = r[j] BY <1>4, Zenon
    <3>3. a[h[c + i]] = x BY <1>1, <3>1, Zenon DEF x
    <3> QED BY <3>1, <3>2, <3>3, ZenonT(60) DEF r
  <2>2. CASE i # Len(g) - c + 1
    <3>1. i \in 1..n
      <4> HIDE DEF n
      <4>1. i \in 1..(n + 1) BY <1>0
      <4>2. i # n + 1 BY <2>2 DEF n
      <4> QED BY <1>0, <4>1, <4>2
    <3>2. 7 * (i - 1) + j \in 1..m
      <4> HIDE DEF n, m
      <4> QED BY <1>0, <3>1
    <3>6. c + i \in 1..Len(g) 
      <4>1. Len(g) \in Nat /\ c \in Nat BY <1>1, ZenonT(60)
      <4> QED BY <3>1, <4>1
    <3>3. t[7 * (i - 1) + j] = s[7 * (i - 1) + j] BY <1>3, <1>4, <3>2, Zenon
    <3>4. h[c + i] = g[c + i] BY <1>1, <3>6, Zenon
    <3>5. s[7 * (i - 1) + j] = Reply(a[g[c + i]])[j] BY <1>5, <3>1, Zenon
    <3> QED BY <3>3, <3>4, <3>5, Zenon
  <2> QED BY <2>1, <2>2
<1>8. Answers(t, a, h, c) BY <1>6, <1>7, Zenon DEF Answers
<1> QED BY <1>8, Zenon DEF t, h, r, x

\* A character that arrives does not change what was read before.
LEMMA AnswersStore ==
  ASSUME NEW s, NEW a \in Seq(Byte), NEW x \in Byte, NEW g \in Seq(Nat), NEW c \in 0..Len(g),
         \A i \in 1..Len(g) : g[i] \in 1..Len(a), Answers(s, a, g, c)
  PROVE  Answers(s, Append(a, x), g, c)
<1>1. ASSUME NEW i \in 1..(Len(g) - c) PROVE Append(a, x)[g[c + i]] = a[g[c + i]]
  <2>1. c + i \in 1..Len(g) OBVIOUS
  <2>2. g[c + i] \in 1..Len(a) BY <2>1
  <2> QED BY <2>2
<1> QED BY <1>1, ZenonT(60) DEF Answers

\* At a restart nothing is sent and nothing read.
LEMMA AnswersNone ==
  ASSUME NEW o \in Seq(Byte), NEW a, NEW g \in Seq(Nat)
  PROVE  Answers(Sent(o, Len(o), << >>), a, g, Len(g))
<1>1. << >> \in Seq(Byte) /\ Len(<< >>) = 0 /\ Len(o) \in 0..Len(o) /\ Len(o) \in Nat
      /\ Len(g) \in Nat
  OBVIOUS
<1>2. Len(Sent(o, Len(o), << >>)) = Len(o) - Len(o) + Len(<< >>) BY <1>1, SentType, Zenon
<1> QED BY <1>1, <1>2 DEF Answers
-----------------------------------------------------------------------------
(***************************************************************************)
(* The steps.                                                               *)
(***************************************************************************)
\* A step that moves no character between the socket and the program
LEMMA DataKept ==
  ASSUME EInv, UNCHANGED <<SR, RDR, acc, got, out, reply, boot>>, sock' \in Seq(Byte)
  PROVE  Histories' /\ Buffer' /\ NothingLost' /\ Echo'
BY Zenon DEF EInv, Histories, Buffer, NothingLost, Echo, Answers, Sent

\* The main loop and the peer while the device is not called
LEMMA LoopStep ==
  ASSUME EInv, UNCHANGED <<vars, guestVars>>, sock' \in Seq(Byte),
         loop' = "poll" => (loop = "poll" /\ max_size' = max_size) \/ max_size' = 0
                           \/ max_size' = stm32_uart_can_receive
  PROVE  EInv'
<1> USE DEF EInv
<1>1. UNCHANGED <<SR, RDR, acc, got, out, reply, boot>>
  BY Zenon DEF vars, guestVars, rxVars, txVars
<1>2. Histories' /\ Buffer' /\ NothingLost' /\ Echo' BY <1>1, DataKept, Zenon
<1>3. Device' BY Zenon DEF Device, vars, cfgVars, rxVars, txVars, envVars
<1>4. ASSUME loop' = "poll", SR'.RXNE = 1 PROVE max_size' = 0
  <2>1. SR.RXNE = 1 BY <1>1, <1>4, Zenon
  <2>2. CR1.UE = 1 /\ CR1.RE = 1 BY <2>1 DEF Program
  <2>3. ~EnableOverrun BY DEF EInv, Device, DemoSetup
  <2>4. stm32_uart_can_receive = 0 BY <2>1, <2>2, <2>3, Zenon DEF stm32_uart_can_receive
  <2> QED BY <1>4, <2>1, <2>4, Zenon DEF Program
<1>5. Program'
  <2>1. UNCHANGED <<pc, BRR, pin, CR1>> BY Zenon DEF vars, guestVars, cfgVars, envVars
  <2> QED BY <1>1, <1>4, <2>1, Zenon DEF Program
<1> QED BY <1>2, <1>3, <1>5, Zenon

\* tcp_chr_read: the answer the loop got before the wait still holds, so RDR is
\* empty or the receiver off.
LEMMA ReadStep == ASSUME EInv, tcp_chr_read, UNCHANGED guestVars PROVE EInv'
<1> USE DEF EInv
<1> DEFINE byte == Head(sock)
<1>1. /\ loop = "poll" /\ max_size > 0 /\ byte \in Byte /\ sock' \in Seq(Byte)
      /\ loop' = "timers" /\ UNCHANGED <<pc, reply, boot>>
  BY DEF tcp_chr_read, Histories, guestVars
<1>2. stm32_uart_receive(byte) BY SMTT(60) DEF tcp_chr_read
<1> HIDE DEF byte
<1>3. SR.RXNE = 0
  <2>1. SR.RXNE \in Bit BY DEF Device
  <2>2. max_size # 0 BY <1>1
  <2> QED BY <1>1, <2>1, <2>2 DEF Program, Bit
<1>4. /\ SR' = IF CR1.UE = 1 /\ CR1.RE = 1 THEN [SR EXCEPT !.RXNE = 1] ELSE SR
      /\ RDR' = IF CR1.UE = 1 /\ CR1.RE = 1 THEN byte ELSE RDR
      /\ acc' = IF CR1.UE = 1 /\ CR1.RE = 1 THEN Append(acc, byte) ELSE acc
      /\ UNCHANGED <<abort, got, out, tx_timer, CR3, remap, CR1, clk, pin, BRR>>
  BY <1>2, <1>3 DEF stm32_uart_receive, StartRxTimer, cfgVars, envVars, txVars, Device
<1>5. CASE ~(CR1.UE = 1 /\ CR1.RE = 1)
  <2>1. UNCHANGED <<SR, RDR, acc>> BY <1>4, <1>5, Zenon
  <2>2. Histories' /\ Buffer' /\ NothingLost' /\ Echo' BY <1>1, <1>4, <2>1, DataKept, Zenon
  <2>3. Device' BY <1>4, <2>1, Zenon DEF Device
  <2>4. loop' # "poll" BY <1>1
  <2>5. Program' BY <1>1, <1>4, <2>1, <2>4, Zenon DEF Program
  <2> QED BY <2>2, <2>3, <2>5, Zenon
<1>6. CASE CR1.UE = 1 /\ CR1.RE = 1
  <2>1. /\ SR' = [SR EXCEPT !.RXNE = 1] /\ RDR' = byte /\ acc' = Append(acc, byte)
    BY <1>4, <1>6, Zenon
  <2>2. /\ SR' \in [TXE: {1}, TC: {1}, RXNE: Bit, ORE: {0}] /\ SR'.RXNE = 1
    BY <2>1 DEF Device, Bit
  <2>3. Device' BY <1>1, <1>4, <2>1, <2>2, Zenon DEF Device
  <2>4. pc \in Serving BY <1>6 DEF Program
  <2>5. Program'
    <3>1. loop' # "poll" BY <1>1
    <3>2. pc' \in Serving BY <1>1, <2>4, Zenon
    <3> QED BY <1>1, <1>4, <2>2, <3>1, <3>2, Zenon DEF Program
  <2>6. /\ acc \in Seq(Byte) /\ got \in Seq(Nat) /\ out \in Seq(Byte)
        /\ boot \in [out: Nat, acc: Nat, got: Nat]
        /\ boot.acc <= Len(acc) /\ boot.got <= Len(got)
    BY Zenon DEF Histories
  <2>7. acc' \in Seq(Byte) /\ Len(acc') = Len(acc) + 1 /\ acc'[Len(acc')] = byte /\ acc' # << >>
    BY <1>1, <2>1, <2>6
  <2>8. Histories'
    <3>1. boot.acc <= Len(acc') BY <2>6, <2>7
    <3> QED BY <1>1, <1>4, <2>7, <3>1, Zenon DEF Histories
  <2>9. Buffer'
    <3>1. \A i \in 1..Len(got) : got[i] \in 1..Len(acc')
      <4>1. \A k \in 1..Len(acc) : k \in 1..Len(acc') BY <2>6, <2>7
      <4> QED BY <4>1, Zenon DEF Buffer
    <3> QED BY <1>4, <2>1, <2>7, <3>1, Zenon DEF Buffer
  <2>10. NothingLost'
    <3>1. Len(acc) - boot.acc = Len(got) - boot.got + 0 BY <1>3, Zenon DEF NothingLost
    <3>2. Len(acc') - boot.acc = Len(got) - boot.got + 1 BY <2>6, <2>7, <3>1
    <3> QED BY <1>1, <1>4, <2>2, <3>2, Zenon DEF NothingLost
  <2>11. Echo'
    <3>1. boot.got \in 0..Len(got) BY <2>6
    <3>2. \A i \in 1..Len(got) : got[i] \in 1..Len(acc) BY Zenon DEF Buffer
    <3>3. Answers(Sent(out, boot.out, reply), Append(acc, byte), got, boot.got)
      BY <1>1, <2>6, <3>1, <3>2, AnswersStore, Zenon DEF Echo
    <3> QED BY <1>1, <1>4, <2>1, <3>3, Zenon DEF Echo
  <2> QED BY <2>3, <2>5, <2>8, <2>9, <2>10, <2>11, Zenon
<1> QED BY <1>5, <1>6, Zenon

\* The main loop runs rx_timer only: the other two are never armed in this
\* build.
LEMMA TimerStep == ASSUME EInv, RunTimer, UNCHANGED guestVars PROVE EInv'
<1> USE DEF EInv
<1>0. ~stm32_uart_tx_dma_timer_expire
  <2>1. "DMAT" \notin CR3 BY DEF Device
  <2> QED BY <2>1, Zenon DEF stm32_uart_tx_dma_timer_expire
<1>1. stm32_uart_rx_timer_expire
  BY <1>0, Zenon DEF RunTimer, Device, stm32_uart_tx_timer_expire
<1>2. /\ UNCHANGED <<SR, RDR, acc, got, out, reply, boot, sock, loop, max_size, pc>>
      /\ UNCHANGED <<abort, tx_timer, CR3, remap, CR1, clk, pin, BRR>>
  BY <1>1, Zenon DEF RunTimer, stm32_uart_rx_timer_expire, guestVars, linkVars, txVars,
        cfgVars, envVars
<1>3. Histories' /\ Buffer' /\ NothingLost' /\ Echo'
  <2>1. sock' \in Seq(Byte) BY <1>2, Zenon DEF Histories
  <2> QED BY <1>2, <2>1, DataKept, Zenon
<1>4. Device' BY <1>2, Zenon DEF Device
<1>5. Program' BY <1>2, Zenon DEF Program
<1> QED BY <1>3, <1>4, <1>5, Zenon

\* A step of the main loop or of the peer
LEMMA OutsideStep == ASSUME EInv, MainLoop \/ Peer, UNCHANGED guestVars PROVE EInv'
<1>1. CASE tcp_chr_read BY <1>1, ReadStep, Zenon
<1>2. CASE RunTimer BY <1>2, TimerStep, Zenon
<1>3. sock \in Seq(Byte) /\ << >> \in Seq(Byte) BY DEF EInv, Histories
<1>4. CASE Prepare
  <2>1. /\ UNCHANGED <<vars, sock>>
        /\ max_size' = 0 \/ max_size' = stm32_uart_can_receive
    BY <1>4, Zenon DEF Prepare
  <2> QED BY <1>3, <2>1, LoopStep, Zenon
<1>5. CASE tcp_chr_disconnect \/ tcp_chr_accept \/ Timeout \/ OtherWakeup \/ EndIteration
  <2>1. /\ UNCHANGED vars /\ sock' \in {sock, << >>} /\ loop' # "poll"
    BY <1>5, Zenon DEF tcp_chr_disconnect, tcp_chr_accept, Timeout, OtherWakeup, EndIteration
  <2> QED BY <1>3, <2>1, LoopStep, Zenon
<1>6. CASE PeerClose
  <2>1. UNCHANGED <<vars, sock, loop, max_size>> BY <1>6, Zenon DEF PeerClose
  <2> QED BY <1>3, <2>1, LoopStep, Zenon
<1>7. ASSUME NEW b \in RxBytes, PeerSend(b) PROVE EInv'
  <2>1. UNCHANGED <<vars, loop, max_size>> /\ sock' = Append(sock, b)
    BY <1>7, Zenon DEF PeerSend
  <2>2. sock' \in Seq(Byte) BY <1>3, <2>1, UartAssumption
  <2> QED BY <2>1, <2>2, LoopStep, Zenon
<1> QED BY <1>1, <1>2, <1>4, <1>5, <1>6, <1>7, Zenon DEF MainLoop, Peer

\* init_rs232: the receiver comes up last, with the pin and the rate set.
LEMMA InitStep ==
  ASSUME EInv, loop = "poll", init_rs232, UNCHANGED linkVars PROVE EInv'
<1> USE DEF EInv
<1>1. UNCHANGED <<SR, RDR, acc, got, out, reply, boot, sock, loop, max_size, CR3, remap,
                  tx_timer>>
  BY Zenon DEF init_rs232, stm32_uart_clk_irq_handler, ConfigurePin, WriteCR1, WriteBRR,
        linkVars, rxVars, txVars, cfgVars, envVars
<1>2. sock' \in Seq(Byte) BY <1>1, Zenon DEF Histories
<1>3. Histories' /\ Buffer' /\ NothingLost' /\ Echo' BY <1>1, <1>2, DataKept, Zenon
<1>4. CASE Goto("clock", "pin") /\ \E f \in Freqs \ {0} : stm32_uart_clk_irq_handler(f)
  <2>1. PICK f \in Freqs \ {0} : stm32_uart_clk_irq_handler(f) BY <1>4
  <2>2. pc = "clock" /\ pc' = "pin" BY <1>4 DEF Goto
  <2>3. UNCHANGED <<CR1, pin>> /\ clk' = f /\ abort' = (BRR # 0 /\ f # 0 /\ bits_per_sec' = 0)
    BY <2>1, Zenon DEF stm32_uart_clk_irq_handler, stm32_uart_baud_update
  <2>4. BRR = 0 BY <2>2, Zenon DEF Program
  <2>5. abort' = FALSE BY <2>3, <2>4, Zenon
  <2>6. Device' BY <1>1, <2>1, <2>3, <2>5, ZenonT(60) DEF Device
  <2>7. Program' BY <1>1, <2>2, <2>3 DEF Program, Configured, Serving
  <2> QED BY <1>3, <2>6, <2>7, Zenon
<1>5. CASE Goto("pin", "cr1") /\ ConfigurePin(TxPin[Periph][1], "alternate")
  <2>1. pc = "pin" /\ pc' = "cr1" BY <1>5 DEF Goto
  <2>2. /\ pin' = [pin EXCEPT ![TxPin[Periph][1]] = "alternate"]
        /\ UNCHANGED <<CR1, clk, abort, BRR>>
    BY <1>5, ZenonT(60) DEF ConfigurePin, cfgVars
  <2>3. TxPin[Periph][1] \in Pins BY UartAssumption, SMTT(60) DEF TxPin, Pins
  <2>4. /\ pin' \in [Pins -> {"input", "output", "alternate"}]
        /\ pin'[TxPin[Periph][1]] = "alternate"
    BY <2>2, <2>3 DEF Device
  <2>5. Device' BY <1>1, <2>2, <2>4, ZenonT(60) DEF Device
  <2>6. Program' BY <1>1, <2>1, <2>2, <2>4, Zenon DEF Program, Configured, Serving
  <2> QED BY <1>3, <2>5, <2>6, Zenon
<1>6. CASE Goto("cr1", "brr") /\ WriteCR1(CR1With(CR1.UE))
  <2>1. pc = "cr1" /\ pc' = "brr" BY <1>6 DEF Goto
  <2>2. /\ CR1' = CR1With(CR1.UE) /\ abort' = (CR1With(CR1.UE).UE = 1 /\ remap # BoardMap)
        /\ UNCHANGED <<clk, pin, BRR>>
    BY <1>6, ZenonT(60) DEF WriteCR1, envVars
  <2>3. CR1.UE = 0 /\ CR1 \in CR1Type BY <2>1 DEF Program, Device, Serving
  <2>4. CR1' \in CR1Type /\ CR1'.UE = 0 /\ abort' = FALSE
    <3>1. CR1With(CR1.UE) \in CR1Type /\ CR1With(CR1.UE).UE = 0
      BY <2>3 DEF CR1With, CR1Type, Bit
    <3>2. CR1' \in CR1Type /\ CR1'.UE = 0 BY <2>2, <3>1, Zenon
    <3>3. CR1With(CR1.UE).UE # 1 BY <3>1
    <3>4. abort' = FALSE BY <2>2, <3>3, Zenon
    <3> QED BY <3>2, <3>4, Zenon
  <2>5. Device' BY <1>1, <2>2, <2>4, ZenonT(60) DEF Device
  <2>6. Program' BY <1>1, <2>1, <2>2, <2>4, Zenon DEF Program, Configured, Serving
  <2> QED BY <1>3, <2>5, <2>6, Zenon
<1>7. CASE Goto("brr", "enable") /\ \E v \in BRRValues : WriteBRR(v)
  <2>1. PICK v \in BRRValues : WriteBRR(v) BY <1>7
  <2>2. pc = "brr" /\ pc' = "enable" BY <1>7 DEF Goto
  <2>3. /\ bits_per_sec' = IF v = 0 \/ clk = 0 THEN 0 ELSE clk \div v
        /\ abort' = (v # 0 /\ clk # 0 /\ bits_per_sec' = 0)
        /\ UNCHANGED <<CR1, clk, pin>>
    BY <2>1, Zenon DEF WriteBRR, stm32_uart_baud_update, envVars
  <2>4. abort' = FALSE
    <3>1. v \in Nat /\ clk \in Nat BY UartAssumption DEF Divisor, Device
    <3>2. clk # 0 => v <= clk BY DEF EInv, Device, DemoSetup
    <3>3. v # 0 /\ clk # 0 => clk \div v # 0 BY <3>1, <3>2
    <3> QED BY <2>3, <3>3, Zenon
  <2>5. Device' BY <1>1, <2>3, <2>4, ZenonT(60) DEF Device
  <2>6. Program' BY <1>1, <2>2, <2>3 DEF Program, Configured, Serving
  <2> QED BY <1>3, <2>5, <2>6, Zenon
<1>8. CASE Goto("enable", "wait") /\ WriteCR1(CR1With(1))
  <2>1. pc = "enable" /\ pc' = "wait" BY <1>8 DEF Goto
  <2>2. /\ CR1' = CR1With(1) /\ abort' = (CR1With(1).UE = 1 /\ remap # BoardMap)
        /\ UNCHANGED <<clk, pin, BRR>>
    BY <1>8, Zenon DEF WriteCR1, envVars
  <2>3. remap = 0 /\ BoardMap = 0 /\ CR1 \in CR1Type BY Zenon DEF EInv, Device, DemoSetup
  <2>4. /\ CR1' \in CR1Type /\ CR1'.UE = 1 /\ CR1'.TE = 1 /\ CR1'.RE = 1
        /\ abort' = FALSE
    BY <2>2, <2>3, Zenon DEF CR1With, CR1Type, Bit
  <2>5. Device' BY <1>1, <2>2, <2>4, ZenonT(60) DEF Device
  <2>6. Program' BY <1>1, <2>1, <2>2, <2>4 DEF Program, Configured, Serving
  <2> QED BY <1>3, <2>5, <2>6, Zenon
<1> QED BY <1>4, <1>5, <1>6, <1>7, <1>8, Zenon DEF init_rs232

\* Reading USART_SR changes nothing here; the flag it saw stays set until the
\* program acts on it.
LEMMA WaitStep ==
  ASSUME EInv, WaitRXNE \/ WaitTXE, UNCHANGED linkVars PROVE EInv'
<1> USE DEF EInv
<1>1. /\ UNCHANGED <<SR, RDR, acc, got, out, reply, boot, sock, loop, max_size>>
      /\ UNCHANGED <<abort, tx_timer, CR3, remap, CR1, clk, pin, BRR>>
  BY Zenon DEF WaitRXNE, WaitTXE, USART_GetFlagStatus, ReadSR, linkVars, txVars, cfgVars,
        envVars
<1>2. Histories' /\ Buffer' /\ NothingLost' /\ Echo'
  <2>1. sock' \in Seq(Byte) BY <1>1, Zenon DEF Histories
  <2> QED BY <1>1, <2>1, DataKept, Zenon
<1>3. Device' BY <1>1, Zenon DEF Device
<1>4. CASE WaitRXNE
  <2>1. pc = "wait" /\ pc' = IF SR.RXNE = 1 THEN "receive" ELSE "wait"
    BY <1>4, ZenonT(60) DEF WaitRXNE
  <2>2. Program' BY <1>1, <2>1 DEF Program, Configured, Serving
  <2> QED BY <1>2, <1>3, <2>2, Zenon
<1>5. CASE WaitTXE
  <2>1. pc = "ready" /\ pc' \in {"send", "ready"} BY <1>5, ZenonT(60) DEF WaitTXE
  <2>2. Program' BY <1>1, <2>1 DEF Program, Configured, Serving
  <2> QED BY <1>2, <1>3, <2>2, Zenon
<1> QED BY <1>4, <1>5

\* The read returns the character that raised RXNE, and the answer to it joins
\* what is to be sent.
LEMMA ReceiveDataStep ==
  ASSUME EInv, USART_ReceiveData, UNCHANGED linkVars PROVE EInv'
<1> USE DEF EInv
<1>1. /\ pc = "receive" /\ pc' = "ready" /\ reply' = Reply(RDR)
      /\ UNCHANGED <<boot, sock, loop, max_size>>
      /\ UNCHANGED <<RDR, acc, out, tx_timer, CR3, remap, CR1, clk, pin, BRR>>
  BY ZenonT(60) DEF USART_ReceiveData, Goto, ReadDR, stm32_uart_USART_DR_read, rxVars, txVars,
        cfgVars, envVars, linkVars
<1>2. /\ SR.RXNE = 1 /\ CR1.UE = 1 /\ CR1.RE = 1 /\ reply = << >>
      /\ pin[TxPin[Periph][1]] = "alternate" /\ CR1.TE = 1
      /\ SR \in [TXE: {1}, TC: {1}, RXNE: Bit, ORE: {0}]
      /\ RDR \in Byte /\ acc # << >> /\ RDR = acc[Len(acc)]
  BY <1>1 DEF Program, Buffer, Device, Serving, Configured
<1>3. /\ abort' = FALSE /\ got' = Append(got, Len(acc))
      /\ SR' = [SR EXCEPT !.RXNE = 0,
                          !.ORE = IF sr_read_since_ore_set' THEN 0 ELSE @]
  BY <1>1, <1>2, Zenon DEF USART_ReceiveData, ReadDR, stm32_uart_USART_DR_read
<1>4. SR' \in [TXE: {1}, TC: {1}, RXNE: Bit, ORE: {0}] /\ SR'.RXNE = 0
  BY <1>2, <1>3, Zenon DEF Bit
<1>5. Device' BY <1>1, <1>3, <1>4, Zenon DEF Device
<1>6. reply' \in Seq(Byte) /\ Len(reply') = 7 /\ reply' # << >>
  <2>1. Reply(RDR) \in Seq(Byte) /\ Len(Reply(RDR)) = 7 BY <1>2, ReplyFacts, Zenon
  <2>2. Len(<< >>) # 7 BY SMTT(60)
  <2> QED BY <1>1, <2>1, <2>2, Zenon
<1>7. Program' BY <1>1, <1>2, <1>4, <1>6, Zenon DEF Program, Configured, Serving
<1>8. /\ acc \in Seq(Byte) /\ got \in Seq(Nat) /\ out \in Seq(Byte)
      /\ boot \in [out: Nat, acc: Nat, got: Nat]
      /\ boot.acc <= Len(acc) /\ boot.got <= Len(got) /\ boot.out <= Len(out)
  BY Zenon DEF Histories
<1>9. /\ got' \in Seq(Nat) /\ Len(got') = Len(got) + 1 /\ got'[Len(got) + 1] = Len(acc)
      /\ \A i \in 1..Len(got) : got'[i] = got[i]
      /\ boot.got <= Len(got')
  BY <1>3, <1>8
<1>10. Histories' BY <1>1, <1>6, <1>9, Zenon DEF Histories
<1>11. Buffer'
  <2>1. ASSUME NEW i \in 1..Len(got') PROVE got'[i] \in 1..Len(acc)
    <3>1. CASE i = Len(got) + 1 BY <1>2, <1>8, <1>9, <3>1, SMTT(60)
    <3>2. CASE i # Len(got) + 1
      <4>1. i \in 1..Len(got) BY <1>8, <1>9, <3>2
      <4> QED BY <1>9, <4>1, Zenon DEF Buffer
    <3> QED BY <3>1, <3>2, SMTT(60)
  <2>2. SR'.RXNE # 1 BY <1>4
  <2> QED BY <1>1, <2>1, <2>2, Zenon DEF Buffer
<1>12. NothingLost'
  <2>1. Len(acc) - boot.acc = Len(got) - boot.got + 1 BY <1>2, Zenon DEF NothingLost
  <2>2. Len(acc) - boot.acc = Len(got') - boot.got + 0 BY <1>8, <1>9, <2>1
  <2> QED BY <1>1, <1>4, <2>2, Zenon DEF NothingLost
<1>13. Echo'
  <2>1. boot.out \in 0..Len(out) /\ boot.got \in 0..Len(got) BY <1>8
  <2>2. Answers(Sent(out, boot.out, << >>), acc, got, boot.got) BY <1>2, Zenon DEF Echo
  <2>3. Answers(Sent(out, boot.out, Reply(acc[Len(acc)])), acc, Append(got, Len(acc)), boot.got)
    BY <1>2, <1>8, <2>1, <2>2, AnswersRead, Zenon
  <2> QED BY <1>1, <1>2, <1>3, <2>3, Zenon DEF Echo
<1> QED BY <1>5, <1>7, <1>10, <1>11, <1>12, <1>13, Zenon

\* The write goes out at once, and what it carries is one byte of the answer.
LEMMA SendDataStep ==
  ASSUME EInv, USART_SendData, UNCHANGED linkVars PROVE EInv'
<1> USE DEF EInv
<1>1. /\ pc = "send" /\ pc' = (IF Len(reply) = 1 THEN "wait" ELSE "ready")
      /\ reply' = Tail(reply) /\ WriteDR(Head(reply))
      /\ UNCHANGED <<boot, sock, loop, max_size>>
      /\ UNCHANGED <<RDR, acc, CR3, remap, CR1, clk, pin, BRR>>
  BY ZenonT(60) DEF USART_SendData, WriteDR, rxVars, cfgVars, envVars, linkVars
<1>2. /\ CR1.UE = 1 /\ CR1.RE = 1 /\ CR1.TE = 1 /\ reply # << >>
      /\ pin[TxPin[Periph][1]] = "alternate"
      /\ SR \in [TXE: {1}, TC: {1}, RXNE: Bit, ORE: {0}]
      /\ SR.TXE = 1 /\ SR.TC = 1 /\ abort = FALSE
  BY <1>1 DEF Program, Device, Serving, Configured
<1>3. TxPinReady
  <2>1. TxPin[Periph][0 + 1] # "none" /\ 0 + 1 = 1 BY UartAssumption, SMTT(60) DEF TxPin
  <2> QED BY <1>2, <2>1, ZenonT(60) DEF TxPinReady, Device
<1>4. /\ reply \in Seq(Byte) /\ out \in Seq(Byte) /\ Head(reply) \in Byte
      /\ Tail(reply) \in Seq(Byte) /\ Len(Tail(reply)) = Len(reply) - 1
      /\ Len(reply) \in Nat /\ Len(reply) > 0
  BY <1>2 DEF Histories
<1>5. DR_writeStart(SR, line, Head(reply) % 512) /\ UNCHANGED <<got, abort>>
  <2>1. stm32_uart_USART_DR_write(SR, line, Head(reply)) BY <1>1, Zenon DEF WriteDR
  <2>2. ~DR_writeError(SR, line) BY <1>2, <1>3 DEF DR_writeError
  <2>3. ~DR_writePark(SR, line, Head(reply) % 512) BY <1>2 DEF DR_writePark
  <2> QED BY <2>1, <2>2, <2>3, ZenonT(60) DEF stm32_uart_USART_DR_write
<1>6. Ch(Head(reply) % 512) = Head(reply)
  <2>1. \A h \in Byte : (h % 512) % 256 = h BY DEF Byte
  <2> QED BY <1>4, <2>1, ZenonT(60) DEF Ch
<1>7. /\ SR' = [[SR EXCEPT !.TC = 0] EXCEPT !.TC = 1] /\ tx_timer' = FALSE
      /\ out' = Append(out, Ch(Head(reply) % 512))
  BY <1>2, <1>5 DEF EInv, Device, DemoSetup, DR_writeStart, stm32_uart_start_tx, TxDone, Tx
<1>8. SR' = SR BY <1>2, <1>7, Zenon
<1>9. out' = Append(out, Head(reply)) BY <1>6, <1>7, ZenonT(60)
<1>10. Device' BY <1>1, <1>2, <1>5, <1>7, <1>8, Zenon DEF Device
<1>11. Len(reply) = 1 <=> Tail(reply) = << >>
  <2>1. \A t \in Seq(Byte) : t = << >> <=> Len(t) = 0 OBVIOUS
  <2>2. Tail(reply) = << >> <=> Len(Tail(reply)) = 0 BY <1>4, <2>1, Zenon
  <2> QED BY <1>4, <2>2
<1>12. Program' BY <1>1, <1>2, <1>8, <1>11, Zenon DEF Program, Configured, Serving
<1>13. Histories'
  <2>1. boot.out <= Len(out) /\ boot.out \in Nat BY Zenon DEF Histories
  <2>2. out' \in Seq(Byte) /\ Len(out') = Len(out) + 1 BY <1>4, <1>9
  <2>3. boot.out <= Len(out') BY <1>4, <2>1, <2>2
  <2> QED BY <1>1, <1>4, <1>5, <2>2, <2>3, Zenon DEF Histories
<1>14. Buffer' /\ NothingLost' BY <1>1, <1>5, <1>8, Zenon DEF Buffer, NothingLost
<1>15. Echo'
  <2>1. boot.out \in 0..Len(out) BY <1>4 DEF Histories
  <2>2. Sent(Append(out, Head(reply)), boot.out, Tail(reply)) = Sent(out, boot.out, reply)
    BY <1>2, <1>4, <2>1, SentSend, Zenon
  <2> QED BY <1>1, <1>5, <1>9, <2>2, Zenon DEF Echo
<1> QED BY <1>10, <1>12, <1>13, <1>14, <1>15, Zenon

\* A machine reset restarts program and histories; timers and line are left.
LEMMA EchoResetStep == ASSUME EInv, EchoReset PROVE EInv'
<1> USE DEF EInv
<1>1. /\ loop' = "prepare" /\ pc' = "clock" /\ reply' = << >>
      /\ boot' = [out |-> Len(out), acc |-> Len(acc), got |-> Len(got)]
      /\ SR' = ResetSR /\ CR1' = AllClear /\ CR3' = {} /\ BRR' = 0
      /\ clk' = 0 /\ remap' = 0 /\ pin' = [p \in Pins |-> "input"]
      /\ UNCHANGED <<sock, got, abort, RDR, acc, tx_timer, out>>
  BY Zenon DEF EchoReset, LinkReset, stm32_uart_reset, linkVars, rxVars
<1>2. /\ acc \in Seq(Byte) /\ got \in Seq(Nat) /\ out \in Seq(Byte)
      /\ Len(acc) \in Nat /\ Len(got) \in Nat /\ Len(out) \in Nat
  BY SMTT(60) DEF Histories
<1>3. /\ ResetSR \in [TXE: {1}, TC: {1}, RXNE: Bit, ORE: {0}] /\ ResetSR.RXNE = 0
      /\ AllClear \in CR1Type /\ AllClear.UE = 0
      /\ 0 \in Freqs /\ [p \in Pins |-> "input"] \in [Pins -> {"input", "output", "alternate"}]
  BY UartAssumption DEF ResetSR, AllClear, CR1Type, Bit
<1>4. Device' BY <1>1, <1>3, ZenonT(60) DEF Device
<1>5. Program' BY <1>1, <1>3, Zenon DEF Program, Configured, Serving
<1>6. /\ boot' \in [out: Nat, acc: Nat, got: Nat]
      /\ boot'.out = Len(out) /\ boot'.acc = Len(acc) /\ boot'.got = Len(got)
  BY <1>1, <1>2, ZenonT(60)
<1>7. Histories' BY <1>1, <1>2, <1>6 DEF Histories
<1>8. SR'.RXNE = 0 BY <1>1, <1>3, Zenon
<1>9. Buffer'
  <2>1. SR'.RXNE # 1 BY <1>8, SMTT(60)
  <2> QED BY <1>1, <2>1, Zenon DEF Buffer
<1>10. NothingLost' BY <1>1, <1>2, <1>6, <1>8 DEF NothingLost
<1>11. Echo'
  <2>1. Answers(Sent(out, Len(out), << >>), acc, got, Len(got)) BY <1>2, AnswersNone, Zenon
  <2> QED BY <1>1, <1>6, <2>1, Zenon DEF Echo
<1> QED BY <1>4, <1>5, <1>7, <1>9, <1>10, <1>11, Zenon

\* The program starts on a device fresh from stm32_uart_init.
LEMMA InitEInv == DemoSetup /\ EchoInit => EInv
<1> SUFFICES ASSUME DemoSetup, EchoInit PROVE EInv OBVIOUS
<1>1. /\ loop = "prepare" /\ pc = "clock" /\ reply = << >> /\ sock = << >>
      /\ boot = [out |-> 0, acc |-> 0, got |-> 0]
      /\ SR = ResetSR /\ CR1 = AllClear /\ CR3 = {} /\ BRR = 0
      /\ clk = 0 /\ remap = 0 /\ pin = [p \in Pins |-> "input"]
      /\ RDR = 0 /\ acc = << >> /\ got = << >> /\ out = << >>
      /\ abort = FALSE /\ tx_timer = FALSE
  BY ZenonT(60) DEF EchoInit, LinkInit, Init
<1>2. /\ ResetSR \in [TXE: {1}, TC: {1}, RXNE: Bit, ORE: {0}] /\ ResetSR.RXNE = 0
      /\ AllClear \in CR1Type /\ AllClear.UE = 0
      /\ 0 \in Freqs /\ [p \in Pins |-> "input"] \in [Pins -> {"input", "output", "alternate"}]
      /\ 0 \in Byte
  BY UartAssumption DEF ResetSR, AllClear, CR1Type, Bit, Byte
<1>3. Device BY <1>1, <1>2, ZenonT(60) DEF Device
<1>4. Program BY <1>1, <1>2, SMTT(60) DEF Program, Configured, Serving
<1>5. Histories BY <1>1, SMTT(60) DEF Histories
<1>6. Buffer BY <1>1, <1>2, SMTT(60) DEF Buffer
<1>7. NothingLost BY <1>1, <1>2 DEF NothingLost
<1>8. Echo
  <2>1. << >> \in Seq(Byte) /\ << >> \in Seq(Nat) /\ Len(<< >>) = 0 OBVIOUS
  <2>2. Answers(Sent(<< >>, Len(<< >>), << >>), << >>, << >>, Len(<< >>))
    BY <2>1, AnswersNone, Zenon
  <2>3. boot.out = 0 /\ boot.got = 0 BY <1>1
  <2> QED BY <1>1, <2>1, <2>2, <2>3, Zenon DEF Echo
<1> QED BY <1>3, <1>4, <1>5, <1>6, <1>7, <1>8, Zenon DEF EInv

\* No step of the program, the main loop, the peer or a reset breaks it.
LEMMA NextEInv == EInv /\ [EchoNext]_echoVars => EInv'
<1> SUFFICES ASSUME EInv, [EchoNext]_echoVars PROVE EInv' OBVIOUS
<1>1. CASE EchoGuest
  BY <1>1, InitStep, WaitStep, ReceiveDataStep, SendDataStep, Zenon DEF EchoGuest
<1>2. CASE (MainLoop \/ Peer) /\ UNCHANGED guestVars BY <1>2, OutsideStep, Zenon
<1>3. CASE EchoReset BY <1>3, EchoResetStep, Zenon
<1>4. CASE UNCHANGED echoVars
  <2>1. UNCHANGED <<vars, guestVars, loop, max_size, sock>>
    BY <1>4, Zenon DEF echoVars, allVars, linkVars
  <2>2. sock' \in Seq(Byte) BY <2>1, Zenon DEF EInv, Histories
  <2> QED BY <2>1, <2>2, LoopStep, Zenon
<1> QED BY <1>1, <1>2, <1>3, <1>4, Zenon DEF EchoNext

\* The invariant of the echo program holds in every reachable state.
LEMMA EchoInvariance == DemoSetup => (EchoSpec => []EInv)
BY InitEInv, NextEInv, PTL DEF EchoSpec

\* hw_error is never reached: a program that tests RXNE and TXE before each
\* access of USART_DR is never stopped, whatever the main loop delivers, times
\* out or loses between the test and the access.
THEOREM PollingIsSafe == DemoSetup => (EchoSpec => []PollingNeverFaults)
<1>1. EInv => PollingNeverFaults BY Zenon DEF EInv, Device, PollingNeverFaults
<1> QED BY <1>1, EchoInvariance, PTL

\* Nothing stm32_uart_receive accepted is lost or read twice, although
\* tcp_chr_read acts on an answer of stm32_uart_can_receive from before its
\* wait, during which the program runs.
THEOREM NothingIsLost == DemoSetup => (EchoSpec => []NothingLost)
<1>1. EInv => NothingLost BY Zenon DEF EInv
<1> QED BY <1>1, EchoInvariance, PTL

\* What left the UART and what the program still has to send are the answers
\* to what it read, character for character: for every input, of any length,
\* through disconnections, timers and resets.
THEOREM EchoIsExact == DemoSetup => (EchoSpec => []EchoExact)
<1>1. EInv => EchoExact BY Zenon DEF EInv, Echo, Answers, Sent, EchoExact
<1> QED BY <1>1, EchoInvariance, PTL
-----------------------------------------------------------------------------
(***************************************************************************)
(* What the answer to every character rests on besides fairness.            *)
(***************************************************************************)
\* A wait in poll() that leaves out the socket of a connected peer has a
\* deadline.
NeverDeaf == loop = "poll" /\ conn # "none" /\ max_size = 0 => rx_timer

\* rx_timer is armed with the first character and re-arms itself ever after.
Woken == (acc # << >> \/ receiving => rx_timer) /\ NeverDeaf

\* The program neither touches the timer nor tells the main loop anything.
LEMMA WokenGuest == ASSUME Woken, EchoGuest PROVE Woken'
<1>1. UNCHANGED <<loop, conn, max_size>> BY Zenon DEF EchoGuest, linkVars
<1>2. CASE init_rs232
  <2>1. UNCHANGED <<acc, receiving, rx_timer>>
    BY <1>2, Zenon DEF init_rs232, stm32_uart_clk_irq_handler, ConfigurePin, WriteCR1, WriteBRR, rxVars
  <2> QED BY <1>1, <2>1, Zenon DEF Woken, NeverDeaf
<1>3. CASE WaitRXNE \/ WaitTXE
  <2>1. UNCHANGED <<acc, receiving, rx_timer>>
    BY <1>3, Zenon DEF WaitRXNE, WaitTXE, USART_GetFlagStatus, ReadSR
  <2> QED BY <1>1, <2>1, Zenon DEF Woken, NeverDeaf
<1>4. CASE USART_ReceiveData \/ USART_SendData
  <2>1. UNCHANGED <<acc, receiving, rx_timer>>
    BY <1>4, Zenon DEF USART_ReceiveData, USART_SendData, ReadDR, WriteDR, rxVars
  <2> QED BY <1>1, <2>1, Zenon DEF Woken, NeverDeaf
<1> QED BY <1>2, <1>3, <1>4, Zenon DEF EchoGuest

\* The main loop leaves the socket out only when stm32_uart_can_receive says 0,
\* that is, with a character in RDR.
LEMMA WokenLoop == ASSUME EInv, Woken, MainLoop \/ Peer PROVE Woken'
<1>1. CASE Prepare
  <2>1. /\ UNCHANGED <<acc, receiving, rx_timer, conn>>
        /\ max_size' = IF conn = "none" THEN 0 ELSE stm32_uart_can_receive
    BY <1>1, Zenon DEF Prepare, vars, rxVars
  <2>2. ASSUME conn # "none", max_size' = 0 PROVE rx_timer
    <3>1. stm32_uart_can_receive = 0 BY <2>1, <2>2, Zenon
    <3>2. receiving \/ SR.RXNE = 1 BY <3>1 DEF stm32_uart_can_receive
    <3> QED BY <3>2, Zenon DEF Woken, EInv, Buffer
  <2> QED BY <2>1, <2>2, Zenon DEF Woken, NeverDeaf
<1>2. CASE tcp_chr_read
  <2>1. loop' # "poll" BY <1>2 DEF tcp_chr_read
  <2>2. CR3 = {} /\ "DMAR" \notin CR3 BY DEF EInv, Device
  <2>3. rx_timer' = TRUE BY <1>2, <2>2, Zenon DEF tcp_chr_read, stm32_uart_receive, StartRxTimer
  <2> QED BY <2>1, <2>3, Zenon DEF Woken, NeverDeaf
<1>3. CASE tcp_chr_disconnect \/ tcp_chr_accept \/ Timeout \/ OtherWakeup \/ EndIteration
  <2>1. loop' # "poll"
    BY <1>3, Zenon DEF tcp_chr_disconnect, tcp_chr_accept, Timeout, OtherWakeup, EndIteration
  <2>2. UNCHANGED <<acc, receiving, rx_timer>>
    BY <1>3, Zenon DEF tcp_chr_disconnect, tcp_chr_accept, Timeout, OtherWakeup, EndIteration,
          vars, rxVars
  <2> QED BY <2>1, <2>2, Zenon DEF Woken, NeverDeaf
<1>4. CASE RunTimer
  <2>1. loop' # "poll" BY <1>4, Zenon DEF RunTimer, linkVars
  <2>2. CASE stm32_uart_rx_timer_expire
    <3>1. UNCHANGED <<acc, rx_timer>> /\ ~receiving'
      BY <2>2, Zenon DEF stm32_uart_rx_timer_expire
    <3> QED BY <2>1, <3>1, Zenon DEF Woken, NeverDeaf
  <2>3. CASE stm32_uart_tx_timer_expire
    <3>1. UNCHANGED <<acc, receiving, rx_timer>>
      BY <2>3, Zenon DEF stm32_uart_tx_timer_expire, rxVars
    <3> QED BY <2>1, <3>1, Zenon DEF Woken, NeverDeaf
  <2>4. CASE stm32_uart_tx_dma_timer_expire
    <3>1. UNCHANGED <<acc, receiving, rx_timer>>
      BY <2>4, Zenon DEF stm32_uart_tx_dma_timer_expire, rxVars
    <3> QED BY <2>1, <3>1, Zenon DEF Woken, NeverDeaf
  <2> QED BY <1>4, <2>2, <2>3, <2>4, Zenon DEF RunTimer
<1>5. CASE Peer
  <2>1. /\ UNCHANGED <<acc, receiving, rx_timer, loop, max_size>>
        /\ conn' # "none" => conn # "none"
    BY <1>5, Zenon DEF Peer, PeerClose, PeerSend, vars, rxVars
  <2> QED BY <2>1, Zenon DEF Woken, NeverDeaf
<1> QED BY <1>1, <1>2, <1>3, <1>4, <1>5, Zenon DEF MainLoop

\* stm32_uart_reset leaves the timer running, and comes between two iterations.
LEMMA WokenStep == EInv /\ Woken /\ [EchoNext]_echoVars => Woken'
<1> SUFFICES ASSUME EInv, Woken, [EchoNext]_echoVars PROVE Woken' OBVIOUS
<1>1. CASE EchoGuest BY <1>1, WokenGuest, Zenon
<1>2. CASE MainLoop \/ Peer BY <1>2, WokenLoop, Zenon
<1>3. CASE EchoReset \/ UNCHANGED echoVars
  <2>1. UNCHANGED <<acc, receiving, rx_timer, loop, conn, max_size>>
    BY <1>3, Zenon DEF EchoReset, LinkReset, stm32_uart_reset, echoVars, allVars, vars, rxVars,
          linkVars
  <2> QED BY <2>1, Zenon DEF Woken, NeverDeaf
<1> QED BY <1>1, <1>2, <1>3, Zenon DEF EchoNext

\* Nothing tells the main loop that the program read USART_DR, but it never
\* needs to be told: whenever it waits in poll() without watching the socket of
\* a connected peer, the rx_timer that stm32_uart_receive armed ends the wait.
THEOREM BackendIsWoken == DemoSetup => (EchoSpec => []NeverDeaf)
<1>1. EchoInit => Woken
  <2>1. EchoInit => loop # "poll" /\ acc = << >> /\ receiving = FALSE
    BY DEF EchoInit, LinkInit, Init
  <2> QED BY <2>1, ZenonT(60) DEF Woken, NeverDeaf
<1>2. Woken => NeverDeaf BY Zenon DEF Woken
<1> QED BY <1>1, <1>2, WokenStep, EchoInvariance, PTL DEF EchoSpec
=============================================================================
