------------------------------- MODULE Stm32Dma ------------------------------
(***************************************************************************)
(* The DMA controller, hw/arm/stm32_dma.c, driven by firmware through the   *)
(* standard library (DMA_DeInit, DMA_Init, DMA_Cmd: a series of register    *)
(* accesses each), by the requests of USART1 and by the timer of the one    *)
(* circular channel.  Requests and expiries fall between any two accesses.  *)
(***************************************************************************)
EXTENDS Integers, Sequences

CONSTANTS
  Streams,        \* the channels, numbered from 1
  AddressWord,    \* 2^32
  DR,             \* the address of the data register of USART1
  Peripherals,    \* the addresses whose contents change by themselves, with DR
  Uses            \* what firmware programs: [DIR, CIRC, PINC, MINC, MEM2MEM, psize,
                  \* msize (the codes of CCR), ndtr, par, mar]

VARIABLE dma
\* stream: the channels; chan: chan_circular_mode; timer: circular_timer is
\* armed; isr: the channels whose TCIF is set; from: for every byte of memory,
\* the byte that the last step put there; accesses: the register accesses still
\* to come of the library call being made; ccr: the CR it has read and not
\* written back; ended: after a hw_error or after undefined behaviour.  The
\* interrupt, a pulse, is left out, and so is IFCR, which is only stored.

Addresses == 0..(AddressWord - 1)
msize_table == <<1, 0, 2, 0>>     \* a code for bytes, half words (not done) and words
Fresh == -1                       \* what a peripheral delivers
Junk == -2                        \* buf[1], never written

NoStream == [EN |-> FALSE, DIR |-> FALSE, CIRC |-> FALSE, PINC |-> FALSE,
             MINC |-> FALSE, MEM2MEM |-> FALSE, psize |-> 0, msize |-> 0,
             ndtr |-> 0, par |-> 0, mar |-> 0,
             circular_ndtr |-> 0, circular_par |-> 0, circular_mar |-> 0]

CR(s) == [f \in {"EN", "DIR", "CIRC", "PINC", "MINC", "MEM2MEM", "psize", "msize"} |-> s[f]]

DmaInit ==
  dma = [stream |-> [n \in Streams |-> NoStream], chan |-> 0, timer |-> FALSE,
         isr |-> {}, from |-> [a \in Addresses |-> a], accesses |-> <<>>, ccr |-> CR(NoStream),
         ended |-> FALSE]

\* The fields of a register that is written, in the place of those of s
Store(s, fields) == [f \in DOMAIN s |-> IF f \in DOMAIN fields THEN fields[f] ELSE s[f]]

\* Nothing moved yet
Still == [dma EXCEPT !.from = [a \in Addresses |-> a]]

Plus(a, b) == (a + b) % AddressWord
psize(s) == msize_table[s.psize + 1]
msize(s) == msize_table[s.msize + 1]

\* What firmware asks of a channel: at least one item, which DMA_Init asserts
\* (IS_DMA_BUFFER_SIZE).
ASSUME DmaAssumption ==
  /\ Streams \subseteq Nat \ {0} /\ AddressWord \in Nat \ {0}
  /\ Uses \subseteq [DIR: BOOLEAN, CIRC: BOOLEAN, PINC: BOOLEAN, MINC: BOOLEAN, MEM2MEM: BOOLEAN,
                     psize: 0..3, msize: 0..3, ndtr: 1..(AddressWord - 1),
                     par: Addresses, mar: Addresses]

\* cpu_physical_memory_read into a buffer of two bytes
Cell(from, a) == IF a \in Peripherals THEN Fresh ELSE from[a]
Read(from, src, size) ==
  <<Cell(from, src), IF size = 2 THEN Cell(from, Plus(src, 1)) ELSE Junk>>

\* cpu_physical_memory_write; a peripheral takes the value away
Written(from, dest, buf, size) ==
  [a \in Addresses |->
     LET i == ((a - dest) % AddressWord) + 1
     IN  IF i \in 1..size /\ a \notin Peripherals THEN buf[i] ELSE from[a]]

\* Mutant: the addresses advance by one item whatever the size.
AdvancedByOne(s) ==
  [s EXCEPT !.ndtr = (@ - 1) % AddressWord,
            !.par = IF s.PINC THEN Plus(@, 1) ELSE @,
            !.mar = IF s.MINC THEN Plus(@, 1) ELSE @]

Advanced(s) ==
  [s EXCEPT !.ndtr = (@ - 1) % AddressWord,
            !.par = IF s.PINC THEN Plus(@, psize(s)) ELSE @,
            !.mar = IF s.MINC THEN Plus(@, msize(s)) ELSE @]

\* One transfer
stm32_dma_stream_start_once(d, n, skip_enabled_check) ==
  LET s == d.stream[n]
      t == Advanced(s)
      src == IF s.DIR THEN s.mar ELSE s.par
      dest == IF s.DIR THEN s.par ELSE s.mar
      src_size == IF s.DIR THEN msize(s) ELSE psize(s)
      dest_size == IF s.DIR THEN psize(s) ELSE msize(s)
  IN  IF psize(s) = 0 \/ msize(s) = 0 THEN [d EXCEPT !.ended = TRUE]
      ELSE IF ~skip_enabled_check /\ ~s.EN THEN d
      ELSE [d EXCEPT !.from = Written(@, dest, Read(@, src, src_size), dest_size),
                     !.stream[n] = IF t.ndtr = 0 /\ ~t.CIRC THEN [t EXCEPT !.EN = FALSE] ELSE t,
                     !.isr = IF t.ndtr = 0 THEN @ \cup {n} ELSE @]

\* Transfers until no item is left, or until one ends the emulator
stm32_dma_stream_start_whole(d, n) ==
  LET after[k \in 0..d.stream[n].ndtr] ==
        IF k = 0 THEN d ELSE stm32_dma_stream_start_once(after[k - 1], n, TRUE)
  IN  after[d.stream[n].ndtr]
-----------------------------------------------------------------------------
\* CR.  The whole block of a memory to memory copy moves before the new value
\* is stored, under the old one; EN then stays set.
WriteCR(d, n, cr) ==
  LET s == d.stream[n]
      rises == ~s.EN /\ cr.EN
      e == IF rises /\ cr.MEM2MEM THEN stm32_dma_stream_start_whole(d, n)
           ELSE IF rises /\ cr.CIRC
           THEN IF cr.DIR \/ d.chan # 0 THEN [d EXCEPT !.ended = TRUE]
                ELSE [d EXCEPT !.chan = n, !.timer = TRUE]
           ELSE d
  IN  [e EXCEPT !.stream[n] = Store(@, cr)]

WriteNDTR(d, n, value) ==
  IF d.stream[n].EN THEN [d EXCEPT !.ended = TRUE]
  ELSE [d EXCEPT !.stream[n].ndtr = value, !.stream[n].circular_ndtr = value]

WritePAR(d, n, value) == [d EXCEPT !.stream[n].par = value, !.stream[n].circular_par = value]

WriteMAR(d, n, value) == [d EXCEPT !.stream[n].mar = value, !.stream[n].circular_mar = value]

\* One access of the library, which changes CCR by reading it and writing it
\* back.
Access(d, w) ==
  LET Back(cr) == [WriteCR(d, w.n, cr) EXCEPT !.ccr = CR(NoStream)]
  IN  CASE w.reg = "CR read" -> [d EXCEPT !.ccr = CR(d.stream[w.n])]
        [] w.reg = "CR configure" -> Back([CR(Store(NoStream, w.use)) EXCEPT !.EN = d.ccr.EN])
        [] w.reg = "CR clear" -> Back(CR(NoStream))
        [] w.reg = "CR disable" -> Back([d.ccr EXCEPT !.EN = FALSE])
        [] w.reg = "CR enable" -> Back([d.ccr EXCEPT !.EN = TRUE])
        [] w.reg = "NDTR" -> WriteNDTR(d, w.n, w.use.ndtr)
        [] w.reg = "PAR" -> WritePAR(d, w.n, w.use.par)
        [] w.reg = "MAR" -> WriteMAR(d, w.n, w.use.mar)

Calls(n, use, regs) == [i \in 1..Len(regs) |-> [n |-> n, use |-> use, reg |-> regs[i]]]

DMA_DeInit(n) ==
  Calls(n, NoStream, <<"CR read", "CR disable", "CR clear", "NDTR", "PAR", "MAR">>)

\* DMA_Init and DMA_Cmd
DMA_Start(n, use) ==
  Calls(n, use, <<"CR read", "CR configure", "NDTR", "PAR", "MAR", "CR read", "CR enable">>)

GuestCalls ==
  /\ ~dma.ended /\ dma.accesses = <<>>
  /\ \E n \in Streams :
       \/ dma' = [Still EXCEPT !.accesses = DMA_DeInit(n)]
       \/ \E use \in Uses : dma' = [Still EXCEPT !.accesses = DMA_Start(n, use)]

GuestAccess ==
  /\ ~dma.ended /\ dma.accesses # <<>>
  /\ dma' = [Access(Still, Head(dma.accesses)) EXCEPT !.accesses = Tail(@)]

\* Mutant: the item left over is moved before the block starts again.
CircularReloadLate(s) ==
  IF s.ndtr = AddressWord - 1 /\ s.CIRC
  THEN [s EXCEPT !.mar = s.circular_mar, !.par = s.circular_par,
                 !.ndtr = s.circular_ndtr, !.EN = TRUE]
  ELSE s

CircularReload(s) ==
  IF s.ndtr = 0 /\ s.CIRC
  THEN [s EXCEPT !.mar = s.circular_mar, !.par = s.circular_par,
                 !.ndtr = s.circular_ndtr, !.EN = TRUE]
  ELSE s

\* A reset leaves the timer armed for channel 0, which is stream[-1].
stm32_dma_stream_circular_timer ==
  /\ ~dma.ended /\ dma.timer
  /\ IF dma.chan = 0 THEN dma' = [Still EXCEPT !.ended = TRUE]
     ELSE LET e == stm32_dma_stream_start_once(Still, dma.chan, FALSE)
              s == CircularReload(e.stream[e.chan])
          IN  dma' = [e EXCEPT !.stream[e.chan] = s, !.timer = s.EN]

\* A request of USART1: its channel is the first with the data register as its
\* memory address (receive) or its peripheral address (transmit).
dma_find_channel(search_in_dest) ==
  LET found == {n \in Streams : DR = IF search_in_dest THEN dma.stream[n].mar
                                     ELSE dma.stream[n].par}
  IN  IF found = {} THEN -1 ELSE CHOOSE n \in found : \A m \in found : n <= m

dma_irq_handler(receive) ==
  /\ ~dma.ended
  /\ LET channel == dma_find_channel(receive)
     IN  IF channel = -1 THEN dma' = [Still EXCEPT !.ended = TRUE]
         ELSE dma' = stm32_dma_stream_start_once(Still, channel, FALSE)

stm32_dma_reset ==
  /\ ~dma.ended
  /\ dma' = [Still EXCEPT !.stream = [n \in Streams |-> NoStream], !.chan = 0, !.accesses = <<>>,
                     !.ccr = CR(NoStream)]

DmaNext ==
  \/ GuestCalls \/ GuestAccess \/ stm32_dma_reset
  \/ stm32_dma_stream_circular_timer
  \/ \E receive \in BOOLEAN : dma_irq_handler(receive)
-----------------------------------------------------------------------------
Programmed(n) == ~dma.ended /\ \A i \in 1..Len(dma.accesses) : dma.accesses[i].n # n

\* No request of USART1 finds the channel, wherever in its block it is.
Away(s) ==
  \A k \in 0..(s.circular_ndtr - 1) :
    /\ Plus(s.circular_mar, IF s.MINC THEN k * msize(s) ELSE 0) # DR
    /\ Plus(s.circular_par, IF s.PINC THEN k * psize(s) ELSE 0) # DR

\* An enabled channel has items left, and its addresses are as many items into
\* the block that was programmed as were moved, whatever requests, expiries,
\* reloads and resets came since; a circular one has its timer armed.  Not
\* while the library reprograms the channel, nor for a memory to memory one,
\* which stays enabled with no item left.  A circular block that the requests
\* of USART1 also move through may be overrun: they do not reload it.
InsideBlock ==
  \A n \in Streams :
    LET s == dma.stream[n]
        moved == s.circular_ndtr - s.ndtr
    IN  Programmed(n) /\ s.EN /\ ~s.MEM2MEM =>
          /\ s.CIRC => dma.chan = n /\ dma.timer
          /\ (s.CIRC => Away(s)) =>
               /\ s.ndtr \in 1..s.circular_ndtr
               /\ s.mar = Plus(s.circular_mar, IF s.MINC THEN moved * msize(s) ELSE 0)
               /\ s.par = Plus(s.circular_par, IF s.PINC THEN moved * psize(s) ELSE 0)

\* How far a is into a block that starts at base
Offset(a, base) == (a - base) % AddressWord

\* size bytes at par and at mar overlap nowhere and hold no register of a
\* peripheral.
Apart(par, mar, size) ==
  \A a \in Addresses :
    /\ Offset(a, par) >= size \/ Offset(a, mar) >= size
    /\ a \in Peripherals => Offset(a, par) >= size /\ Offset(a, mar) >= size

\* If the step enables channel n for a copy between blocks of equal items that
\* are apart, the destination then holds what the source held, every other byte
\* what it did.
CopiesBlock(n) ==
  LET s == dma.stream[n]
      size == s.ndtr * msize(s)
  IN  /\ GuestAccess /\ ~dma'.ended
      /\ Head(dma.accesses).n = n /\ Head(dma.accesses).reg = "CR enable"
      /\ s.MEM2MEM /\ ~s.DIR /\ s.PINC /\ s.MINC /\ ~s.EN /\ s.psize = s.msize
      /\ Apart(s.par, s.mar, size)
      => dma'.from = [a \in Addresses |->
                       IF Offset(a, s.mar) < size THEN Plus(s.par, Offset(a, s.mar)) ELSE a]

\* Enabling a memory to memory channel moves its whole block and nothing else
\* (stm32_dma_stream_start_whole), unless the blocks overlap or hold a register
\* of a peripheral.
CopyExact == [][\A n \in Streams : CopiesBlock(n)]_dma
=============================================================================
