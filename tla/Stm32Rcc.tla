------------------------------ MODULE Stm32Rcc -------------------------------
(***************************************************************************)
(* The reset and clock controller, hw/arm/stm32_rcc.c, with the guest code  *)
(* that drives it: SystemInit, and the StdPeriph calls that switch          *)
(* peripheral clocks.  A register write is several operations on the clock  *)
(* tree; ClockTree shows that each of them leaves the tree settled and      *)
(* notifies HCLK at most once, so here the tree is its configuration and    *)
(* the frequencies are computed from it after every operation.              *)
(***************************************************************************)
EXTENDS Integers, Sequences

CONSTANTS
  OscFreq,                   \* osc_freq of the board
  CRs, CFGRs, BDCRs,         \* values the application writes
  Apb2Bits, Apb1Bits, AhbBits, \* bits it hands to the clock commands
  MaxResets

\* CRs are sets of the three oscillators, CFGRs records of the fields of
\* RCC_CFGR and BDCRs of those of RCC_BDCR; bits are numbers below 32.
\* RCC_CFGR_SW = 3 is not among the values: it ends the process in hw_error.

VARIABLES
  enabled,     \* clocks of the tree that are switched on
  cfgr,        \* the fields of RCC_CFGR
  RTC_SEL,
  RCC_APB2ENR, RCC_APB1ENR, RCC_AHBENR,   \* sets of bits
  hclk,        \* output of HCLK
  system_clock_scale, external_ref_clock_scale,
  seen,        \* history: HCLK after each operation of SystemInit's last statement
  resets,
  pc           \* next statement of SystemInit; past its end, the application runs

clocks == <<enabled, cfgr>>
systick == <<hclk, system_clock_scale, external_ref_clock_scale, seen>>
periphs == <<RCC_APB2ENR, RCC_APB1ENR, RCC_AHBENR>>
vars == <<clocks, RTC_SEL, periphs, systick, resets, pc>>

HSI_FREQ == 8000000
TicksPerSec == 1000000000

Apb2 == [b \in {0} \cup (2..9) \cup {11, 13, 14} |->
           CASE b = 0 -> "AFIO" [] b = 2 -> "GPIOA" [] b = 3 -> "GPIOB" [] b = 4 -> "GPIOC"
             [] b = 5 -> "GPIOD" [] b = 6 -> "GPIOE" [] b = 7 -> "GPIOF" [] b = 8 -> "GPIOG"
             [] b = 9 -> "ADC1" [] b = 11 -> "TIM1" [] b = 13 -> "TIM8" [] b = 14 -> "UART1"]
Apb1 == [b \in (0..5) \cup (17..20) |->
           IF b <= 5 THEN <<"TIM2", "TIM3", "TIM4", "TIM5", "TIM6", "TIM7">>[b + 1]
           ELSE <<"UART2", "UART3", "UART4", "UART5">>[b - 16]]
Switched(bus) == {bus[b] : b \in DOMAIN bus}
-----------------------------------------------------------------------------
(* Frequencies of the tree stm32_rcc_init_clk builds. *)
Source(on, clk, freq) == IF clk \in on THEN freq ELSE 0

\* Mutant: the factor is one too many.
PLLCLKOneMore(on, f) ==
  LET hse == Source(on, "HSECLK", OscFreq)
  IN  IF "PLLCLK" \notin on THEN 0
      ELSE (f.PLLMUL + 3) * (IF f.PLLSRC = 0 THEN Source(on, "HSICLK", HSI_FREQ) \div 2
                             ELSE IF f.PLLXTPRE = 0 THEN hse ELSE hse \div 2)

PLLCLK(on, f) ==
  LET mul == IF f.PLLMUL = 15 THEN 16 ELSE f.PLLMUL + 2
      hse == Source(on, "HSECLK", OscFreq)
  IN  IF "PLLCLK" \notin on THEN 0
      ELSE mul * (IF f.PLLSRC = 0 THEN Source(on, "HSICLK", HSI_FREQ) \div 2
                  ELSE IF f.PLLXTPRE = 0 THEN hse ELSE hse \div 2)

SYSCLK(on, f) ==
  <<Source(on, "HSICLK", HSI_FREQ), Source(on, "HSECLK", OscFreq), PLLCLK(on, f)>>[f.SW + 1]

HCLK(on, f) == SYSCLK(on, f) \div (IF f.HPRE < 8 THEN 1 ELSE 2 * (f.HPRE - 7))
PCLK(on, f, ppre) == HCLK(on, f) \div (IF ppre < 4 THEN 1 ELSE 2 * (ppre - 3))
-----------------------------------------------------------------------------
\* Mutant: the scales are set up once.
hclk_updOnce(s, freq) ==
  [hclk |-> freq, sys |-> IF s.sys = 0 /\ freq > 0 THEN TicksPerSec \div freq ELSE s.sys,
   ext |-> IF s.ext = 0 /\ freq > 0 THEN TicksPerSec \div (freq \div 8) ELSE s.ext]

stm32_rcc_hclk_upd_irq_handler(s, freq) ==
  [hclk |-> freq, sys |-> IF freq > 0 THEN TicksPerSec \div freq ELSE s.sys,
   ext |-> IF freq > 0 THEN TicksPerSec \div (freq \div 8) ELSE s.ext]

\* SystemInit and SetSysClockTo72 of the CMSIS start-up code.
CR(set, clear) == [reg |-> "CR", set |-> set, clear |-> clear]
CFGR(fields) == [reg |-> "CFGR", fields |-> fields]

Startup == <<
  CR({"HSICLK"}, {}),
  CFGR([PPRE2 |-> 0, PPRE1 |-> 0, HPRE |-> 0, SW |-> 0]),
  CR({}, {"HSECLK", "PLLCLK"}),
  CFGR([PLLMUL |-> 0, PLLXTPRE |-> 0, PLLSRC |-> 0]),
  CR({"HSECLK"}, {}),
  CFGR([PPRE1 |-> 4]),
  CFGR([PLLMUL |-> 0, PLLXTPRE |-> 0, PLLSRC |-> 0]),
  CFGR([PLLSRC |-> 1, PLLMUL |-> 7]),
  CR({"PLLCLK"}, {}),
  CFGR([SW |-> 0]),
  CFGR([SW |-> 2]) >>

\* The tree calls the handler after each operation that changed HCLK.
Told(s, freq) == IF freq = s.hclk THEN s ELSE stm32_rcc_hclk_upd_irq_handler(s, freq)

Operations(freqs) ==
  LET after[n \in 0..Len(freqs)] ==
        IF n = 0 THEN [hclk |-> hclk, sys |-> system_clock_scale,
                       ext |-> external_ref_clock_scale]
        ELSE Told(after[n - 1], freqs[n])
  IN  /\ hclk' = after[Len(freqs)].hclk
      /\ system_clock_scale' = after[Len(freqs)].sys
      /\ external_ref_clock_scale' = after[Len(freqs)].ext
      /\ seen' = IF pc <= Len(Startup) THEN {freqs[n] : n \in 1..Len(freqs)} ELSE {}

\* PLL, HSE and HSI are switched in this order; that one of them drives the
\* system clock is worth a warning and no more.
stm32_rcc_RCC_CR_write(v) ==
  LET switch(on, clk) == (on \ {clk}) \cup (v \cap {clk})
      pll == switch(enabled, "PLLCLK")
      hse == switch(pll, "HSECLK")
  IN  /\ enabled' = switch(hse, "HSICLK")
      /\ Operations(<<HCLK(pll, cfgr), HCLK(hse, cfgr), HCLK(enabled', cfgr)>>)
      /\ UNCHANGED cfgr

\* Mutant: PLLSRC is stored but not selected.
CFGR_writeNoSource(v) ==
  LET w == [v EXCEPT !.PLLSRC = cfgr.PLLSRC]
  IN  /\ cfgr' = w
      /\ Operations(<<HCLK(enabled, w)>>)
      /\ UNCHANGED enabled

\* The fields take effect one after the other.
stm32_rcc_RCC_CFGR_write(v) ==
  LET fields == <<"PLLMUL", "PLLXTPRE", "PLLSRC", "PPRE2", "PPRE1", "HPRE", "SW">>
      upto(n) == [x \in DOMAIN cfgr |->
                    IF \E i \in 1..n : fields[i] = x THEN v[x] ELSE cfgr[x]]
  IN  /\ cfgr' = v
      /\ Operations([n \in 1..Len(fields) |-> HCLK(enabled, upto(n))])
      /\ UNCHANGED enabled

stm32_rcc_periph_enable(on, bus, bits) ==
  (on \ Switched(bus)) \cup {bus[b] : b \in bits \cap DOMAIN bus}

stm32_rcc_RCC_APB2ENR_write(bits) ==
  /\ enabled' = stm32_rcc_periph_enable(enabled, Apb2, bits)
  /\ RCC_APB2ENR' = bits \cap ({0} \cup 2..15)
  /\ UNCHANGED <<cfgr, RTC_SEL, RCC_APB1ENR, RCC_AHBENR, systick>>

stm32_rcc_RCC_APB1ENR_write(bits) ==
  /\ enabled' = stm32_rcc_periph_enable(enabled, Apb1, bits)
  /\ RCC_APB1ENR' = bits \cap ({0} \cup (2..6) \cup (9..12) \cup {14})
  /\ UNCHANGED <<cfgr, RTC_SEL, RCC_APB2ENR, RCC_AHBENR, systick>>

\* CRCEN is tested with a shift by 64, which is undefined: builds give 0 or
\* bit 0.
stm32_rcc_RCC_AHBENR_write(bits) ==
  /\ \E crc \in {{}, bits \cap {0}} :
       enabled' = (enabled \ {"DMA1", "CRC"})
                    \cup (IF crc # {} THEN {"CRC"} ELSE {})
                    \cup (IF 1 \in bits THEN {"DMA1"} ELSE {})
  /\ RCC_AHBENR' = bits \cap ({0} \cup 2..15)
  /\ UNCHANGED <<cfgr, RTC_SEL, RCC_APB2ENR, RCC_APB1ENR, systick>>

\* With RTCSEL = 0 the RTC clock is left as it is.
stm32_rcc_RCC_BDCR_write(v) ==
  /\ enabled' = (enabled \ ({"LSECLK"} \cup IF v.RTCSEL # 0 THEN {"RTC"} ELSE {}))
                  \cup (IF v.LSEON THEN {"LSECLK"} ELSE {})
                  \cup (IF v.RTCSEL # 0 /\ v.RTCEN THEN {"RTC"} ELSE {})
  /\ RTC_SEL' = v.RTCSEL
  /\ UNCHANGED <<cfgr, periphs, systick>>

stm32_rcc_RCC_CSR_write(lsion) ==
  /\ enabled' = IF lsion THEN enabled \cup {"LSICLK"} ELSE enabled \ {"LSICLK"}
  /\ UNCHANGED <<cfgr, RTC_SEL, periphs, systick>>

ResetCFGR == [PLLMUL |-> 0, PLLXTPRE |-> 0, PLLSRC |-> 0,
              PPRE2 |-> 0, PPRE1 |-> 0, HPRE |-> 0, SW |-> 0]

\* The seven register writes of a reset, one after the other; the guest starts
\* again.  RTCSEL = 0 leaves the RTC clock on here too.
stm32_rcc_reset ==
  LET cr(on) == (on \ {"PLLCLK", "HSECLK"}) \cup {"HSICLK"}
      upto(n) == [x \in DOMAIN cfgr |->
                    IF \E i \in 1..n : <<"PLLMUL", "PLLXTPRE", "PLLSRC", "PPRE2",
                                         "PPRE1", "HPRE", "SW">>[i] = x THEN 0 ELSE cfgr[x]]
  IN  /\ enabled' = {"HSICLK"} \cup (enabled \cap {"RTC"})
      /\ cfgr' = ResetCFGR
      /\ Operations(<<HCLK(enabled \ {"PLLCLK"}, cfgr),
                      HCLK(enabled \ {"PLLCLK", "HSECLK"}, cfgr)>>
                    \o [n \in 1..8 |-> HCLK(cr(enabled), upto(n - 1))])
      /\ RTC_SEL' = 0
      /\ RCC_APB2ENR' = {} /\ RCC_APB1ENR' = {} /\ RCC_AHBENR' = {}
      /\ pc' = 1
      /\ resets < MaxResets /\ resets' = resets + 1
-----------------------------------------------------------------------------
\* One statement: a read-modify-write.  Its waits for HSERDY, PLLRDY and SWS
\* end at once, as these bits show what was switched on or selected.
SystemInit ==
  /\ pc <= Len(Startup)
  /\ pc' = pc + 1
  /\ LET s == Startup[pc] IN
     \/ /\ s.reg = "CR"
        /\ stm32_rcc_RCC_CR_write(((enabled \cap {"HSICLK", "HSECLK", "PLLCLK"}) \cup s.set)
                                    \ s.clear)
     \/ /\ s.reg = "CFGR"
        /\ stm32_rcc_RCC_CFGR_write([x \in DOMAIN cfgr |->
             IF x \in DOMAIN s.fields THEN s.fields[x] ELSE cfgr[x]])
  /\ UNCHANGED <<RTC_SEL, periphs, resets>>

Change(reg, bits, on) == IF on THEN reg \cup bits ELSE reg \ bits

RCC_APB2PeriphClockCmd(bits, on) == stm32_rcc_RCC_APB2ENR_write(Change(RCC_APB2ENR, bits, on))
RCC_APB1PeriphClockCmd(bits, on) == stm32_rcc_RCC_APB1ENR_write(Change(RCC_APB1ENR, bits, on))
RCC_AHBPeriphClockCmd(bits, on) == stm32_rcc_RCC_AHBENR_write(Change(RCC_AHBENR, bits, on))

\* The application: any register write, any command, or SystemInit again.
Application ==
  /\ pc > Len(Startup)
  /\ UNCHANGED resets
  /\ \/ /\ UNCHANGED <<RTC_SEL, periphs, pc>>
        /\ \/ \E v \in CRs : stm32_rcc_RCC_CR_write(v)
           \/ \E v \in CFGRs : stm32_rcc_RCC_CFGR_write(v)
     \/ /\ UNCHANGED pc
        /\ \/ \E b \in Apb2Bits, on \in BOOLEAN : RCC_APB2PeriphClockCmd({b}, on)
           \/ \E b \in Apb1Bits, on \in BOOLEAN : RCC_APB1PeriphClockCmd({b}, on)
           \/ \E b \in AhbBits, on \in BOOLEAN : RCC_AHBPeriphClockCmd({b}, on)
           \/ \E v \in BDCRs : stm32_rcc_RCC_BDCR_write(v)
           \/ \E on \in BOOLEAN : BDCRs # {} /\ stm32_rcc_RCC_CSR_write(on)
     \/ pc' = 1 /\ UNCHANGED <<clocks, RTC_SEL, periphs, systick>>

\* The machine is reset before the guest runs.
Init ==
  /\ enabled = {"HSICLK"} /\ cfgr = ResetCFGR /\ RTC_SEL = 0
  /\ RCC_APB2ENR = {} /\ RCC_APB1ENR = {} /\ RCC_AHBENR = {}
  /\ hclk = HSI_FREQ /\ seen = {}
  /\ system_clock_scale = TicksPerSec \div HSI_FREQ
  /\ external_ref_clock_scale = TicksPerSec \div (HSI_FREQ \div 8)
  /\ pc = 1 /\ resets = 0

Next == SystemInit \/ Application \/ stm32_rcc_reset

\* The CPU executes the next statement of SystemInit unless it is reset.
Spec == Init /\ [][Next]_vars /\ WF_vars(SystemInit)
-----------------------------------------------------------------------------
\* "This updates the SysTick scales": whatever sequence of partial changes a
\* register write goes through, while HCLK runs the scales are those of its
\* final frequency, and while it is stopped they keep a value SysTick can
\* divide by.
ScalesFollow ==
  /\ system_clock_scale > 0 /\ external_ref_clock_scale > 0
  /\ hclk = HCLK(enabled, cfgr)
  /\ hclk > 0 => /\ system_clock_scale = TicksPerSec \div hclk
                 /\ external_ref_clock_scale = TicksPerSec \div (hclk \div 8)

\* From the third statement of SystemInit on, whatever configuration the
\* application left, HCLK never stops and never exceeds 72 MHz, not even
\* between the fields of one register write.
StartupIsSmooth ==
  [][SystemInit /\ pc >= 3 =>
       \A freq \in seen' : 0 < freq /\ freq <= 72000000]_vars

\* "Sets System clock frequency to 72MHz and configure HCLK, PCLK2 and PCLK1
\* prescalers": SystemInit gets there, however often it is reset on its way.
ReachesFullSpeed ==
  pc = 1 ~> /\ hclk = 72000000
            /\ PCLK(enabled, cfgr, cfgr.PPRE2) = 72000000
            /\ PCLK(enabled, cfgr, cfgr.PPRE1) = 36000000
=============================================================================
