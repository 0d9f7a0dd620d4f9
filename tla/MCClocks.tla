------------------------------- MODULE MCClocks -------------------------------
(***************************************************************************)
(* What the clocks of the board are made of, each by itself: the tree of    *)
(* clocks on a small tree, the reset and clock controller on the Blue       *)
(* Pill's crystals, and the system timer under any scales the controller    *)
(* may give it.                                                             *)
(***************************************************************************)
EXTENDS ClockTree, SysTick

CONSTANTS                           \* of Stm32Rcc
  OscFreq, CRs, CFGRs, BDCRs, Apb2Bits, Apb1Bits, AhbBits, MaxResets

\* Every board passes 8 MHz, and SystemInit multiplies it by 9.  The fields of
\* CFGR have their width; SW = 3 ends the process.
ASSUME RccAssumption ==
  /\ OscFreq \in Nat /\ 256 <= OscFreq /\ OscFreq <= 8000000
  /\ CFGRs \subseteq [PLLMUL : 0..15, PLLXTPRE : 0..1, PLLSRC : 0..1,
                      PPRE2 : 0..7, PPRE1 : 0..7, HPRE : 0..15, SW : 0..2]

VARIABLES
  rcc_enabled, cfgr, RTC_SEL, RCC_APB2ENR, RCC_APB1ENR, RCC_AHBENR, hclk,
  rcc_system_scale, rcc_external_scale, seen, resets, pc,
  driven                            \* the part that is at work

rccVars ==
  <<rcc_enabled, cfgr, RTC_SEL, RCC_APB2ENR, RCC_APB1ENR, RCC_AHBENR, hclk,
    rcc_system_scale, rcc_external_scale, seen, resets, pc>>
clocksVars == <<vars, sysTickVars, rccVars, driven>>

\* Two sources; 3 switches between them; 4 has two paths to the first source,
\* one through 3.
Tree == <<<<>>, <<>>, <<1, 2>>, <<1, 3>>>>
Sources == <<5, 2, 0, 0>>

AnyScale == {<<1, 2>>, <<2, 3>>}

AnyCR == SUBSET {"HSICLK", "HSECLK", "PLLCLK"}

\* The largest multiplier, one prescaler step, every source; the start-up code
\* does not halve HSE, the application does.
AnyCFGR == [PLLMUL : {15}, PLLXTPRE : {1}, PLLSRC : 0..1,
            PPRE2 : {0}, PPRE1 : {0}, HPRE : {0, 8}, SW : 0..2]

AnyBDCR == [LSEON : BOOLEAN, RTCSEL : {0, 2}, RTCEN : BOOLEAN]

Rcc == INSTANCE Stm32Rcc WITH
  enabled <- rcc_enabled,
  system_clock_scale <- rcc_system_scale, external_ref_clock_scale <- rcc_external_scale

\* The clocks of peripherals and the oscillators do not depend on each other,
\* so the application does one thing at a time: it uses peripherals at full
\* speed only, and changes the speed or starts again only with them off.  A
\* reset, which leaves the RTC clock as it is, may come at any time.
Quiet == RTC_SEL = 0 /\ rcc_enabled \subseteq {"HSICLK", "HSECLK", "PLLCLK", "RTC"}
FullSpeed ==
  /\ pc > Len(Rcc!Startup)
  /\ {"HSICLK", "HSECLK", "PLLCLK"} \subseteq rcc_enabled
  /\ cfgr = [Rcc!ResetCFGR EXCEPT !.PLLMUL = 7, !.PLLSRC = 1, !.PPRE1 = 4, !.SW = 2]

ClocksInit ==
  /\ Init /\ SysTickInit /\ Rcc!Init
  /\ driven \in {"tree", "systick", "rcc"}
  /\ driven # "systick" => <<system_clock_scale, external_ref_clock_scale>> = <<1, 2>>

OfTree(step) == driven = "tree" /\ step /\ UNCHANGED <<sysTickVars, rccVars, driven>>
OfRcc(step) == driven = "rcc" /\ step /\ UNCHANGED <<vars, sysTickVars, driven>>

ClocksNext ==
  \/ OfTree(Next)
  \/ OfRcc(Rcc!Next /\ (Quiet' \/ FullSpeed'))
  \/ driven = "systick" /\ SysTickNext /\ UNCHANGED <<vars, rccVars, driven>>

\* The fairness of ClockTree and of Stm32Rcc.
ClocksSpec ==
  /\ ClocksInit /\ [][ClocksNext]_clocksVars
  /\ WF_clocksVars(OfTree(Visit \/ Leave)) /\ WF_clocksVars(OfRcc(Rcc!SystemInit))
-----------------------------------------------------------------------------
\* The SysTick scales are those of HCLK (stm32_rcc_hclk_upd_irq_handler).
ScalesFollow == Rcc!ScalesFollow

\* SystemInit neither stops nor overspeeds HCLK on its way
\* (stm32_rcc_RCC_CFGR_write, stm32_rcc_RCC_CR_write).
StartupIsSmooth == Rcc!StartupIsSmooth

\* SystemInit gets to 72 MHz through the registers of the RCC.
ReachesFullSpeed == driven = "rcc" => Rcc!ReachesFullSpeed
=============================================================================
