------------------------------ MODULE Stm32Iwdg ------------------------------
(***************************************************************************)
(* The independent watchdog, hw/arm/stm32_iwdg.c, with the firmware that    *)
(* feeds it or hangs and the reset that the main loop carries out some time *)
(* after the watchdog asked for it.  Only times relative to the present     *)
(* matter: "timer" is what is left until its deadline.  Left out are fields *)
(* nothing reads: IWDG_KR, IWDG_PR, timer_reload and previous_reboot_flag.  *)
(***************************************************************************)
EXTENDS Integers

CONSTANTS
  Unit,        \* 1000000: tim_period counts Unit / 40 ns for each LSI cycle
  Word,        \* 2^32: periods are uint32_t
  PRs,         \* values written to IWDG_PR
  RLRs,        \* values written to IWDG_RLR
  RlrRange,    \* 0x800: a write keeps the value modulo this
  ResetRLR     \* 0xfff

ASSUME IwdgAssumption ==
  /\ Unit \in Nat /\ Word \in Nat \ {0} /\ RlrRange \in Nat \ {0} /\ ResetRLR \in Nat
  /\ PRs \subseteq 0..7 /\ RLRs \subseteq Nat

VARIABLES
  enabled, reboot_enabled, unlock_state,
  prescaler, IWDG_RLR,
  timer,             \* time left until the watchdog's timer expires, or NoTimer
  IWDGRSTF,          \* reset reason, in the RCC
  reset_requested,   \* qemu_system_reset_request was called
  hung,              \* the firmware makes no more progress
  asked,             \* history: the last value meant for IWDG_RLR
  owed               \* history: what is left of the time promised at the last feed

iwdgVars ==
  <<enabled, reboot_enabled, unlock_state, prescaler, IWDG_RLR, timer,
    IWDGRSTF, reset_requested, hung, asked, owed>>

NoTimer == -1

Nominal == ((Unit * prescaler) \div 40) * IWDG_RLR

\* Mutant: the last cycle is left out.
tim_periodShort ==
  (((Unit * prescaler) \div 40) * (IF IWDG_RLR = 0 THEN 0 ELSE IWDG_RLR - 1)) % Word

tim_period == Nominal % Word

\* What the firmware may rely on: the time it set, if IWDG_RLR took the value
\* and the period fits its word.
Promise == IF asked = IWDG_RLR /\ Nominal < Word THEN Nominal ELSE 0

\* timer_mod of the watchdog's timer
Restart == timer' = tim_period /\ owed' = Promise

iwdg_reset ==
  /\ timer' = NoTimer /\ owed' = 0
  /\ enabled' = FALSE /\ reboot_enabled' = FALSE /\ unlock_state' = FALSE
  /\ prescaler' = 4 /\ IWDG_RLR' = ResetRLR /\ asked' = ResetRLR
-----------------------------------------------------------------------------
\* Writes of IWDG_KR: 0xCCCC starts the watchdog, 0xAAAA feeds it and 0x5555
\* opens IWDG_PR and IWDG_RLR, for good.
WriteKRStart ==
  /\ ~hung
  /\ enabled' = TRUE /\ reboot_enabled' = TRUE
  /\ Restart
  /\ UNCHANGED <<unlock_state, prescaler, IWDG_RLR, IWDGRSTF, reset_requested, hung, asked>>

WriteKRFeed ==
  /\ ~hung
  /\ IF enabled THEN Restart ELSE UNCHANGED <<timer, owed>>
  /\ UNCHANGED <<enabled, reboot_enabled, unlock_state, prescaler, IWDG_RLR,
                 IWDGRSTF, reset_requested, hung, asked>>

WriteKRUnlock ==
  /\ ~hung
  /\ unlock_state' = TRUE
  /\ UNCHANGED <<enabled, reboot_enabled, prescaler, IWDG_RLR, timer,
                 IWDGRSTF, reset_requested, hung, asked, owed>>

\* 4 << IWDG_PR
Shifted == <<4, 8, 16, 32, 64, 128, 256, 512>>

\* A new prescaler or reload value is used from the next feed on.
WriteIwdgPR(pr) ==
  /\ ~hung
  /\ prescaler' = IF unlock_state THEN Shifted[pr + 1] ELSE prescaler
  /\ UNCHANGED <<enabled, reboot_enabled, unlock_state, IWDG_RLR, timer,
                 IWDGRSTF, reset_requested, hung, asked, owed>>

WriteIwdgRLR(value) ==
  /\ ~hung
  /\ IWDG_RLR' = IF unlock_state THEN value % RlrRange ELSE IWDG_RLR
  /\ asked' = IF unlock_state THEN value ELSE asked
  /\ UNCHANGED <<enabled, reboot_enabled, unlock_state, prescaler, timer,
                 IWDGRSTF, reset_requested, hung, owed>>

\* Mutant: the watchdog is stopped before it is asked whether to reboot.
iwdg_timer_expiredStopped ==
  /\ timer = 0
  /\ iwdg_reset
  /\ IF reboot_enabled' THEN IWDGRSTF' = TRUE /\ reset_requested' = TRUE
     ELSE UNCHANGED <<IWDGRSTF, reset_requested>>
  /\ UNCHANGED hung

\* The callback: with the default action the machine's reset is requested, and
\* until the main loop gets to it the firmware goes on, its watchdog stopped.
iwdg_timer_expired ==
  /\ timer = 0
  /\ IF reboot_enabled
     THEN IWDGRSTF' = TRUE /\ reset_requested' = TRUE /\ iwdg_reset
     ELSE timer' = NoTimer /\ UNCHANGED <<enabled, reboot_enabled, unlock_state, prescaler,
                                          IWDG_RLR, IWDGRSTF, reset_requested, asked, owed>>
  /\ UNCHANGED hung

\* The main loop resets every device and the CPU; the RCC keeps its reset
\* reason.
qemu_system_reset ==
  /\ reset_requested /\ reset_requested' = FALSE
  /\ iwdg_reset /\ hung' = FALSE
  /\ UNCHANGED IWDGRSTF

\* system_reset typed at the monitor
qmp_system_reset ==
  /\ reset_requested' = TRUE
  /\ UNCHANGED <<enabled, reboot_enabled, unlock_state, prescaler, IWDG_RLR, timer,
                 IWDGRSTF, hung, asked, owed>>

Hang ==
  /\ ~hung /\ hung' = TRUE
  /\ UNCHANGED <<enabled, reboot_enabled, unlock_state, prescaler, IWDG_RLR, timer,
                 IWDGRSTF, reset_requested, asked, owed>>

\* Virtual time passes, also beyond a deadline the main loop has not served.
Elapse ==
  /\ timer' = IF timer > 0 THEN timer - 1 ELSE timer
  /\ owed' = IF owed > 0 THEN owed - 1 ELSE owed
  /\ UNCHANGED <<enabled, reboot_enabled, unlock_state, prescaler, IWDG_RLR,
                 IWDGRSTF, reset_requested, hung, asked>>

IwdgInit ==
  /\ enabled = FALSE /\ reboot_enabled = FALSE /\ unlock_state = FALSE
  /\ prescaler = 4 /\ IWDG_RLR = ResetRLR /\ asked = ResetRLR
  /\ timer = NoTimer /\ owed = 0
  /\ IWDGRSTF = FALSE /\ reset_requested = FALSE /\ hung = FALSE

IwdgNext ==
  \/ WriteKRStart \/ WriteKRFeed \/ WriteKRUnlock
  \/ \E pr \in PRs : WriteIwdgPR(pr)
  \/ \E value \in RLRs : WriteIwdgRLR(value)
  \/ iwdg_timer_expired \/ qemu_system_reset \/ qmp_system_reset \/ Hang \/ Elapse

\* Time passes and the main loop comes around: it serves due timers and
\* requested resets.  Nothing is assumed of the firmware.
IwdgFairness ==
  WF_iwdgVars(Elapse) /\ WF_iwdgVars(iwdg_timer_expired) /\ WF_iwdgVars(qemu_system_reset)

IwdgSpec == IwdgInit /\ [][IwdgNext]_iwdgVars /\ IwdgFairness
-----------------------------------------------------------------------------
\* Firmware that feeds the watchdog in the time it set is not rebooted: the
\* callback runs only when all of the time promised at the last feed is over,
\* whatever was written to IWDG_PR and IWDG_RLR meanwhile.  Nothing is promised
\* for a reload value above 0x7ff, which loses its top bit, and for a period
\* of 2^32 ns or more, which wraps.
NeverEarly == [][iwdg_timer_expired => owed = 0]_iwdgVars

\* Firmware that hangs with its watchdog started is rebooted, also the second
\* time, also if the hang comes while a reset is under way.
WatchdogBites == enabled /\ hung ~> ~hung
=============================================================================
