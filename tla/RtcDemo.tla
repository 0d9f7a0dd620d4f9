-------------------------------- MODULE RtcDemo ------------------------------
(***************************************************************************)
(* The firmware stm32_demos/STM32F103C8T6/rtc/main.c on the emulated RTC.   *)
(* It enables both interrupts without a handler and polls the flags of CRL. *)
(* The driver changes CRL by reading and writing it back: two accesses, with *)
(* expiries and bottom halves in between.                                   *)
(***************************************************************************)
EXTENDS Stm32Rtc, Sequences

CONSTANT Alarm    \* 10 seconds

VARIABLES
  pc,             \* index into Program
  crl             \* the value of CRL that was read, or Unread

demoVars == <<rtc, pc, crl>>

Unread == {"unread"}

\* RTC_SetCounter and its like: in configuration mode, both halves
Set(high, low, value) ==
  <<<<"set", "CNF">>, <<high, value \div Half>>, <<low, value % Half>>, <<"clear", "CNF">>>>

Setup ==
  <<<<"clock", 1>>, <<"clear", "RSF">>, <<"wait", "RSF">>,
    <<"CRH", {"SEC"}>>, <<"CRH", {"SEC", "ALR"}>>,
    <<"set", "CNF">>, <<"PRL", 1>>, <<"clear", "CNF">>>>
  \o Set("ALRH", "ALRL", Alarm) \o Set("CNTH", "CNTL", 0)
  \o <<<<"clear", "SEC">>, <<"clear", "ALR">>>>

Loop == <<<<"wait", "SEC">>, <<"clear", "SEC">>, <<"unless", "ALR">>, <<"ALARME", 0>>,
          <<"clear", "ALR">>>> \o Set("CNTH", "CNTL", 0)

Program == Setup \o Loop

LoopStart == Len(Setup) + 1

Following(at) == IF at = Len(Program) THEN LoopStart ELSE at + 1

Access(action) == action /\ pc' = Following(pc) /\ crl' = crl

ReadModifyWrite(value) ==
  \/ crl = Unread /\ crl' = rtc.CRL /\ UNCHANGED <<rtc, pc>>
  \/ crl # Unread /\ WriteCRL(value) /\ crl' = Unread /\ pc' = Following(pc)

Guest ==
  LET op == Program[pc][1]
      arg == Program[pc][2]
  IN  \/ op = "clock" /\ Access(stm32_rtc_clk_irq_handler(arg))
      \/ op = "CRH" /\ Access(WriteCRH(arg))
      \/ op = "PRL" /\ Access(WritePRL(arg))
      \/ op = "ALRH" /\ Access(WriteALRH(arg))
      \/ op = "ALRL" /\ Access(WriteALRL(arg))
      \/ op = "CNTH" /\ Access(WriteCNTH(arg))
      \/ op = "CNTL" /\ Access(WriteCNTL(arg))
      \/ op = "set" /\ ReadModifyWrite(crl \cup {arg})
      \/ op = "clear" /\ ReadModifyWrite(crl \ {arg})
      \/ op = "wait" /\ arg \in rtc.CRL /\ Access(UNCHANGED rtc)
      \/ op = "unless" /\ arg \in rtc.CRL /\ Access(UNCHANGED rtc)
      \/ op = "unless" /\ arg \notin rtc.CRL /\ pc' = LoopStart /\ UNCHANGED <<rtc, crl>>
      \/ op = "ALARME" /\ Access(UNCHANGED rtc)

Expires == Expire /\ UNCHANGED <<pc, crl>>

Ticks == stm32_rtc_tick /\ UNCHANGED <<pc, crl>>

DemoInit == RtcInit /\ pc = 1 /\ crl = Unread

\* The virtual CPU keeps running the firmware, virtual time passes and the main
\* loop runs the bottom halves.
DemoSpec ==
  /\ DemoInit /\ [][Guest \/ Expires \/ Ticks]_demoVars
  /\ WF_demoVars(Guest) /\ WF_demoVars(Expires) /\ WF_demoVars(Ticks)
-----------------------------------------------------------------------------
\* "set second flag each cycle of f_TR_CLK": the firmware, which waits for that
\* flag, shows the time again and again.
SecondsShown == []<>(pc = LoopStart + 1)
=============================================================================
