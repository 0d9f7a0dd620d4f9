------------------------------ MODULE UartEcho -------------------------------
(***************************************************************************)
(* The uart_echo demo (stm32_demos/STM32F103C8T6/uart_echo/main.c) running  *)
(* on the UART behind the character backend: the guest program of UartLink  *)
(* replaced by the demo, one step per register access.                      *)
(***************************************************************************)
EXTENDS UartLink

\* What the demo relies on: the build the repository ships; a UART the board connects on its default
\* pins; and a program that divides its clock by no more than its frequency.
DemoSetup ==
  /\ NoBaudDelay /\ ~EnableOverrun
  /\ BoardMap = 0
  /\ \A f \in Freqs \ {0}, v \in BRRValues : v <= f

VARIABLES
  pc,     \* the next register access of the program
  reply,  \* characters of the current answer still to be sent
  boot    \* history: lengths of out, acc and got when the program started

guestVars == <<pc, reply, boot>>
echoVars == <<allVars, guestVars>>

\* 'G' 'o' 't' ':' b '\r' '\n', with b = USART_ReceiveData(USART1) & 0x7F
Reply(byte) == <<71, 111, 116, 58, byte % 128, 13, 10>>

EchoInit ==
  /\ LinkInit
  /\ pc = "clock" /\ reply = << >>
  /\ boot = [out |-> 0, acc |-> 0, got |-> 0]

\* USART_Init writes back CR1 with TE and RE set; USART_Cmd sets UE.
CR1With(ue) == [UE |-> ue, TE |-> 1, RE |-> 1,
                TXEIE |-> CR1.TXEIE, TCIE |-> CR1.TCIE, RXNEIE |-> CR1.RXNEIE]

Goto(from, to) == pc = from /\ pc' = to

\* init_rs232: clock, transmit pin, CR1, BRR, and the enable bit last.
init_rs232 ==
  /\ \/ Goto("clock", "pin") /\ \E f \in Freqs \ {0} : stm32_uart_clk_irq_handler(f)
     \/ Goto("pin", "cr1") /\ ConfigurePin(TxPin[Periph][1], "alternate")
     \/ Goto("cr1", "brr") /\ WriteCR1(CR1With(CR1.UE))
     \/ Goto("brr", "enable") /\ \E v \in BRRValues : WriteBRR(v)
     \/ Goto("enable", "wait") /\ WriteCR1(CR1With(1))
  /\ UNCHANGED <<reply, boot>>

\* USART_GetFlagStatus reads USART_SR; the loop in main or in send_byte looks
\* at one flag of the value read.
USART_GetFlagStatus == ReadSR

WaitRXNE ==
  /\ pc = "wait"
  /\ USART_GetFlagStatus
  /\ pc' = IF SR.RXNE = 1 THEN "receive" ELSE "wait"
  /\ UNCHANGED <<reply, boot>>

USART_ReceiveData ==
  /\ Goto("receive", "ready")
  /\ ReadDR
  /\ reply' = Reply(RDR)
  /\ UNCHANGED boot

\* send_byte: wait for TXE, then write the character.
WaitTXE ==
  /\ pc = "ready"
  /\ USART_GetFlagStatus
  /\ pc' = IF SR.TXE = 1 THEN "send" ELSE "ready"
  /\ UNCHANGED <<reply, boot>>

USART_SendData ==
  /\ pc = "send"
  /\ WriteDR(Head(reply))
  /\ reply' = Tail(reply)
  /\ pc' = IF Len(reply) = 1 THEN "wait" ELSE "ready"
  /\ UNCHANGED boot

EchoGuest ==
  /\ loop = "poll"
  /\ init_rs232 \/ WaitRXNE \/ USART_ReceiveData \/ WaitTXE \/ USART_SendData
  /\ UNCHANGED linkVars

\* A machine reset restarts the program with the device.
EchoReset ==
  /\ LinkReset
  /\ pc' = "clock" /\ reply' = << >>
  /\ boot' = [out |-> Len(out), acc |-> Len(acc), got |-> Len(got)]

EchoNext ==
  \/ EchoGuest
  \/ (MainLoop \/ Peer) /\ UNCHANGED guestVars
  \/ EchoReset

\* The main loop thread keeps iterating.  The guest gets the lock again and
\* again: the loop releases it in every blocking poll() and forces one after
\* MAX_MAIN_LOOP_SPIN iterations that did not block.  The peer owes nothing.
MainLoopTurn ==
  /\ Prepare \/ tcp_chr_read \/ tcp_chr_disconnect \/ Timeout \/ EndIteration
  /\ UNCHANGED guestVars

EchoSpec ==
  /\ EchoInit /\ [][EchoNext]_echoVars
  /\ WF_echoVars(MainLoopTurn) /\ SF_echoVars(EchoGuest)
-----------------------------------------------------------------------------
\* Between the USART_SR read that saw RXNE or TXE and the USART_DR access that
\* relies on it, the main loop may deliver characters, time out or lose the
\* connection, and no hw_error is ever reached: a program that tests the flag
\* before each access cannot be stopped by a late or early character.
PollingNeverFaults == ~abort

\* Nothing the UART accepted since the program started is lost or read twice:
\* it was read by the program or is still in RDR (build without overrun).
NothingLost ==
  Len(acc) - boot.acc = Len(got) - boot.got + SR.RXNE

\* What left the UART since the program started, and what the program still
\* has to send of the current answer, are the answers to the characters it
\* read, in order, character for character.
EchoExact ==
  LET sent == SubSeq(out, boot.out + 1, Len(out)) \o reply
      n == Len(got) - boot.got
  IN  /\ Len(sent) = 7 * n
      /\ \A i \in 1..n : \A j \in 1..7 :
           sent[7 * (i - 1) + j] = Reply(acc[got[boot.got + i]])[j]

\* The k-th character accepted was answered with all seven characters; the
\* program is at its beginning.
Answered(k) == Len(out) - boot.out >= 7 * (k - boot.acc)
Restarting == pc = "clock"

\* Every character the UART accepts is answered in full, unless the machine is
\* reset.  So is a character that waits in the socket while the receiver is on,
\* if its peer stays.  A peer that hung up is noticed.  The program never waits
\* forever for RXNE or TXE with work to do, and although the backend stops
\* watching the socket while RXNE is set and nothing tells the main loop that
\* the guest read USART_DR, rx_timer, armed by stm32_uart_receive, wakes it.
EveryCharacterAnswered ==
  /\ \A k \in 1..MaxRx :
       /\ Len(acc) >= k ~> Answered(k) \/ Restarting
       /\ CR1.UE = 1 /\ CR1.RE = 1 /\ conn = "up" /\ Len(acc) + Len(sock) >= k
            ~> Answered(k) \/ Restarting \/ conn # "up"
  /\ conn = "hup" ~> conn # "hup"
=============================================================================
