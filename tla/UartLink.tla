------------------------------ MODULE UartLink -------------------------------
(***************************************************************************)
(* The UART behind QEMU's TCP character backend (qemu-char.c) and main loop *)
(* (main-loop.c), with an arbitrary guest.                                  *)
(*                                                                          *)
(* Each iteration of the main loop asks the device how much it can take     *)
(* (io_watch_poll_prepare -> tcp_chr_read_poll -> stm32_uart_can_receive),   *)
(* releases the global lock while it waits in poll(), and then dispatches   *)
(* tcp_chr_read, which uses the answer it got before the wait.  The virtual *)
(* CPU runs during the wait.                                                *)
(***************************************************************************)
EXTENDS Stm32Uart

CONSTANTS
  MaxConn     \* bound: connections the peer makes

ASSUME LinkAssumption == MaxConn \in Nat

VARIABLES
  loop,       \* where the main loop is: "prepare", waiting in "poll", "timers"
  max_size,   \* TCPCharDriver.max_size, the cached answer of can_receive
  conn,       \* the TCP connection: "none", "up" or "hup" (closed by the peer)
  sock,       \* bytes the peer sent that QEMU has not read
  nconn,      \* connections made so far
  nsent       \* bytes sent by the peer so far

linkVars == <<loop, max_size, conn, sock, nconn, nsent>>
allVars == <<vars, linkVars>>

LinkInit ==
  /\ Init
  /\ loop = "prepare" /\ max_size = 0
  /\ conn = "none" /\ sock = << >> /\ nconn = 0 /\ nsent = 0
-----------------------------------------------------------------------------
\* io_watch_poll_prepare: the socket is watched iff max_size > 0.  Without a
\* connection there is no socket source at all.
Prepare ==
  /\ ~abort
  /\ loop = "prepare"
  /\ max_size' = IF conn = "none" THEN 0 ELSE stm32_uart_can_receive
  /\ loop' = "poll"
  /\ UNCHANGED <<vars, conn, sock, nconn, nsent>>

SocketReady == max_size > 0 /\ (sock # << >> \/ conn = "hup")

\* poll() reports the watched socket readable; tcp_chr_read takes at most
\* max_size bytes and hands them to stm32_uart_receive.
tcp_chr_read ==
  /\ loop = "poll" /\ max_size > 0 /\ sock # << >>
  /\ stm32_uart_receive(Head(sock))
  /\ sock' = Tail(sock)
  /\ loop' = "timers"
  /\ UNCHANGED <<max_size, conn, nconn, nsent>>

\* poll() reports a hang-up, or an empty read after the peer closed: the
\* socket is dropped with whatever it still holds.
tcp_chr_disconnect ==
  /\ ~abort
  /\ loop = "poll" /\ max_size > 0 /\ conn = "hup"
  /\ conn' = "none" /\ sock' = << >>
  /\ loop' = "timers"
  /\ UNCHANGED <<vars, max_size, nconn, nsent>>

\* The listening socket is readable: a peer connects.
tcp_chr_accept ==
  /\ ~abort
  /\ loop = "poll" /\ conn = "none" /\ nconn < MaxConn
  /\ conn' = "up" /\ nconn' = nconn + 1
  /\ loop' = "timers"
  /\ UNCHANGED <<vars, max_size, sock, nsent>>

\* Nothing is ready: the deadline of a UART timer ends the wait, or something
\* else in the emulator does (another device's timer, the monitor).
Timeout ==
  /\ ~abort
  /\ loop = "poll" /\ ~SocketReady
  /\ rx_timer \/ tx_timer \/ (~NoBaudDelay /\ "DMAT" \in CR3)
  /\ loop' = "timers"
  /\ UNCHANGED <<vars, max_size, conn, sock, nconn, nsent>>

OtherWakeup ==
  /\ ~abort
  /\ loop = "poll" /\ ~SocketReady
  /\ loop' = "timers"
  /\ UNCHANGED <<vars, max_size, conn, sock, nconn, nsent>>

\* qemu_clock_run_all_timers: whichever timers have expired by now, then the
\* next iteration.
RunTimer ==
  /\ loop = "timers"
  /\ \/ stm32_uart_rx_timer_expire
     \/ stm32_uart_tx_timer_expire
     \/ stm32_uart_tx_dma_timer_expire
  /\ UNCHANGED linkVars

EndIteration ==
  /\ ~abort
  /\ loop = "timers"
  /\ loop' = "prepare"
  /\ UNCHANGED <<vars, max_size, conn, sock, nconn, nsent>>

MainLoop ==
  \/ Prepare \/ tcp_chr_read \/ tcp_chr_disconnect \/ tcp_chr_accept
  \/ Timeout \/ OtherWakeup \/ RunTimer \/ EndIteration

\* The peer, an external program, writes to its socket or closes it.
PeerSend(byte) ==
  /\ conn = "up" /\ nsent < MaxRx
  /\ sock' = Append(sock, byte) /\ nsent' = nsent + 1
  /\ UNCHANGED <<vars, loop, max_size, conn, nconn>>

PeerClose ==
  /\ conn = "up"
  /\ conn' = "hup"
  /\ UNCHANGED <<vars, loop, max_size, sock, nconn, nsent>>

Peer == PeerClose \/ \E b \in RxBytes : PeerSend(b)

\* The virtual CPU runs only while the main loop does not hold the lock.
LinkGuest ==
  /\ loop = "poll"
  /\ Guest
  /\ UNCHANGED linkVars

\* qemu_system_reset runs in the main loop, between two iterations.
LinkReset ==
  /\ loop = "prepare"
  /\ stm32_uart_reset
  /\ UNCHANGED linkVars

LinkNext == MainLoop \/ Peer \/ LinkGuest \/ LinkReset

LinkSpec == LinkInit /\ [][LinkNext]_allVars
-----------------------------------------------------------------------------
\* "If this is not set, the UART will not receive the next character until the
\* previous one is read by software" (README, STM32_UART_ENABLE_OVERRUN): the
\* overrun flag never appears in a build without overrun.
NoOverrun == SR.ORE = 0
=============================================================================
