-------------------------- MODULE BluetoothGateway ---------------------------
(***************************************************************************)
(* The gateway of gateway-windows/gateway_bluetooth_java: a Java program    *)
(* that relays between a phone (Bluetooth serial port) and the emulator's   *)
(* UART (a TCP port of QEMU).  Processes: main, the receiver thread (phone  *)
(* to emulator), the transmitter thread (emulator to phone), the shutdown   *)
(* hook, and the two peers.  A thread's step ends where another thread or a *)
(* peer can tell the difference: at every blocking call, send, close and    *)
(* test of the interrupt flag.                                              *)
(***************************************************************************)
EXTENDS Integers, Sequences

CONSTANTS
  PhoneChars, EmuChars,   \* bytes of the phone, characters read from the emulator
  Ascii, TwoByte,         \* the charset: one byte characters, pairs that are one
  Bad,                    \* what the encoder makes of U+FFFD
  CR, NL,                 \* '\r', '\n'
  Separator,              \* the property line.separator
  MaxUp, MaxDown          \* how much each peer sends

ASSUME GatewayAssumption ==
  /\ NL \in EmuChars /\ MaxUp \in Nat /\ MaxDown \in Nat
  /\ Separator \in {<<NL>>, <<CR, NL>>}

VARIABLES
  jvm,          \* "up" or "ended"
  main, rx, tx, hook,       \* where each thread is
  rxInt, txInt,             \* interrupt flags
  telnet, bt,   \* each connection: "null" (its constructor failed), "open", "closed"
  up, phoneGone,            \* bytes from the phone not yet read; it hung up
  down, emuGone,            \* characters from QEMU not yet read; it hung up
  readMessage,  \* the receiver's message, as the bytes println encodes it to
  sb,           \* the transmitter's StringBuilder
  phoneSent, emuSent,       \* history: what each peer sent
  relayed,      \* history: what the println calls wrote to QEMU
  delivered     \* history: writes that reached the phone

threads == <<main, rx, tx, hook, rxInt, txInt>>
streams == <<telnet, bt, up, phoneGone, down, emuGone>>
history == <<phoneSent, emuSent, relayed, delivered>>
vars == <<jvm, threads, streams, readMessage, sb, history>>
-----------------------------------------------------------------------------
(* App.main. *)

\* A constructor that fails leaves null in the fields and prints a trace.
newClientTelnet ==
  /\ main = "telnet" /\ main' = "bluetooth"
  /\ telnet' \in {"open", "null"}
  /\ UNCHANGED <<rx, tx, hook, rxInt, txInt, bt, up, phoneGone, down, emuGone>>

\* acceptAndOpen waits for a phone.  An exception without a message makes the
\* catch block throw, which ends main before it has started a thread.
newClientBluetooth ==
  /\ main = "bluetooth"
  /\ \/ bt' \in {"open", "null"} /\ main' = "start_rx"
     \/ bt' = "null" /\ main' = "died"
  /\ UNCHANGED <<rx, tx, hook, rxInt, txInt, telnet, up, phoneGone, down, emuGone>>

startReceiver ==
  /\ main = "start_rx" /\ main' = "start_tx"
  /\ rx' = "test"
  /\ UNCHANGED <<tx, hook, rxInt, txInt, streams>>

startTransmitter ==
  /\ main = "start_tx" /\ main' = "catchSignal"
  /\ tx' = "test"
  /\ UNCHANGED <<rx, hook, rxInt, txInt, streams>>

catchSignal ==
  /\ main = "catchSignal" /\ main' = "returned"
  /\ hook' = "registered"
  /\ UNCHANGED <<rx, tx, rxInt, txInt, streams>>

Start == startReceiver \/ startTransmitter \/ catchSignal
-----------------------------------------------------------------------------
(* ReceiverThread.run. *)
receiverTest ==
  /\ rx = "test"
  /\ rx' = IF rxInt THEN "close_telnet" ELSE "read"
  /\ UNCHANGED <<main, tx, hook, rxInt, txInt, streams, readMessage, sb, history>>

\* new String of a message's bytes, encoded again by println.  Messages are
\* decoded one by one: a character cut in two comes out as U+FFFD.  Two bytes
\* stand for any longer character.
Decoded(bytes) ==
  [i \in 1..Len(bytes) |->
     IF \/ bytes[i] \in Ascii
        \/ i < Len(bytes) /\ <<bytes[i], bytes[i + 1]>> \in TwoByte
        \/ i > 1 /\ <<bytes[i - 1], bytes[i]>> \in TwoByte
     THEN bytes[i] ELSE Bad]

\* Any of the bytes that have arrived, one at least.  A null stream, an end of
\* stream (a String of length -1) and an IOException (null.equals) all throw
\* what nobody catches; the sockets stay open.
receiveDataFromBluetooth ==
  /\ rx = "read"
  /\ \/ /\ bt = "null" \/ (phoneGone /\ up = <<>>)
        /\ rx' = "dead"
        /\ UNCHANGED <<up, readMessage>>
     \/ /\ bt = "open"
        /\ \E n \in 1..Len(up) :
             readMessage' = Decoded(SubSeq(up, 1, n)) /\ up' = SubSeq(up, n + 1, Len(up))
        /\ rx' = "send"
  /\ UNCHANGED <<main, tx, hook, rxInt, txInt, telnet, bt, phoneGone, down, emuGone,
                 sb, history>>

\* println puts a line separator after every message.  On a null writer it
\* throws and is caught; a PrintWriter hides errors.
sendDataToQemu ==
  /\ rx = "send" /\ rx' = "test"
  /\ relayed' = IF telnet = "open" /\ ~emuGone THEN Append(relayed, readMessage \o Separator)
                ELSE relayed
  /\ readMessage' = <<>>
  /\ UNCHANGED <<main, tx, hook, rxInt, txInt, streams, sb, phoneSent, emuSent, delivered>>

Closed(socket) == IF socket = "open" THEN "closed" ELSE socket

\* Mutant: only the Bluetooth socket is closed.
closeConnectionBluetooth ==
  /\ \/ rx = "close_telnet" /\ rx' = "close_bt" /\ UNCHANGED <<telnet, bt>>
     \/ rx = "close_bt" /\ rx' = "dead" /\ bt' = Closed(bt) /\ UNCHANGED telnet
  /\ UNCHANGED <<main, tx, hook, rxInt, txInt, up, phoneGone, down, emuGone,
                 readMessage, sb, history>>

closeConnection ==
  /\ \/ rx = "close_telnet" /\ rx' = "close_bt" /\ telnet' = Closed(telnet) /\ UNCHANGED bt
     \/ rx = "close_bt" /\ rx' = "dead" /\ bt' = Closed(bt) /\ UNCHANGED telnet
  /\ UNCHANGED <<main, tx, hook, rxInt, txInt, up, phoneGone, down, emuGone,
                 readMessage, sb, history>>

Receiver == receiverTest \/ receiveDataFromBluetooth \/ sendDataToQemu \/ closeConnection
-----------------------------------------------------------------------------
(* TransmitterThread.run. *)
transmitterTest ==
  /\ tx = "test"
  /\ tx' = IF txInt THEN "dead" ELSE "read"
  /\ sb' = <<>>
  /\ UNCHANGED <<main, rx, hook, rxInt, txInt, streams, readMessage, history>>

\* Mutant: a newline does not end the message.
receiveDataFromQemuOn ==
  /\ tx = "read"
  /\ \/ telnet = "null" /\ tx' = "dead" /\ UNCHANGED <<sb, down>>
     \/ /\ telnet = "closed" \/ (emuGone /\ down = <<>>)
        /\ tx' = "send"
        /\ UNCHANGED <<sb, down>>
     \/ /\ down # <<>>
        /\ sb' = Append(sb, Head(down)) /\ down' = Tail(down)
        /\ tx' \in {"read", "send"}
  /\ UNCHANGED <<main, rx, hook, rxInt, txInt, telnet, bt, up, phoneGone, emuGone,
                 readMessage, history>>

\* One character: the reader decodes QEMU's bytes as one stream, and what it
\* returns is encoded again as it was.  After it the five seconds may be over, newline or not; an
\* end of stream or an IOException (the receiver closed the socket) returns
\* what there is; a null reader throws what nobody catches.  Characters that
\* the reader has buffered are returned even from a closed socket.
receiveDataFromQemu ==
  /\ tx = "read"
  /\ \/ telnet = "null" /\ tx' = "dead" /\ UNCHANGED <<sb, down>>
     \/ /\ telnet = "closed" \/ (emuGone /\ down = <<>>)
        /\ tx' = "send"
        /\ UNCHANGED <<sb, down>>
     \/ /\ down # <<>>
        /\ sb' = Append(sb, Head(down)) /\ down' = Tail(down)
        /\ tx' \in IF Head(down) = NL THEN {"send"} ELSE {"read", "send"}
  /\ UNCHANGED <<main, rx, hook, rxInt, txInt, telnet, bt, up, phoneGone, emuGone,
                 readMessage, history>>

\* An IOException is caught and the message is lost; a null stream throws.
sendDataToBluetooth ==
  /\ tx = "send"
  /\ tx' = IF bt = "null" THEN "dead" ELSE "sleep"
  /\ delivered' = IF bt = "open" /\ ~phoneGone /\ sb # <<>> THEN Append(delivered, sb)
                  ELSE delivered
  /\ sb' = <<>>
  /\ UNCHANGED <<main, rx, hook, rxInt, txInt, streams, readMessage, phoneSent, emuSent, relayed>>

\* Thread.sleep(10) throws when the flag is or gets set.
transmitterSleep ==
  /\ tx = "sleep"
  /\ tx' = IF txInt THEN "dead" ELSE "test"
  /\ UNCHANGED <<main, rx, hook, rxInt, txInt, streams, readMessage, sb, history>>

Transmitter ==
  transmitterTest \/ receiveDataFromQemu \/ sendDataToBluetooth \/ transmitterSleep
-----------------------------------------------------------------------------
(* The end: Ctrl+C, or no thread but the hook left. *)
Alive(thread) == thread \notin {"new", "dead"}

\* The JVM runs the hook if it has been registered.
Shutdown ==
  /\ hook \in {"none", "registered"}
  /\ IF hook = "none" THEN jvm' = "ended" /\ UNCHANGED hook
     ELSE hook' = "interrupt_rx" /\ UNCHANGED jvm
  /\ UNCHANGED <<main, rx, tx, rxInt, txInt, streams, readMessage, sb, history>>

ThreadsEnd ==
  /\ main \in {"returned", "died"} /\ ~Alive(rx) /\ ~Alive(tx)
  /\ Shutdown

\* The body of the shutdown hook.
Hook ==
  /\ \/ /\ hook = "interrupt_rx" /\ hook' = "interrupt_tx"
        /\ rxInt' = Alive(rx) /\ UNCHANGED <<txInt, jvm>>
     \/ /\ hook = "interrupt_tx" /\ hook' = "join_rx"
        /\ txInt' = Alive(tx) /\ UNCHANGED <<rxInt, jvm>>
     \/ /\ hook = "join_rx" /\ rx = "dead" /\ hook' = "join_tx"
        /\ UNCHANGED <<rxInt, txInt, jvm>>
     \/ /\ hook = "join_tx" /\ tx = "dead"
        /\ hook' = "done" /\ jvm' = "ended" /\ UNCHANGED <<rxInt, txInt>>
  /\ UNCHANGED <<main, rx, tx, streams, readMessage, sb, history>>
-----------------------------------------------------------------------------
(* The peers. *)
PhoneSends(c) ==
  /\ bt = "open" /\ ~phoneGone /\ Len(phoneSent) < MaxUp
  /\ up' = Append(up, c) /\ phoneSent' = Append(phoneSent, c)
  /\ UNCHANGED <<threads, telnet, bt, phoneGone, down, emuGone, readMessage, sb,
                 emuSent, relayed, delivered>>

\* onPause closes the socket, or the radio link breaks and bytes are lost.
PhoneLeaves ==
  /\ bt = "open" /\ ~phoneGone
  /\ phoneGone' = TRUE /\ up' \in {up, <<>>}
  /\ UNCHANGED <<threads, telnet, bt, down, emuGone, readMessage, sb, history>>

EmuSends(c) ==
  /\ telnet = "open" /\ ~emuGone /\ Len(emuSent) < MaxDown
  /\ down' = Append(down, c) /\ emuSent' = Append(emuSent, c)
  /\ UNCHANGED <<threads, telnet, bt, up, phoneGone, emuGone, readMessage, sb,
                 phoneSent, relayed, delivered>>

EmuLeaves ==
  /\ telnet = "open" /\ ~emuGone
  /\ emuGone' = TRUE
  /\ UNCHANGED <<threads, telnet, bt, up, phoneGone, down, readMessage, sb, history>>

Peers ==
  /\ \/ \E c \in PhoneChars : PhoneSends(c)
     \/ \E c \in EmuChars : EmuSends(c)
     \/ PhoneLeaves
     \/ EmuLeaves
  /\ UNCHANGED jvm
-----------------------------------------------------------------------------
Main ==
  /\ newClientTelnet \/ newClientBluetooth \/ Start
  /\ UNCHANGED <<jvm, readMessage, sb, history>>

Init ==
  /\ jvm = "up" /\ main = "telnet" /\ rx = "new" /\ tx = "new" /\ hook = "none"
  /\ rxInt = FALSE /\ txInt = FALSE
  /\ telnet = "null" /\ bt = "null"
  /\ up = <<>> /\ phoneGone = FALSE /\ down = <<>> /\ emuGone = FALSE
  /\ readMessage = <<>> /\ sb = <<>>
  /\ phoneSent = <<>> /\ emuSent = <<>> /\ relayed = <<>> /\ delivered = <<>>

Next ==
  /\ jvm = "up"
  /\ \/ Main
     \/ Receiver /\ UNCHANGED jvm
     \/ Transmitter /\ UNCHANGED jvm
     \/ Shutdown
     \/ Hook
     \/ Peers

\* The JVM schedules every thread; acceptAndOpen and the peers may wait for
\* ever.
Fairness ==
  /\ WF_vars(jvm = "up" /\ Start /\ UNCHANGED <<jvm, readMessage, sb, history>>)
  /\ WF_vars(jvm = "up" /\ Receiver /\ UNCHANGED jvm)
  /\ WF_vars(jvm = "up" /\ Transmitter /\ UNCHANGED jvm)
  /\ WF_vars(jvm = "up" /\ Hook)
  /\ WF_vars(jvm = "up" /\ ThreadsEnd)

Spec == Init /\ [][Next]_vars /\ Fairness
-----------------------------------------------------------------------------
\* The text of a sequence of messages.  (It is FlattenSeq of SequencesExt,
\* given here by itself because the proofs unfold it and every definition in
\* sight slows the provers.)
Joined(messages) ==
  LET text[i \in 1..Len(messages)] ==
        IF i = 1 THEN messages[i] ELSE text[i - 1] \o messages[i]
  IN  IF messages = <<>> THEN <<>> ELSE text[Len(messages)]

\* A byte that arrived as it was sent, or, if it is part of a longer character,
\* as a replacement; a stream that arrived so far.
Same(c, sent) == c = sent \/ (c = Bad /\ sent \notin Ascii)
Carries(a, b) == Len(a) <= Len(b) /\ \A i \in 1..Len(a) : Same(a[i], b[i])

\* A println call's output without its separator.
Text(m) == SubSeq(m, 1, Len(m) - Len(Separator))
Texts(messages) == [i \in 1..Len(messages) |-> Text(messages[i])]

\* What the emulator receives is the phone's stream with one line separator
\* after each message and nowhere else, and no empty line.  Take the separators
\* out, and it is what the phone sent, in its order, nothing twice, ASCII
\* characters unchanged; while both peers are there, all of it is relayed, in
\* the receiver's hands or still to be read, however the stream is cut into
\* messages (receiveDataFromBluetooth, sendDataToQemu).
UpInOrder ==
  LET relay == Joined(Texts(relayed))
      all == relay \o readMessage \o up
  IN  /\ \A i \in 1..Len(relayed) :
           Text(relayed[i]) # <<>> /\ relayed[i] = Text(relayed[i]) \o Separator
      /\ Carries(relay, phoneSent)
      /\ telnet = "open" /\ ~emuGone /\ ~phoneGone
           => Carries(all, phoneSent) /\ Len(all) = Len(phoneSent)

\* The other direction (receiveDataFromQemu, sendDataToBluetooth): no write to
\* the phone spans two lines, and until the receiver closes the Bluetooth
\* socket under the transmitter or the phone leaves, no character is lost,
\* repeated or overtaken, whatever timeouts cut the lines.
DownInOrder ==
  /\ \A i \in 1..Len(delivered) : \A j \in 1..(Len(delivered[i]) - 1) : delivered[i][j] # NL
  /\ bt = "open" /\ ~phoneGone => Joined(delivered) \o sb \o down = emuSent

\* Both directions at once.
RelayExact == UpInOrder /\ DownInOrder

\* Once the hook waits for the threads, one more byte from the phone is enough
\* for the program to end: the receiver wakes up, sees its flag and closes the
\* sockets, which wakes the transmitter.  If instead the phone leaves, it takes
\* the emulator's hanging up as well.
ShutdownCompletes ==
  /\ hook = "join_rx" /\ bt = "open" /\ up # <<>> ~> jvm = "ended" \/ phoneGone
  /\ hook = "join_rx" /\ phoneGone /\ emuGone ~> jvm = "ended"
=============================================================================
