------------------------------ MODULE EdgeLatch ------------------------------
(***************************************************************************)
(* What the guest may rely on when it routes pins to interrupt lines: a     *)
(* line latches the edges of the one pin it is routed to, and never those   *)
(* of a pin it was not routed to since power-on.  Machine resets blur this  *)
(* a little: after one, a line may also hear pins it was routed to before.  *)
(***************************************************************************)
EXTENDS Integers

CONSTANTS PortIds, ExtiLines

VARIABLES
  pins,       \* the <<port, line>> whose pin is high
  sel,        \* the port each line is routed to
  ever,       \* the ports each line was routed to since power-on
  fresh,      \* no machine reset since power-on
  unmasked, rising, falling,   \* the lines the guest listens to, and how
  latched     \* lines with a latched edge

latchVars == <<pins, sel, ever, fresh, unmasked, rising, falling, latched>>

Init ==
  /\ pins = {}
  /\ sel = [line \in ExtiLines |-> 0]
  /\ ever = [line \in ExtiLines |-> {0}]
  /\ fresh = TRUE
  /\ unmasked = {} /\ rising = {} /\ falling = {} /\ latched = {}

MustHear(port, line) == port = sel[line]
MayHear(port, line) == port = sel[line] \/ (~fresh /\ port \in ever[line])

Hear(line, armed) == latched' = latched \cup ({line} \cap armed \cap unmasked)

Edge(port, line) ==
  /\ \/ /\ <<port, line>> \notin pins
        /\ pins' = pins \cup {<<port, line>>}
        /\ \/ MayHear(port, line) /\ Hear(line, rising)
           \/ ~MustHear(port, line) /\ latched' = latched
     \/ /\ <<port, line>> \in pins
        /\ pins' = pins \ {<<port, line>>}
        /\ \/ MayHear(port, line) /\ Hear(line, falling)
           \/ ~MustHear(port, line) /\ latched' = latched
  /\ UNCHANGED <<sel, ever, fresh, unmasked, rising, falling>>

Route(new) ==
  /\ sel' = new
  /\ ever' = [line \in ExtiLines |-> ever[line] \cup {new[line]}]
  /\ UNCHANGED <<pins, fresh, unmasked, rising, falling, latched>>

Mask(new) ==
  /\ unmasked' = new
  /\ UNCHANGED <<pins, sel, ever, fresh, rising, falling, latched>>

\* Choosing other edges drops what a line has latched.
Listen(newRising, newFalling) ==
  /\ rising' = newRising /\ falling' = newFalling
  /\ latched' = {line \in latched : /\ line \in rising <=> line \in newRising
                                    /\ line \in falling <=> line \in newFalling}
  /\ UNCHANGED <<pins, sel, ever, fresh, unmasked>>

\* The guest triggers lines itself.
Trigger(lines) ==
  /\ latched' = latched \cup (lines \cap unmasked)
  /\ UNCHANGED <<pins, sel, ever, fresh, unmasked, rising, falling>>

Acknowledge(lines) ==
  /\ latched' = latched \ lines
  /\ UNCHANGED <<pins, sel, ever, fresh, unmasked, rising, falling>>

Reset ==
  /\ sel' = [line \in ExtiLines |-> 0]
  /\ ever' = [line \in ExtiLines |-> ever[line] \cup {0}]
  /\ fresh' = FALSE
  /\ unmasked' = {} /\ rising' = {} /\ falling' = {} /\ latched' = {}
  /\ UNCHANGED pins

Next ==
  \/ \E port \in PortIds, line \in ExtiLines : Edge(port, line)
  \/ \E new \in [ExtiLines -> PortIds] : Route(new)
  \/ \E lines \in SUBSET ExtiLines :
       Mask(lines) \/ Trigger(lines) \/ Acknowledge(lines)
         \/ Listen(lines, falling) \/ Listen(rising, lines)
  \/ Reset

Spec == Init /\ [][Next]_latchVars
=============================================================================
