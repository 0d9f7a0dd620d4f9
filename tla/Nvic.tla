--------------------------------- MODULE Nvic ---------------------------------
(***************************************************************************)
(* The interrupt controller (hw/intc/arm_gic.c as revision NVIC, and        *)
(* hw/intc/armv7m_nvic.c) with the part of the CPU that enters and leaves   *)
(* exceptions (target-arm/helper.c, cpu-exec.c).  Interrupts carry their    *)
(* exception number: 15 is SysTick, 16 the first external one.  There is    *)
(* one CPU, and the controller is always enabled.                           *)
(***************************************************************************)
EXTENDS Integers, Sequences

CONSTANTS
  Internal,   \* edge-triggered system exceptions, always enabled
  External,   \* level-triggered interrupts of the devices
  Uarts,      \* those of the UARTs, whose reset lowers the line
  Priorities, \* values the guest writes to the priority registers
  StirValues  \* values it writes to the software trigger register

ASSUME NvicAssumption ==
  /\ Internal \subseteq 1..15
  /\ External \subseteq 16..79 /\ Uarts \subseteq External
  /\ Priorities \subseteq 0..255
  /\ StirValues \subseteq 0..63

All == Internal \cup External
None == 1023

VARIABLES
  level, enabled, pending,    \* irq_state, as sets of interrupts
  prio,                       \* priority1, priority2
  last_active,                \* what each active interrupt preempted
  running_irq, running_priority,
  current_pending,            \* the best pending interrupt, or None
  parent_irq,                 \* the CPU's interrupt line
  exception,                  \* env->v7m.exception, 0 in thread mode
  magic,                      \* the program counter holds a return code
  frames,                     \* stacked <<exception, magic>>, oldest first
  primask,
  fault                       \* hw_error("Interrupt but no vector")

gicVars == <<level, enabled, pending, prio, last_active, running_irq,
             running_priority, current_pending, parent_irq>>
cpuVars == <<exception, magic, frames, primask, fault>>
vars == <<level, enabled, pending, prio, last_active, running_irq,
          running_priority, current_pending, parent_irq,
          exception, magic, frames, primask, fault>>

\* Exceptions between entry and return.
Active == ({exception} \cup {frames[k][1] : k \in 1..Len(frames)}) \ {0}

\* The search of gic_update takes the lower number among equal priorities.
Before(p, i, j) == p[i] < p[j] \/ (p[i] = p[j] /\ i <= j)
Best(en, pe, p, i) == i \in en \cap pe /\ \A j \in en \cap pe : Before(p, i, j)
-----------------------------------------------------------------------------
\* Mutant: an interrupt of the running one's priority gets through.
gic_updateLax ==
  \/ /\ enabled' \cap pending' = {}
     /\ current_pending' = None
     /\ parent_irq' = 0
  \/ \E i \in enabled' \cap pending' :
       /\ Best(enabled', pending', prio', i)
       /\ current_pending' = i
       /\ parent_irq' = IF prio'[i] <= running_priority' THEN 1 ELSE 0

\* gic_update, run at the end of every step that changes what it looks at.
gic_update ==
  \/ /\ enabled' \cap pending' = {}
     /\ current_pending' = None
     /\ parent_irq' = 0
  \/ \E i \in enabled' \cap pending' :
       /\ Best(enabled', pending', prio', i)
       /\ current_pending' = i
       /\ parent_irq' = IF prio'[i] < running_priority' THEN 1 ELSE 0

\* Mutant: a completed interrupt leaves its priority behind.
set_running_irqKeeps(irq) ==
  /\ running_irq' = irq
  /\ running_priority' = IF irq = None THEN running_priority ELSE prio[irq]
  /\ gic_update

gic_set_running_irq(irq) ==
  /\ running_irq' = irq
  /\ running_priority' = IF irq = None THEN 256 ELSE prio[irq]
  /\ gic_update
-----------------------------------------------------------------------------
(***************************************************************************)
(* Devices and guest.                                                       *)
(***************************************************************************)
Unmoved == UNCHANGED <<last_active, running_irq, running_priority,
                       exception, magic, frames, primask, fault>>

\* A device drives its line.  Only an enabled interrupt becomes pending, and
\* a falling line leaves it so.
gic_set_irq(irq, value) ==
  /\ ~fault
  /\ (value = 1) # (irq \in level)
  /\ level' = IF value = 1 THEN level \cup {irq} ELSE level \ {irq}
  /\ pending' = IF value = 1 THEN pending \cup ({irq} \cap enabled) ELSE pending
  /\ UNCHANGED <<enabled, prio>>
  /\ Unmoved
  /\ gic_update

\* Mutant: enabling does not look at the lines that are already raised.
SetEnableForgets(S) ==
  /\ ~fault
  /\ enabled' = enabled \cup S
  /\ UNCHANGED <<level, pending, prio>>
  /\ Unmoved
  /\ gic_update

\* gic_dist_writeb: set and clear enable, set and clear pending, priority.
SetEnable(S) ==
  /\ ~fault
  /\ enabled' = enabled \cup S
  /\ pending' = pending \cup (S \cap level)
  /\ UNCHANGED <<level, prio>>
  /\ Unmoved
  /\ gic_update

ClearEnable(S) ==
  /\ ~fault
  /\ enabled' = enabled \ S
  /\ UNCHANGED <<level, pending, prio>>
  /\ Unmoved
  /\ gic_update

SetPending(S) ==
  /\ ~fault
  /\ pending' = pending \cup S
  /\ UNCHANGED <<level, enabled, prio>>
  /\ Unmoved
  /\ gic_update

\* Mutant: the clear-pending register does not run gic_update.
ClearPendingStale(S) ==
  /\ ~fault
  /\ pending' = pending \ S
  /\ UNCHANGED <<level, enabled, prio, current_pending, parent_irq>>
  /\ Unmoved

\* Also the two bits of nvic_writel (0xd04) that clear PendSV and SysTick.
ClearPending(S) ==
  /\ ~fault
  /\ pending' = pending \ S
  /\ UNCHANGED <<level, enabled, prio>>
  /\ Unmoved
  /\ gic_update

SetPriority(irq, value) ==
  /\ ~fault
  /\ prio' = [prio EXCEPT ![irq] = value]
  /\ UNCHANGED <<level, enabled, pending>>
  /\ Unmoved
  /\ gic_update

\* gic_set_pending_private, behind armv7m_nvic_set_pending: SysTick's timer,
\* PendSV, SVC.
gic_set_pending_private(irq) ==
  /\ ~fault
  /\ IF irq \in pending
     THEN UNCHANGED <<gicVars, cpuVars>>
     ELSE /\ pending' = pending \cup {irq}
          /\ UNCHANGED <<level, enabled, prio>>
          /\ Unmoved
          /\ gic_update

\* nvic_writel (0xf00) hands the number on as it is, and the GIC counts the
\* external interrupts from 32.
StirTarget(value) == IF value < 32 THEN value ELSE value - 16
WriteSTIR(value) ==
  /\ StirTarget(value) \in All
  /\ gic_set_pending_private(StirTarget(value))

WritePRIMASK(value) ==
  /\ ~fault
  /\ primask' = value
  /\ UNCHANGED <<gicVars, exception, magic, frames, fault>>
-----------------------------------------------------------------------------
(***************************************************************************)
(* The CPU.                                                                 *)
(***************************************************************************)
\* cpu_exec: the line is looked at between translation blocks.
Interruptible == parent_irq = 1 /\ (~magic \/ ~primask)

\* The controller's side of taking an interrupt.
gic_acknowledge_irq(irq) ==
  /\ last_active' = [last_active EXCEPT ![irq] = running_irq]
  /\ pending' = pending \ {irq}
  /\ UNCHANGED <<level, enabled, prio>>
  /\ gic_set_running_irq(irq)

\* arm_v7m_cpu_do_interrupt with EXCP_IRQ.
TakeInterrupt ==
  LET irq == current_pending IN
  /\ ~fault
  /\ Interruptible
  /\ IF irq = None \/ prio[irq] >= running_priority
     THEN fault' = TRUE /\ UNCHANGED <<gicVars, exception, magic, frames>>
     ELSE /\ gic_acknowledge_irq(irq)
          /\ frames' = Append(frames, <<exception, magic>>)
          /\ exception' = irq
          /\ magic' = FALSE
          /\ UNCHANGED fault
  /\ UNCHANGED primask

\* A handler returns: the program counter gets the return code from LR.
Return ==
  /\ ~fault
  /\ exception # 0 /\ ~magic
  /\ magic' = TRUE
  /\ UNCHANGED <<gicVars, exception, frames, primask, fault>>

\* Mutant: an interrupt whose line is still raised is not taken up again.
complete_irqDrops(irq) ==
  /\ UNCHANGED <<level, enabled, pending, prio, last_active>>
  /\ gic_set_running_irq(last_active[running_irq])

\* The interrupt completed is the running one (NestingMatches), so the branch
\* for another one is not needed.
gic_complete_irq(irq) ==
  /\ pending' = pending \cup ({irq} \cap External \cap enabled \cap level)
  /\ UNCHANGED <<level, enabled, prio, last_active>>
  /\ gic_set_running_irq(last_active[running_irq])

do_v7m_exception_exit ==
  /\ ~fault /\ magic
  /\ gic_complete_irq(exception)
  /\ exception' = frames[Len(frames)][1]
  /\ magic' = frames[Len(frames)][2]
  /\ frames' = SubSeq(frames, 1, Len(frames) - 1)
  /\ UNCHANGED <<primask, fault>>

\* A UART that is reset lowers its line, and gic_update finds what it found
\* before: a falling line takes nothing back.
RaisedByUartReset ==
  /\ level \cap Uarts # {}
  /\ \E irq \in enabled \cap pending : prio[irq] < running_priority

\* Machine reset: the CPU first (cpu_common_reset drops its line), then the
\* devices, and the controller as the last of them.  It forgets the pending
\* interrupts and leaves the line as the UARTs left it; the priorities survive.
qemu_devices_reset ==
  /\ ~fault
  /\ level' = {} /\ pending' = {} /\ enabled' = Internal
  /\ running_irq' = None /\ running_priority' = 256
  /\ current_pending' = None
  /\ parent_irq' = IF RaisedByUartReset THEN 1 ELSE 0
  /\ exception' = 0 /\ magic' = FALSE /\ frames' = <<>> /\ primask' = FALSE
  /\ UNCHANGED <<prio, last_active, fault>>

Init ==
  /\ level = {} /\ pending = {} /\ enabled = Internal
  /\ prio = [irq \in All |-> 0]
  /\ last_active = [irq \in All |-> 0]
  /\ running_irq = None /\ running_priority = 256
  /\ current_pending = None /\ parent_irq = 0
  /\ exception = 0 /\ magic = FALSE /\ frames = <<>> /\ primask = FALSE
  /\ fault = FALSE

\* A guest sets the priorities of interrupts that are not active: the nesting
\* of the others was decided with the old ones.
Next ==
  \/ \E irq \in External, value \in {0, 1} : gic_set_irq(irq, value)
  \/ \E irq \in External :
       SetEnable({irq}) \/ ClearEnable({irq}) \/ SetPending({irq})
  \/ \E irq \in All : ClearPending({irq})
  \/ \E irq \in All \ Active, value \in Priorities : SetPriority(irq, value)
  \/ \E irq \in Internal : gic_set_pending_private(irq)
  \/ \E value \in StirValues : WriteSTIR(value)
  \/ \E value \in BOOLEAN : WritePRIMASK(value)
  \/ TakeInterrupt
  \/ Return
  \/ do_v7m_exception_exit
  \/ qemu_devices_reset

Spec == Init /\ [][Next]_vars
-----------------------------------------------------------------------------
\* Registers hold known interrupts and eight-bit priorities.
TypeOK ==
  /\ level \subseteq External /\ enabled \subseteq All /\ pending \subseteq All
  /\ prio \in [All -> 0..255]
  /\ last_active \in [All -> All \cup {None, 0}]
  /\ running_irq \in All \cup {None} /\ running_priority \in 0..256
  /\ current_pending \in All \cup {None} /\ parent_irq \in {0, 1}
  /\ exception \in All \cup {0} /\ magic \in BOOLEAN
  /\ frames \in Seq((All \cup {0}) \X BOOLEAN)
  /\ primask \in BOOLEAN /\ fault \in BOOLEAN

\* The line is up and the controller has nothing for the CPU, which would stop
\* with "Interrupt but no vector" (armv7m_nvic_acknowledge_irq).
Vectorless ==
  parent_irq = 1 /\ (current_pending = None \/ prio[current_pending] >= running_priority)

\* Between the update that raised the line and the moment the CPU looks at it,
\* others may clear, disable or outrank the interrupt, and none of them leaves
\* the CPU with a line that nothing stands behind.  Only a machine reset does,
\* one that comes before a waiting interrupt was taken, and the emulator stops
\* only in the state it left.
OnlyResetStrands ==
  [][/\ Vectorless' => Vectorless \/ (qemu_devices_reset /\ parent_irq = 1)
     /\ fault' => fault \/ Vectorless]_vars

\* What exception k of the nesting is, 1 being thread mode.
Level(k) == IF k = Len(frames) + 1 THEN exception ELSE frames[k][1]

\* Two independent records of the nesting agree: the frames the CPU stacked
\* in guest memory and the controller's last_active chain.  Each exception
\* outranks all it is nested in, so none is active twice, and an exception
\* return always completes the interrupt the controller runs.
NestingMatches ==
  /\ Level(1) = 0
  /\ running_irq = IF exception = 0 THEN None ELSE exception
  /\ running_priority = IF exception = 0 THEN 256 ELSE prio[exception]
  /\ magic => exception # 0
  /\ \A k \in 1..Len(frames) :
       /\ Level(k + 1) # 0
       /\ last_active[Level(k + 1)] = IF k = 1 THEN None ELSE Level(k)
       /\ \A j \in 2..k : prio[Level(k + 1)] < prio[Level(j)]
       /\ frames[k][2] => Level(k) # 0

\* The interrupt taken is the best of those enabled and pending at the moment
\* it is taken, whatever happened since the line was raised, and it outranks
\* what it interrupts.
BestIsTaken ==
  [][Len(frames') > Len(frames) =>
       /\ Best(enabled, pending, prio, exception')
       /\ exception # 0 => prio[exception'] < prio[exception]]_vars

\* Raised, enabled interrupts the CPU will not hear of.
Forgotten == (level \cap enabled) \ (pending \cup Active)

\* A level-triggered interrupt is forgotten only if the guest clears its
\* pending bit while the line is raised: neither masking it, nor nesting, nor
\* completing it while the device still asserts the line loses it.
OnlyClearForgets ==
  [][Forgotten' \subseteq Forgotten \/ \E irq \in All : ClearPending({irq})]_vars

\* __disable_irq, "global Interrupt disable" (core_cm3.h), sets PRIMASK: no
\* interrupt is taken while it is set.
MaskedNotTaken == [][primask => Len(frames') <= Len(frames)]_vars
=============================================================================
