------------------------------ MODULE NvicProofs ------------------------------
(***************************************************************************)
(* Proofs about Nvic, for every set of interrupts and priorities.  The      *)
(* inductive invariant adds to the properties that the CPU's line is what   *)
(* gic_update would make it (LineUp): every action either recomputes it or  *)
(* changes nothing it depends on.  Only a machine reset can leave it        *)
(* otherwise (Stranded), until something runs gic_update again.             *)
(***************************************************************************)
EXTENDS Nvic, TLAPS

LineUp ==
  \/ enabled \cap pending = {} /\ current_pending = None /\ parent_irq = 0
  \/ \E i \in enabled \cap pending :
       /\ Best(enabled, pending, prio, i)
       /\ current_pending = i
       /\ parent_irq = IF prio[i] < running_priority THEN 1 ELSE 0

Stranded == enabled \cap pending = {} /\ current_pending = None /\ parent_irq = 1

LineOk == LineUp \/ Stranded

IInv == TypeOK /\ NestingMatches /\ LineOk

nestVars == <<prio, last_active, running_irq, running_priority,
              exception, magic, frames>>

\* Exception numbers are natural; 0 and 1023 are none of them.
LEMMA Numbers == None \notin All /\ 0 \notin All /\ All \subseteq Nat
BY NvicAssumption DEF NvicAssumption, All, None

\* gic_update establishes LineUp, and with it the types of what it writes.
LEMMA Updated ==
  ASSUME gic_update, enabled' \subseteq All
  PROVE  /\ LineOk'
         /\ current_pending' \in All \cup {None} /\ parent_irq' \in {0, 1}
<1>1. LineOk'
  BY DEF gic_update, LineUp, LineOk
<1>2. current_pending' \in All \cup {None}
  BY DEF gic_update
<1>3. parent_irq' \in {0, 1}
  BY DEF gic_update
<1> QED BY <1>1, <1>2, <1>3

\* A step that leaves the nesting alone keeps what is said of it.
LEMMA StillNested == NestingMatches /\ UNCHANGED nestVars => NestingMatches'
BY DEF NestingMatches, nestVars, Level

\* Steps of devices and guest: only level, enabled and pending change.
LEMMA Registers ==
  ASSUME IInv, Unmoved, prio' = prio, gic_update,
         level' \subseteq External, enabled' \subseteq All, pending' \subseteq All
  PROVE  IInv'
<1>1. /\ last_active' = last_active /\ running_irq' = running_irq
      /\ running_priority' = running_priority /\ exception' = exception
      /\ magic' = magic /\ frames' = frames /\ primask' = primask /\ fault' = fault
  BY DEF Unmoved
<1>2. TypeOK /\ NestingMatches
  BY DEF IInv
<1>3. NestingMatches'
  BY <1>1, <1>2, StillNested DEF nestVars
<1>4. /\ LineOk'
      /\ current_pending' \in All \cup {None} /\ parent_irq' \in {0, 1}
  BY Updated
<1>5. TypeOK'
  BY <1>1, <1>2, <1>4, Zenon DEF TypeOK
<1> QED BY <1>1, <1>2, <1>3, <1>4, <1>5, Zenon DEF IInv

\* Steps that leave the controller and the nesting alone.
LEMMA Untouched ==
  ASSUME IInv, UNCHANGED gicVars, exception' = exception, frames' = frames,
         magic' \in BOOLEAN, magic' => exception # 0,
         primask' \in BOOLEAN, fault' \in BOOLEAN
  PROVE  IInv'
<1>1. /\ level' = level /\ enabled' = enabled /\ pending' = pending /\ prio' = prio
      /\ last_active' = last_active /\ running_irq' = running_irq
      /\ running_priority' = running_priority
      /\ current_pending' = current_pending /\ parent_irq' = parent_irq
  BY DEF gicVars
<1>2. TypeOK /\ NestingMatches /\ LineOk
  BY DEF IInv
<1>3. NestingMatches'
  BY <1>1, <1>2 DEF NestingMatches, Level
<1>4. LineOk'
  BY <1>1, <1>2 DEF LineOk, LineUp, Stranded
<1>5. TypeOK'
  BY <1>1, <1>2, Zenon DEF TypeOK
<1> QED BY <1>2, <1>3, <1>4, <1>5, Zenon DEF IInv

\* Lines and register writes that only end with gic_update keep the invariant.
LEMMA GuestSteps ==
  ASSUME IInv,
         \/ \E irq \in External, value \in {0, 1} : gic_set_irq(irq, value)
         \/ \E irq \in External :
              SetEnable({irq}) \/ ClearEnable({irq}) \/ SetPending({irq})
         \/ \E irq \in All : ClearPending({irq})
  PROVE  IInv'
<1>1. /\ level \subseteq External /\ enabled \subseteq All /\ pending \subseteq All
      /\ External \subseteq All
  BY DEF IInv, TypeOK, All
<1>2. ASSUME NEW irq \in External, NEW value \in {0, 1}, gic_set_irq(irq, value)
      PROVE  IInv'
  <2>1. /\ Unmoved /\ gic_update /\ prio' = prio /\ enabled' = enabled
        /\ level' = IF value = 1 THEN level \cup {irq} ELSE level \ {irq}
        /\ pending' = IF value = 1 THEN pending \cup ({irq} \cap enabled) ELSE pending
    BY <1>2 DEF gic_set_irq
  <2>2. level' \subseteq External /\ enabled' \subseteq All /\ pending' \subseteq All
    BY <1>1, <2>1
  <2> QED BY <2>1, <2>2, Registers
<1>3. ASSUME NEW irq \in External, SetEnable({irq})
      PROVE  IInv'
  <2>1. /\ Unmoved /\ gic_update /\ prio' = prio /\ level' = level
        /\ enabled' = enabled \cup {irq} /\ pending' = pending \cup ({irq} \cap level)
    BY <1>3 DEF SetEnable
  <2>2. level' \subseteq External /\ enabled' \subseteq All /\ pending' \subseteq All
    BY <1>1, <2>1
  <2> QED BY <2>1, <2>2, Registers
<1>4. ASSUME NEW irq \in External, ClearEnable({irq})
      PROVE  IInv'
  <2>1. /\ Unmoved /\ gic_update /\ prio' = prio /\ level' = level
        /\ enabled' = enabled \ {irq} /\ pending' = pending
    BY <1>4 DEF ClearEnable
  <2>2. level' \subseteq External /\ enabled' \subseteq All /\ pending' \subseteq All
    BY <1>1, <2>1
  <2> QED BY <2>1, <2>2, Registers
<1>5. ASSUME NEW irq \in External, SetPending({irq})
      PROVE  IInv'
  <2>1. /\ Unmoved /\ gic_update /\ prio' = prio /\ level' = level
        /\ enabled' = enabled /\ pending' = pending \cup {irq}
    BY <1>5 DEF SetPending
  <2>2. level' \subseteq External /\ enabled' \subseteq All /\ pending' \subseteq All
    BY <1>1, <2>1
  <2> QED BY <2>1, <2>2, Registers
<1>6. ASSUME NEW irq \in All, ClearPending({irq})
      PROVE  IInv'
  <2>1. /\ Unmoved /\ gic_update /\ prio' = prio /\ level' = level
        /\ enabled' = enabled /\ pending' = pending \ {irq}
    BY <1>6 DEF ClearPending
  <2>2. level' \subseteq External /\ enabled' \subseteq All /\ pending' \subseteq All
    BY <1>1, <2>1
  <2> QED BY <2>1, <2>2, Registers
<1> QED BY <1>2, <1>3, <1>4, <1>5, <1>6, Zenon

\* A device or the firmware makes an interrupt pending.
LEMMA PendStep ==
  ASSUME IInv, NEW irq \in All, gic_set_pending_private(irq)
  PROVE  IInv'
<1>1. CASE irq \in pending
  <2>1. UNCHANGED <<gicVars, cpuVars>>
    BY <1>1 DEF gic_set_pending_private
  <2>2. /\ UNCHANGED gicVars /\ exception' = exception /\ frames' = frames
        /\ magic' = magic /\ primask' = primask /\ fault' = fault
    BY <2>1 DEF cpuVars
  <2>3. magic \in BOOLEAN /\ primask \in BOOLEAN /\ fault \in BOOLEAN /\ (magic => exception # 0)
    BY DEF IInv, TypeOK, NestingMatches
  <2> QED BY <2>2, <2>3, Untouched, Zenon
<1>2. CASE irq \notin pending
  <2>1. /\ Unmoved /\ gic_update /\ prio' = prio /\ level' = level
        /\ enabled' = enabled /\ pending' = pending \cup {irq}
    BY <1>2 DEF gic_set_pending_private
  <2>2. level' \subseteq External /\ enabled' \subseteq All /\ pending' \subseteq All
    BY <2>1 DEF IInv, TypeOK
  <2> QED BY <2>1, <2>2, Registers
<1> QED BY <1>1, <1>2

\* The exceptions of the nesting, thread mode aside, are active.
LEMMA NestedActive ==
  ASSUME IInv, NEW k \in 2..(Len(frames) + 1)
  PROVE  Level(k) \in Active /\ Level(k) \in All
<1>1. /\ frames \in Seq((All \cup {0}) \X BOOLEAN) /\ exception \in All \cup {0}
      /\ \A j \in 1..Len(frames) : Level(j + 1) # 0
  BY DEF IInv, TypeOK, NestingMatches
<1>2. Len(frames) \in Nat
  BY <1>1
<1>3. Level(k) # 0
  <2>1. PICK j \in 1..Len(frames) : j + 1 = k
    <3>1. k - 1 \in 1..Len(frames) /\ (k - 1) + 1 = k
      BY <1>2
    <3> QED BY <3>1
  <2>2. Level(j + 1) # 0
    BY <1>1
  <2> QED BY <2>1, <2>2, Zenon
<1>4. CASE k = Len(frames) + 1
  BY <1>1, <1>3, <1>4 DEF Level, Active
<1>5. CASE k \in 1..Len(frames)
  <2>1. Level(k) = frames[k][1]
    BY <1>2, <1>5 DEF Level
  <2>2. frames[k] \in (All \cup {0}) \X BOOLEAN
    BY <1>1, <1>5
  <2> QED BY <1>3, <1>5, <2>1, <2>2 DEF Active
<1> QED BY <1>2, <1>4, <1>5

\* gic_set_priority of an interrupt that is not active.
LEMMA PriorityStep ==
  ASSUME IInv, NEW irq \in All \ Active, NEW value \in Priorities, SetPriority(irq, value)
  PROVE  IInv'
<1>1. TypeOK /\ NestingMatches
  BY DEF IInv
<1>2. /\ Unmoved /\ gic_update /\ irq \notin Active
      /\ prio' = [prio EXCEPT ![irq] = value]
      /\ level' = level /\ enabled' = enabled /\ pending' = pending
  BY DEF SetPriority
<1>3. /\ last_active' = last_active /\ running_irq' = running_irq
      /\ running_priority' = running_priority /\ exception' = exception
      /\ magic' = magic /\ frames' = frames /\ primask' = primask /\ fault' = fault
  BY <1>2 DEF Unmoved
<1>4. prio \in [All -> 0..255] /\ value \in 0..255 /\ Len(frames) \in Nat
  BY <1>1, NvicAssumption, SMTT(60) DEF TypeOK, NvicAssumption
<1>5. \A k \in 2..(Len(frames) + 1) : prio'[Level(k)] = prio[Level(k)]
  BY <1>2, <1>4, NestedActive
<1>6. exception # 0 => prio'[exception] = prio[exception]
  <2>1. exception # 0 => exception \in Active /\ exception \in All
    BY <1>1 DEF Active, TypeOK
  <2> QED BY <1>2, <1>4, <2>1
<1>7. NestingMatches'
  <2>1. \A k : Level(k)' = Level(k)
    BY <1>3 DEF Level
  <2>2. \A k \in 1..Len(frames) : k + 1 \in 2..(Len(frames) + 1)
    BY <1>4
  <2>3. \A k \in 1..Len(frames) : \A j \in 2..k : j \in 2..(Len(frames) + 1)
    BY <1>4
  <2> QED BY <1>1, <1>3, <1>5, <1>6, <2>1, <2>2, <2>3, Zenon DEF NestingMatches
<1>8. /\ LineOk'
      /\ current_pending' \in All \cup {None} /\ parent_irq' \in {0, 1}
  <2>1. enabled' \subseteq All
    BY <1>1, <1>2 DEF TypeOK
  <2> QED BY <1>2, <2>1, Updated
<1>9. prio' \in [All -> 0..255]
  BY <1>2, <1>4, Zenon
<1>10. TypeOK'
  BY <1>1, <1>2, <1>3, <1>8, <1>9, Zenon DEF TypeOK
<1> QED BY <1>1, <1>3, <1>7, <1>8, <1>10, Zenon DEF IInv

\* What BestIsTaken says of one step.
BestTaken ==
  /\ Best(enabled, pending, prio, exception')
  /\ exception # 0 => prio[exception'] < prio[exception]

\* Taking an interrupt pushes one frame; the interrupt outranks everything
\* below it, so overwriting its last_active breaks no link of the chain.
LEMMA TakeStep ==
  ASSUME IInv, TakeInterrupt
  PROVE  IInv' /\ (frames' # frames => BestTaken)
<1>0. CASE Stranded
  <2>1. UNCHANGED gicVars /\ exception' = exception /\ frames' = frames /\ magic' = magic
        /\ primask' = primask /\ fault' = TRUE
    BY <1>0, Zenon DEF TakeInterrupt, Stranded
  <2>2. magic \in BOOLEAN /\ primask \in BOOLEAN /\ (magic => exception # 0)
    BY DEF IInv, TypeOK, NestingMatches
  <2> QED BY <2>1, <2>2, Untouched, Zenon
<1>l. SUFFICES ASSUME LineUp
               PROVE  IInv' /\ BestTaken
  BY <1>0, Zenon DEF IInv, LineOk
<1>1. TypeOK /\ NestingMatches /\ LineOk
  BY DEF IInv
<1>2. /\ parent_irq = 1 /\ primask' = primask
  BY DEF TakeInterrupt, Interruptible
<1>3. PICK irq \in enabled \cap pending :
        /\ Best(enabled, pending, prio, irq)
        /\ current_pending = irq
        /\ prio[irq] < running_priority
  BY <1>l, <1>2 DEF LineUp
<1>4. irq \in All /\ irq # None /\ irq # 0
  BY <1>1, <1>3, Numbers DEF TypeOK
<1>5. frames \in Seq((All \cup {0}) \X BOOLEAN)
  BY <1>1 DEF TypeOK
<1>6. PICK n \in Nat : n = Len(frames)
  BY <1>5
<1>7. /\ prio \in [All -> 0..255] /\ running_priority \in 0..256
      /\ prio[irq] \in 0..255
  <2>1. prio \in [All -> 0..255] /\ running_priority \in 0..256
    BY <1>1, Zenon DEF TypeOK
  <2> QED BY <1>4, <2>1
<1>8. /\ last_active' = [last_active EXCEPT ![irq] = running_irq]
      /\ pending' = pending \ {irq} /\ level' = level /\ enabled' = enabled
      /\ prio' = prio /\ gic_set_running_irq(irq)
      /\ frames' = Append(frames, <<exception, magic>>)
      /\ exception' = irq /\ magic' = FALSE /\ fault' = fault
  <2>1. ~(prio[irq] >= running_priority)
    BY <1>3, <1>7
  <2> QED BY <1>3, <1>4, <2>1, Zenon DEF TakeInterrupt, gic_acknowledge_irq
<1>9. running_irq' = irq /\ running_priority' = prio[irq] /\ gic_update
  BY <1>4, <1>8 DEF gic_set_running_irq
<1>10. exception # 0 => prio[irq] < prio[exception]
  BY <1>1, <1>3 DEF NestingMatches
<1>11. /\ Len(frames') = n + 1
       /\ frames'[n + 1] = <<exception, magic>>
       /\ \A k \in 1..n : frames'[k] = frames[k]
       /\ frames' \in Seq((All \cup {0}) \X BOOLEAN)
  BY <1>1, <1>5, <1>6, <1>8 DEF TypeOK
<1>12. \A k \in 1..(n + 1) : Level(k)' = Level(k)
  <2> TAKE k \in 1..(n + 1)
  <2>1. CASE k = n + 1
    BY <1>6, <1>11, <2>1 DEF Level
  <2>2. CASE k \in 1..n
    BY <1>6, <1>11, <2>2 DEF Level
  <2> QED BY <2>1, <2>2
<1>13. Level(n + 2)' = irq
  <2>1. n + 2 = Len(frames') + 1
    BY <1>11
  <2> QED BY <1>8, <2>1 DEF Level
<1>14. \A k \in 2..(n + 1) : Level(k) \in All /\ Level(k) # irq /\ prio[irq] < prio[Level(k)]
  <2> TAKE k \in 2..(n + 1)
  <2>1. Level(k) \in All
    BY <1>6, NestedActive
  <2>2. prio[irq] < prio[Level(k)]
    <3>1. Level(n + 1) = exception
      BY <1>6 DEF Level
    <3>2. n \in 1..n /\ n + 1 \in 2..(n + 1)
      OBVIOUS
    <3>3. exception \in All /\ exception # 0
      BY <1>6, <3>1, <3>2, NestedActive, Numbers
    <3>4. prio[irq] < prio[exception]
      BY <1>10, <3>3
    <3>5. CASE k = n + 1
      BY <3>1, <3>4, <3>5
    <3>6. CASE k \in 2..n
      <4>1. prio[Level(n + 1)] < prio[Level(k)]
        BY <1>1, <1>6, <3>2, <3>6 DEF NestingMatches
      <4>2. prio[exception] \in 0..255 /\ prio[Level(k)] \in 0..255
        BY <1>7, <2>1, <3>3
      <4>3. \A a, b, c \in 0..255 : a < b /\ b < c => a < c
        OBVIOUS
      <4>4. prio[exception] < prio[Level(k)] /\ prio[irq] \in 0..255
        BY <1>7, <3>1, <4>1
      <4> QED BY <3>4, <4>2, <4>3, <4>4, ZenonT(60)
    <3> QED BY <3>5, <3>6
  <2>3. Level(k) # irq
    <3>1. prio[Level(k)] \in 0..255
      BY <1>7, <2>1
    <3>2. \A a \in 0..255 : ~(a < a)
      OBVIOUS
    <3> QED BY <2>2, <3>1, <3>2, Zenon
  <2> QED BY <2>1, <2>2, <2>3
<1>15. NestingMatches'
  <2>1. Level(1)' = 0
    <3>1. 1 \in 1..(n + 1)
      OBVIOUS
    <3> QED BY <1>1, <1>12, <3>1 DEF NestingMatches
  <2>2. /\ running_irq' = IF exception' = 0 THEN None ELSE exception'
        /\ running_priority' = IF exception' = 0 THEN 256 ELSE prio'[exception']
        /\ magic' => exception' # 0
    BY <1>4, <1>8, <1>9
  <2>3. ASSUME NEW k \in 1..Len(frames')
        PROVE  /\ Level(k + 1)' # 0
               /\ last_active'[Level(k + 1)'] = IF k = 1 THEN None ELSE Level(k)'
               /\ \A j \in 2..k : prio'[Level(k + 1)'] < prio'[Level(j)']
               /\ frames'[k][2] => Level(k)' # 0
    <3>1. CASE k = n + 1
      <4>1. Level(k + 1)' = irq /\ Level(k)' = exception
        <5>1. Level(n + 1)' = Level(n + 1) /\ Level(n + 1) = exception
          BY <1>6, <1>12 DEF Level
        <5> QED BY <1>13, <3>1, <5>1
      <4>2. last_active'[irq] = running_irq
        BY <1>1, <1>4, <1>8 DEF TypeOK
      <4>3. running_irq = IF k = 1 THEN None ELSE exception
        <5>1. k = 1 => exception = 0
          BY <1>1, <1>6, <3>1 DEF NestingMatches, Level
        <5>2. k # 1 => exception # 0
          BY <1>1, <1>6, <3>1 DEF NestingMatches, Level
        <5> QED BY <1>1, <5>1, <5>2 DEF NestingMatches
      <4>4. \A j \in 2..k : prio'[irq] < prio'[Level(j)']
        BY <1>8, <1>12, <1>14, <3>1
      <4>5. frames'[k][2] => exception # 0
        BY <1>1, <1>11, <3>1 DEF NestingMatches
      <4> QED BY <1>4, <4>1, <4>2, <4>3, <4>4, <4>5
    <3>2. CASE k \in 1..n
      <4>1. Level(k + 1)' = Level(k + 1) /\ Level(k)' = Level(k)
        <5>1. k + 1 \in 1..(n + 1) /\ k \in 1..(n + 1)
          BY <3>2
        <5> QED BY <1>12, <5>1
      <4>2. /\ Level(k + 1) # 0
            /\ last_active[Level(k + 1)] = IF k = 1 THEN None ELSE Level(k)
            /\ \A j \in 2..k : prio[Level(k + 1)] < prio[Level(j)]
            /\ frames[k][2] => Level(k) # 0
        BY <1>1, <1>6, <3>2 DEF NestingMatches
      <4>3. Level(k + 1) \in All /\ Level(k + 1) # irq
        BY <1>14, <3>2
      <4>4. last_active'[Level(k + 1)] = last_active[Level(k + 1)]
        <5>1. last_active \in [All -> All \cup {None, 0}]
          BY <1>1 DEF TypeOK
        <5> QED BY <1>8, <4>3, <5>1
      <4>5. \A j \in 2..k : Level(j)' = Level(j)
        BY <1>12, <3>2
      <4>6. frames'[k] = frames[k]
        BY <1>11, <3>2
      <4>7. \A j \in 2..k : prio'[Level(k + 1)'] < prio'[Level(j)']
        BY <1>8, <4>1, <4>2, <4>5
      <4> QED BY <4>1, <4>2, <4>4, <4>6, <4>7
    <3> QED BY <1>11, <3>1, <3>2
  <2> QED BY <2>1, <2>2, <2>3 DEF NestingMatches
<1>16. /\ LineOk'
       /\ current_pending' \in All \cup {None} /\ parent_irq' \in {0, 1}
  <2>1. enabled' \subseteq All
    BY <1>1, <1>8 DEF TypeOK
  <2> QED BY <1>9, <2>1, Updated
<1>17. TypeOK'
  <2>1. last_active' \in [All -> All \cup {None, 0}]
    <3>1. last_active \in [All -> All \cup {None, 0}] /\ running_irq \in All \cup {None, 0}
      BY <1>1 DEF TypeOK
    <3> QED BY <1>4, <1>8, <3>1
  <2>2. running_priority' \in 0..256
    BY <1>7, <1>9
  <2>3. pending' \subseteq All
    BY <1>1, <1>8 DEF TypeOK
  <2>4. exception' \in All \cup {0} /\ running_irq' \in All \cup {None} /\ magic' \in BOOLEAN
    BY <1>4, <1>8, <1>9, Zenon
  <2> QED BY <1>1, <1>2, <1>8, <1>11, <1>16, <2>1, <2>2, <2>3, <2>4, Zenon DEF TypeOK
<1>18. IInv'
  BY <1>1, <1>8, <1>15, <1>16, <1>17, Zenon DEF IInv
<1> QED BY <1>3, <1>8, <1>10, <1>18 DEF BestTaken

\* Returning from an exception pops one frame and follows one link.
LEMMA ExitStep ==
  ASSUME IInv, do_v7m_exception_exit
  PROVE  IInv'
<1>1. TypeOK /\ NestingMatches /\ LineOk
  BY DEF IInv
<1>2. frames \in Seq((All \cup {0}) \X BOOLEAN)
  BY <1>1 DEF TypeOK
<1>3. PICK n \in Nat : n = Len(frames)
  BY <1>2
<1>4. exception # 0 /\ n # 0
  BY <1>1, <1>3 DEF NestingMatches, Level, do_v7m_exception_exit
<1>5. n \in 1..n /\ n - 1 \in Nat
  BY <1>4
<1>6. /\ pending' = pending \cup ({exception} \cap External \cap enabled \cap level)
      /\ level' = level /\ enabled' = enabled /\ prio' = prio
      /\ last_active' = last_active /\ primask' = primask /\ fault' = fault
      /\ gic_set_running_irq(last_active[running_irq])
      /\ exception' = frames[n][1] /\ magic' = frames[n][2]
      /\ frames' = SubSeq(frames, 1, n - 1)
  BY <1>3 DEF do_v7m_exception_exit, gic_complete_irq
<1>7. /\ Len(frames') = n - 1
      /\ \A k \in 1..(n - 1) : frames'[k] = frames[k]
      /\ frames' \in Seq((All \cup {0}) \X BOOLEAN)
  BY <1>2, <1>3, <1>5, <1>6
<1>8. \A k \in 1..n : Level(k)' = Level(k)
  <2> TAKE k \in 1..n
  <2>1. CASE k = n
    BY <1>3, <1>5, <1>6, <1>7, <2>1 DEF Level
  <2>2. CASE k \in 1..(n - 1)
    BY <1>3, <1>5, <1>7, <2>2 DEF Level
  <2> QED BY <1>5, <2>1, <2>2
<1>9. Level(n) = frames[n][1] /\ Level(n + 1) = exception
  BY <1>3, <1>5 DEF Level
<1>10. frames[n] \in (All \cup {0}) \X BOOLEAN
  BY <1>2, <1>3, <1>5
<1>11. last_active[running_irq] = IF n = 1 THEN None ELSE exception'
  <2>1. running_irq = exception
    BY <1>1, <1>4 DEF NestingMatches
  <2>2. last_active[Level(n + 1)] = IF n = 1 THEN None ELSE Level(n)
    BY <1>1, <1>3, <1>5 DEF NestingMatches
  <2> QED BY <1>6, <1>9, <2>1, <2>2
<1>12. n = 1 <=> exception' = 0
  <2>1. n = 1 => Level(n) = 0
    BY <1>1 DEF NestingMatches
  <2>2. n # 1 => Level(n) # 0
    <3>1. SUFFICES ASSUME n # 1 PROVE Level(n) # 0
      OBVIOUS
    <3>2. n \in 2..(Len(frames) + 1)
      BY <1>3, <1>5, <3>1
    <3> QED BY <3>2, NestedActive, Numbers
  <2> QED BY <1>6, <1>9, <2>1, <2>2
<1>13. exception' \in All \cup {0} /\ magic' \in BOOLEAN
  BY <1>6, <1>10
<1>14. /\ running_irq' = IF exception' = 0 THEN None ELSE exception'
       /\ running_priority' = IF exception' = 0 THEN 256 ELSE prio[exception']
       /\ gic_update
  <2>1. exception' # None
    BY <1>13, Numbers DEF None
  <2> QED BY <1>6, <1>11, <1>12, <2>1 DEF gic_set_running_irq
<1>15. NestingMatches'
  <2>1. Level(1)' = 0
    <3>1. 1 \in 1..n
      BY <1>5
    <3> QED BY <1>1, <1>8, <3>1 DEF NestingMatches
  <2>2. magic' => exception' # 0
    <3>1. frames[n][2] => Level(n) # 0
      BY <1>1, <1>3, <1>5 DEF NestingMatches
    <3> QED BY <1>6, <1>9, <3>1
  <2>3. ASSUME NEW k \in 1..Len(frames')
        PROVE  /\ Level(k + 1)' # 0
               /\ last_active'[Level(k + 1)'] = IF k = 1 THEN None ELSE Level(k)'
               /\ \A j \in 2..k : prio'[Level(k + 1)'] < prio'[Level(j)']
               /\ frames'[k][2] => Level(k)' # 0
    <3>1. k \in 1..(n - 1) /\ k \in 1..n /\ k + 1 \in 1..n /\ \A j \in 2..k : j \in 1..n
      BY <1>5, <1>7
    <3>2. /\ Level(k + 1) # 0
          /\ last_active[Level(k + 1)] = IF k = 1 THEN None ELSE Level(k)
          /\ \A j \in 2..k : prio[Level(k + 1)] < prio[Level(j)]
          /\ frames[k][2] => Level(k) # 0
      BY <1>1, <1>3, <3>1 DEF NestingMatches
    <3>3. frames'[k] = frames[k] /\ Level(k + 1)' = Level(k + 1) /\ Level(k)' = Level(k)
      BY <1>7, <1>8, <3>1
    <3>4. \A j \in 2..k : prio'[Level(k + 1)'] < prio'[Level(j)']
      BY <1>6, <1>8, <3>1, <3>2, <3>3
    <3> QED BY <1>6, <3>2, <3>3, <3>4
  <2> QED BY <1>6, <1>14, <2>1, <2>2, <2>3 DEF NestingMatches
<1>16. pending' \subseteq All /\ enabled' \subseteq All
  BY <1>1, <1>6 DEF TypeOK, All
<1>17. /\ LineOk'
       /\ current_pending' \in All \cup {None} /\ parent_irq' \in {0, 1}
  BY <1>14, <1>16, Updated
<1>18. TypeOK'
  <2>1. running_irq' \in All \cup {None}
    BY <1>13, <1>14
  <2>2. running_priority' \in 0..256
    <3>1. prio \in [All -> 0..255]
      BY <1>1, Zenon DEF TypeOK
    <3> QED BY <1>13, <1>14, <3>1
  <2> QED BY <1>1, <1>6, <1>7, <1>13, <1>16, <1>17, <2>1, <2>2, Zenon DEF TypeOK
<1> QED BY <1>1, <1>6, <1>15, <1>17, <1>18, Zenon DEF IInv

\* After arm_gic_common_reset nothing is active.
LEMMA Initially == Init => IInv
<1> SUFFICES ASSUME Init PROVE IInv
  OBVIOUS
<1>1. frames = <<>> /\ Len(frames) = 0
  BY DEF Init
<1>2. TypeOK
  <2>1. prio \in [All -> 0..255] /\ last_active \in [All -> All \cup {None, 0}]
    BY DEF Init
  <2>2. running_priority \in 0..256 /\ frames \in Seq((All \cup {0}) \X BOOLEAN)
    BY <1>1 DEF Init
  <2> QED BY <2>1, <2>2, Zenon DEF Init, TypeOK, All
<1>3. NestingMatches
  BY <1>1 DEF Init, NestingMatches, Level
<1> QED BY <1>2, <1>3 DEF Init, IInv, LineOk, LineUp

\* qemu_devices_reset ends all nesting.
LEMMA ResetStep ==
  ASSUME IInv, qemu_devices_reset
  PROVE  IInv'
<1>1. frames' = <<>> /\ Len(frames') = 0
  BY DEF qemu_devices_reset
<1>2. TypeOK'
  <2>1. prio' \in [All -> 0..255] /\ last_active' \in [All -> All \cup {None, 0}]
    BY Zenon DEF qemu_devices_reset, IInv, TypeOK
  <2>2. running_priority' \in 0..256 /\ frames' \in Seq((All \cup {0}) \X BOOLEAN)
    BY <1>1 DEF qemu_devices_reset
  <2>3. fault' \in BOOLEAN
    BY Zenon DEF qemu_devices_reset, IInv, TypeOK
  <2> QED BY <2>1, <2>2, <2>3, Zenon DEF qemu_devices_reset, TypeOK, All
<1>3. NestingMatches'
  BY <1>1 DEF qemu_devices_reset, NestingMatches, Level
<1> QED BY <1>2, <1>3 DEF qemu_devices_reset, IInv, LineOk, LineUp, Stranded

\* Every step of devices, firmware and CPU keeps the invariant.
LEMMA Step == IInv /\ [Next]_vars => IInv'
<1> SUFFICES ASSUME IInv, [Next]_vars PROVE IInv'
  OBVIOUS
<1>1. TypeOK /\ NestingMatches
  BY DEF IInv
<1>2. CASE UNCHANGED vars
  BY <1>1, <1>2, Untouched, Zenon DEF vars, gicVars, TypeOK, NestingMatches
<1>3. ASSUME NEW value \in StirValues, WriteSTIR(value) PROVE IInv'
  BY <1>3, PendStep DEF WriteSTIR
<1>4. ASSUME NEW value \in BOOLEAN, WritePRIMASK(value) PROVE IInv'
  BY <1>1, <1>4, Untouched, Zenon DEF WritePRIMASK, TypeOK, NestingMatches
<1>5. CASE Return
  BY <1>1, <1>5, Untouched, Zenon DEF Return, TypeOK
<1>6. ASSUME NEW irq \in Internal, gic_set_pending_private(irq) PROVE IInv'
  BY <1>6, PendStep DEF All
<1> QED
  BY <1>2, <1>3, <1>4, <1>5, <1>6, GuestSteps, PriorityStep, TakeStep, ExitStep,
     ResetStep, Zenon DEF Next

\* No step but ClearPending makes a raised, enabled interrupt forgotten.
LEMMA ForgetStep ==
  ASSUME IInv, Next
  PROVE  Forgotten' \subseteq Forgotten \/ \E irq \in All : ClearPending({irq})
<1>1. TypeOK
  BY DEF IInv
<1>2. ASSUME exception' = exception, frames' = frames
      PROVE  Active' = Active
  BY <1>2 DEF Active
<1>3. ASSUME UNCHANGED gicVars, exception' = exception, frames' = frames
      PROVE  Forgotten' \subseteq Forgotten
  BY <1>2, <1>3 DEF Forgotten, gicVars
<1>4. ASSUME NEW irq \in External, NEW value \in {0, 1}, gic_set_irq(irq, value)
      PROVE  Forgotten' \subseteq Forgotten
  BY <1>2, <1>4 DEF Forgotten, gic_set_irq, Unmoved
<1>5. ASSUME NEW irq \in External, SetEnable({irq}) \/ ClearEnable({irq}) \/ SetPending({irq})
      PROVE  Forgotten' \subseteq Forgotten
  BY <1>2, <1>5 DEF Forgotten, SetEnable, ClearEnable, SetPending, Unmoved
<1>6. ASSUME NEW irq \in All \ Active, NEW value \in Priorities, SetPriority(irq, value)
      PROVE  Forgotten' \subseteq Forgotten
  BY <1>2, <1>6 DEF Forgotten, SetPriority, Unmoved
<1>7. ASSUME NEW irq, gic_set_pending_private(irq)
      PROVE  Forgotten' \subseteq Forgotten
  <2>1. CASE irq \in pending
    BY <1>3, <1>7, <2>1 DEF gic_set_pending_private, cpuVars
  <2>2. CASE irq \notin pending
    BY <1>2, <1>7, <2>2 DEF Forgotten, gic_set_pending_private, Unmoved
  <2> QED BY <2>1, <2>2
<1>8. ASSUME NEW value, WriteSTIR(value)
      PROVE  Forgotten' \subseteq Forgotten
  BY <1>7, <1>8 DEF WriteSTIR
<1>9. ASSUME NEW value, WritePRIMASK(value) \/ Return
      PROVE  Forgotten' \subseteq Forgotten
  BY <1>3, <1>9, Zenon DEF WritePRIMASK, Return
<1>10. ASSUME TakeInterrupt
       PROVE  Forgotten' \subseteq Forgotten
  <2>1. CASE UNCHANGED gicVars /\ exception' = exception /\ frames' = frames
    BY <1>3, <2>1
  <2>2. CASE /\ pending' = pending \ {current_pending}
             /\ level' = level /\ enabled' = enabled
             /\ frames' = Append(frames, <<exception, magic>>)
             /\ exception' = current_pending /\ current_pending # None
    <3>1. frames \in Seq((All \cup {0}) \X BOOLEAN)
      BY <1>1 DEF TypeOK
    <3>2. PICK n \in Nat : n = Len(frames)
      BY <3>1
    <3>3. /\ Len(frames') = n + 1 /\ frames'[n + 1] = <<exception, magic>>
          /\ \A k \in 1..n : frames'[k] = frames[k]
      BY <2>2, <3>1, <3>2
    <3>4. \A k \in 1..n : k \in 1..(n + 1)
      BY <3>2
    <3>5. n + 1 \in 1..(n + 1)
      BY <3>2
    <3>6. Active \subseteq Active'
      BY <3>2, <3>3, <3>4, <3>5 DEF Active
    <3>7. current_pending # 0 => current_pending \in Active'
      BY <2>2 DEF Active
    <3>8. 0 \notin level
      BY <1>1, Numbers DEF TypeOK, All
    <3> QED BY <2>2, <3>6, <3>7, <3>8 DEF Forgotten
  <2> QED BY <1>10, <2>1, <2>2, Zenon DEF TakeInterrupt, gic_acknowledge_irq
<1>11. ASSUME do_v7m_exception_exit
       PROVE  Forgotten' \subseteq Forgotten
  <2>1. frames \in Seq((All \cup {0}) \X BOOLEAN) /\ level \subseteq External
    BY <1>1 DEF TypeOK
  <2>2. PICK n \in Nat : n = Len(frames)
    BY <2>1
  <2>3. /\ pending' = pending \cup ({exception} \cap External \cap enabled \cap level)
        /\ level' = level /\ enabled' = enabled
        /\ exception' = frames[n][1]
        /\ frames' = SubSeq(frames, 1, n - 1)
    BY <1>11, <2>2 DEF do_v7m_exception_exit, gic_complete_irq
  <2>4. CASE n = 0
    BY <1>11, <2>2, <2>4 DEF IInv, do_v7m_exception_exit, gic_complete_irq, NestingMatches, Level
  <2>5. CASE n # 0
    <3>1. Len(frames') = n - 1 /\ \A k \in 1..(n - 1) : frames'[k] = frames[k]
      BY <2>1, <2>2, <2>3, <2>5
    <3>2. \A k \in 1..n : k = n \/ k \in 1..(n - 1)
      BY <2>2
    <3>3. Active \subseteq Active' \cup {exception}
      BY <2>2, <2>3, <3>1, <3>2 DEF Active
    <3> QED BY <2>1, <2>3, <3>3 DEF Forgotten
  <2> QED BY <2>4, <2>5
<1>12. ASSUME qemu_devices_reset
       PROVE  Forgotten' \subseteq Forgotten
  BY <1>12 DEF qemu_devices_reset, Forgotten
<1> QED BY <1>4, <1>5, <1>6, <1>7, <1>8, <1>9, <1>10, <1>11, <1>12, Zenon DEF Next

\* The invariant holds in every reachable state of controller and CPU.
THEOREM Invariance == Spec => []IInv
<1>1. Init => IInv
  BY Initially
<1>2. IInv /\ [Next]_vars => IInv'
  BY Step
<1> QED BY <1>1, <1>2, PTL DEF Spec

\* The registers hold known interrupts and eight-bit priorities.
THEOREM TypeCorrect == Spec => []TypeOK
<1>1. IInv => TypeOK
  BY DEF IInv
<1> QED BY <1>1, Invariance, PTL

\* After gic_update the line stands for an interrupt the CPU can take.
LEMMA NotVectorless ==
  ASSUME gic_update, TypeOK'
  PROVE  ~Vectorless'
<1>1. CASE parent_irq' = 0
  BY <1>1 DEF Vectorless
<1>2. ASSUME NEW i \in enabled' \cap pending', current_pending' = i,
             parent_irq' = IF prio'[i] < running_priority' THEN 1 ELSE 0
      PROVE  ~Vectorless'
  <2>1. i \in All /\ i # None
    BY Numbers DEF TypeOK
  <2>2. prio' \in [All -> 0..255] /\ running_priority' \in 0..256
    BY Zenon DEF TypeOK
  <2>3. prio'[i] \in 0..255
    BY <2>1, <2>2
  <2> QED BY <1>2, <2>1, <2>2, <2>3 DEF Vectorless
<1> QED BY <1>1, <1>2, Zenon DEF gic_update

\* What gic_update finds when a UART lowers its line is what raised the line.
LEMMA ResetRaises ==
  ASSUME IInv, RaisedByUartReset
  PROVE  parent_irq = 1
<1>1. PICK irq \in enabled \cap pending : prio[irq] < running_priority
  BY DEF RaisedByUartReset
<1>2. PICK i \in enabled \cap pending :
        /\ Best(enabled, pending, prio, i)
        /\ parent_irq = IF prio[i] < running_priority THEN 1 ELSE 0
  BY <1>1 DEF IInv, LineOk, LineUp, Stranded
<1>3. prio \in [All -> 0..255] /\ running_priority \in 0..256 /\ i \in All /\ irq \in All
  BY <1>1, <1>2, Zenon DEF IInv, TypeOK
<1>4. prio[i] \in 0..255 /\ prio[irq] \in 0..255
  BY <1>3
<1>5. prio[i] < prio[irq] \/ prio[i] = prio[irq]
  BY <1>1, <1>2 DEF Best, Before
<1>6. \A a, b \in 0..255 : \A c \in 0..256 : (a < b \/ a = b) /\ b < c => a < c
  OBVIOUS
<1>7. prio[i] < running_priority
  BY <1>1, <1>3, <1>4, <1>5, <1>6, Zenon
<1> QED BY <1>2, <1>7

\* What OnlyResetStrands says of one step.
Strands ==
  /\ Vectorless' => Vectorless \/ (qemu_devices_reset /\ parent_irq = 1)
  /\ fault' => fault \/ Vectorless

\* Every action ends with gic_update, leaves the controller alone, or is a reset.
LEMMA StrandStep ==
  ASSUME IInv, Next
  PROVE  Strands
<1>1. TypeOK'
  BY Step DEF IInv
<1>2. ASSUME gic_update, fault' = fault PROVE Strands
  BY <1>1, <1>2, NotVectorless, Zenon DEF Strands
<1>3. ASSUME UNCHANGED gicVars, fault' => fault \/ Vectorless PROVE Strands
  BY <1>3, Zenon DEF Strands, Vectorless, gicVars
<1>4. ASSUME Unmoved, gic_update PROVE Strands
  BY <1>2, <1>4, Zenon DEF Unmoved
<1>5. ASSUME NEW irq, NEW value, gic_set_irq(irq, value) \/ SetPriority(irq, value)
      PROVE  Strands
  BY <1>4, <1>5, Zenon DEF gic_set_irq, SetPriority
<1>6. ASSUME NEW S, SetEnable(S) \/ ClearEnable(S) \/ SetPending(S) \/ ClearPending(S)
      PROVE  Strands
  BY <1>4, <1>6, Zenon DEF SetEnable, ClearEnable, SetPending, ClearPending
<1>7. ASSUME NEW irq, gic_set_pending_private(irq) PROVE Strands
  BY <1>3, <1>4, <1>7, Zenon DEF gic_set_pending_private, cpuVars
<1>8. ASSUME NEW value, WriteSTIR(value) PROVE Strands
  BY <1>7, <1>8, Zenon DEF WriteSTIR
<1>9. ASSUME NEW value, WritePRIMASK(value) \/ Return PROVE Strands
  BY <1>3, <1>9, Zenon DEF WritePRIMASK, Return
<1>10. CASE TakeInterrupt
  <2>1. CASE current_pending = None \/ prio[current_pending] >= running_priority
    BY <1>3, <1>10, <2>1, Zenon DEF TakeInterrupt, Interruptible, Vectorless
  <2>2. CASE ~(current_pending = None \/ prio[current_pending] >= running_priority)
    BY <1>2, <1>10, <2>2, Zenon DEF TakeInterrupt, gic_acknowledge_irq, gic_set_running_irq
  <2> QED BY <2>1, <2>2
<1>11. CASE do_v7m_exception_exit
  BY <1>2, <1>11, Zenon DEF do_v7m_exception_exit, gic_complete_irq, gic_set_running_irq
<1>12. CASE qemu_devices_reset
  <2>1. fault' = fault /\ parent_irq' = IF RaisedByUartReset THEN 1 ELSE 0
    BY <1>12, Zenon DEF qemu_devices_reset
  <2>2. CASE RaisedByUartReset
    BY <1>12, <2>1, <2>2, ResetRaises, Zenon DEF Strands
  <2>3. CASE ~RaisedByUartReset
    <3>1. ~Vectorless'
      BY <2>1, <2>3 DEF Vectorless
    <3> QED BY <2>1, <3>1, Zenon DEF Strands
  <2> QED BY <2>2, <2>3
<1> QED
  BY <1>5, <1>6, <1>7, <1>8, <1>9, <1>10, <1>11, <1>12, Zenon DEF Next

\* Only a machine reset (qemu_devices_reset) that comes while an interrupt waits
\* leaves the CPU with a line that nothing stands behind, and the emulator ends
\* with "Interrupt but no vector" in no other state.
THEOREM StrandCorrect == Spec => OnlyResetStrands
<1>1. IInv /\ [Next]_vars => [Strands]_vars
  BY StrandStep
<1> QED BY <1>1, Invariance, PTL DEF Spec, OnlyResetStrands, Strands

\* The frames on the guest's stack and the last_active chain agree.
THEOREM NestingCorrect == Spec => []NestingMatches
<1>1. IInv => NestingMatches
  BY DEF IInv
<1> QED BY <1>1, Invariance, PTL

\* Every interrupt taken is the best one, and outranks what it interrupts.
THEOREM BestCorrect == Spec => BestIsTaken
<1> DEFINE Taken == Len(frames') > Len(frames) =>
                      /\ Best(enabled, pending, prio, exception')
                      /\ exception # 0 => prio[exception'] < prio[exception]
<1>1. IInv /\ [Next]_vars => [Taken]_vars
  <2> SUFFICES ASSUME IInv, Next, Len(frames') > Len(frames)
               PROVE  BestTaken
    BY DEF BestTaken
  <2>2. frames \in Seq((All \cup {0}) \X BOOLEAN)
    BY DEF IInv, TypeOK
  <2>3. PICK n \in Nat : n = Len(frames)
    BY <2>2
  <2>4. frames' # frames
    BY <2>3
  <2>1. CASE TakeInterrupt
    BY <2>1, <2>4, TakeStep, Zenon
  <2>5. ~do_v7m_exception_exit
    <3> SUFFICES ASSUME do_v7m_exception_exit PROVE FALSE
      OBVIOUS
    <3>1. frames' = SubSeq(frames, 1, n - 1)
      BY <2>3 DEF do_v7m_exception_exit
    <3>2. Len(frames') <= n
      BY <2>2, <2>3, <3>1
    <3> QED BY <2>3, <3>2
  <2>6. ~qemu_devices_reset
    BY <2>3 DEF qemu_devices_reset
  <2>7. ~Unmoved
    BY <2>4 DEF Unmoved
  <2>8. \A irq : ~gic_set_pending_private(irq)
    BY <2>4, <2>7 DEF gic_set_pending_private, cpuVars
  <2>9. \A value : ~WriteSTIR(value)
    BY <2>8 DEF WriteSTIR
  <2>10. ~Return /\ \A value : ~WritePRIMASK(value)
    BY <2>4 DEF Return, WritePRIMASK
  <2>11. \A S : ~SetEnable(S) /\ ~ClearEnable(S) /\ ~SetPending(S) /\ ~ClearPending(S)
    BY <2>7 DEF SetEnable, ClearEnable, SetPending, ClearPending
  <2>12. \A irq, value : ~gic_set_irq(irq, value) /\ ~SetPriority(irq, value)
    BY <2>7 DEF gic_set_irq, SetPriority
  <2> QED
    BY <2>1, <2>5, <2>6, <2>8, <2>9, <2>10, <2>11, <2>12, Zenon DEF Next
<1> QED BY <1>1, Invariance, PTL DEF Spec, BestIsTaken

\* Only clearing its pending bit makes the CPU forget a raised interrupt.
THEOREM ForgetCorrect == Spec => OnlyClearForgets
<1>1. IInv /\ [Next]_vars =>
        [Forgotten' \subseteq Forgotten \/ \E irq \in All : ClearPending({irq})]_vars
  BY ForgetStep
<1> QED BY <1>1, Invariance, PTL DEF Spec, OnlyClearForgets
=============================================================================
