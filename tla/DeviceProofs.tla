---------------------------- MODULE DeviceProofs -----------------------------
(***************************************************************************)
(* Proofs, for every value of the constants, about the devices that         *)
(* MCDevices drives: the ADC's interrupt level, the RTC's counter, the      *)
(* ptimers of the RTC and of the general timers, and the watchdog; then the *)
(* EXTI, for every set of lines the guest uses, the GPIO, for any ports and *)
(* pins, and the AFIO, for any lines and ports.  All changes of the EXTI's  *)
(* pending register go through one function, so the lemma PendingChange     *)
(* about it carries the argument.                                           *)
(***************************************************************************)
EXTENDS MCDevices, TLAPS

AdcFields == {"EOC", "EOCIE", "JEOCIE", "ADON", "timer", "irq", "ended"}

\* The shape of the ADC's state.
AdcShape(a) ==
  /\ DOMAIN a = AdcFields /\ a = [f \in AdcFields |-> a[f]]
  /\ a["EOC"] \in BOOLEAN /\ a["EOCIE"] \in BOOLEAN /\ a["JEOCIE"] \in BOOLEAN /\ a["timer"] \in BOOLEAN
  /\ a["irq"] \in 0..3

AdcOk(a) ==
  /\ AdcShape(a)
  /\ a.EOC /\ a.EOCIE => a.irq # 0
  /\ a.irq # 0 => a.EOC \/ a.timer
  /\ a.irq # 0 => a.EOCIE \/ a.JEOCIE

\* The recomputed interrupt level is explained by the flags.
LEMMA AdcUpdate ==
  ASSUME NEW a, AdcShape(a)
  PROVE  AdcOk(Adc!stm32_ADC_update_irq(a))
<1> DEFINE l == Adc!Level(a)
<1>1. l \in 0..3 /\ (l % 2 = 1 <=> a.EOC /\ a.EOCIE) /\ (l # 0 => a.EOC /\ (a.EOCIE \/ a.JEOCIE))
      /\ l % 2 \in {0, 1} /\ (l = 0 => l % 2 = 0)
  BY SMT DEF Adc!Level, AdcShape
<1> DEFINE b == [a EXCEPT !.irq = l]
<1>2. DOMAIN b = AdcFields /\ b = [f \in AdcFields |-> b[f]] /\ b.irq = l /\ b.EOC = a.EOC /\ b.EOCIE = a.EOCIE /\ b.JEOCIE = a.JEOCIE
      /\ b.timer = a.timer
  <2> HIDE DEF l
  <2> QED BY SMT DEF AdcShape, AdcFields
<1>3. CASE l % 2 # a.irq
  <2>1. Adc!stm32_ADC_update_irq(a) = b
    BY <1>3 DEF Adc!stm32_ADC_update_irq
  <2> HIDE DEF l, b
  <2> QED
    BY <1>1, <1>2, <2>1 DEF AdcOk, AdcShape
<1>4. CASE l % 2 = a.irq
  <2>1. Adc!stm32_ADC_update_irq(a) = a
    BY <1>4 DEF Adc!stm32_ADC_update_irq
  <2> HIDE DEF l, b
  <2> QED
    BY <1>1, <1>4, <2>1 DEF AdcOk, AdcShape
<1> QED
  BY <1>3, <1>4

\* Each field is set by itself.
LEMMA AdcSet ==
  ASSUME NEW a, AdcShape(a), NEW v \in BOOLEAN
  PROVE  /\ AdcShape([a EXCEPT !.EOC = v]) /\ AdcShape([a EXCEPT !.EOCIE = v])
         /\ AdcShape([a EXCEPT !.JEOCIE = v]) /\ AdcShape([a EXCEPT !.timer = v])
         /\ AdcShape([a EXCEPT !.ADON = v])
BY Zenon DEF AdcShape, AdcFields

\* A change of a field the interrupt does not depend on.
LEMMA AdcOther ==
  ASSUME NEW a, AdcOk(a), NEW v
  PROVE  AdcOk([a EXCEPT !.ADON = v]) /\ AdcOk([a EXCEPT !.ended = v])
BY DEF AdcOk, AdcShape, AdcFields

\* A started conversion takes the flag away and arms the timer.
LEMMA AdcStart ==
  ASSUME NEW a, AdcOk(a)
  PROVE  AdcOk(Adc!stm32_adc_start_conv(a))
<1> DEFINE b == [a EXCEPT !.EOC = FALSE]  c == [b EXCEPT !.timer = TRUE]
<1>1. AdcShape(c)
  BY AdcSet, Zenon DEF AdcOk
<1>2. c.irq = a.irq /\ c.EOC = FALSE /\ c.timer = TRUE /\ c.EOCIE = a.EOCIE /\ c.JEOCIE = a.JEOCIE
  BY DEF AdcOk, AdcShape, AdcFields
<1>3. Adc!stm32_adc_start_conv(a) = c
  BY DEF Adc!stm32_adc_start_conv
<1> HIDE DEF c
<1> QED
  BY <1>1, <1>2, <1>3 DEF AdcOk

\* Every step of the ADC keeps its invariant.
LEMMA AdcStep ==
  ASSUME AdcOk(adc), [Adc!AdcNext]_adc
  PROVE  AdcOk(adc')
<1>0. AdcShape(adc)
  BY DEF AdcOk
<1>f. ASSUME Adc!Fail PROVE AdcOk(adc')
  BY <1>f, AdcOther, Zenon DEF Adc!Fail
<1>w. ASSUME NEW ok, NEW a, AdcOk(a), Adc!Write(ok, a) PROVE AdcOk(adc')
  BY <1>w, <1>f DEF Adc!Write
<1>1. CASE UNCHANGED adc
  BY <1>1
<1>2. ASSUME NEW b \in BOOLEAN, Adc!stm32_ADC_SR_write(b) PROVE AdcOk(adc')
  <2>1. AdcOk(Adc!stm32_ADC_update_irq([adc EXCEPT !.EOC = FALSE]))
    BY <1>0, AdcSet, AdcUpdate, Zenon
  <2> QED BY <1>2, <1>w, <2>1 DEF Adc!stm32_ADC_SR_write
<1>3. ASSUME NEW b \in BOOLEAN, Adc!stm32_ADC_SQR1_write(b) PROVE AdcOk(adc')
  BY <1>3, <1>w DEF Adc!stm32_ADC_SQR1_write
<1>4. ASSUME NEW e \in BOOLEAN, NEW j \in BOOLEAN, Adc!WriteCR1(e, j) PROVE AdcOk(adc')
  <2>1. AdcShape([[adc EXCEPT !.EOCIE = e] EXCEPT !.JEOCIE = j])
    BY <1>0, AdcSet, Zenon
  <2>2. [[adc EXCEPT !.EOCIE = e] EXCEPT !.JEOCIE = j] = [adc EXCEPT !.EOCIE = e, !.JEOCIE = j]
    OBVIOUS
  <2>3. AdcOk(Adc!stm32_ADC_update_irq([adc EXCEPT !.EOCIE = e, !.JEOCIE = j]))
    BY <2>1, <2>2, AdcUpdate
  <2> QED BY <1>4, <1>w, <2>3, Zenon DEF Adc!WriteCR1
<1>5. ASSUME NEW a \in BOOLEAN, NEW s \in BOOLEAN, NEW n \in BOOLEAN,
             Adc!stm32_ADC_CR2_write(a, s, n)
      PROVE  AdcOk(adc')
  <2> DEFINE b == [adc EXCEPT !.ADON = a]
  <2>1. AdcOk(b) /\ AdcOk(Adc!stm32_adc_start_conv(b))
    BY AdcOther, AdcStart, Zenon
  <2>2. AdcOk(IF s THEN Adc!stm32_adc_start_conv(b) ELSE b)
    BY <2>1
  <2> QED BY <1>5, <1>w, <2>2 DEF Adc!stm32_ADC_CR2_write
<1>6. CASE Adc!stm32_ADC_DR_read
  BY <1>6, <1>0, <1>f, AdcSet, AdcUpdate, Zenon DEF Adc!stm32_ADC_DR_read
<1>7. CASE Adc!stm32_adc_conv_timer_expire
  <2> DEFINE b == [[adc EXCEPT !.timer = FALSE] EXCEPT !.EOC = TRUE]
  <2>1. AdcShape(b)
    BY <1>0, AdcSet, Zenon
  <2>2. b = [adc EXCEPT !.timer = FALSE, !.EOC = TRUE]
    OBVIOUS
  <2> HIDE DEF b
  <2> QED BY <1>7, <2>1, <2>2, AdcUpdate DEF Adc!stm32_adc_conv_timer_expire
<1>8. CASE Adc!stm32_adc_reset
  <2>1. AdcShape(Adc!Registers(adc))
    <3> DEFINE b == [[[[adc EXCEPT !.EOC = FALSE] EXCEPT !.EOCIE = FALSE]
                      EXCEPT !.JEOCIE = FALSE] EXCEPT !.ADON = FALSE]
    <3>1. AdcShape(b)
      BY <1>0, AdcSet, Zenon
    <3>2. Adc!Registers(adc) = b
      BY DEF Adc!Registers
    <3> QED BY <3>1, <3>2
  <2> QED BY <1>8, <2>1, AdcUpdate DEF Adc!stm32_adc_reset
<1> QED
  BY <1>1, <1>2, <1>3, <1>4, <1>5, <1>6, <1>7, <1>8, Zenon DEF Adc!AdcNext

\* The interrupt of the ADC (stm32_ADC_update_irq) is there when it must be and
\* never without a reason, in every order of register accesses, conversions
\* and resets.
THEOREM AdcIrqCorrect == Adc!AdcInit /\ [][Adc!AdcNext]_adc => []AdcIrqExplained
<1>1. Adc!AdcInit => AdcOk(adc)
  BY DEF Adc!AdcInit, AdcOk, AdcShape, AdcFields
<1>2. AdcOk(adc) /\ [Adc!AdcNext]_adc => AdcOk(adc)'
  BY AdcStep
<1>3. AdcOk(adc) => AdcIrqExplained
  BY DEF AdcOk, AdcIrqExplained, Adc!AdcIrqExplained
<1> QED
  BY <1>1, <1>2, <1>3, PTL
-----------------------------------------------------------------------------
RtcFields == {"ptimer", "freq", "prescaler", "CRL", "CRH", "CNTH", "CNTL", "ALRH", "ALRL",
              "ended", "base", "high"}
PtimerFields == {"enabled", "limit", "delta", "period", "armed", "bh"}

\* The state of a ptimer that has only been run as a one shot.
OneShotOk(p) ==
  /\ DOMAIN p = PtimerFields /\ p = [f \in PtimerFields |-> p[f]]
  /\ p["enabled"] \in {0, 2}
  /\ p["period"] # 0 => p["enabled"] = 2 \/ p["bh"] = TRUE

\* The RTC's counter is where the histories say, and its ptimer is running.
CounterOk(r) ==
  /\ r["CNTH"] \in 0..(Half - 1) /\ r["CNTL"] \in 0..(Half - 1)
  /\ r["base"] # -1 => r["CNTH"] * Half + r["CNTL"] = r["base"]
  /\ r["high"] # -1 => r["high"] = r["CNTH"]

RtcOk(r) ==
  /\ DOMAIN r = RtcFields /\ r = [f \in RtcFields |-> r[f]]
  /\ r["prescaler"] \in Nat
  /\ OneShotOk(r["ptimer"])
  /\ CounterOk(r)

\* Division with remainder.
LEMMA Division ==
  ASSUME NEW H \in Int, H > 0, NEW c \in Int
  PROVE  c = H * (c \div H) + (c % H)
BY SMT

\* The arithmetic of the carry: a count of halves, one further.
LEMMA Carry ==
  ASSUME NEW H \in Nat \ {0}, NEW h \in 0..(H - 1), NEW l \in 0..(H - 1),
         NEW c, c = (h * H + l + 1) % (H * H)
  PROVE  /\ c \div H \in 0..(H - 1) /\ c % H \in 0..(H - 1)
         /\ (c \div H) * H + (c % H) = c
         /\ c % H # 0 => c \div H = h
<1> DEFINE s == h * H  q == H * H
<1>1. s \in Nat /\ q \in Nat /\ q > 0 /\ s <= q - H
  <2>1. h <= H - 1 /\ h \in Nat
    OBVIOUS
  <2>2. h * H <= (H - 1) * H
    BY <2>1
  <2> QED BY <2>1, <2>2
<1>2. c \in 0..(q - 1)
  <2> HIDE DEF q, s
  <2> QED BY <1>1 DEF s, q
<1> DEFINE d == c \div H  r == c % H
<1>3. c = H * d + r
  BY <1>2, Division
<1>4. d \in Nat /\ r \in 0..(H - 1) /\ c \in Int
  BY <1>1, <1>2
<1>5. d * H + r = c /\ d <= H - 1
  <2> HIDE DEF d, r
  <2>1. d * H + r = c
    BY <1>3, <1>4
  <2>2. ASSUME d >= H PROVE FALSE
    <3>1. d * H >= H * H
      BY <1>4, <2>2
    <3> QED BY <1>2, <1>4, <2>1, <3>1
  <2> QED BY <1>4, <2>1, <2>2
<1>6. ASSUME c % H # 0 PROVE c \div H = h
  <2>1. CASE l = H - 1
    <3>1. c = (s + H) % q /\ (s + H = q \/ s + H < q)
      BY <1>1, <2>1
    <3>2. CASE s + H = q
      <4>1. c = 0
        <5> HIDE DEF q, s
        <5> QED BY <1>1, <3>1, <3>2
      <4> QED BY <4>1, <1>6
    <3>3. CASE s + H < q
      <4>1. c = s + H
        <5> HIDE DEF q, s
        <5> QED BY <1>1, <3>1, <3>3
      <4>2. c = (h + 1) * H + 0
        BY <4>1
      <4>3. ((h + 1) * H + 0) % H = 0
        OBVIOUS
      <4> QED BY <1>6, <4>2, <4>3
    <3> QED BY <3>1, <3>2, <3>3
  <2>2. CASE l < H - 1
    <3>1. c = (s + (l + 1)) % q
      OBVIOUS
    <3>2. c = s + (l + 1)
      <4> HIDE DEF q, s
      <4> QED BY <1>1, <2>2, <3>1
    <3>3. (h * H + (l + 1)) \div H = h
      BY <2>2
    <3> QED BY <3>2, <3>3
  <2> QED BY <2>1, <2>2
<1>7. d \in 0..(H - 1)
  <2> HIDE DEF d, r
  <2> QED BY <1>4, <1>5
<1>8. c \div H \in 0..(H - 1) /\ (c \div H) * H + (c % H) = c /\ c % H \in 0..(H - 1)
  BY <1>4, <1>5, <1>7, Zenon
<1> QED
  BY <1>6, <1>8, Zenon
-----------------------------------------------------------------------------
\* The shape of a ptimer.
PtimerShape(p) == DOMAIN p = PtimerFields /\ p = [f \in PtimerFields |-> p[f]]

\* A ptimer with something to count is armed if it has a period.
LEMMA RtcReload ==
  ASSUME NEW p, PtimerShape(p), p["delta"] # 0
  PROVE  LET q == Rtc!ptimer_reload(p)
         IN  /\ PtimerShape(q) /\ q["delta"] = p["delta"] /\ q["period"] = p["period"]
             /\ q["enabled"] = IF p["period"] = 0 THEN 0 ELSE p["enabled"]
<1>1. CASE p["period"] = 0
  <2>1. Rtc!ptimer_reload(p) = [p EXCEPT !.enabled = 0]
    BY <1>1 DEF Rtc!ptimer_reload
  <2> QED BY <1>1, <2>1 DEF PtimerShape, PtimerFields
<1>2. CASE p["period"] # 0
  <2>1. Rtc!ptimer_reload(p) = [p EXCEPT !.armed = TRUE]
    BY <1>2 DEF Rtc!ptimer_reload
  <2> QED BY <1>2, <2>1 DEF PtimerShape, PtimerFields
<1> QED BY <1>1, <1>2, Zenon

\* What the device does to its ptimer leaves it running.
LEMMA RestartedRuns ==
  ASSUME NEW p, PtimerShape(p), p["enabled"] \in {0, 2}, NEW n \in Nat
  PROVE  OneShotOk(Rtc!Restarted(p, n))
<1> DEFINE c == n + 1  p1 == [p EXCEPT !.delta = c]  q == Rtc!ptimer_set_count(p, c)
           q1 == [q EXCEPT !.enabled = 2]
<1>1. c # 0
  OBVIOUS
<1> HIDE DEF c
<1>2. PtimerShape(p1) /\ p1["delta"] = c /\ p1["enabled"] = p["enabled"] /\ p1["period"] = p["period"]
  BY DEF PtimerShape, PtimerFields
<1>3. q = IF p1["enabled"] # 0 THEN Rtc!ptimer_reload(p1) ELSE p1
  BY DEF Rtc!ptimer_set_count, Rtc!Reloaded
<1>4. PtimerShape(q) /\ q["enabled"] \in {0, 2} /\ q["delta"] = c
  <2> HIDE DEF p1, q
  <2> QED BY <1>1, <1>2, <1>3, RtcReload
<1>5. PtimerShape(q1) /\ q1["enabled"] = 2 /\ q1["delta"] = c /\ q1["period"] = q["period"]
  <2> HIDE DEF q
  <2> QED BY <1>4 DEF PtimerShape, PtimerFields
<1>6. Rtc!ptimer_run(q, TRUE) = IF q["enabled"] # 0 \/ q["period"] = 0 THEN q ELSE Rtc!ptimer_reload(q1)
  BY DEF Rtc!ptimer_run
<1>7. OneShotOk(Rtc!ptimer_run(q, TRUE))
  <2> HIDE DEF q, q1
  <2>1. CASE q["enabled"] # 0 \/ q["period"] = 0
    <3>1. OneShotOk(q)
      BY <2>1, <1>4 DEF OneShotOk, PtimerShape
    <3> QED BY <1>6, <2>1, <3>1, Zenon
  <2>2. CASE ~(q["enabled"] # 0 \/ q["period"] = 0)
    <3> DEFINE r == Rtc!ptimer_reload(q1)
    <3>1. PtimerShape(r) /\ r["enabled"] = 2
      BY <1>1, <1>5, <2>2, RtcReload
    <3> HIDE DEF r
    <3>2. OneShotOk(r)
      BY <3>1 DEF OneShotOk, PtimerShape
    <3> QED BY <1>6, <2>2, <3>2, Zenon DEF r
  <2> QED BY <2>1, <2>2, Zenon
<1> QED
  BY <1>7, Zenon DEF Rtc!Restarted, c

\* The fields of a ptimer, set one at a time: the bottom half,
LEMMA BhSet ==
  ASSUME NEW p, PtimerShape(p), NEW v
  PROVE  /\ PtimerShape([p EXCEPT !.bh = v]) /\ [p EXCEPT !.bh = v]["bh"] = v
         /\ [p EXCEPT !.bh = v]["enabled"] = p["enabled"]
         /\ [p EXCEPT !.bh = v]["period"] = p["period"]
         /\ [p EXCEPT !.bh = v]["delta"] = p["delta"]
BY DEF PtimerShape, PtimerFields

\* what is left to count,
LEMMA DeltaSet ==
  ASSUME NEW p, PtimerShape(p), NEW v
  PROVE  /\ PtimerShape([p EXCEPT !.delta = v]) /\ [p EXCEPT !.delta = v]["delta"] = v
         /\ [p EXCEPT !.delta = v]["enabled"] = p["enabled"]
         /\ [p EXCEPT !.delta = v]["period"] = p["period"]
         /\ [p EXCEPT !.delta = v]["bh"] = p["bh"]
BY DEF PtimerShape, PtimerFields

\* the timer behind it,
LEMMA ArmedSet ==
  ASSUME NEW p, PtimerShape(p), NEW v
  PROVE  /\ PtimerShape([p EXCEPT !.armed = v]) /\ [p EXCEPT !.armed = v]["armed"] = v
         /\ [p EXCEPT !.armed = v]["enabled"] = p["enabled"]
         /\ [p EXCEPT !.armed = v]["period"] = p["period"]
         /\ [p EXCEPT !.armed = v]["delta"] = p["delta"]
         /\ [p EXCEPT !.armed = v]["bh"] = p["bh"]
BY DEF PtimerShape, PtimerFields

\* the mode,
LEMMA EnabledSet ==
  ASSUME NEW p, PtimerShape(p), NEW v
  PROVE  /\ PtimerShape([p EXCEPT !.enabled = v]) /\ [p EXCEPT !.enabled = v]["enabled"] = v
         /\ [p EXCEPT !.enabled = v]["period"] = p["period"]
         /\ [p EXCEPT !.enabled = v]["delta"] = p["delta"]
         /\ [p EXCEPT !.enabled = v]["bh"] = p["bh"]
BY DEF PtimerShape, PtimerFields

\* the period,
LEMMA PeriodSet ==
  ASSUME NEW p, PtimerShape(p), NEW v
  PROVE  /\ PtimerShape([p EXCEPT !.period = v]) /\ [p EXCEPT !.period = v]["period"] = v
         /\ [p EXCEPT !.period = v]["enabled"] = p["enabled"]
         /\ [p EXCEPT !.period = v]["delta"] = p["delta"]
         /\ [p EXCEPT !.period = v]["bh"] = p["bh"]
BY DEF PtimerShape, PtimerFields

\* and the reload value.
LEMMA LimitSet ==
  ASSUME NEW p, PtimerShape(p), NEW v
  PROVE  /\ PtimerShape([p EXCEPT !.limit = v]) /\ [p EXCEPT !.limit = v]["limit"] = v
         /\ [p EXCEPT !.limit = v]["enabled"] = p["enabled"]
         /\ [p EXCEPT !.limit = v]["period"] = p["period"]
         /\ [p EXCEPT !.limit = v]["delta"] = p["delta"]
         /\ [p EXCEPT !.limit = v]["bh"] = p["bh"]
BY DEF PtimerShape, PtimerFields

\* A reload never loses a scheduled bottom half, nor makes a one shot periodic.
LEMMA RtcReloadKeeps ==
  ASSUME NEW p, PtimerShape(p), p["enabled"] \in {0, 2}
  PROVE  LET q == Rtc!ptimer_reload(p)
         IN  PtimerShape(q) /\ q["enabled"] \in {0, 2} /\ (p["bh"] = TRUE => q["bh"] = TRUE)
<1> DEFINE q0 == [p EXCEPT !.bh = TRUE, !.delta = p.limit]
           q1 == IF p.delta = 0 THEN q0 ELSE p
           q2 == [q1 EXCEPT !.enabled = 0]
           q3 == [q1 EXCEPT !.armed = TRUE]
<1>1. PtimerShape(q0) /\ q0["enabled"] \in {0, 2} /\ q0["bh"] = TRUE
  <2> DEFINE a == [p EXCEPT !.bh = TRUE]  b == [a EXCEPT !.delta = p.limit]
  <2>1. PtimerShape(a) /\ a["bh"] = TRUE /\ a["enabled"] = p["enabled"]
    BY BhSet, Zenon
  <2>2. q0 = b
    OBVIOUS
  <2> HIDE DEF a, q0
  <2>3. PtimerShape(b) /\ b["bh"] = a["bh"] /\ b["enabled"] = a["enabled"]
    BY <2>1, DeltaSet, Zenon
  <2> QED BY <2>1, <2>2, <2>3, Zenon
<1>2. PtimerShape(q1) /\ q1["enabled"] \in {0, 2} /\ (p["bh"] = TRUE => q1["bh"] = TRUE)
  BY <1>1, Zenon
<1>3. Rtc!ptimer_reload(p) = q2 \/ Rtc!ptimer_reload(p) = q3
  BY DEF Rtc!ptimer_reload
<1> HIDE DEF q1
<1>4. PtimerShape(q2) /\ q2["enabled"] = 0 /\ q2["bh"] = q1["bh"]
  BY <1>2, EnabledSet, Zenon
<1>5. PtimerShape(q3) /\ q3["enabled"] = q1["enabled"] /\ q3["bh"] = q1["bh"]
  BY <1>2, ArmedSet, ZenonT(60)
<1> HIDE DEF q2, q3
<1> QED
  BY <1>2, <1>3, <1>4, <1>5

\* The same for a change of the frequency.
LEMMA RtcFreqKeeps ==
  ASSUME NEW p, PtimerShape(p), p["enabled"] \in {0, 2}, NEW v
  PROVE  PtimerShape(Rtc!ptimer_set_freq(p, v)) /\ Rtc!ptimer_set_freq(p, v)["enabled"] \in {0, 2}
<1> DEFINE q == [p EXCEPT !.period = v]
<1>1. PtimerShape(q) /\ q["enabled"] \in {0, 2}
  BY DEF PtimerShape, PtimerFields
<1>2. Rtc!ptimer_set_freq(p, v) = IF q["enabled"] # 0 THEN Rtc!ptimer_reload(q) ELSE q
  BY DEF Rtc!ptimer_set_freq, Rtc!Reloaded
<1> HIDE DEF q
<1> QED
  BY <1>1, <1>2, RtcReloadKeeps, Zenon

\* An expiry schedules the bottom half.
LEMMA RtcTickKeeps ==
  ASSUME NEW p, PtimerShape(p), p["enabled"] \in {0, 2}
  PROVE  OneShotOk(Rtc!ptimer_tick(p))
<1> DEFINE a == [p EXCEPT !.bh = TRUE]  b == [a EXCEPT !.delta = 0]
           q == [b EXCEPT !.armed = FALSE]  q0 == [q EXCEPT !.enabled = 0]
<1>1. PtimerShape(q) /\ q["enabled"] \in {0, 2} /\ q["bh"] = TRUE
  <2>1. PtimerShape(a) /\ a["enabled"] = p["enabled"] /\ a["bh"] = TRUE
    BY BhSet, Zenon
  <2> HIDE DEF a
  <2>2. PtimerShape(b) /\ b["enabled"] = a["enabled"] /\ b["bh"] = a["bh"]
    BY <2>1, DeltaSet, Zenon
  <2> HIDE DEF b
  <2>3. PtimerShape(q) /\ q["enabled"] = b["enabled"] /\ q["bh"] = b["bh"]
    BY <2>2, ArmedSet, Zenon
  <2> QED BY <2>1, <2>2, <2>3, Zenon
<1>2. PtimerShape(q0) /\ q0["enabled"] = 0 /\ q0["bh"] = TRUE
  <2> HIDE DEF q
  <2> QED BY <1>1, EnabledSet, ZenonT(60)
<1>3. Rtc!ptimer_tick(p) = q0 \/ Rtc!ptimer_tick(p) = Rtc!ptimer_reload(q)
  BY DEF Rtc!ptimer_tick
<1> HIDE DEF q, q0
<1>4. ASSUME NEW x, PtimerShape(x), x["enabled"] \in {0, 2}, x["bh"] = TRUE
      PROVE  OneShotOk(x)
  BY <1>4 DEF OneShotOk, PtimerShape
<1>5. OneShotOk(q0)
  BY <1>2, <1>4, Zenon
<1>6. OneShotOk(Rtc!ptimer_reload(q))
  BY <1>1, <1>4, RtcReloadKeeps, Zenon
<1> QED
  BY <1>3, <1>5, <1>6, Zenon
-----------------------------------------------------------------------------
\* Registers the invariant does not speak of.
LEMMA RtcSetOther ==
  ASSUME NEW r, RtcOk(r), NEW v
  PROVE  /\ RtcOk([r EXCEPT !.freq = v]) /\ RtcOk([r EXCEPT !.CRL = v])
         /\ RtcOk([r EXCEPT !.CRH = v]) /\ RtcOk([r EXCEPT !.ALRH = v])
         /\ RtcOk([r EXCEPT !.ALRL = v]) /\ RtcOk([r EXCEPT !.ended = v])
BY Zenon DEF RtcOk, RtcFields, CounterOk

\* Its ptimer is set;
LEMMA RtcSetPtimer ==
  ASSUME NEW r, RtcOk(r), NEW v, OneShotOk(v)
  PROVE  RtcOk([r EXCEPT !.ptimer = v])
BY DEF RtcOk, RtcFields, CounterOk

\* its prescaler is set.
LEMMA RtcSetPrescaler ==
  ASSUME NEW r, RtcOk(r), NEW v \in Nat
  PROVE  RtcOk([r EXCEPT !.prescaler = v])
BY DEF RtcOk, RtcFields, CounterOk

\* The four fields of the counter.
LEMMA RtcSetCounter ==
  ASSUME NEW r, RtcOk(r), NEW h, NEW l, NEW b, NEW g, NEW v,
         h \in 0..(Half - 1), l \in 0..(Half - 1), b # -1 => h * Half + l = b, g # -1 => g = h
  PROVE  RtcOk([r EXCEPT !.CNTH = h, !.CNTL = l, !.base = b, !.high = g, !.CRL = v])
<1> DEFINE Shape(x) == DOMAIN x = RtcFields /\ x = [f \in RtcFields |-> x[f]]
                       /\ x["prescaler"] = r["prescaler"] /\ x["ptimer"] = r["ptimer"]
           q1 == [r EXCEPT !.CNTH = h]  q2 == [q1 EXCEPT !.CNTL = l]
           q3 == [q2 EXCEPT !.base = b]  q4 == [q3 EXCEPT !.high = g]  q == [q4 EXCEPT !.CRL = v]
<1>1. Shape(q1) /\ q1["CNTH"] = h
  BY DEF RtcOk, RtcFields
<1> HIDE DEF q1
<1>2. Shape(q2) /\ q2["CNTH"] = h /\ q2["CNTL"] = l
  BY <1>1 DEF RtcFields
<1> HIDE DEF q2
<1>3. Shape(q3) /\ q3["CNTH"] = h /\ q3["CNTL"] = l /\ q3["base"] = b
  BY <1>2 DEF RtcFields
<1> HIDE DEF q3
<1>4. Shape(q4) /\ q4["CNTH"] = h /\ q4["CNTL"] = l /\ q4["base"] = b /\ q4["high"] = g
  BY <1>3 DEF RtcFields
<1> HIDE DEF q4
<1>5. Shape(q) /\ q["CNTH"] = h /\ q["CNTL"] = l /\ q["base"] = b /\ q["high"] = g
  BY <1>4 DEF RtcFields
<1> HIDE DEF q
<1>6. CounterOk(q)
  BY <1>5 DEF CounterOk
<1>7. RtcOk(q)
  BY <1>5, <1>6 DEF RtcOk
<1> QED
  BY <1>7, Zenon DEF q, q1, q2, q3, q4

\* A write of the upper half.
LEMMA RtcSetHigh ==
  ASSUME NEW r, RtcOk(r), NEW h \in 0..(Half - 1)
  PROVE  RtcOk([r EXCEPT !.CNTH = h, !.high = h, !.base = -1])
<1> DEFINE Shape(x) == DOMAIN x = RtcFields /\ x = [f \in RtcFields |-> x[f]]
                       /\ x["prescaler"] = r["prescaler"] /\ x["ptimer"] = r["ptimer"]
           q1 == [r EXCEPT !.CNTH = h]  q2 == [q1 EXCEPT !.high = h]  q == [q2 EXCEPT !.base = -1]
<1>1. Shape(q1) /\ q1["CNTH"] = h /\ q1["CNTL"] = r["CNTL"]
  BY DEF RtcOk, RtcFields
<1> HIDE DEF q1
<1>2. Shape(q2) /\ q2["CNTH"] = h /\ q2["CNTL"] = r["CNTL"] /\ q2["high"] = h
  BY <1>1 DEF RtcFields
<1> HIDE DEF q2
<1>3. Shape(q) /\ q["CNTH"] = h /\ q["CNTL"] = r["CNTL"] /\ q["high"] = h /\ q["base"] = -1
  BY <1>2 DEF RtcFields
<1> HIDE DEF q
<1>4. RtcOk(q)
  BY <1>3 DEF RtcOk, CounterOk
<1> QED
  BY <1>4, Zenon DEF q, q1, q2

\* A write of the lower half, which completes a write of both if the upper half
\* is still the one written.
LEMMA RtcSetLow ==
  ASSUME NEW r, RtcOk(r), NEW l \in 0..(Half - 1), NEW b,
         b = IF r["high"] = -1 THEN -1 ELSE r["high"] * Half + l
  PROVE  RtcOk([r EXCEPT !.CNTL = l, !.high = -1, !.base = b])
<1> DEFINE Shape(x) == DOMAIN x = RtcFields /\ x = [f \in RtcFields |-> x[f]]
                       /\ x["prescaler"] = r["prescaler"] /\ x["ptimer"] = r["ptimer"]
           q1 == [r EXCEPT !.CNTL = l]  q2 == [q1 EXCEPT !.high = -1]  q == [q2 EXCEPT !.base = b]
<1>1. Shape(q1) /\ q1["CNTL"] = l /\ q1["CNTH"] = r["CNTH"]
  BY DEF RtcOk, RtcFields
<1> HIDE DEF q1
<1>2. Shape(q2) /\ q2["CNTL"] = l /\ q2["CNTH"] = r["CNTH"] /\ q2["high"] = -1
  BY <1>1 DEF RtcFields
<1> HIDE DEF q2
<1>3. Shape(q) /\ q["CNTL"] = l /\ q["CNTH"] = r["CNTH"] /\ q["high"] = -1 /\ q["base"] = b
  BY <1>2 DEF RtcFields
<1>4. b # -1 => r["CNTH"] * Half + l = b
  BY DEF RtcOk, CounterOk
<1> HIDE DEF q
<1>5. RtcOk(q)
  BY <1>3, <1>4 DEF RtcOk, CounterOk
<1> QED
  BY <1>5, Zenon DEF q, q1, q2
-----------------------------------------------------------------------------
\* The bottom half counts, and starts the ptimer again.
LEMMA RtcTick ==
  ASSUME RtcOk(rtc), Rtc!stm32_rtc_tick
  PROVE  RtcOk(rtc')
<1> DEFINE cnt == (rtc.CNTH * Half + rtc.CNTL + 1) % (Half * Half)
           alarm == "ALR" \in rtc.CRH /\ cnt = rtc.ALRH * Half + rtc.ALRL
           crl == rtc.CRL \cup {"RSF"} \cup (IF rtc.CRH # {} THEN {"SEC"} ELSE {})
                    \cup (IF alarm THEN {"ALR"} ELSE {})
           b == IF rtc.base = -1 THEN rtc.base ELSE (rtc.base + 1) % (Half * Half)
           g == IF cnt % Half = 0 THEN -1 ELSE rtc.high
           h == cnt \div Half
           l == cnt % Half
           r == [rtc EXCEPT !.CNTH = h, !.CNTL = l, !.base = b, !.high = g, !.CRL = crl]
           u == Rtc!stm32_rtc_update_irq(r)
<1>1. rtc' = [u EXCEPT !.ptimer = Rtc!Restarted(Rtc!TakeBh(u.ptimer), r.prescaler)]
  BY Zenon DEF Rtc!stm32_rtc_tick, Rtc!NoBase
<1>2. /\ h \in 0..(Half - 1) /\ l \in 0..(Half - 1) /\ h * Half + l = cnt
      /\ (l # 0 => h = rtc.CNTH)
  <2>1. Half \in Nat \ {0} /\ rtc["CNTH"] \in 0..(Half - 1) /\ rtc["CNTL"] \in 0..(Half - 1)
    BY DevicesAssumption DEF RtcOk, CounterOk
  <2> DEFINE n == rtc["CNTH"]  m == rtc["CNTL"]
  <2>2. /\ cnt = (n * Half + m + 1) % (Half * Half)
        /\ Half \in Nat \ {0} /\ n \in 0..(Half - 1) /\ m \in 0..(Half - 1)
    BY <2>1, Zenon
  <2> HIDE DEF n, m, cnt
  <2>3. /\ cnt \div Half \in 0..(Half - 1) /\ cnt % Half \in 0..(Half - 1)
        /\ (cnt \div Half) * Half + (cnt % Half) = cnt
        /\ (cnt % Half # 0 => cnt \div Half = n)
    BY <2>2, Carry, SMTT(60)
  <2> QED BY <2>3, Zenon DEF n
<1>3. b # -1 => h * Half + l = b
  BY <1>2 DEF RtcOk, CounterOk
<1>4. g # -1 => g = h
  <2> HIDE DEF h, cnt
  <2> QED BY <1>2 DEF RtcOk, CounterOk
<1> HIDE DEF h, l, b, g, crl
<1>5. RtcOk(r)
  BY <1>2, <1>3, <1>4, RtcSetCounter, Zenon
<1> HIDE DEF r
<1>6. RtcOk(u)
  BY <1>5, RtcSetOther, Zenon DEF Rtc!stm32_rtc_update_irq
<1> HIDE DEF u
<1>7. OneShotOk(Rtc!Restarted(Rtc!TakeBh(u.ptimer), r.prescaler))
  <2> DEFINE p == u["ptimer"]  t == Rtc!TakeBh(p)
  <2>1. PtimerShape(p) /\ p["enabled"] \in {0, 2}
    BY <1>6 DEF RtcOk, OneShotOk, PtimerShape
  <2> HIDE DEF p
  <2>2. PtimerShape(t) /\ t["enabled"] \in {0, 2}
    BY <2>1, BhSet, Zenon DEF Rtc!TakeBh
  <2>3. r["prescaler"] \in Nat
    BY <1>5 DEF RtcOk
  <2> HIDE DEF t
  <2>4. OneShotOk(Rtc!Restarted(t, r["prescaler"]))
    BY <2>2, <2>3, RestartedRuns, Zenon
  <2> QED BY <2>4, Zenon DEF t, p
<1> QED
  BY <1>1, <1>6, <1>7, RtcSetPtimer, Zenon

\* A change of RTCCLK restarts the ptimer, unless the clock goes off.
LEMMA RtcClock ==
  ASSUME RtcOk(rtc), NEW period, Rtc!stm32_rtc_clk_irq_handler(period)
  PROVE  RtcOk(rtc')
<1> DEFINE p == rtc["ptimer"]
           q == IF period = 0 THEN p
                ELSE Rtc!Restarted(Rtc!ptimer_set_freq(p, period), rtc["prescaler"])
           r == [rtc EXCEPT !.freq = period]
<1>1. PtimerShape(p) /\ p["enabled"] \in {0, 2} /\ rtc["prescaler"] \in Nat /\ OneShotOk(p)
  BY DEF RtcOk, OneShotOk, PtimerShape
<1> HIDE DEF p
<1>2. OneShotOk(q)
  <2> DEFINE f == Rtc!ptimer_set_freq(p, period)
  <2>1. PtimerShape(f) /\ f["enabled"] \in {0, 2}
    BY <1>1, RtcFreqKeeps, Zenon
  <2> HIDE DEF f
  <2>2. OneShotOk(Rtc!Restarted(f, rtc["prescaler"]))
    BY <1>1, <2>1, RestartedRuns, Zenon
  <2> QED BY <1>1, <2>2, Zenon DEF f
<1>3. RtcOk(r)
  BY RtcSetOther, Zenon
<1>4. rtc' = [rtc EXCEPT !.freq = period, !.ptimer = q]
  BY Zenon DEF Rtc!stm32_rtc_clk_irq_handler, p
<1> HIDE DEF q
<1>5. RtcOk([r EXCEPT !.ptimer = q])
  <2> HIDE DEF r
  <2> QED BY <1>2, <1>3, RtcSetPtimer, Zenon
<1> QED
  BY <1>4, <1>5, Zenon DEF r

\* A reset starts the counter from 0 and leaves the ptimer alone.
LEMMA RtcResetKeeps ==
  ASSUME NEW p, OneShotOk(p), NEW f
  PROVE  RtcOk(Rtc!RtcReset(p, f))
<1> DEFINE r == Rtc!RtcReset(p, f)
<1>1. r = [x \in RtcFields |-> r[x]] /\ DOMAIN r = RtcFields
  <2>1. DOMAIN r = RtcFields
    BY DEF Rtc!RtcReset, RtcFields
  <2>2. r = [x \in DOMAIN r |-> r[x]]
    BY Zenon DEF Rtc!RtcReset
  <2> QED BY <2>1, <2>2, Zenon
<1>2. /\ r["ptimer"] = p /\ r["prescaler"] = 1 /\ r["CNTH"] = 0 /\ r["CNTL"] = 0
      /\ r["base"] = 0 /\ r["high"] = -1
  BY DEF Rtc!RtcReset, Rtc!NoBase
<1> HIDE DEF r
<1>3. CounterOk(r)
  BY <1>2, DevicesAssumption DEF CounterOk
<1> QED
  BY <1>1, <1>2, <1>3 DEF RtcOk, r

\* Every step of the RTC keeps its invariant.
LEMMA RtcStep ==
  ASSUME RtcOk(rtc), [Rtc!RtcNext]_rtc
  PROVE  RtcOk(rtc')
<1>c. ASSUME NEW r, RtcOk(r), Rtc!Config(r) PROVE RtcOk(rtc')
  BY <1>c, RtcSetOther, Zenon DEF Rtc!Config
<1>v. ASSUME NEW v \in Values PROVE v \in 0..(Half - 1)
  BY DevicesAssumption
<1>1. CASE UNCHANGED rtc
  BY <1>1, Zenon
<1>2. ASSUME NEW period, Rtc!stm32_rtc_clk_irq_handler(period) PROVE RtcOk(rtc')
  BY <1>2, RtcClock
<1>3. CASE Rtc!Expire
  <2> DEFINE p == rtc["ptimer"]
  <2>1. PtimerShape(p) /\ p["enabled"] \in {0, 2}
    BY DEF RtcOk, OneShotOk, PtimerShape
  <2>2. rtc' = [rtc EXCEPT !.ptimer = Rtc!ptimer_tick(p)]
    BY <1>3 DEF Rtc!Expire
  <2> HIDE DEF p
  <2> QED BY <2>1, <2>2, RtcTickKeeps, RtcSetPtimer, Zenon
<1>4. CASE Rtc!stm32_rtc_tick
  BY <1>4, RtcTick
<1>5. CASE Rtc!stm32_rtc_reset
  <2> DEFINE p == rtc["ptimer"]  f == rtc["freq"]
  <2>1. OneShotOk(p)
    BY DEF RtcOk
  <2>2. rtc' = Rtc!RtcReset(p, f)
    BY <1>5 DEF Rtc!stm32_rtc_reset
  <2> HIDE DEF p, f
  <2>3. RtcOk(Rtc!RtcReset(p, f))
    BY <2>1, RtcResetKeeps
  <2> QED BY <2>2, <2>3, Zenon
<1>6. ASSUME NEW v, Rtc!WriteCRH(v) PROVE RtcOk(rtc')
  BY <1>6, RtcSetOther, Zenon DEF Rtc!WriteCRH
<1>7. ASSUME NEW v, Rtc!WriteCRL(v) PROVE RtcOk(rtc')
  BY <1>7, RtcSetOther, Zenon DEF Rtc!WriteCRL
<1>8. ASSUME NEW v \in Prescalers, Rtc!WritePRL(v) PROVE RtcOk(rtc')
  <2>1. v \in Nat
    BY DevicesAssumption
  <2> QED BY <1>8, <1>c, <2>1, RtcSetPrescaler, Zenon DEF Rtc!WritePRL
<1>9. ASSUME NEW v \in Values, Rtc!WriteCNTH(v) PROVE RtcOk(rtc')
  BY <1>9, <1>c, <1>v, RtcSetHigh, Zenon DEF Rtc!WriteCNTH, Rtc!NoBase
<1>10. ASSUME NEW v \in Values, Rtc!WriteCNTL(v) PROVE RtcOk(rtc')
  <2> DEFINE b == IF rtc["high"] = -1 THEN -1 ELSE rtc["high"] * Half + v
  <2>1. RtcOk([rtc EXCEPT !.CNTL = v, !.high = -1, !.base = b])
    BY <1>v, RtcSetLow, Zenon
  <2>2. Rtc!Config([rtc EXCEPT !.CNTL = v, !.high = -1, !.base = b])
    BY <1>10, Zenon DEF Rtc!WriteCNTL, Rtc!NoBase
  <2> QED BY <1>c, <2>1, <2>2, Zenon
<1>11. ASSUME NEW v \in Values, Rtc!WriteALRH(v) \/ Rtc!WriteALRL(v) PROVE RtcOk(rtc')
  BY <1>11, <1>c, RtcSetOther, Zenon DEF Rtc!WriteALRH, Rtc!WriteALRL
<1>12. CASE Rtc!BadAccess
  BY <1>12, RtcSetOther, Zenon DEF Rtc!BadAccess
<1> QED
  BY <1>1, <1>2, <1>3, <1>4, <1>5, <1>6, <1>7, <1>8, <1>9, <1>10, <1>11, <1>12, ZenonT(60)
  DEF Rtc!RtcNext

\* The RTC's invariant.
LEMMA RtcInvariance == Rtc!RtcInit /\ [][Rtc!RtcNext]_rtc => []RtcOk(rtc)
<1>1. Rtc!RtcInit => RtcOk(rtc)
  <2>1. OneShotOk(Rtc!ptimer_init)
    BY DEF OneShotOk, PtimerFields, Rtc!ptimer_init
  <2>2. RtcOk(Rtc!RtcReset(Rtc!ptimer_init, 0))
    BY <2>1, RtcResetKeeps
  <2> QED BY <2>2, Zenon DEF Rtc!RtcInit
<1>2. RtcOk(rtc) /\ [Rtc!RtcNext]_rtc => RtcOk(rtc)'
  BY RtcStep
<1> QED
  BY <1>1, <1>2, PTL

\* After a write of both halves the counter (stm32_rtc_tick) is exact, for every
\* width of the halves.
THEOREM CounterCorrect == Rtc!RtcInit /\ [][Rtc!RtcNext]_rtc => []CounterExact
<1>1. RtcOk(rtc) => CounterExact
  BY DEF RtcOk, CounterOk, CounterExact, Rtc!CounterExact, Rtc!NoBase
<1> QED
  BY <1>1, RtcInvariance, PTL

\* The RTC never stops once its clock was on, whatever the bottom half, changes
\* of the clock and resets do to its one shot timer.
THEOREM RtcRunsCorrect == Rtc!RtcInit /\ [][Rtc!RtcNext]_rtc => []RtcKeepsRunning
<1>1. RtcOk(rtc) => RtcKeepsRunning
  BY DEF RtcOk, OneShotOk, RtcKeepsRunning, Rtc!RtcKeepsRunning
<1> QED
  BY <1>1, RtcInvariance, PTL
-----------------------------------------------------------------------------
\* What holds of the ptimer of a general timer at every moment, the middle of a
\* handler included ...
Sane(cen, oneshot, deaf, p) ==
  /\ PtimerShape(p)
  /\ p["enabled"] # 0 => p["period"] # 0
  /\ cen /\ ~deaf => p["period"] # 0
  /\ ~cen /\ ~oneshot => p["enabled"] = 0

\* ... and between two handlers.
Running(cen, oneshot, deaf, p) ==
  /\ Sane(cen, oneshot, deaf, p)
  /\ cen /\ ~deaf => p["enabled"] # 0 \/ p["bh"] = TRUE

\* A reload that stops the ptimer has scheduled the bottom half, unless the
\* ptimer has no period.
LEMMA TimReload ==
  ASSUME NEW p, PtimerShape(p), NEW q, q = Tim!ptimer_reload(p)
  PROVE  /\ PtimerShape(q) /\ q["period"] = p["period"] /\ (p["bh"] = TRUE => q["bh"] = TRUE)
         /\ q["enabled"] = p["enabled"] \/ q["enabled"] = 0
         /\ p["period"] # 0 => q["enabled"] = p["enabled"] \/ q["bh"] = TRUE
<1> DEFINE a == [p EXCEPT !.bh = TRUE]
           q0 == [a EXCEPT !.delta = p.limit]
           q1 == IF p.delta = 0 THEN q0 ELSE p
           q2 == [q1 EXCEPT !.enabled = 0]
           q3 == [q1 EXCEPT !.armed = TRUE]
<1>1. /\ PtimerShape(a) /\ a["enabled"] = p["enabled"] /\ a["period"] = p["period"]
      /\ a["bh"] = TRUE
  BY BhSet, Zenon
<1> HIDE DEF a
<1>2. /\ PtimerShape(q0) /\ q0["enabled"] = p["enabled"] /\ q0["period"] = p["period"]
      /\ q0["bh"] = TRUE
  BY <1>1, DeltaSet, ZenonT(60)
<1>3. q = IF q1["delta"] = 0 \/ q1["period"] = 0 THEN q2 ELSE q3
  BY Zenon DEF Tim!ptimer_reload, a
<1> HIDE DEF q0
<1>4. /\ PtimerShape(q1) /\ q1["enabled"] = p["enabled"] /\ q1["period"] = p["period"]
      /\ (p["bh"] = TRUE => q1["bh"] = TRUE) /\ (q1["bh"] = TRUE \/ q1["delta"] # 0)
  BY <1>2, Zenon
<1> HIDE DEF q1
<1>5. PtimerShape(q2) /\ q2["enabled"] = 0 /\ q2["bh"] = q1["bh"] /\ q2["period"] = q1["period"]
  BY <1>4, EnabledSet, Zenon
<1>6. /\ PtimerShape(q3) /\ q3["enabled"] = q1["enabled"] /\ q3["bh"] = q1["bh"]
      /\ q3["period"] = q1["period"]
  BY <1>4, ArmedSet, ZenonT(60)
<1> HIDE DEF q2, q3
<1>7. CASE q1["delta"] = 0 \/ q1["period"] = 0
  BY <1>3, <1>4, <1>5, <1>7, Zenon
<1>8. CASE ~(q1["delta"] = 0 \/ q1["period"] = 0)
  BY <1>3, <1>4, <1>6, <1>8, Zenon
<1> QED
  BY <1>7, <1>8, Zenon

\* The calls of ptimer.c that end in a reload.
LEMMA TimReloaded ==
  ASSUME NEW c, NEW o, NEW d, NEW p
  PROVE  /\ Sane(c, o, d, p) => Sane(c, o, d, Tim!Reloaded(p))
         /\ Running(c, o, d, p) => Running(c, o, d, Tim!Reloaded(p))
<1> DEFINE q == Tim!ptimer_reload(p)
<1>1. CASE p["enabled"] = 0
  BY <1>1, Zenon DEF Tim!Reloaded
<1>2. CASE p["enabled"] # 0
  <2>0. Tim!Reloaded(p) = q
    BY <1>2, Zenon DEF Tim!Reloaded
  <2>1. ASSUME PtimerShape(p)
        PROVE  /\ PtimerShape(q) /\ q["period"] = p["period"]
               /\ q["enabled"] = p["enabled"] \/ q["enabled"] = 0
               /\ p["period"] # 0 => q["enabled"] = p["enabled"] \/ q["bh"] = TRUE
    BY <2>1, TimReload, Zenon
  <2> HIDE DEF q
  <2>2. ASSUME Sane(c, o, d, p) PROVE Sane(c, o, d, q)
    <3>1. PtimerShape(p) /\ p["period"] # 0 /\ ~(~c /\ ~o)
      BY <1>2, <2>2, Zenon DEF Sane
    <3>2. PtimerShape(q) /\ q["period"] # 0
      BY <2>1, <3>1, Zenon
    <3> QED BY <3>1, <3>2, Zenon DEF Sane
  <2>3. ASSUME Running(c, o, d, p) PROVE Running(c, o, d, q)
    <3>1. Sane(c, o, d, p) /\ PtimerShape(p) /\ p["period"] # 0
      BY <1>2, <2>3, Zenon DEF Sane, Running
    <3>2. q["enabled"] # 0 \/ q["bh"] = TRUE
      BY <1>2, <2>1, <3>1, Zenon
    <3> QED BY <2>2, <3>1, <3>2, Zenon DEF Running
  <2> QED BY <2>0, <2>2, <2>3, Zenon
<1> QED
  BY <1>1, <1>2, Zenon

\* A count written to the ptimer keeps both, with the reload it may cause,
LEMMA TimSetCount ==
  ASSUME NEW c, NEW o, NEW d, NEW p, NEW v
  PROVE  /\ Sane(c, o, d, p) => Sane(c, o, d, Tim!ptimer_set_count(p, v))
         /\ Running(c, o, d, p) => Running(c, o, d, Tim!ptimer_set_count(p, v))
<1> DEFINE q == [p EXCEPT !.delta = v]
<1>1. ASSUME PtimerShape(p)
      PROVE  PtimerShape(q) /\ q["enabled"] = p["enabled"] /\ q["period"] = p["period"]
             /\ q["bh"] = p["bh"]
  BY <1>1, DeltaSet, Zenon
<1>2. Tim!ptimer_set_count(p, v) = Tim!Reloaded(q)
  BY Zenon DEF Tim!ptimer_set_count
<1> HIDE DEF q
<1>3. (Sane(c, o, d, p) => Sane(c, o, d, q)) /\ (Running(c, o, d, p) => Running(c, o, d, q))
  BY <1>1, Zenon DEF Sane, Running
<1> QED
  BY <1>2, <1>3, TimReloaded, Zenon

\* so does a frequency,
LEMMA TimSetFreq ==
  ASSUME NEW c, NEW o, NEW d, NEW p, NEW v, v # 0
  PROVE  /\ Sane(c, o, d, p) => Sane(c, o, d, Tim!ptimer_set_freq(p, v))
         /\ Running(c, o, d, p) => Running(c, o, d, Tim!ptimer_set_freq(p, v))
<1> DEFINE q == [p EXCEPT !.period = v]
<1>1. ASSUME PtimerShape(p)
      PROVE  PtimerShape(q) /\ q["enabled"] = p["enabled"] /\ q["period"] = v
             /\ q["bh"] = p["bh"]
  BY <1>1, PeriodSet, ZenonT(60)
<1>2. Tim!ptimer_set_freq(p, v) = Tim!Reloaded(q)
  BY Zenon DEF Tim!ptimer_set_freq
<1> HIDE DEF q
<1>3. (Sane(c, o, d, p) => Sane(c, o, d, q)) /\ (Running(c, o, d, p) => Running(c, o, d, q))
  BY <1>1, Zenon DEF Sane, Running
<1> QED
  BY <1>2, <1>3, TimReloaded, Zenon

\* and so does a limit.
LEMMA TimSetLimit ==
  ASSUME NEW c, NEW o, NEW d, NEW p, NEW v, Running(c, o, d, p)
  PROVE  Running(c, o, d, Tim!ptimer_set_limit(p, v, TRUE))
<1> DEFINE n == IF v * p.period < MinTimeout /\ p.period # 0 THEN MinTimeout \div p.period ELSE v
           a == [p EXCEPT !.limit = n]  q == [a EXCEPT !.delta = n]
<1>1. Tim!ptimer_set_limit(p, v, TRUE) = Tim!Reloaded(q)
  BY Zenon DEF Tim!ptimer_set_limit
<1> HIDE DEF n
<1>2. /\ PtimerShape(a) /\ a["enabled"] = p["enabled"] /\ a["period"] = p["period"]
      /\ a["bh"] = p["bh"]
  BY LimitSet, Zenon DEF Running, Sane
<1> HIDE DEF a
<1>3. /\ PtimerShape(q) /\ q["enabled"] = p["enabled"] /\ q["period"] = p["period"]
      /\ q["bh"] = p["bh"]
  BY <1>2, DeltaSet, ZenonT(60)
<1> HIDE DEF q
<1>4. Running(c, o, d, q)
  BY <1>3, Zenon DEF Running, Sane
<1> QED
  BY <1>1, <1>4, TimReloaded, Zenon

\* Running a ptimer that has a period, and stopping it.
LEMMA TimRun ==
  ASSUME NEW c, NEW o, NEW d, NEW p, Sane(c, o, d, p), NEW x, NEW e, NEW f,
         ~f => p["period"] # 0
  PROVE  Running(TRUE, e, f, Tim!ptimer_run(p, x))
<1> DEFINE n == IF x THEN 2 ELSE 1  a == [p EXCEPT !.enabled = n]  q == Tim!ptimer_reload(a)
<1>1. CASE p["enabled"] # 0 \/ p["period"] = 0
  <2>1. Tim!ptimer_run(p, x) = p
    BY <1>1, Zenon DEF Tim!ptimer_run
  <2>2. Running(TRUE, e, f, p)
    BY <1>1, Zenon DEF Sane, Running
  <2> QED BY <2>1, <2>2, Zenon
<1>2. CASE ~(p["enabled"] # 0 \/ p["period"] = 0)
  <2>1. Tim!ptimer_run(p, x) = q
    BY <1>2, Zenon DEF Tim!ptimer_run
  <2>2. n # 0
    OBVIOUS
  <2> HIDE DEF n
  <2>3. PtimerShape(a) /\ a["enabled"] = n /\ a["period"] = p["period"]
    BY EnabledSet, Zenon DEF Sane
  <2> HIDE DEF a
  <2>4. /\ PtimerShape(q) /\ q["period"] = a["period"]
        /\ a["period"] # 0 => q["enabled"] = a["enabled"] \/ q["bh"] = TRUE
    BY <2>3, TimReload, Zenon
  <2> HIDE DEF q
  <2>5. PtimerShape(q) /\ q["period"] # 0 /\ (q["enabled"] # 0 \/ q["bh"] = TRUE)
    BY <1>2, <2>2, <2>3, <2>4, Zenon
  <2>6. Running(TRUE, e, f, q)
    BY <2>5, Zenon DEF Running, Sane
  <2> QED BY <2>1, <2>6, Zenon
<1> QED
  BY <1>1, <1>2, Zenon

\* Running a ptimer leaves its period alone.
LEMMA TimRunPeriod ==
  ASSUME NEW p, PtimerShape(p), NEW x
  PROVE  Tim!ptimer_run(p, x)["period"] = p["period"]
<1> DEFINE n == IF x THEN 2 ELSE 1  a == [p EXCEPT !.enabled = n]  q == Tim!ptimer_reload(a)
<1>1. Tim!ptimer_run(p, x) = p \/ Tim!ptimer_run(p, x) = q
  BY Zenon DEF Tim!ptimer_run
<1> HIDE DEF n
<1>2. PtimerShape(a) /\ a["period"] = p["period"]
  BY EnabledSet, Zenon
<1> HIDE DEF a
<1>3. q["period"] = p["period"]
  BY <1>2, TimReload, Zenon
<1> HIDE DEF q
<1> QED
  BY <1>1, <1>3, Zenon

\* Stopping a ptimer.
LEMMA TimStop ==
  ASSUME NEW c, NEW o, NEW d, NEW p, Sane(c, o, d, p), NEW k, NEW e, NEW f
  PROVE  Running(FALSE, e, f, Tim!ptimer_stop(p, k))
<1> DEFINE a == [p EXCEPT !.delta = k]  b == [a EXCEPT !.armed = FALSE]
           q == [b EXCEPT !.enabled = 0]
<1>1. PtimerShape(a)
  BY DeltaSet, Zenon DEF Sane
<1> HIDE DEF a
<1>2. PtimerShape(b)
  BY <1>1, ArmedSet, Zenon
<1> HIDE DEF b
<1>3. PtimerShape(q) /\ q["enabled"] = 0
  BY <1>2, EnabledSet, ZenonT(60)
<1>4. Tim!ptimer_stop(p, k) = IF p["enabled"] = 0 THEN p ELSE q
  BY Zenon DEF Tim!ptimer_stop, a, b
<1> HIDE DEF q
<1> QED
  BY <1>3, <1>4, Zenon DEF Running, Sane

\* An expiry schedules the bottom half.
LEMMA TimExpiry ==
  ASSUME NEW c, NEW o, NEW d, NEW p, Running(c, o, d, p)
  PROVE  Running(c, o, d, Tim!ptimer_tick(p))
<1> DEFINE a == [p EXCEPT !.bh = TRUE]  b == [a EXCEPT !.delta = 0]
           q == [b EXCEPT !.armed = FALSE]  q0 == [q EXCEPT !.enabled = 0]
           q1 == Tim!ptimer_reload(q)
<1>1. /\ PtimerShape(a) /\ a["enabled"] = p["enabled"] /\ a["period"] = p["period"]
      /\ a["bh"] = TRUE
  BY BhSet, Zenon DEF Running, Sane
<1> HIDE DEF a
<1>2. /\ PtimerShape(b) /\ b["enabled"] = p["enabled"] /\ b["period"] = p["period"]
      /\ b["bh"] = TRUE
  BY <1>1, DeltaSet, ZenonT(60)
<1> HIDE DEF b
<1>3. /\ PtimerShape(q) /\ q["enabled"] = p["enabled"] /\ q["period"] = p["period"]
      /\ q["bh"] = TRUE
  BY <1>2, ArmedSet, Zenon
<1>4. Tim!ptimer_tick(p) = q0 \/ Tim!ptimer_tick(p) = q1
  BY Zenon DEF Tim!ptimer_tick, a, b
<1> HIDE DEF q
<1>5. PtimerShape(q0) /\ q0["enabled"] = 0 /\ q0["period"] = p["period"] /\ q0["bh"] = TRUE
  BY <1>3, EnabledSet, ZenonT(60)
<1>6. /\ PtimerShape(q1) /\ q1["period"] = p["period"] /\ q1["bh"] = TRUE
      /\ q1["enabled"] = p["enabled"] \/ q1["enabled"] = 0
  BY <1>3, TimReload, Zenon
<1> HIDE DEF q0, q1
<1>7. Running(c, o, d, q0)
  BY <1>5, Zenon DEF Running, Sane
<1>8. Running(c, o, d, q1)
  BY <1>6, Zenon DEF Running, Sane
<1> QED
  BY <1>4, <1>7, <1>8, Zenon
-----------------------------------------------------------------------------
TimFields == {"timer", "clock", "CEN", "OneShot", "DIR", "CMS", "down", "arr", "UIF", "deaf"}

\* The shape of a general timer's state; two states with the same mode.
TimShape(t) ==
  /\ DOMAIN t = TimFields /\ t = [f \in TimFields |-> t[f]]
  /\ t["CEN"] \in BOOLEAN /\ t["OneShot"] \in BOOLEAN /\ t["deaf"] \in BOOLEAN

SameMode(t, u) == u["CEN"] = t["CEN"] /\ u["OneShot"] = t["OneShot"] /\ u["deaf"] = t["deaf"]

TimOk(t) == TimShape(t) /\ Running(t["CEN"], t["OneShot"], t["deaf"], t["timer"])

\* A field the invariant does not speak of is set.
LEMMA TimSetOther ==
  ASSUME NEW t, TimShape(t), NEW v, NEW u,
         \/ u = [t EXCEPT !.clock = v] \/ u = [t EXCEPT !.DIR = v] \/ u = [t EXCEPT !.CMS = v]
         \/ u = [t EXCEPT !.down = v] \/ u = [t EXCEPT !.arr = v] \/ u = [t EXCEPT !.UIF = v]
  PROVE  TimShape(u) /\ SameMode(t, u) /\ u["timer"] = t["timer"]
BY DEF TimShape, TimFields, SameMode

\* The ptimer is set.
LEMMA TimSetTimer ==
  ASSUME NEW t, TimShape(t), NEW v, NEW u, u = [t EXCEPT !.timer = v]
  PROVE  TimShape(u) /\ SameMode(t, u) /\ u["timer"] = v
BY DEF TimShape, TimFields, SameMode

\* The mode is set.
LEMMA TimSetMode ==
  ASSUME NEW t, TimShape(t), NEW v \in BOOLEAN, NEW u
  PROVE  /\ u = [t EXCEPT !.CEN = v] =>
              /\ TimShape(u) /\ u["CEN"] = v /\ u["OneShot"] = t["OneShot"]
              /\ u["deaf"] = t["deaf"] /\ u["timer"] = t["timer"]
         /\ u = [t EXCEPT !.OneShot = v] =>
              /\ TimShape(u) /\ u["OneShot"] = v /\ u["CEN"] = t["CEN"]
              /\ u["deaf"] = t["deaf"] /\ u["timer"] = t["timer"]
         /\ u = [t EXCEPT !.deaf = v] =>
              /\ TimShape(u) /\ u["deaf"] = v /\ u["CEN"] = t["CEN"]
              /\ u["OneShot"] = t["OneShot"] /\ u["timer"] = t["timer"]
BY DEF TimShape, TimFields

\* A refresh of the frequency.
LEMMA TimFreq ==
  ASSUME NEW t, TimShape(t), NEW u, u = Tim!stm32_timer_freq(t), NEW c, NEW o, NEW d
  PROVE  /\ TimShape(u) /\ SameMode(t, u)
         /\ Sane(c, o, d, t["timer"]) => Sane(c, o, d, u["timer"])
         /\ Running(c, o, d, t["timer"]) => Running(c, o, d, u["timer"])
<1> DEFINE w == Tim!ptimer_set_freq(t["timer"], t["clock"])
<1>1. CASE t["clock"] = 0
  BY <1>1, Zenon DEF Tim!stm32_timer_freq, SameMode
<1>2. CASE t["clock"] # 0
  <2>1. u = [t EXCEPT !.timer = w]
    BY <1>2, Zenon DEF Tim!stm32_timer_freq
  <2>2. /\ Sane(c, o, d, t["timer"]) => Sane(c, o, d, w)
        /\ Running(c, o, d, t["timer"]) => Running(c, o, d, w)
    BY <1>2, TimSetFreq, Zenon
  <2> HIDE DEF w
  <2>3. TimShape(u) /\ SameMode(t, u) /\ u["timer"] = w
    BY <2>1, TimSetTimer, Zenon
  <2> QED BY <2>2, <2>3, Zenon
<1> QED
  BY <1>1, <1>2, Zenon

\* The counter is set.
LEMMA TimCount ==
  ASSUME NEW t, TimShape(t), NEW n, NEW u, u = Tim!stm32_timer_set_count(t, n),
         NEW c, NEW o, NEW d
  PROVE  /\ TimShape(u) /\ SameMode(t, u)
         /\ Sane(c, o, d, t["timer"]) => Sane(c, o, d, u["timer"])
         /\ Running(c, o, d, t["timer"]) => Running(c, o, d, u["timer"])
<1> DEFINE k == IF t.down THEN n ELSE (t.arr - n) % CountWord
           w == Tim!ptimer_set_count(t["timer"], k)
<1>1. u = [t EXCEPT !.timer = w]
  BY Zenon DEF Tim!stm32_timer_set_count
<1> HIDE DEF k
<1>2. /\ Sane(c, o, d, t["timer"]) => Sane(c, o, d, w)
      /\ Running(c, o, d, t["timer"]) => Running(c, o, d, w)
  BY TimSetCount, Zenon
<1> HIDE DEF w
<1>3. TimShape(u) /\ SameMode(t, u) /\ u["timer"] = w
  BY <1>1, TimSetTimer, Zenon
<1> QED
  BY <1>2, <1>3, Zenon

\* The ptimer is run or stopped as CEN says.
LEMMA TimUpdate ==
  ASSUME NEW t, TimShape(t), NEW k, NEW u, u = Tim!stm32_timer_update(t, k),
         NEW c, NEW o, NEW d, Sane(c, o, d, t["timer"]), NEW e, NEW f,
         t["CEN"] /\ ~f => u["timer"]["period"] # 0
  PROVE  TimShape(u) /\ SameMode(t, u) /\ Running(t["CEN"], e, f, u["timer"])
<1> DEFINE a == Tim!stm32_timer_freq(t)
           v == t.DIR /\ ~t.CMS
           b == [a EXCEPT !.down = v]
           p == b["timer"]
           w == IF t.CEN THEN Tim!ptimer_run(p, ~t.OneShot) ELSE Tim!ptimer_stop(p, k)
<1>1. u = [b EXCEPT !.timer = w]
  BY Zenon DEF Tim!stm32_timer_update
<1>2. TimShape(a) /\ SameMode(t, a) /\ Sane(c, o, d, a["timer"])
  BY TimFreq, Zenon
<1> HIDE DEF a, v, w
<1>3. TimShape(b) /\ SameMode(a, b) /\ p = a["timer"]
  BY <1>2, TimSetOther
<1> HIDE DEF b
<1>4. TimShape(u) /\ SameMode(b, u) /\ u["timer"] = w
  BY <1>1, <1>3, TimSetTimer
<1>5. SameMode(t, u) /\ Sane(c, o, d, p)
  BY <1>2, <1>3, <1>4, Zenon DEF SameMode
<1> HIDE DEF p
<1>6. CASE t["CEN"] = TRUE
  <2> DEFINE r == Tim!ptimer_run(p, ~t.OneShot)
  <2>1. w = r
    BY <1>6, Zenon DEF w
  <2>2. r["period"] = p["period"] /\ (~f => p["period"] # 0)
    <3>1. r["period"] = p["period"]
      BY <1>5, TimRunPeriod, Zenon DEF Sane
    <3> HIDE DEF r
    <3> QED BY <1>4, <1>6, <2>1, <3>1, Zenon
  <2>3. Running(TRUE, e, f, r)
    BY <1>5, <2>2, TimRun, Zenon
  <2> QED BY <1>4, <1>5, <1>6, <2>1, <2>3, Zenon
<1>7. CASE t["CEN"] = FALSE
  <2>1. w = Tim!ptimer_stop(p, k)
    BY <1>7, Zenon DEF w
  <2>2. Running(FALSE, e, f, w)
    BY <1>5, <2>1, TimStop, Zenon
  <2> QED BY <1>4, <1>5, <1>7, <2>2, Zenon
<1> QED
  BY <1>6, <1>7, Zenon DEF TimShape

\* An enabled timer whose ptimer has a period keeps it.
HasPeriod(cen, deaf, p) == cen /\ ~deaf => p["period"] # 0

\* The update does not take it.
LEMMA TimUpdatePeriod ==
  ASSUME NEW t, TimShape(t), NEW k, NEW u, u = Tim!stm32_timer_update(t, k),
         NEW o, NEW d, Sane(t["CEN"], o, d, t["timer"])
  PROVE  HasPeriod(t["CEN"], d, u["timer"])
<1> DEFINE a == Tim!stm32_timer_freq(t)
           v == t.DIR /\ ~t.CMS
           b == [a EXCEPT !.down = v]
           p == b["timer"]
           w == IF t.CEN THEN Tim!ptimer_run(p, ~t.OneShot) ELSE Tim!ptimer_stop(p, k)
<1>1. u = [b EXCEPT !.timer = w]
  BY Zenon DEF Tim!stm32_timer_update
<1>2. TimShape(a) /\ SameMode(t, a) /\ Sane(t["CEN"], o, d, a["timer"])
  BY TimFreq, Zenon
<1> HIDE DEF a, v, w
<1>3. TimShape(b) /\ SameMode(a, b) /\ p = a["timer"]
  BY <1>2, TimSetOther
<1> HIDE DEF b
<1>4. u["timer"] = w
  BY <1>1, <1>3, TimSetTimer, Zenon
<1>5. PtimerShape(p) /\ (t["CEN"] /\ ~d => p["period"] # 0)
  BY <1>2, <1>3, Zenon DEF Sane
<1> HIDE DEF p
<1>6. CASE t["CEN"] = TRUE
  <2>1. w = Tim!ptimer_run(p, ~t.OneShot)
    BY <1>6, Zenon DEF w
  <2>2. w["period"] = p["period"]
    BY <1>5, <2>1, TimRunPeriod, Zenon
  <2> QED BY <1>4, <1>5, <2>2, Zenon DEF HasPeriod
<1> QED
  BY <1>6, Zenon DEF TimShape, HasPeriod
-----------------------------------------------------------------------------
\* A write of CR1.
LEMMA TimWriteCR1 ==
  ASSUME TimOk(tim), NEW cen \in BOOLEAN, NEW oneshot \in BOOLEAN, NEW dir, NEW cms,
         Tim!WriteCR1(cen, oneshot, dir, cms)
  PROVE  TimOk(tim')
<1> DEFINE a == [tim EXCEPT !.CEN = cen]  b == [a EXCEPT !.OneShot = oneshot]
           c == [b EXCEPT !.DIR = dir]  t == [c EXCEPT !.CMS = cms]
<1>0. TimShape(tim) /\ Sane(tim["CEN"], tim["OneShot"], tim["deaf"], tim["timer"])
  BY Zenon DEF TimOk, Running
<1>1. PICK count : LET u == Tim!stm32_timer_update(t, count)
                   IN  tim' = [u EXCEPT !.deaf = cen /\ u.timer.period = 0]
  BY Zenon DEF Tim!WriteCR1
<1> DEFINE u == Tim!stm32_timer_update(t, count)  d == cen /\ u["timer"]["period"] = 0
<1>2. tim' = [u EXCEPT !.deaf = d]
  BY <1>1, Zenon
<1>3. TimShape(a) /\ a["CEN"] = cen /\ a["timer"] = tim["timer"]
  BY <1>0, TimSetMode
<1> HIDE DEF a
<1>4. TimShape(b) /\ b["CEN"] = cen /\ b["OneShot"] = oneshot /\ b["timer"] = tim["timer"]
  BY <1>3, TimSetMode
<1> HIDE DEF b
<1>5. TimShape(c) /\ SameMode(b, c) /\ c["timer"] = b["timer"]
  BY <1>4, TimSetOther
<1> HIDE DEF c
<1>6. TimShape(t) /\ SameMode(c, t) /\ t["timer"] = c["timer"]
  BY <1>5, TimSetOther
<1> HIDE DEF t
<1>7. TimShape(t) /\ t["CEN"] = cen /\ t["OneShot"] = oneshot /\ t["timer"] = tim["timer"]
  BY <1>4, <1>5, <1>6, Zenon DEF SameMode
<1>8. t["CEN"] /\ ~d => u["timer"]["period"] # 0
  BY <1>7, Zenon
<1>9. d \in BOOLEAN
  BY Zenon
<1> HIDE DEF d, u
<1>10. TimShape(u) /\ SameMode(t, u) /\ Running(t["CEN"], oneshot, d, u["timer"])
  <2>1. u = Tim!stm32_timer_update(t, count) /\ Sane(tim["CEN"], tim["OneShot"], tim["deaf"], t["timer"])
    BY <1>0, <1>7, Zenon DEF u
  <2> QED BY <2>1, <1>7, <1>8, TimUpdate, Zenon
<1>11. /\ TimShape(tim') /\ tim'["deaf"] = d /\ tim'["CEN"] = u["CEN"]
       /\ tim'["OneShot"] = u["OneShot"] /\ tim'["timer"] = u["timer"]
  BY <1>2, <1>9, <1>10, TimSetMode, SMTT(60)
<1> QED
  BY <1>7, <1>10, <1>11, Zenon DEF TimOk, SameMode

\* The bottom half.
LEMMA TimTick ==
  ASSUME TimOk(tim), Tim!stm32_timer_tick
  PROVE  TimOk(tim')
<1> DEFINE c0 == tim["CEN"]  o0 == tim["OneShot"]  d0 == tim["deaf"]
           p == Tim!TakeBh(tim["timer"])
           a == [tim EXCEPT !.timer = p]
           u == Tim!stm32_timer_update_UIF(a, TRUE)
           n == IF u.down THEN u.arr ELSE 0
           c == Tim!stm32_timer_set_count(u, n)
           v == IF c.CMS THEN ~c.down ELSE c.down
           m == [c EXCEPT !.down = v]
<1>0. TimShape(tim) /\ Sane(c0, o0, d0, tim["timer"]) /\ PtimerShape(tim["timer"])
  BY Zenon DEF TimOk, Running, Sane
<1>1. IF m.OneShot THEN tim' = [m EXCEPT !.CEN = FALSE]
      ELSE \E count : tim' = Tim!stm32_timer_update(m, count)
  BY Zenon DEF Tim!stm32_timer_tick
<1>2. Sane(c0, o0, d0, p)
  <2>1. /\ PtimerShape(p) /\ p["enabled"] = tim["timer"]["enabled"]
        /\ p["period"] = tim["timer"]["period"]
    BY <1>0, BhSet, Zenon DEF Tim!TakeBh
  <2> HIDE DEF p
  <2> QED BY <1>0, <2>1, Zenon DEF Sane
<1> HIDE DEF p
<1>3. TimShape(a) /\ SameMode(tim, a) /\ a["timer"] = p
  BY <1>0, TimSetTimer
<1> HIDE DEF a
<1>4. TimShape(u) /\ SameMode(a, u) /\ u["timer"] = a["timer"]
  <2> DEFINE t == TRUE
  <2>1. u = [a EXCEPT !.UIF = t]
    BY Zenon DEF Tim!stm32_timer_update_UIF
  <2> HIDE DEF t, u
  <2> QED BY <1>3, <2>1, TimSetOther, SMTT(60)
<1> HIDE DEF u, n
<1>5. TimShape(c) /\ SameMode(u, c) /\ Sane(c0, o0, d0, c["timer"])
  <2>1. Sane(c0, o0, d0, u["timer"])
    BY <1>2, <1>3, <1>4, Zenon
  <2> QED BY <1>4, <2>1, TimCount, Zenon
<1> HIDE DEF c, v
<1>6. TimShape(m) /\ SameMode(c, m) /\ m["timer"] = c["timer"]
  BY <1>5, TimSetOther
<1> HIDE DEF m
<1>7. m["CEN"] = c0 /\ m["OneShot"] = o0 /\ m["deaf"] = d0 /\ Sane(c0, o0, d0, m["timer"])
  BY <1>3, <1>4, <1>5, <1>6, ZenonT(60) DEF SameMode
<1> HIDE DEF c0, o0, d0
<1>8. CASE o0 = TRUE
  <2> DEFINE f == FALSE
  <2>1. tim' = [m EXCEPT !.CEN = f] /\ f \in BOOLEAN
    BY <1>1, <1>7, <1>8, Zenon
  <2>2. Running(f, o0, d0, m["timer"])
    BY <1>7, <1>8, Zenon DEF Running, Sane
  <2> HIDE DEF f
  <2>3. /\ TimShape(tim') /\ tim'["CEN"] = f /\ tim'["OneShot"] = o0 /\ tim'["deaf"] = d0
        /\ tim'["timer"] = m["timer"]
    BY <2>1, <1>6, <1>7, TimSetMode
  <2> QED BY <2>2, <2>3, Zenon DEF TimOk
<1>9. CASE o0 = FALSE
  <2>1. PICK count : tim' = Tim!stm32_timer_update(m, count)
    BY <1>1, <1>7, <1>9, Zenon
  <2>2. m["CEN"] /\ ~d0 => tim'["timer"]["period"] # 0
    <3>1. Sane(m["CEN"], o0, d0, m["timer"])
      BY <1>7, Zenon
    <3> DEFINE z == tim'
    <3>2. z = Tim!stm32_timer_update(m, count)
      BY <2>1
    <3> HIDE DEF z
    <3>3. HasPeriod(m["CEN"], d0, z["timer"])
      BY <1>6, <3>1, <3>2, TimUpdatePeriod, Zenon
    <3> QED BY <3>3, Zenon DEF z, HasPeriod
  <2>3. TimShape(tim') /\ SameMode(m, tim') /\ Running(m["CEN"], o0, d0, tim'["timer"])
    BY <1>6, <1>7, <2>1, <2>2, TimUpdate, Zenon
  <2> QED BY <1>7, <2>3, Zenon DEF TimOk, SameMode
<1> QED
  BY <1>0, <1>8, <1>9, Zenon DEF TimShape, o0

\* Every step of a general timer keeps its invariant.
LEMMA TimStep ==
  ASSUME TimOk(tim), [Tim!TimNext]_tim
  PROVE  TimOk(tim')
<1> DEFINE c == tim["CEN"]  o == tim["OneShot"]  d == tim["deaf"]
<1>0. TimShape(tim) /\ Running(c, o, d, tim["timer"])
  BY Zenon DEF TimOk
<1>1. ASSUME NEW v, tim' = [tim EXCEPT !.timer = v], Running(c, o, d, v)
      PROVE  TimOk(tim')
  <2>1. TimShape(tim') /\ SameMode(tim, tim') /\ tim'["timer"] = v
    BY <1>0, <1>1, TimSetTimer
  <2> QED BY <1>1, <2>1, Zenon DEF TimOk, SameMode
<1>2. ASSUME NEW cen \in BOOLEAN, NEW oneshot \in BOOLEAN, NEW dir \in BOOLEAN, NEW cms \in BOOLEAN,
             Tim!WriteCR1(cen, oneshot, dir, cms)
      PROVE  TimOk(tim')
  BY <1>2, TimWriteCR1, Zenon
<1>3. ASSUME NEW uif, Tim!WriteSR(uif)
      PROVE  TimOk(tim')
  <2> DEFINE v == IF uif THEN tim.UIF ELSE ~tim.UIF
  <2>1. tim' = [tim EXCEPT !.UIF = v]
    BY <1>3, Zenon DEF Tim!WriteSR, Tim!stm32_timer_update_UIF
  <2> HIDE DEF v
  <2>2. TimShape(tim') /\ SameMode(tim, tim') /\ tim'["timer"] = tim["timer"]
    BY <1>0, <2>1, TimSetOther
  <2> QED BY <1>0, <2>2, Zenon DEF TimOk, SameMode
<1>4. ASSUME Tim!WriteEGR
      PROVE  TimOk(tim')
  <2> DEFINE v == Tim!ptimer_set_limit(tim["timer"], tim["arr"], TRUE)
  <2>1. tim' = [tim EXCEPT !.timer = v]
    BY <1>4, Zenon DEF Tim!WriteEGR
  <2>2. Running(c, o, d, v)
    BY <1>0, TimSetLimit, Zenon
  <2> HIDE DEF v
  <2> QED BY <1>1, <2>1, <2>2, Zenon
<1>5. ASSUME NEW cnt, Tim!WriteCNT(cnt)
      PROVE  TimOk(tim')
  <2> DEFINE u == Tim!stm32_timer_set_count(tim, cnt)
  <2>1. tim' = u
    BY <1>5, Zenon DEF Tim!WriteCNT
  <2>2. TimShape(u) /\ SameMode(tim, u) /\ Running(c, o, d, u["timer"])
    BY <1>0, TimCount, Zenon
  <2> HIDE DEF u
  <2> QED BY <2>1, <2>2, Zenon DEF TimOk, SameMode
<1>6. ASSUME NEW arr, Tim!WriteARR(arr)
      PROVE  TimOk(tim')
  <2> DEFINE a == [tim EXCEPT !.arr = arr]
             v == Tim!ptimer_set_limit(tim["timer"], arr, TRUE)
  <2>1. tim' = [a EXCEPT !.timer = v]
    <3>1. tim' = [tim EXCEPT !.arr = arr, !.timer = v]
      BY <1>6, Zenon DEF Tim!WriteARR
    <3> HIDE DEF v
    <3> QED BY <1>0, <3>1, Zenon DEF TimShape, TimFields
  <2>2. Running(c, o, d, v)
    BY <1>0, TimSetLimit, Zenon
  <2>3. TimShape(a) /\ SameMode(tim, a)
    BY <1>0, TimSetOther
  <2> HIDE DEF a, v
  <2>4. TimShape(tim') /\ SameMode(a, tim') /\ tim'["timer"] = v
    BY <2>1, <2>3, TimSetTimer, Zenon
  <2> QED BY <2>2, <2>3, <2>4, Zenon DEF TimOk, SameMode
<1>7. ASSUME NEW period, tim' = Tim!stm32_timer_freq([tim EXCEPT !.clock = period])
      PROVE  TimOk(tim')
  <2> DEFINE a == [tim EXCEPT !.clock = period]  u == Tim!stm32_timer_freq(a)
  <2>1. TimShape(a) /\ SameMode(tim, a) /\ a["timer"] = tim["timer"]
    BY <1>0, TimSetOther, Zenon
  <2> HIDE DEF a
  <2>2. Running(c, o, d, a["timer"])
    BY <1>0, <2>1, Zenon
  <2>3. TimShape(u) /\ SameMode(a, u) /\ Running(c, o, d, u["timer"])
    BY <2>1, <2>2, TimFreq, Zenon
  <2>4. tim' = u
    BY <1>7, Zenon DEF a
  <2> HIDE DEF u
  <2> QED BY <2>1, <2>3, <2>4, Zenon DEF TimOk, SameMode
<1>8. ASSUME Tim!Expire
      PROVE  TimOk(tim')
  <2> DEFINE v == Tim!ptimer_tick(tim["timer"])
  <2>1. tim' = [tim EXCEPT !.timer = v]
    BY <1>8, Zenon DEF Tim!Expire
  <2>2. Running(c, o, d, v)
    BY <1>0, TimExpiry, Zenon
  <2> HIDE DEF v
  <2> QED BY <1>1, <2>1, <2>2, Zenon
<1>9. CASE Tim!stm32_timer_tick
  BY <1>9, TimTick, Zenon
<1>10. CASE tim' = tim
  BY <1>10, Zenon
<1>11. ASSUME NEW period, Tim!WritePSC(period) \/ Tim!stm32_timer_clk_irq_handler(period)
       PROVE  TimOk(tim')
  BY <1>7, <1>11, Zenon DEF Tim!WritePSC, Tim!stm32_timer_clk_irq_handler
<1> QED
  BY <1>2, <1>3, <1>4, <1>5, <1>6, <1>8, <1>9, <1>10, <1>11, ZenonT(60) DEF Tim!TimNext

\* CEN and the ptimer of stm32_timer.c agree after any sequence of register
\* writes, clock changes, expiries and bottom halves, for any reload values,
\* counts, periods and shortest timeout.
THEOREM TimRunsCorrect == Tim!TimInit /\ [][Tim!TimNext]_tim => []RunsWhileEnabled
<1>1. Tim!TimInit => TimOk(tim)
  BY DEF Tim!TimInit, Tim!ptimer_init, TimOk, TimShape, TimFields, Running, Sane, PtimerShape, PtimerFields
<1>2. TimOk(tim) /\ [Tim!TimNext]_tim => TimOk(tim)'
  BY TimStep
<1>3. TimOk(tim) => RunsWhileEnabled
  BY Zenon DEF TimOk, Running, Sane, RunsWhileEnabled, Tim!RunsWhileEnabled
<1> QED
  BY <1>1, <1>2, <1>3, PTL
-----------------------------------------------------------------------------
\* The watchdog: the types of its state.
IwdgTypes ==
  /\ prescaler \in Nat /\ IWDG_RLR \in Nat /\ asked \in Nat
  /\ timer \in Nat \cup {NoTimer} /\ owed \in Nat

\* An armed timer has at least as long to run as the firmware was promised.
Covered == timer # NoTimer => timer >= owed

\* A started watchdog is armed, and its expiry reboots.
Armed == enabled = TRUE => timer # NoTimer /\ reboot_enabled = TRUE

IwdgInv == IwdgTypes /\ Covered /\ Armed

\* The period of tim_period is a natural number, and the one in nanoseconds
\* that was asked for whenever that is less than 2^32.
LEMMA Periods ==
  ASSUME prescaler \in Nat, IWDG_RLR \in Nat
  PROVE  tim_period \in Nat /\ Promise \in Nat /\ tim_period >= Promise
<1>1. Unit \in Nat /\ Word \in Nat \ {0}
  BY IwdgAssumption
<1>2. (Unit * prescaler) \div 40 \in Nat
  BY <1>1
<1>3. Nominal \in Nat
  BY <1>2 DEF Nominal
<1>4. Nominal % Word \in Nat /\ (Nominal < Word => Nominal % Word = Nominal)
  BY <1>1, <1>3, SMTT(60)
<1> QED
  BY <1>3, <1>4, SMTT(60) DEF tim_period, Promise

\* A feed arms the timer for no less than the time it promises.
LEMMA Restarted ==
  ASSUME IwdgTypes, Restart
  PROVE  timer' \in Nat /\ owed' \in Nat /\ timer' >= owed' /\ timer' # NoTimer
<1>1. tim_period \in Nat /\ Promise \in Nat /\ tim_period >= Promise
  BY Periods DEF IwdgTypes
<1>2. timer' = tim_period /\ owed' = Promise
  BY DEF Restart
<1> QED
  BY <1>1, <1>2, SMTT(60) DEF NoTimer

\* iwdg_reset leaves a watchdog that is neither started nor armed.
LEMMA IwdgResetKeeps ==
  ASSUME iwdg_reset
  PROVE  IwdgInv'
<1>1. ResetRLR \in Nat
  BY IwdgAssumption
<1>2. IwdgTypes'
  BY <1>1 DEF iwdg_reset, IwdgTypes
<1>3. Covered'
  BY DEF iwdg_reset, Covered
<1>4. Armed'
  BY DEF iwdg_reset, Armed
<1> QED
  BY <1>2, <1>3, <1>4, SMTT(60) DEF IwdgInv

\* 4 << IWDG_PR is a natural number.
LEMMA ShiftedType ==
  ASSUME NEW pr \in PRs
  PROVE  Shifted[pr + 1] \in Nat
<1>1. pr \in 0..7
  BY IwdgAssumption
<1> QED
  BY <1>1 DEF Shifted

\* Every step of firmware, main loop and time keeps the invariant.
LEMMA IwdgStepKeeps == IwdgInv /\ [IwdgNext]_iwdgVars => IwdgInv'
<1> SUFFICES ASSUME IwdgInv, [IwdgNext]_iwdgVars
             PROVE  IwdgInv'
  OBVIOUS
<1>0. IwdgTypes /\ Covered /\ Armed
  BY DEF IwdgInv
<1>1. CASE WriteKRStart
  <2>1. Restart /\ UNCHANGED <<prescaler, IWDG_RLR, asked>>
    BY <1>1 DEF WriteKRStart
  <2>2. timer' \in Nat /\ owed' \in Nat /\ timer' >= owed' /\ timer' # NoTimer
    BY <1>0, <2>1, Restarted, Zenon
  <2>3. reboot_enabled' = TRUE
    BY <1>1 DEF WriteKRStart
  <2> QED
    BY <1>0, <2>1, <2>2, <2>3, SMTT(60) DEF IwdgInv, IwdgTypes, Covered, Armed
<1>2. CASE WriteKRFeed
  <2>1. UNCHANGED <<enabled, reboot_enabled, prescaler, IWDG_RLR, asked>>
    BY <1>2 DEF WriteKRFeed
  <2>2. CASE enabled
    <3>1. Restart
      BY <1>2, <2>2, SMTT(60) DEF WriteKRFeed
    <3>2. timer' \in Nat /\ owed' \in Nat /\ timer' >= owed' /\ timer' # NoTimer
      BY <1>0, <3>1, Restarted, Zenon
    <3> QED
      BY <1>0, <2>1, <3>2, SMTT(60) DEF IwdgInv, IwdgTypes, Covered, Armed
  <2>3. CASE ~enabled
    <3>1. UNCHANGED <<timer, owed>>
      BY <1>2, <2>3, SMTT(60) DEF WriteKRFeed
    <3> QED
      BY <1>0, <2>1, <3>1, SMTT(60) DEF IwdgInv, IwdgTypes, Covered, Armed
  <2> QED
    BY <2>2, <2>3, Zenon
<1>3. CASE WriteKRUnlock
  BY <1>0, <1>3, SMTT(60) DEF WriteKRUnlock, IwdgInv, IwdgTypes, Covered, Armed
<1>4. ASSUME NEW pr \in PRs, WriteIwdgPR(pr)
      PROVE  IwdgInv'
  <2>1. prescaler' \in Nat
    BY <1>0, <1>4, ShiftedType, Zenon DEF WriteIwdgPR, IwdgTypes
  <2> QED
    BY <1>0, <1>4, <2>1, SMTT(60) DEF WriteIwdgPR, IwdgInv, IwdgTypes, Covered, Armed
<1>5. ASSUME NEW value \in RLRs, WriteIwdgRLR(value)
      PROVE  IwdgInv'
  <2>1. value \in Nat /\ RlrRange \in Nat \ {0}
    BY IwdgAssumption
  <2>2. IWDG_RLR' \in Nat /\ asked' \in Nat
    BY <1>0, <1>5, <2>1, SMTT(60) DEF WriteIwdgRLR, IwdgTypes
  <2> QED
    BY <1>0, <1>5, <2>2, SMTT(60) DEF WriteIwdgRLR, IwdgInv, IwdgTypes, Covered, Armed
<1>6. CASE iwdg_timer_expired
  <2>1. CASE reboot_enabled
    BY <1>6, <2>1, IwdgResetKeeps, SMTT(60) DEF iwdg_timer_expired
  <2>2. CASE ~reboot_enabled
    <3>1. timer' = NoTimer
      BY <1>6, <2>2, Zenon DEF iwdg_timer_expired
    <3>2. UNCHANGED <<enabled, reboot_enabled, prescaler, IWDG_RLR, asked, owed>>
      BY <1>6, <2>2 DEF iwdg_timer_expired
    <3>3. enabled # TRUE
      <4>1. reboot_enabled # TRUE
        BY <2>2, Zenon
      <4> QED
        BY <1>0, <4>1, Zenon DEF Armed
    <3>4. IwdgTypes'
      BY <1>0, <3>1, <3>2, Zenon DEF IwdgTypes
    <3>5. Covered'
      BY <3>1 DEF Covered
    <3>6. Armed'
      BY <3>2, <3>3, Zenon DEF Armed
    <3> QED
      BY <3>4, <3>5, <3>6, SMTT(60) DEF IwdgInv
  <2> QED
    BY <2>1, <2>2
<1>7. CASE qemu_system_reset
  BY <1>7, IwdgResetKeeps, Zenon DEF qemu_system_reset
<1>8. CASE qmp_system_reset
  BY <1>0, <1>8, Zenon DEF qmp_system_reset, IwdgInv, IwdgTypes, Covered, Armed
<1>9. CASE Hang
  BY <1>0, <1>9, Zenon DEF Hang, IwdgInv, IwdgTypes, Covered, Armed
<1>10. CASE Elapse
  <2>1. UNCHANGED <<enabled, reboot_enabled, prescaler, IWDG_RLR, asked>>
    BY <1>10 DEF Elapse
  <2>2. timer' = (IF timer > 0 THEN timer - 1 ELSE timer) /\ owed' = (IF owed > 0 THEN owed - 1 ELSE owed)
    BY <1>10, Zenon DEF Elapse
  <2>3. timer' \in Nat \cup {NoTimer} /\ owed' \in Nat /\ (timer' = NoTimer <=> timer = NoTimer)
    BY <1>0, <2>2, SMTT(60) DEF IwdgTypes, NoTimer
  <2>4. timer' # NoTimer => timer' >= owed'
    BY <1>0, <2>2, <2>3, SMTT(60) DEF IwdgTypes, Covered, NoTimer
  <2> QED
    BY <1>0, <2>1, <2>3, <2>4, Zenon DEF IwdgInv, IwdgTypes, Covered, Armed
<1>11. CASE UNCHANGED iwdgVars
  BY <1>0, <1>11 DEF iwdgVars, IwdgInv, IwdgTypes, Covered, Armed
<1> QED
  BY <1>1, <1>2, <1>3, <1>4, <1>5, <1>6, <1>7, <1>8, <1>9, <1>10, <1>11, ZenonT(60) DEF IwdgNext

\* In every reachable state of the watchdog the invariant holds.
LEMMA IwdgInvariance == IwdgSpec => []IwdgInv
<1>1. IwdgInit => IwdgInv
  <2>1. ResetRLR \in Nat
    BY IwdgAssumption
  <2> QED
    BY <2>1 DEF IwdgInit, IwdgInv, IwdgTypes, Covered, Armed
<1> QED
  BY <1>1, IwdgStepKeeps, PTL DEF IwdgSpec

\* A started watchdog has its timer armed and its expiry reboots, through any
\* writes of the firmware and any resets: only a reset stops it.
THEOREM StartedIsArmed == IwdgSpec => []Armed
<1>1. IwdgInv => Armed
  BY DEF IwdgInv
<1> QED
  BY <1>1, IwdgInvariance, PTL

\* The callback never runs before the time promised at the last feed is over
\* (iwdg_timer_expired, tim_period).
THEOREM NotBeforePromise == IwdgSpec => NeverEarly
<1>1. IwdgInv /\ [IwdgNext]_iwdgVars => [iwdg_timer_expired => owed = 0]_iwdgVars
  <2> SUFFICES ASSUME IwdgInv, iwdg_timer_expired
               PROVE  owed = 0
    OBVIOUS
  <2>1. timer = 0
    BY Zenon DEF iwdg_timer_expired
  <2> QED
    BY <2>1 DEF IwdgInv, IwdgTypes, Covered, NoTimer
<1> QED
  BY <1>1, IwdgInvariance, PTL DEF IwdgSpec, NeverEarly

\* With the constants of the code, the period of tim_period is exact for every
\* reload value a write can leave and a prescaler up to 64.  With 128 it is not
\* from 1343 on: 3200000 * 1343 is more than 2^32.
THEOREM PeriodFits ==
  ASSUME Unit = 1000000, Word = 4294967296,
         prescaler \in {4, 8, 16, 32, 64}, IWDG_RLR \in 0..2047
  PROVE  tim_period = Nominal
<1>1. (Unit * prescaler) \div 40 \in {100000, 200000, 400000, 800000, 1600000}
  BY SMTT(60)
<1>2. Nominal \in Nat /\ Nominal < Word
  <2> DEFINE p == (Unit * prescaler) \div 40
  <2>1. p \in Nat /\ p <= 1600000
    BY <1>1, SMTT(60)
  <2>2. p * IWDG_RLR \in Nat /\ p * IWDG_RLR <= 1600000 * 2047
    <3> HIDE DEF p
    <3> QED
      BY <2>1
  <2> QED
    BY <2>2, SMTT(60) DEF Nominal
<1> QED
  BY <1>2, SMTT(60) DEF tim_period
-----------------------------------------------------------------------------
\* The EXTI: the conjunction of its properties is inductive.
IInv == TypeOK /\ NoSpuriousIrq /\ PrivateIrqFollowsPending

Private == (0..4) \cup {16, 18}

\* A line that does not share its output is the only one mapped to it.
LEMMA PrivateAlone ==
  ASSUME NEW l \in 0..19, NEW k \in 0..19, l \in Private, IrqOf(k) = IrqOf(l)
  PROVE  k = l /\ IrqOf(l) \in Irqs
BY DEF Private, IrqOf, Irqs

\* stm32_exti_change_EXTI_PR_bit keeps the three properties, whichever lines
\* it is called for, in either direction.
LEMMA PendingChange ==
  ASSUME IInv, ~abort,
         NEW S, S \subseteq Lines,
         NEW value \in {0, 1},
         NEW swier, swier \subseteq Lines,
         stm32_exti_change_EXTI_PR_bit(S, value, swier)
  PROVE  /\ SWIER' \subseteq Lines /\ PR' \subseteq Lines
         /\ irq' \in [Irqs -> {0, 1}] /\ abort' \in BOOLEAN
         /\ NoSpuriousIrq' /\ PrivateIrqFollowsPending'
<1> DEFINE changed == IF value = 1 THEN S \ PR ELSE S \cap PR
           Touched(i) == \E l \in changed : IrqOf(l) = i
<1>1. /\ PR' = IF value = 1 THEN PR \cup changed ELSE PR \ changed
      /\ SWIER' = IF value = 1 THEN swier ELSE swier \ changed
      /\ irq' = [i \in Irqs |-> IF Touched(i) THEN value ELSE irq[i]]
      /\ abort' = (19 \in changed)
  BY DEF stm32_exti_change_EXTI_PR_bit
<1>2. /\ PR \subseteq Lines /\ irq \in [Irqs -> {0, 1}] /\ changed \subseteq Lines
      /\ \A i \in Irqs : irq[i] = 1 => \E l \in PR : IrqOf(l) = i
      /\ \A l \in Lines : l \in Private => (irq[IrqOf(l)] = 1 <=> l \in PR)
  BY DEF IInv, TypeOK, NoSpuriousIrq, PrivateIrqFollowsPending, Private
<1>3. Lines \subseteq 0..19
  BY ExtiAssumption, SMTT(60) DEF ExtiAssumption, EXTI_LINE_COUNT
<1>4. SWIER' \subseteq Lines /\ PR' \subseteq Lines
  BY <1>1, <1>2, SMTT(60)
<1>5. irq' \in [Irqs -> {0, 1}] /\ abort' \in BOOLEAN
  BY <1>1, <1>2
<1>6. NoSpuriousIrq'
  <2> SUFFICES ASSUME NEW i \in Irqs, irq'[i] = 1
               PROVE  \E l \in PR' : IrqOf(l) = i
    BY DEF NoSpuriousIrq
  <2>1. CASE Touched(i)
    <3>1. value = 1 BY <1>1, <2>1, SMTT(60)
    <3>2. changed \subseteq PR' BY <1>1, <3>1
    <3> QED BY <2>1, <3>2, ZenonT(60)
  <2>2. CASE ~Touched(i)
    <3>1. irq[i] = 1 BY <1>1, <2>2
    <3>2. PICK l \in PR : IrqOf(l) = i BY <1>2, <3>1, Zenon
    <3>3. l \notin changed BY <2>2, <3>2, ZenonT(60)
    <3>4. l \in PR' BY <1>1, <3>3, SMTT(60)
    <3> QED BY <3>2, <3>4, ZenonT(60)
  <2> QED BY <2>1, <2>2
<1>7. PrivateIrqFollowsPending'
  <2> SUFFICES ASSUME NEW l \in Lines, l \in Private
               PROVE  irq'[IrqOf(l)] = 1 <=> l \in PR'
    BY Zenon DEF PrivateIrqFollowsPending, Private
  <2>1. IrqOf(l) \in Irqs /\ \A k \in Lines : IrqOf(k) = IrqOf(l) => k = l
    BY <1>3, PrivateAlone, Zenon
  <2>2. Touched(IrqOf(l)) <=> l \in changed
    BY <1>2, <2>1, Zenon
  <2>3. irq'[IrqOf(l)] = IF l \in changed THEN value ELSE irq[IrqOf(l)]
    BY <1>1, <2>1, <2>2, Zenon
  <2>4. irq[IrqOf(l)] = 1 <=> l \in PR
    BY <1>2, Zenon
  <2>5. l \in PR' <=> IF l \in changed THEN value = 1 ELSE l \in PR
    BY <1>1, Zenon
  <2> HIDE DEF changed
  <2> QED BY <2>3, <2>4, <2>5, Zenon
<1> QED BY <1>4, <1>5, <1>6, <1>7, SMTT(60)

\* After stm32_exti_init no output is raised.
LEMMA Initially == Init => IInv
<1> SUFFICES ASSUME Init PROVE IInv OBVIOUS
<1>1. TypeOK
  <2>1. irq \in [Irqs -> {0, 1}] BY DEF Init
  <2> QED BY <2>1, Zenon DEF Init, TypeOK
<1>2. NoSpuriousIrq BY DEF Init, NoSpuriousIrq
<1>3. PrivateIrqFollowsPending
  <2> SUFFICES ASSUME NEW l \in Lines, l \in (0..4) \cup {16, 18}
               PROVE  irq[IrqOf(l)] # 1 /\ l \notin PR
    BY DEF PrivateIrqFollowsPending
  <2>1. IrqOf(l) \in Irqs BY DEF IrqOf, Irqs
  <2> QED BY <2>1 DEF Init
<1> QED BY <1>1, <1>2, <1>3, Zenon DEF IInv

\* Every register write, edge and reset keeps the invariant.
LEMMA Step == IInv /\ [Next]_extiVars => IInv'
<1> SUFFICES ASSUME IInv, [Next]_extiVars PROVE IInv' OBVIOUS
<1> USE DEF IInv
<1>1. ASSUME NEW v \in SUBSET Lines, WriteIMR(v) PROVE IInv'
  BY <1>1 DEF WriteIMR, TypeOK, NoSpuriousIrq, PrivateIrqFollowsPending
<1>2. ASSUME NEW v \in SUBSET Lines, WriteRTSR(v) PROVE IInv'
  <2>1. PICK S \in SUBSET Lines : stm32_exti_change_EXTI_PR_bit(S, 0, SWIER)
    BY <1>2, SMTT(60) DEF WriteRTSR, update_TSR_bit, TypeOK
  <2> QED BY <1>2, <2>1, PendingChange, Zenon DEF WriteRTSR, TypeOK
<1>3. ASSUME NEW v \in SUBSET Lines, WriteFTSR(v) PROVE IInv'
  <2>1. PICK S \in SUBSET Lines : stm32_exti_change_EXTI_PR_bit(S, 0, SWIER)
    BY <1>3, SMTT(60) DEF WriteFTSR, update_TSR_bit, TypeOK
  <2> QED BY <1>3, <2>1, PendingChange, SMTT(60) DEF WriteFTSR, TypeOK
<1>4. ASSUME NEW v \in SUBSET Lines, WriteSWIER(v) PROVE IInv'
  <2>1. PICK S \in SUBSET Lines :
          stm32_exti_change_EXTI_PR_bit(S, 1, SWIER \cup v)
    BY <1>4 DEF WriteSWIER, stm32_exti_trigger, TypeOK
  <2> QED BY <1>4, <2>1, PendingChange, SMTT(60) DEF WriteSWIER, TypeOK
<1>5. ASSUME NEW v \in SUBSET Lines, WritePR(v) PROVE IInv'
  <2>1. PICK S \in SUBSET Lines : stm32_exti_change_EXTI_PR_bit(S, 0, SWIER)
    BY <1>5 DEF WritePR
  <2> QED BY <1>5, <2>1, PendingChange, SMTT(60) DEF WritePR, TypeOK
<1>6. ASSUME NEW pin \in GpioLines, NEW level \in {0, 1},
             stm32_exti_gpio_in_handler(pin, level)
      PROVE  IInv'
  <2>1. CASE stm32_exti_trigger({pin}, SWIER)
    <3>1. PICK S \in SUBSET Lines : stm32_exti_change_EXTI_PR_bit(S, 1, SWIER)
      BY <2>1 DEF stm32_exti_trigger, GpioLines
    <3>2. ~abort /\ UNCHANGED <<IMR, RTSR, FTSR>>
      BY <1>6 DEF stm32_exti_gpio_in_handler
    <3>3. SWIER \subseteq Lines BY DEF TypeOK
    <3>4. /\ SWIER' \subseteq Lines /\ PR' \subseteq Lines
          /\ irq' \in [Irqs -> {0, 1}] /\ abort' \in BOOLEAN
          /\ NoSpuriousIrq' /\ PrivateIrqFollowsPending'
      BY <3>1, <3>2, <3>3, PendingChange, ZenonT(60)
    <3> QED BY <3>2, <3>4, Zenon DEF TypeOK
  <2>2. CASE UNCHANGED <<SWIER, PR, irq, abort>>
    BY <1>6, <2>2
    DEF stm32_exti_gpio_in_handler, TypeOK, NoSpuriousIrq, PrivateIrqFollowsPending
  <2> QED BY <1>6, <2>1, <2>2, Zenon DEF stm32_exti_gpio_in_handler
<1>7. CASE stm32_exti_reset
  <2>1. Init' BY <1>7 DEF stm32_exti_reset, Init, TypeOK
  <2>2. TypeOK'
    <3>1. irq' \in [Irqs -> {0, 1}] BY <2>1 DEF Init
    <3> QED BY <2>1, <3>1, Zenon DEF Init, TypeOK
  <2>3. NoSpuriousIrq' BY <2>1 DEF Init, NoSpuriousIrq
  <2>4. PrivateIrqFollowsPending'
    <3> SUFFICES ASSUME NEW l \in Lines, l \in (0..4) \cup {16, 18}
                 PROVE  irq'[IrqOf(l)] # 1 /\ l \notin PR'
      BY DEF PrivateIrqFollowsPending
    <3>1. IrqOf(l) \in Irqs BY DEF IrqOf, Irqs
    <3> QED BY <2>1, <3>1, SMTT(60) DEF Init
  <2> QED BY <2>2, <2>3, <2>4, Zenon
<1>8. CASE UNCHANGED extiVars
  BY <1>8 DEF extiVars, extiRegs, TypeOK, NoSpuriousIrq, PrivateIrqFollowsPending
<1> QED BY <1>1, <1>2, <1>3, <1>4, <1>5, <1>6, <1>7, <1>8, ZenonT(60) DEF Next

\* The invariant holds in every reachable state of the EXTI.
LEMMA Invariance == Spec => []IInv
BY Initially, Step, PTL DEF Spec

\* The registers of the EXTI keep their types, for every set of lines.
THEOREM TypeCorrect == Spec => []TypeOK
BY Invariance, PTL DEF IInv

\* No interrupt without a pending line, for every set of lines and however
\* they share outputs.
THEOREM NoSpuriousCorrect == Spec => []NoSpuriousIrq
BY Invariance, PTL DEF IInv

\* A line with an output of its own drives it with its pending bit.
THEOREM PrivateCorrect == Spec => []PrivateIrqFollowsPending
BY Invariance, PTL DEF IInv

\* Every step that ends a pending state rearms the software trigger, also for
\* the steps that change several lines at once.
THEOREM RearmCorrect == Spec => AcknowledgeRearms
<1>1. ASSUME IInv, [Next]_extiVars
      PROVE  [\A l \in PR : l \notin PR' => l \notin SWIER']_extiVars
  <2> SUFFICES ASSUME NEW l \in PR, l \notin PR', Next PROVE l \notin SWIER'
    BY <1>1, Zenon DEF extiVars, extiRegs
  <2>1. ASSUME NEW S, NEW value, NEW swier,
               stm32_exti_change_EXTI_PR_bit(S, value, swier)
        PROVE  l \notin SWIER'
    BY <2>1 DEF stm32_exti_change_EXTI_PR_bit
  <2>2. ASSUME NEW v \in SUBSET Lines,
               WriteIMR(v) \/ WriteRTSR(v) \/ WriteFTSR(v) \/ WriteSWIER(v) \/ WritePR(v)
        PROVE  l \notin SWIER'
    BY <2>1, <2>2, ZenonT(60) DEF WriteIMR, WriteRTSR, WriteFTSR, update_TSR_bit,
                             WriteSWIER, WritePR, stm32_exti_trigger
  <2>3. ASSUME NEW pin, NEW level, stm32_exti_gpio_in_handler(pin, level)
        PROVE  l \notin SWIER'
    BY <2>1, <2>3, Zenon DEF stm32_exti_gpio_in_handler, stm32_exti_trigger
  <2>4. CASE stm32_exti_reset
    BY <2>4, Zenon DEF stm32_exti_reset
  <2> QED BY <2>2, <2>3, <2>4, ZenonT(60) DEF Next
<1> QED BY <1>1, Invariance, PTL DEF Spec, AcknowledgeRearms
-----------------------------------------------------------------------------
\* The types the GPIO's writes rely on.
GpioTypes ==
  /\ ODR \in [Ports -> SUBSET Pins] /\ out \in [Ports -> SUBSET Pins]
  /\ dir_mask \in [Ports -> SUBSET Pins]

\* Driving the bits that change keeps the types, and in step what was.
LEMMA OdrWrite ==
  ASSUME GpioTypes, NEW port \in Ports, NEW value \in SUBSET Pins,
         Gpio!stm32_gpio_GPIOx_ODR_write(port, value), dir_mask' = dir_mask
  PROVE  /\ GpioTypes'
         /\ \A p \in Ports : \A pin \in dir_mask[p] :
              (pin \in out[p] <=> pin \in ODR[p]) => (pin \in out'[p] <=> pin \in ODR'[p])
<1> DEFINE changed == (ODR[port] \ value) \cup (value \ ODR[port])
           moved == changed \cap dir_mask[port]
           wires == (out[port] \ moved) \cup (moved \cap value)
<1>1. ODR' = [ODR EXCEPT ![port] = value] /\ out' = [out EXCEPT ![port] = wires]
  BY DEF Gpio!stm32_gpio_GPIOx_ODR_write
<1>2. wires \in SUBSET Pins
  BY Zenon DEF GpioTypes
<1>3. \A pin \in dir_mask[port] : (pin \in out[port] <=> pin \in ODR[port])
        => (pin \in wires <=> pin \in value)
  OBVIOUS
<1> HIDE DEF wires
<1>4. GpioTypes'
  BY <1>1, <1>2, Zenon DEF GpioTypes
<1>5. ODR'[port] = value /\ out'[port] = wires
      /\ \A p \in Ports : p # port => ODR'[p] = ODR[p] /\ out'[p] = out[p]
  BY <1>1 DEF GpioTypes
<1> QED
  BY <1>3, <1>4, <1>5, ZenonT(60)

\* Every step of the ports keeps the types, and in step what was.
LEMMA GpioStep ==
  ASSUME GpioTypes, [Gpio!Next]_(Gpio!gpioVars)
  PROVE  /\ GpioTypes'
         /\ \A p \in Ports : \A pin \in dir_mask[p] \cap dir_mask'[p] :
              (pin \in out[p] <=> pin \in ODR[p]) => (pin \in out'[p] <=> pin \in ODR'[p])
<1>1. CASE UNCHANGED Gpio!gpioVars
  BY <1>1, Zenon DEF GpioTypes, Gpio!gpioVars
<1>2. ASSUME NEW port \in Ports, NEW pins \in SUBSET Pins, NEW config,
             Gpio!WriteCR(port, pins, config)
      PROVE  GpioTypes' /\ ODR' = ODR /\ out' = out
  BY <1>2, Zenon DEF GpioTypes, Gpio!WriteCR, Gpio!stm32_gpio_update_dir
<1>3. ASSUME NEW port \in Ports, NEW value \in SUBSET Pins,
             Gpio!WriteODR(port, value) \/ Gpio!WriteBRR(port, value)
      PROVE  /\ dir_mask' = dir_mask
             /\ \E v \in SUBSET Pins : Gpio!stm32_gpio_GPIOx_ODR_write(port, v)
  <2>1. ODR[port] \ value \in SUBSET Pins
    BY SMTT(60) DEF GpioTypes
  <2> QED BY <1>3, <2>1, Zenon DEF Gpio!WriteODR, Gpio!WriteBRR
<1>4. ASSUME NEW port \in Ports, NEW lower \in SUBSET Pins, NEW upper \in SUBSET Pins,
             Gpio!WriteBSRR(port, lower, upper)
      PROVE  /\ dir_mask' = dir_mask
             /\ \E v \in SUBSET Pins : Gpio!stm32_gpio_GPIOx_ODR_write(port, v)
  <2>1. (ODR[port] \ upper) \cup lower \in SUBSET Pins
    BY DEF GpioTypes
  <2> QED BY <1>4, <2>1, SMTT(60) DEF Gpio!WriteBSRR
<1>5. ASSUME NEW port \in Ports, Gpio!Guest(port)
      PROVE  \/ GpioTypes' /\ ODR' = ODR /\ out' = out
             \/ /\ dir_mask' = dir_mask
                /\ \E v \in SUBSET Pins : Gpio!stm32_gpio_GPIOx_ODR_write(port, v)
  <2>1. Gpio!Low \in SUBSET Pins /\ Gpio!High \in SUBSET Pins
    BY DEF Gpio!Low, Gpio!High
  <2> QED BY <1>2, <1>3, <1>4, <1>5, <2>1, ZenonT(60) DEF Gpio!Guest
<1>6. ASSUME NEW port, NEW pin, NEW level, Gpio!stm32_gpio_in_trigger(port, pin, level)
      PROVE  GpioTypes' /\ ODR' = ODR /\ out' = out
  BY <1>6, SMTT(60) DEF GpioTypes, Gpio!stm32_gpio_in_trigger
<1>7. CASE Gpio!stm32_gpio_reset
  BY <1>7, SMTT(60) DEF GpioTypes, Gpio!stm32_gpio_reset
<1>8. CASE GpioTypes' /\ ODR' = ODR /\ out' = out
  BY <1>8, ZenonT(60)
<1>9. CASE /\ dir_mask' = dir_mask
           /\ \E p \in Ports, v \in SUBSET Pins : Gpio!stm32_gpio_GPIOx_ODR_write(p, v)
  <2>1. PICK p \in Ports, v \in SUBSET Pins : Gpio!stm32_gpio_GPIOx_ODR_write(p, v)
    BY <1>9
  <2> QED BY <1>9, <2>1, OdrWrite, SMTT(60)
<1> QED
  BY <1>1, <1>5, <1>6, <1>7, <1>8, <1>9, ZenonT(60) DEF Gpio!Next

\* For any ports and pins, no write to ODR, BSRR or BRR takes an output pin out
\* of step with its register (stm32_gpio_GPIOx_ODR_write drives only the bits
\* that change).
THEOREM GpioInSync == Gpio!Spec => OutputsStayInSync
<1>1. Gpio!Init => GpioTypes
  BY SMTT(60) DEF Gpio!Init, GpioTypes
<1>2. GpioTypes /\ [Gpio!Next]_(Gpio!gpioVars) => GpioTypes'
  BY GpioStep, ZenonT(60)
<1>3. GpioTypes /\ [Gpio!Next]_(Gpio!gpioVars) =>
        [\A port \in Ports : \A pin \in dir_mask[port] \cap dir_mask'[port] :
           (pin \in out[port] <=> pin \in ODR[port])
             => (pin \in out'[port] <=> pin \in ODR'[port])]_(Gpio!gpioVars)
  BY GpioStep, SMTT(60)
<1> QED
  BY <1>1, <1>2, <1>3, PTL DEF Gpio!Spec, OutputsStayInSync, Gpio!OutputsStayInSync
-----------------------------------------------------------------------------
\* Every line listens at least to the port its nibble names.
AfioOk ==
  /\ EXTICR \in [ExtiLines -> PortIds]
  /\ \A line \in ExtiLines : <<EXTICR[line], line>> \in conn

\* A write of AFIO_EXTICR exchanges at most one source of each line.
LEMMA ExticrWrite ==
  ASSUME AfioOk, NEW index, NEW value \in [ExtiLines -> PortIds],
         Afio!EXTICR_write(index, value)
  PROVE  AfioOk' /\ Afio!ResetAdds
<1> DEFINE L == Afio!LinesOf(index)
<1>1. /\ conn' = (conn \ {<<EXTICR[line], line>> : line \in L}) \cup {<<value[line], line>> : line \in L}
      /\ EXTICR' = [line \in ExtiLines |-> IF line \in L THEN value[line] ELSE EXTICR[line]]
  BY DEF Afio!EXTICR_write
<1>2. L \subseteq ExtiLines
  BY ZenonT(60) DEF Afio!LinesOf
<1> HIDE DEF L
<1>3. AfioOk'
  BY <1>1, <1>2 DEF AfioOk
<1>4. ASSUME NEW line \in ExtiLines, NEW new \in Afio!Sources(line)' \ Afio!Sources(line)
      PROVE  \E old \in Afio!Sources(line) :
               Afio!Sources(line)' = (Afio!Sources(line) \ {old}) \cup {new}
  <2> DEFINE S == Afio!Sources(line)
  <2>1. EXTICR[line] \in S
    BY DEF Afio!Sources, AfioOk
  <2>2. CASE line \in L
    <3>1. S' = (S \ {EXTICR[line]}) \cup {value[line]}
      BY <1>1, <1>2, <2>2 DEF Afio!Sources
    <3>2. new = value[line]
      BY <1>4, <3>1, Zenon
    <3> QED BY <2>1, <3>1, <3>2, ZenonT(60)
  <2>3. CASE line \notin L
    <3>1. S' = S
      BY <1>1, <2>3 DEF Afio!Sources
    <3> QED BY <1>4, <3>1, ZenonT(60)
  <2> QED BY <2>2, <2>3, ZenonT(60)
<1> QED
  BY <1>3, <1>4, ZenonT(60) DEF Afio!ResetAdds

\* Every step of the AFIO keeps its invariant, and only a reset adds a source.
LEMMA AfioStep ==
  ASSUME AfioOk, 0 \in PortIds, [Afio!Next]_(Afio!afioVars)
  PROVE  AfioOk' /\ Afio!ResetAdds
<1>1. ASSUME EXTICR' = EXTICR, conn' = conn
      PROVE  AfioOk' /\ Afio!ResetAdds
  <2>1. AfioOk'
    BY <1>1, Zenon DEF AfioOk
  <2>2. \A line : Afio!Sources(line)' = Afio!Sources(line)
    BY <1>1, Zenon DEF Afio!Sources
  <2> QED BY <2>1, <2>2, Zenon DEF Afio!ResetAdds
<1>2. CASE UNCHANGED Afio!afioVars
  BY <1>1, <1>2, Zenon DEF Afio!afioVars
<1>3. ASSUME NEW value, Afio!WriteMAPR(value)
      PROVE  EXTICR' = EXTICR /\ conn' = conn
  BY <1>3, Zenon DEF Afio!WriteMAPR
<1>4. ASSUME NEW index, NEW value \in [ExtiLines -> PortIds], Afio!WriteEXTICR(index, value)
      PROVE  Afio!EXTICR_write(index, value)
  BY <1>4, Zenon DEF Afio!WriteEXTICR
<1>5. CASE Afio!stm32_afio_reset
  <2>1. AfioOk'
    BY <1>5 DEF Afio!stm32_afio_reset, AfioOk
  <2> QED BY <1>5, <2>1, ZenonT(60) DEF Afio!ResetAdds
<1>6. CASE \E index \in 0..3, value \in [ExtiLines -> PortIds] : Afio!WriteEXTICR(index, value)
  BY <1>4, <1>6, ExticrWrite, Zenon
<1>7. CASE \E bits \in 0..31 : Afio!WriteMAPR(bits * 4)
  BY <1>1, <1>3, <1>7, Zenon
<1> QED
  BY <1>2, <1>5, <1>6, <1>7, Zenon DEF Afio!Next

\* For any ports and any lines, rerouting a line (stm32_afio_AFIO_EXTICR_write)
\* gives it a source only in exchange for one it had: only a reset, which skips
\* the disconnection, leaves it with more.
THEOREM AfioSources == Afio!Spec => OnlyResetAddsSources
<1> USE DevicesAssumption
<1>1. Afio!Init => AfioOk
  BY DEF Afio!Init, AfioOk
<1>2. AfioOk /\ [Afio!Next]_(Afio!afioVars) => AfioOk'
  BY AfioStep, Zenon
<1>3. AfioOk /\ [Afio!Next]_(Afio!afioVars) =>
        [Afio!ResetAdds]_(Afio!afioVars)
  BY AfioStep, Zenon
<1> QED
  BY <1>1, <1>2, <1>3, PTL DEF Afio!Spec, OnlyResetAddsSources, Afio!OnlyResetAddsSources
=============================================================================
