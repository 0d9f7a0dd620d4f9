----------------------------- MODULE ClockProofs -----------------------------
(***************************************************************************)
(* Proofs about ClockTree, for every tree.  While a change spreads, a clock *)
(* may lag behind the one it selected, but only as long as a call of that   *)
(* one still has it to visit (Fed).  The calls are for ever later clocks    *)
(* (Down), so none of them can change what its callers hold (Held), and a   *)
(* child that is still to be visited has not been notified (Fresh).         *)
(*                                                                          *)
(* Proofs about the system timer, for all scales and reload values and with *)
(* no bound on the virtual time; and about the reset and clock controller   *)
(* that gives it its scales, for every crystal of at most 8 MHz and all     *)
(* values the application may write.  A register write of the controller is *)
(* a sequence of changes of HCLK; the scales follow it by induction over    *)
(* that sequence.  What SystemInit does to HCLK depends on what its earlier *)
(* statements have set up (Progress).                                       *)
(***************************************************************************)
EXTENDS MCClocks, WellFoundedInduction, TLAPS

Freq == 0..(Mod - 1)
Source(c) == Inputs[c][selected[c]]

Local == \A c \in Clocks : output_freq[c] = Scaled(c)

Lags(c) == \E i \in 1..Len(calls) : calls[i][1] = Source(c) /\ c \in calls[i][3]
Fed ==
  \A c \in made :
    /\ Inputs[c] = <<>> => input_freq[c] = SourceFreq[c]
    /\ Inputs[c] # <<>> /\ selected[c] = 0 => input_freq[c] = 0
    /\ selected[c] # 0 => input_freq[c] = output_freq[Source(c)] \/ Lags(c)

Held ==
  \A i \in 1..Len(calls) :
    /\ calls[i][1] \in notified
    /\ calls[i][2] = output_freq[calls[i][1]]
    /\ \A c \in calls[i][3] : c \in made /\ calls[i][1] < c

Down == \A i, j \in 1..Len(calls) : i < j => calls[i][1] < calls[j][1]

Fresh ==
  \A i \in 1..Len(calls) : \A c \in calls[i][3] :
    Feeds(calls[i][1], c) => c \notin notified

\* Who is notified was fed by one that was, except the first.
Reached ==
  \A c \in notified :
    (\E p \in notified : Feeds(p, c)) \/ (\A d \in notified : c <= d)

IInv == TypeOK /\ Local /\ Fed /\ Held /\ Down /\ Fresh /\ Reached

\* Frequencies are taken modulo 2^32, and so stay in range.
LEMMA Modulo == ASSUME NEW x \in Int PROVE x % Mod \in Freq
BY ClockAssumption DEF ClockAssumption, Freq

\* What muldiv64 makes of a frequency is a frequency.
LEMMA InRange ==
  ASSUME NEW f \in Freq, NEW m \in Nat, NEW d \in Nat \ {0}
  PROVE  muldiv64(f, m, d) \in Freq
<1>1. f * m \in Int
  BY ClockAssumption DEF ClockAssumption, Freq
<1>2. (f * m) \div d \in Int
  BY <1>1
<1> QED BY <1>2, Modulo DEF muldiv64

\* What a call of clktree_recalc_output_freq does before its loop.
LEMMA Recalc ==
  ASSUME TypeOK, NEW clk \in Clocks, NEW below, NEW told,
         Scaled(clk)' \in Freq,
         clktree_recalc_output_freq(clk, below, told)
  PROVE  /\ output_freq' \in [Clocks -> Freq]
         /\ output_freq'[clk] = Scaled(clk)'
         /\ \A c \in Clocks \ {clk} : output_freq'[c] = output_freq[c]
         /\ \/ /\ calls' = below /\ notified' = told
               /\ output_freq' = output_freq
            \/ /\ calls' = Append(below, <<clk, output_freq'[clk], Outputs(clk)>>)
               /\ notified' = told \cup {clk}
<1>1. output_freq \in [Clocks -> Freq]
  BY DEF TypeOK, Freq
<1>2. CASE Scaled(clk)' # output_freq[clk]
  BY <1>1, <1>2 DEF clktree_recalc_output_freq
<1>3. CASE Scaled(clk)' = output_freq[clk]
  BY <1>1, <1>3 DEF clktree_recalc_output_freq
<1> QED BY <1>2, <1>3

\* A clock was created after the clocks it may select as its input.
LEMMA SourceEarlier ==
  ASSUME NEW c \in Clocks, NEW i \in 0..Len(Inputs[c]), i # 0
  PROVE  Inputs[c][i] \in Clocks /\ Inputs[c][i] < c /\ Inputs[c][i] # c
<1>1. Inputs[c] \in Seq(Clocks) /\ c \in Nat /\ Clocks \subseteq Nat
  BY ClockAssumption DEF ClockAssumption
<1>2. i \in 1..Len(Inputs[c])
  BY <1>1
<1>3. Inputs[c][i] \in Clocks
  BY <1>1, <1>2
<1>4. Inputs[c][i] < c
  BY <1>2, ClockAssumption DEF ClockAssumption
<1> QED BY <1>1, <1>3, <1>4

\* An operation on clk, seen from what it leaves behind.
LEMMA Started ==
  ASSUME IInv, Idle, NEW clk \in Clocks, NEW in \in Freq,
         made' = made \cup {clk},
         enabled' \in [Clocks -> BOOLEAN],
         multiplier' \in [Clocks -> Nat], divisor' \in [Clocks -> Nat \ {0}],
         selected' \in [Clocks -> Nat],
         selected'[clk] \in 0..Len(Inputs[clk]),
         \A c \in Clocks \ {clk} :
           /\ enabled'[c] = enabled[c] /\ multiplier'[c] = multiplier[c]
           /\ divisor'[c] = divisor[c] /\ selected'[c] = selected[c],
         input_freq' = [input_freq EXCEPT ![clk] = in],
         Inputs[clk] = <<>> => in = SourceFreq[clk],
         Inputs[clk] # <<>> /\ selected'[clk] = 0 => in = 0,
         selected'[clk] # 0 => in = output_freq[Inputs[clk][selected'[clk]]],
         clktree_recalc_output_freq(clk, <<>>, {})
  PROVE  IInv'
<1>1. /\ TypeOK /\ Local /\ Fed /\ calls = <<>>
      /\ input_freq \in [Clocks -> Freq] /\ output_freq \in [Clocks -> Freq]
      /\ made \subseteq Clocks /\ \A c \in Clocks : selected[c] \in 0..Len(Inputs[c])
  BY Zenon DEF IInv, TypeOK, Freq, Idle
<1>2. /\ input_freq' \in [Clocks -> Freq] /\ input_freq'[clk] = in
      /\ \A c \in Clocks \ {clk} : input_freq'[c] = input_freq[c]
  BY <1>1
<1>3. Scaled(clk)' \in Freq
  <2>1. 0 \in Freq
    BY ClockAssumption DEF ClockAssumption, Freq
  <2>2. muldiv64(in, multiplier'[clk], divisor'[clk]) \in Freq
    <3>1. multiplier'[clk] \in Nat /\ divisor'[clk] \in Nat \ {0}
      OBVIOUS
    <3> QED BY <3>1, InRange
  <2> QED BY <1>2, <2>1, <2>2 DEF Scaled
<1>4. /\ output_freq' \in [Clocks -> Freq]
      /\ output_freq'[clk] = Scaled(clk)'
      /\ \A c \in Clocks \ {clk} : output_freq'[c] = output_freq[c]
      /\ \/ /\ calls' = <<>> /\ notified' = {}
            /\ output_freq' = output_freq
         \/ /\ calls' = Append(<<>>, <<clk, output_freq'[clk], Outputs(clk)>>)
            /\ notified' = {} \cup {clk}
  BY <1>1, <1>3, Recalc, Zenon
<1>5. Local'
  <2> SUFFICES ASSUME NEW c \in Clocks PROVE output_freq'[c] = Scaled(c)'
    BY DEF Local
  <2>1. CASE c = clk
    BY <1>4, <2>1, Zenon
  <2>2. CASE c # clk
    <3>1. Scaled(c)' = Scaled(c)
      BY <1>2, <2>2 DEF Scaled
    <3> QED BY <1>1, <1>4, <2>2, <3>1, Zenon DEF Local
  <2> QED BY <2>1, <2>2
<1>6. \A c \in Clocks : selected'[c] \in 0..Len(Inputs[c])
  <2> SUFFICES ASSUME NEW c \in Clocks PROVE selected'[c] \in 0..Len(Inputs[c])
    OBVIOUS
  <2>1. CASE c = clk
    BY <2>1, Zenon
  <2>2. CASE c # clk
    <3>1. selected'[c] = selected[c]
      BY <2>2
    <3> QED BY <1>1, <3>1, Zenon
  <2> QED BY <2>1, <2>2
<1>7. \A c \in Outputs(clk) : c \in made /\ c \in Clocks /\ clk < c
  <2>1. \A c \in Clocks : \A i \in 1..Len(Inputs[c]) : Inputs[c][i] < c
    BY ClockAssumption DEF ClockAssumption
  <2> QED BY <1>1, <2>1 DEF Outputs
<1>8. CASE calls' = <<>> /\ notified' = {} /\ output_freq' = output_freq
  <2>1. Len(calls') = 0
    BY <1>8, Zenon
  <2>2. TypeOK'
    BY <1>1, <1>2, <1>6, <1>8, Zenon DEF TypeOK, Freq
  <2>3. Fed'
    <3> SUFFICES ASSUME NEW c \in made'
                 PROVE  /\ Inputs[c] = <<>> => input_freq'[c] = SourceFreq[c]
                        /\ Inputs[c] # <<>> /\ selected'[c] = 0 => input_freq'[c] = 0
                        /\ selected'[c] # 0 => input_freq'[c] = output_freq'[Source(c)']
      BY Zenon DEF Fed
    <3>1. CASE c = clk
      BY <1>2, <1>8, <3>1, Zenon DEF Source
    <3>2. CASE c # clk
      <4>1. c \in made /\ c \in Clocks
        BY <1>1, <3>2, Zenon
      <4>2. ~Lags(c)
        BY <1>1, SMTT(60) DEF Lags
      <4> QED BY <1>1, <1>2, <1>8, <3>2, <4>1, <4>2, SMTT(60) DEF Fed, Source
    <3> QED BY <3>1, <3>2, Zenon
  <2>4. Held' /\ Down' /\ Fresh' /\ Reached'
    BY <1>8, <2>1, SMTT(60) DEF Held, Down, Fresh, Reached
  <2> QED BY <1>5, <2>2, <2>3, <2>4, Zenon DEF IInv
<1>9. CASE /\ calls' = Append(<<>>, <<clk, output_freq'[clk], Outputs(clk)>>)
           /\ notified' = {clk}
  <2>1. /\ Len(calls') = 1 /\ calls'[1][1] = clk
        /\ calls'[1][2] = output_freq'[clk] /\ calls'[1][3] = Outputs(clk)
    BY <1>9, SMTT(60)
  <2>2. TypeOK'
    <3>1. calls' \in Seq(Clocks \X Freq \X SUBSET Clocks)
      <4>1. Outputs(clk) \in SUBSET Clocks /\ output_freq'[clk] \in Freq
        BY <1>3, <1>4, <1>7, Zenon
      <4> QED BY <1>9, <4>1, SMTT(60)
    <3> QED BY <1>1, <1>2, <1>4, <1>6, <1>9, <3>1, Zenon DEF TypeOK, Freq
  <2>3. Fed'
    <3> SUFFICES ASSUME NEW c \in made'
                 PROVE  /\ Inputs[c] = <<>> => input_freq'[c] = SourceFreq[c]
                        /\ Inputs[c] # <<>> /\ selected'[c] = 0 => input_freq'[c] = 0
                        /\ selected'[c] # 0 =>
                             input_freq'[c] = output_freq'[Source(c)'] \/ Lags(c)'
      BY Zenon DEF Fed
    <3>1. CASE c = clk
      <4>1. selected'[clk] # 0 => /\ Source(clk)' \in Clocks \ {clk}
        BY SourceEarlier, Zenon DEF Source
      <4>2. selected'[clk] # 0 => output_freq'[Source(clk)'] = in
        BY <1>4, <4>1, Zenon DEF Source
      <4> QED BY <1>2, <3>1, <4>2, Zenon
    <3>2. CASE c # clk
      <4>1. c \in made /\ c \in Clocks
        BY <1>1, <3>2, Zenon
      <4>2. ~Lags(c) /\ Source(c)' = Source(c)
        BY <1>1, <3>2, <4>1, SMTT(60) DEF Lags, Source
      <4>3. selected[c] # 0 => Source(c) \in Clocks
        BY <1>1, <4>1, SourceEarlier, Zenon DEF Source
      <4>4. CASE selected[c] # 0 /\ Source(c) = clk
        <5>1. c \in Outputs(clk)
          BY <1>1, <4>1, <4>4, SMTT(60) DEF Outputs, Source
        <5>2. 1 \in 1..Len(calls')
          BY <2>1
        <5>3. Lags(c)'
          BY <2>1, <4>2, <4>4, <5>1, <5>2, ZenonT(60) DEF Lags
        <5>4. input_freq'[c] = input_freq[c] /\ selected'[c] = selected[c]
          BY <1>2, <3>2, <4>1, Zenon
        <5>5. Inputs[c] = <<>> => input_freq[c] = SourceFreq[c]
          BY <1>1, <4>1, Zenon DEF Fed
        <5> QED BY <4>4, <5>3, <5>4, <5>5, Zenon
      <4>5. CASE selected[c] = 0 \/ Source(c) # clk
        <5>1. input_freq'[c] = input_freq[c] /\ selected'[c] = selected[c]
          BY <1>2, <3>2, <4>1, Zenon
        <5>2. selected[c] # 0 => output_freq'[Source(c)] = output_freq[Source(c)]
          BY <1>4, <4>3, <4>5, Zenon
        <5> QED BY <1>1, <4>1, <4>2, <5>1, <5>2, Zenon DEF Fed
      <4> QED BY <4>4, <4>5
    <3> QED BY <3>1, <3>2, Zenon
  <2>4. Held' /\ Down'
    BY <1>1, <1>7, <1>9, <2>1 DEF Held, Down
  <2>5. Fresh' /\ Reached'
    <3>1. clk \in Nat
      BY ClockAssumption DEF ClockAssumption
    <3>2. \A c \in Outputs(clk) : c # clk
      BY <1>7, <3>1
    <3> QED BY <1>9, <2>1, <3>1, <3>2 DEF Fresh, Reached
  <2> QED BY <1>5, <2>2, <2>3, <2>4, <2>5, Zenon DEF IInv
<1> QED BY <1>4, <1>8, <1>9

\* The operations that start a propagation (clktree_set_scale and its like).
LEMMA OperationStep ==
  ASSUME IInv, NEW clk \in Clocks, Operation(clk)
  PROVE  IInv'
<1>1. /\ enabled \in [Clocks -> BOOLEAN]
      /\ multiplier \in [Clocks -> Nat] /\ divisor \in [Clocks -> Nat \ {0}]
      /\ selected \in [Clocks -> Nat] /\ selected[clk] \in 0..Len(Inputs[clk])
      /\ input_freq \in [Clocks -> Freq] /\ output_freq \in [Clocks -> Freq]
  BY Zenon DEF IInv, TypeOK, Freq
<1>2. SourceFreq[clk] \in Freq /\ 0 \in Freq
  BY ClockAssumption DEF ClockAssumption, Freq
<1>3. \A sel \in 0..Len(Inputs[clk]) :
        /\ (IF sel = 0 THEN 0 ELSE output_freq[Inputs[clk][sel]]) \in Freq
        /\ sel \in Nat
        /\ sel # 0 => Inputs[clk] # <<>>
  <2> SUFFICES ASSUME NEW sel \in 0..Len(Inputs[clk])
               PROVE  /\ (IF sel = 0 THEN 0 ELSE output_freq[Inputs[clk][sel]]) \in Freq
                      /\ sel \in Nat
                      /\ sel # 0 => Inputs[clk] # <<>>
    BY Zenon
  <2>1. sel # 0 => Inputs[clk][sel] \in Clocks
    BY SourceEarlier
  <2>2. Inputs[clk] \in Seq(Clocks)
    BY ClockAssumption DEF ClockAssumption
  <2>3. sel # 0 => Inputs[clk] # <<>>
    BY <2>2, SMTT(60)
  <2> QED BY <1>1, <1>2, <2>1, <2>3
<1>4. ASSUME Idle, clk \in made
      PROVE  /\ made = made \cup {clk}
             /\ Inputs[clk] = <<>> => input_freq[clk] = SourceFreq[clk]
             /\ Inputs[clk] # <<>> /\ selected[clk] = 0 => input_freq[clk] = 0
             /\ selected[clk] # 0 => input_freq[clk] = output_freq[Inputs[clk][selected[clk]]]
             /\ input_freq = [input_freq EXCEPT ![clk] = input_freq[clk]]
             /\ input_freq[clk] \in Freq
  <2>1. Len(calls) = 0
    BY <1>4, Zenon DEF Idle
  <2>2. ~Lags(clk)
    BY <2>1 DEF Lags
  <2> QED BY <1>1, <1>4, <2>2 DEF IInv, Fed, Source
<1>5. Multipliers \subseteq Nat /\ Divisors \subseteq Nat \ {0} /\ 1 \in Nat \ {0}
  BY ClockAssumption DEF ClockAssumption
<1>6. ASSUME NEW on \in BOOLEAN, clktree_create_src_clk(clk, on)
      PROVE  IInv'
  <2>1. /\ Idle /\ Inputs[clk] = <<>> /\ made' = made \cup {clk}
        /\ enabled' \in [Clocks -> BOOLEAN]
        /\ multiplier' \in [Clocks -> Nat] /\ divisor' \in [Clocks -> Nat \ {0}]
        /\ selected' \in [Clocks -> Nat]
        /\ selected'[clk] \in 0..Len(Inputs[clk])
        /\ \A c \in Clocks \ {clk} :
             /\ enabled'[c] = enabled[c] /\ multiplier'[c] = multiplier[c]
             /\ divisor'[c] = divisor[c] /\ selected'[c] = selected[c]
        /\ input_freq' = [input_freq EXCEPT ![clk] = SourceFreq[clk]]
        /\ clktree_recalc_output_freq(clk, <<>>, {})
    BY <1>1, <1>5, <1>6, Zenon DEF clktree_create_src_clk
  <2>2. selected'[clk] = 0
    BY <2>1
  <2> QED BY <1>2, <2>1, <2>2, Started, ZenonT(60)
<1>7. ASSUME NEW m \in Multipliers, NEW d \in Divisors, NEW on \in BOOLEAN,
             NEW sel \in 0..Len(Inputs[clk]), clktree_create_clk(clk, m, d, on, sel)
      PROVE  IInv'
  <2>1. /\ Idle /\ Inputs[clk] # <<>> /\ made' = made \cup {clk}
        /\ enabled' \in [Clocks -> BOOLEAN]
        /\ multiplier' \in [Clocks -> Nat] /\ divisor' \in [Clocks -> Nat \ {0}]
        /\ selected' \in [Clocks -> Nat]
        /\ selected'[clk] = sel
        /\ \A c \in Clocks \ {clk} :
             /\ enabled'[c] = enabled[c] /\ multiplier'[c] = multiplier[c]
             /\ divisor'[c] = divisor[c] /\ selected'[c] = selected[c]
        /\ input_freq' = [input_freq EXCEPT ![clk] =
                            IF sel = 0 THEN 0 ELSE output_freq[Inputs[clk][sel]]]
        /\ clktree_recalc_output_freq(clk, <<>>, {})
    BY <1>1, <1>3, <1>5, <1>7, Zenon DEF clktree_create_clk
  <2>2. selected'[clk] \in 0..Len(Inputs[clk])
    BY <2>1, Zenon
  <2> QED BY <1>3, <2>1, <2>2, Started, ZenonT(60)
<1>8. ASSUME NEW m \in Multipliers, NEW d \in Divisors, clktree_set_scale(clk, m, d)
      PROVE  IInv'
  <2>1. /\ Idle /\ clk \in made /\ made' = made /\ enabled' = enabled
        /\ multiplier' \in [Clocks -> Nat] /\ divisor' \in [Clocks -> Nat \ {0}]
        /\ selected' = selected /\ input_freq' = input_freq
        /\ \A c \in Clocks \ {clk} :
             /\ enabled'[c] = enabled[c] /\ multiplier'[c] = multiplier[c]
             /\ divisor'[c] = divisor[c] /\ selected'[c] = selected[c]
        /\ clktree_recalc_output_freq(clk, <<>>, {})
    BY <1>1, <1>5, <1>8 DEF clktree_set_scale
  <2> QED BY <1>1, <1>4, <2>1, Started, Zenon
<1>9. ASSUME NEW on \in BOOLEAN, clktree_set_enabled(clk, on)
      PROVE  IInv'
  <2>1. /\ Idle /\ clk \in made /\ made' = made /\ enabled' \in [Clocks -> BOOLEAN]
        /\ multiplier' = multiplier /\ divisor' = divisor
        /\ selected' = selected /\ input_freq' = input_freq
        /\ \A c \in Clocks \ {clk} :
             /\ enabled'[c] = enabled[c] /\ multiplier'[c] = multiplier[c]
             /\ divisor'[c] = divisor[c] /\ selected'[c] = selected[c]
        /\ clktree_recalc_output_freq(clk, <<>>, {})
    BY <1>1, <1>9 DEF clktree_set_enabled
  <2> QED BY <1>1, <1>4, <2>1, Started, Zenon
<1>10. ASSUME NEW sel \in 0..Len(Inputs[clk]), clktree_set_selected_input(clk, sel)
       PROVE  IInv'
  <2>1. /\ Idle /\ clk \in made /\ Inputs[clk] # <<>> /\ made' = made
        /\ enabled' = enabled /\ multiplier' = multiplier /\ divisor' = divisor
        /\ selected' \in [Clocks -> Nat] /\ selected'[clk] = sel
        /\ \A c \in Clocks \ {clk} :
             /\ enabled'[c] = enabled[c] /\ multiplier'[c] = multiplier[c]
             /\ divisor'[c] = divisor[c] /\ selected'[c] = selected[c]
        /\ input_freq' = [input_freq EXCEPT ![clk] =
                            IF sel = 0 THEN 0 ELSE output_freq[Inputs[clk][sel]]]
        /\ clktree_recalc_output_freq(clk, <<>>, {})
    BY <1>1, <1>3, <1>10, Zenon DEF clktree_set_selected_input
  <2>2. selected'[clk] \in 0..Len(Inputs[clk])
    BY <2>1
  <2>3. made' = made \cup {clk}
    BY <1>4, <2>1
  <2> QED BY <1>1, <1>3, <2>1, <2>2, <2>3, Started, ZenonT(60)
<1> QED BY <1>6, <1>7, <1>8, <1>9, <1>10, Zenon DEF Operation

\* A call of clktree_recalc_output_freq for one output.
LEMMA VisitStep ==
  ASSUME IInv, Visit
  PROVE  IInv'
<1>1. /\ TypeOK /\ Local /\ Fed /\ Held /\ Down /\ Fresh /\ Reached
      /\ made \subseteq Clocks /\ notified \subseteq Clocks
      /\ input_freq \in [Clocks -> Freq] /\ output_freq \in [Clocks -> Freq]
      /\ enabled \in [Clocks -> BOOLEAN]
      /\ multiplier \in [Clocks -> Nat] /\ divisor \in [Clocks -> Nat \ {0}]
      /\ \A c \in Clocks : selected[c] \in 0..Len(Inputs[c])
      /\ calls \in Seq(Clocks \X Freq \X SUBSET Clocks)
  BY DEF IInv, TypeOK, Freq
<1>0. Clocks \subseteq Nat /\ made \subseteq Nat /\ notified \subseteq Nat
  BY <1>1, ClockAssumption DEF ClockAssumption
<1>2. PICK n \in Nat : n = Len(calls)
  BY <1>1
<1>3. n >= 1
  BY <1>1, <1>2 DEF Visit, Idle
<1>4. PICK p, f, S : p = calls[n][1] /\ f = calls[n][2] /\ S = calls[n][3]
  OBVIOUS
<1>5. calls[n] \in Clocks \X Freq \X SUBSET Clocks
  BY <1>1, <1>2, <1>3
<1>6. p \in Clocks /\ f \in Freq /\ S \subseteq Clocks
  BY <1>4, <1>5
<1>7. PICK rest, c : /\ c \in S
                     /\ rest = Append(Below, <<p, f, S \ {c}>>)
                     /\ IF Feeds(p, c)
                        THEN /\ input_freq' = [input_freq EXCEPT ![c] = f]
                             /\ clktree_recalc_output_freq(c, rest, notified)
                        ELSE calls' = rest /\ UNCHANGED <<input_freq, output_freq, notified>>
  <2>1. PICK c \in calls[Len(calls)][3] :
          LET top == calls[Len(calls)]
              r == Append(Below, <<top[1], top[2], top[3] \ {c}>>) IN
          IF Feeds(top[1], c)
          THEN /\ input_freq' = [input_freq EXCEPT ![c] = top[2]]
               /\ clktree_recalc_output_freq(c, r, notified)
          ELSE calls' = r /\ UNCHANGED <<input_freq, output_freq, notified>>
    BY Zenon DEF Visit
  <2>2. /\ c \in S
        /\ IF Feeds(p, c)
           THEN /\ input_freq' = [input_freq EXCEPT ![c] = f]
                /\ clktree_recalc_output_freq(c, Append(Below, <<p, f, S \ {c}>>), notified)
           ELSE /\ calls' = Append(Below, <<p, f, S \ {c}>>)
                /\ UNCHANGED <<input_freq, output_freq, notified>>
    BY <1>2, <1>4, <2>1, ZenonT(60)
  <2> QED BY <2>2, Zenon
<1>8. UNCHANGED <<made, enabled, multiplier, divisor, selected>>
  BY Zenon DEF Visit
<1>9. /\ rest \in Seq(Clocks \X Freq \X SUBSET Clocks) /\ Len(rest) = n
      /\ \A i \in 1..(n - 1) : rest[i] = calls[i]
      /\ rest[n] = <<p, f, S \ {c}>>
  <2>1. <<p, f, S \ {c}>> \in Clocks \X Freq \X SUBSET Clocks
    BY <1>6, Zenon
  <2>2. /\ Below \in Seq(Clocks \X Freq \X SUBSET Clocks) /\ Len(Below) = n - 1
        /\ \A i \in 1..(n - 1) : Below[i] = calls[i]
    <3>1. calls \in Seq(Clocks \X Freq \X SUBSET Clocks)
      BY <1>1, Zenon DEF TypeOK, Freq
    <3> QED BY <1>2, <1>3, <3>1 DEF Below
  <2> QED BY <1>3, <1>7, <2>1, <2>2
<1>10. rest[n][1] = p /\ rest[n][2] = f /\ rest[n][3] = S \ {c}
  BY <1>9
<1>11. \A i \in 1..n :
         /\ rest[i][1] = calls[i][1] /\ rest[i][2] = calls[i][2]
         /\ rest[i][3] \subseteq calls[i][3]
         /\ \A x \in calls[i][3] : x \notin rest[i][3] => i = n /\ x = c
         /\ i = n => c \notin rest[i][3]
         /\ calls[i][1] \in Clocks /\ i # n => calls[i][1] < p
  <2> SUFFICES ASSUME NEW i \in 1..n
               PROVE /\ rest[i][1] = calls[i][1] /\ rest[i][2] = calls[i][2]
                     /\ rest[i][3] \subseteq calls[i][3]
                     /\ \A x \in calls[i][3] : x \notin rest[i][3] => i = n /\ x = c
                     /\ i = n => c \notin rest[i][3]
                     /\ calls[i][1] \in Clocks /\ i # n => calls[i][1] < p
    BY ZenonT(60)
  <2>1. CASE i = n
    BY <1>4, <1>6, <1>10, <2>1, Zenon
  <2>2. CASE i # n
    <3>1. i \in 1..(n - 1) /\ n \in 1..Len(calls) /\ i \in 1..Len(calls) /\ i < n
      BY <1>2, <1>3, <2>2, SMTT(60)
    <3>2. rest[i] = calls[i]
      BY <1>9, <3>1, SMTT(60)
    <3>3. calls[i][1] < p
      BY <1>1, <1>4, <3>1, Zenon DEF Down
    <3> QED BY <2>2, <3>2, <3>3
  <2> QED BY <2>1, <2>2
<1>12. \A i \in 1..n :
         /\ i \in 1..Len(calls)
         /\ calls[i][1] \in notified /\ calls[i][2] = output_freq[calls[i][1]]
         /\ \A x \in calls[i][3] : x \in made /\ calls[i][1] < x
  BY <1>1, <1>2, Zenon DEF Held
<1>13. n \in 1..n /\ p \in notified /\ f = output_freq[p] /\ c \in made /\ c \in Clocks /\ p < c
  BY <1>1, <1>3, <1>4, <1>7, <1>12, SMTT(60)
<1>20. p \in Nat /\ c \in Nat /\ p # c /\ p < c
  BY <1>0, <1>6, <1>13
<1>14. \A i \in 1..n : calls[i][1] \in Nat /\ calls[i][1] < c /\ calls[i][1] # c
  <2> SUFFICES ASSUME NEW i \in 1..n
               PROVE  calls[i][1] \in Nat /\ calls[i][1] < c /\ calls[i][1] # c
    OBVIOUS
  <2>1. calls[i][1] \in Nat
    BY <1>0, <1>12, Zenon
  <2>2. CASE i = n
    BY <1>4, <1>20, <2>1, <2>2, Zenon
  <2>3. CASE i # n
    <3>1. calls[i][1] < p
      BY <1>1, <1>11, <1>12, <2>3, Zenon
    <3> QED BY <1>20, <2>1, <3>1, SMTT(60)
  <2> QED BY <2>2, <2>3, Zenon
\* Who lags still does, but for the visited child.
<1>15. ASSUME NEW x \in made, selected[x] # 0, Lags(x), x # c \/ ~Feeds(p, c)
       PROVE  \E i \in 1..n : rest[i][1] = Source(x) /\ x \in rest[i][3]
  <2>1. PICK i \in 1..n : calls[i][1] = Source(x) /\ x \in calls[i][3]
    BY <1>2, <1>15, Zenon DEF Lags
  <2>2. ~(i = n /\ x = c)
    BY <1>4, <1>15, <2>1, Zenon DEF Feeds, Source
  <2> QED BY <1>11, <2>1, <2>2, SMTT(60)
<1>16. ASSUME calls' = rest, notified' = notified, output_freq' = output_freq,
              input_freq' \in [Clocks -> Freq], Local',
              \A x \in Clocks \ {c} : input_freq'[x] = input_freq[x],
              Feeds(p, c) => input_freq'[c] = f,
              ~Feeds(p, c) => input_freq'[c] = input_freq[c]
       PROVE  IInv'
  <2>1. TypeOK'
    BY <1>1, <1>8, <1>9, <1>16, ZenonT(60) DEF TypeOK, Freq
  <2>2. Fed'
    <3> SUFFICES ASSUME NEW x \in made
                 PROVE  /\ Inputs[x] = <<>> => input_freq'[x] = SourceFreq[x]
                        /\ Inputs[x] # <<>> /\ selected[x] = 0 => input_freq'[x] = 0
                        /\ selected[x] # 0 =>
                             input_freq'[x] = output_freq[Source(x)] \/ Lags(x)'
      BY <1>8, <1>16, Zenon DEF Fed, Source
    <3>1. Source(x)' = Source(x) /\ x \in Clocks
      BY <1>1, <1>8, Zenon DEF Source
    <3>2. CASE x = c /\ Feeds(p, c)
      <4>1. Inputs[x] \in Seq(Clocks) /\ selected[x] \in 1..Len(Inputs[x])
        BY <1>1, <3>1, <3>2, ClockAssumption DEF ClockAssumption, Feeds
      <4>2. Inputs[x] # <<>>
        BY <4>1, SMTT(60)
      <4> QED BY <1>13, <1>16, <3>2, <4>2, Zenon DEF Feeds, Source
    <3>3. CASE x # c \/ ~Feeds(p, c)
      <4>1. input_freq'[x] = input_freq[x]
        BY <1>16, <3>1, <3>3, Zenon
      <4>2. ASSUME selected[x] # 0, Lags(x) PROVE Lags(x)'
        BY <1>9, <1>15, <1>16, <3>1, <3>3, <4>2, SMTT(60) DEF Lags
      <4> QED BY <1>1, <4>1, <4>2, Zenon DEF Fed
    <3> QED BY <3>2, <3>3, Zenon
  <2>3. Held'
    BY <1>2, <1>8, <1>9, <1>11, <1>12, <1>16, SMTT(60) DEF Held
  <2>5. Down'
    <3> SUFFICES ASSUME NEW i \in 1..n, NEW j \in 1..n, i < j
                 PROVE  rest[i][1] < rest[j][1]
      BY <1>9, <1>16 DEF Down
    <3>1. calls[i][1] < calls[j][1]
      BY <1>1, <1>2 DEF Down
    <3> QED BY <1>11, <3>1, ZenonT(60)
  <2>4. Fresh' /\ Reached'
    <3>1. \A q, x : Feeds(q, x)' <=> Feeds(q, x)
      BY <1>8 DEF Feeds
    <3>2. Reached'
      BY <1>1, <1>16, <3>1, ZenonT(60) DEF Reached
    <3>3. Fresh'
      <4> SUFFICES ASSUME NEW i \in 1..n, NEW x \in rest[i][3], Feeds(rest[i][1], x)
                   PROVE  x \notin notified
        BY <1>9, <1>16, <3>1, Zenon DEF Fresh
      <4>1. rest[i][1] = calls[i][1] /\ x \in calls[i][3]
        BY <1>11
      <4> QED BY <1>1, <1>12, <4>1, Zenon DEF Fresh
    <3> QED BY <3>2, <3>3, SMTT(60)
  <2> QED BY <1>16, <2>1, <2>2, <2>3, <2>4, <2>5, Zenon DEF IInv
<1>17. CASE ~Feeds(p, c)
  <2>1. calls' = rest /\ UNCHANGED <<input_freq, output_freq, notified>>
    BY <1>7, <1>17
  <2>2. Local'
    BY <1>1, <1>8, <2>1 DEF Local, Scaled
  <2> QED BY <1>1, <1>16, <1>17, <2>1, <2>2
<1>18. CASE Feeds(p, c)
  <2>1. /\ input_freq' = [input_freq EXCEPT ![c] = f]
        /\ clktree_recalc_output_freq(c, rest, notified)
    BY <1>7, <1>18, Zenon
  <2>2. /\ input_freq' \in [Clocks -> Freq] /\ input_freq'[c] = f
        /\ \A x \in Clocks \ {c} : input_freq'[x] = input_freq[x]
    BY <1>1, <1>6, <1>13, <2>1, Zenon
  <2>3. Scaled(c)' \in Freq
    <3>1. multiplier[c] \in Nat /\ divisor[c] \in Nat \ {0} /\ 0 \in Freq
      BY <1>1, <1>13, ClockAssumption, SMTT(60) DEF ClockAssumption, Freq
    <3>2. muldiv64(f, multiplier[c], divisor[c]) \in Freq
      BY <1>6, <3>1, InRange
    <3> QED BY <1>8, <2>2, <3>1, <3>2, Zenon DEF Scaled
  <2>4. /\ output_freq' \in [Clocks -> Freq]
        /\ output_freq'[c] = Scaled(c)'
        /\ \A x \in Clocks \ {c} : output_freq'[x] = output_freq[x]
        /\ \/ /\ calls' = rest /\ notified' = notified
              /\ output_freq' = output_freq
           \/ /\ calls' = Append(rest, <<c, output_freq'[c], Outputs(c)>>)
              /\ notified' = notified \cup {c}
    BY <1>1, <1>13, <2>1, <2>3, Recalc, Zenon
  <2>5. Local'
    <3> SUFFICES ASSUME NEW x \in Clocks PROVE output_freq'[x] = Scaled(x)'
      BY DEF Local
    <3>1. CASE x = c
      BY <2>4, <3>1, Zenon
    <3>2. CASE x # c
      <4>1. Scaled(x)' = Scaled(x)
        BY <1>8, <2>2, <3>2 DEF Scaled
      <4> QED BY <1>1, <2>4, <3>2, <4>1, Zenon DEF Local
    <3> QED BY <3>1, <3>2
  <2>6. CASE calls' = rest /\ notified' = notified /\ output_freq' = output_freq
    BY <1>16, <1>18, <2>2, <2>5, <2>6
  <2>7. CASE /\ calls' = Append(rest, <<c, output_freq'[c], Outputs(c)>>)
             /\ notified' = notified \cup {c}
    <3>1. \A x \in Outputs(c) : x \in made /\ x \in Clocks /\ c < x /\ x # c
      <4>1. \A x \in Clocks : \A i \in 1..Len(Inputs[x]) : Inputs[x][i] < x
        BY ClockAssumption, Zenon DEF ClockAssumption
      <4> SUFFICES ASSUME NEW x \in Outputs(c)
                   PROVE  x \in made /\ x \in Clocks /\ c < x /\ x # c
        BY Zenon
      <4>2. x \in made /\ x \in Clocks /\ x \in Nat
        BY <1>0, <1>1, Zenon DEF Outputs
      <4>3. c < x
        BY <4>1, <4>2, Zenon DEF Outputs
      <4> QED BY <1>20, <4>2, <4>3
    <3>2. /\ calls' \in Seq(Clocks \X Freq \X SUBSET Clocks) /\ Len(calls') = n + 1
          /\ \A i \in 1..n : calls'[i] = rest[i]
          /\ calls'[n + 1] = <<c, output_freq'[c], Outputs(c)>>
      <4>1. <<c, output_freq'[c], Outputs(c)>> \in Clocks \X Freq \X SUBSET Clocks
        BY <1>13, <2>4, <3>1, Zenon
      <4> QED BY <1>9, <2>7, <4>1, SMTT(60)
    <3>3. /\ calls'[n + 1][1] = c /\ calls'[n + 1][2] = output_freq'[c]
          /\ calls'[n + 1][3] = Outputs(c)
      BY <3>2, SMTT(60)
    <3>4. \A i \in 1..Len(calls') : i \in 1..n \/ i = n + 1
      BY <3>2
    <3>5. TypeOK'
      <4>1. notified' \subseteq Clocks
        BY <1>1, <1>13, <2>7, Zenon
      <4> QED BY <1>1, <1>8, <2>2, <2>4, <3>2, <4>1, Zenon DEF TypeOK, Freq
    <3>6. Fed'
      <4>0. made' = made /\ selected' = selected /\ \A x : Source(x)' = Source(x)
        BY <1>8, Zenon DEF Source
      <4> SUFFICES ASSUME NEW x \in made
                   PROVE  /\ Inputs[x] = <<>> => input_freq'[x] = SourceFreq[x]
                          /\ Inputs[x] # <<>> /\ selected[x] = 0 => input_freq'[x] = 0
                          /\ selected[x] # 0 =>
                               input_freq'[x] = output_freq'[Source(x)] \/ Lags(x)'
        BY <4>0, Zenon DEF Fed
      <4>1. Source(x)' = Source(x) /\ x \in Clocks /\ n + 1 \in 1..Len(calls')
        BY <1>1, <1>8, <3>2 DEF Source
      <4>2. CASE x = c
        <5>1. Inputs[x] \in Seq(Clocks) /\ selected[x] \in 1..Len(Inputs[x])
          BY <1>1, <1>18, <4>1, <4>2, ClockAssumption, SMTT(60) DEF ClockAssumption, Feeds
        <5>2. Inputs[x] # <<>>
          BY <5>1
        <5>3. Source(x) = p /\ selected[x] # 0 /\ p # c
          BY <1>18, <1>20, <4>2 DEF Feeds, Source
        <5> QED BY <1>6, <1>13, <2>2, <2>4, <4>2, <5>2, <5>3, Zenon
      <4>3. CASE x # c
        <5>1. input_freq'[x] = input_freq[x]
          BY <2>2, <4>1, <4>3, Zenon
        <5>2. ASSUME selected[x] # 0, Lags(x) PROVE Lags(x)'
          <6>1. PICK i \in 1..n : rest[i][1] = Source(x) /\ x \in rest[i][3]
            BY <1>15, <4>3, <5>2, Zenon
          <6> QED BY <3>2, <4>1, <6>1, SMTT(60) DEF Lags
        <5>3. ASSUME selected[x] # 0, Source(x) = c PROVE Lags(x)'
          <6>1. x \in Outputs(c)
            BY <1>1, <4>1, <5>3, SMTT(60) DEF Outputs, Source
          <6> QED BY <3>3, <4>1, <5>3, <6>1, Zenon DEF Lags
        <5>4. selected[x] # 0 => Source(x) \in Clocks
          BY <1>1, <4>1, SourceEarlier, Zenon DEF Source
        <5>5. selected[x] # 0 /\ Source(x) # c => output_freq'[Source(x)] = output_freq[Source(x)]
          BY <2>4, <5>4, Zenon
        <5> QED BY <1>1, <5>1, <5>2, <5>3, <5>5, ZenonT(60) DEF Fed
      <4> QED BY <4>2, <4>3, SMTT(60)
    <3>7. Held'
      <4> SUFFICES ASSUME NEW i \in 1..Len(calls')
                   PROVE  /\ calls'[i][1] \in notified'
                          /\ calls'[i][2] = output_freq'[calls'[i][1]]
                          /\ \A x \in calls'[i][3] : x \in made' /\ calls'[i][1] < x
        BY Zenon DEF Held
      <4>1. CASE i \in 1..n
        <5>1. calls'[i][1] = calls[i][1] /\ calls'[i][2] = calls[i][2] /\ calls'[i][3] \subseteq calls[i][3]
          BY <1>11, <3>2, <4>1, ZenonT(60)
        <5>2. output_freq'[calls[i][1]] = output_freq[calls[i][1]]
          BY <1>1, <1>12, <1>14, <2>4, <4>1, Zenon
        <5> QED BY <1>8, <1>12, <2>7, <4>1, <5>1, <5>2, SMTT(60)
      <4>2. CASE i = n + 1
        BY <1>8, <2>7, <3>1, <3>3, <4>2, Zenon
      <4> QED BY <3>4, <4>1, <4>2, Zenon
    <3>8. Down'
      <4> SUFFICES ASSUME NEW i \in 1..Len(calls'), NEW j \in 1..Len(calls'), i < j
                   PROVE  calls'[i][1] < calls'[j][1]
        BY DEF Down
      <4>1. i \in 1..n
        BY <3>2, SMTT(60)
      <4>2. calls'[i][1] = calls[i][1]
        BY <1>11, <3>2, <4>1, Zenon
      <4>3. CASE j \in 1..n
        <5>1. calls'[j][1] = calls[j][1]
          BY <1>11, <3>2, <4>3, Zenon
        <5> QED BY <1>1, <1>2, <4>1, <4>2, <4>3, <5>1, Zenon DEF Down
      <4>4. CASE j = n + 1
        BY <1>14, <3>3, <4>1, <4>2, <4>4, SMTT(60)
      <4> QED BY <3>4, <4>3, <4>4, SMTT(60)
    <3>9. Fresh'
      <4> SUFFICES ASSUME NEW i \in 1..Len(calls'), NEW x \in calls'[i][3],
                          Feeds(calls'[i][1], x)
                   PROVE  x \notin notified /\ x # c
        BY <1>8, <2>7, SMTT(60) DEF Fresh, Feeds
      <4>1. CASE i \in 1..n
        <5>1. calls'[i][1] = calls[i][1] /\ calls'[i][3] = rest[i][3] /\ x \in calls[i][3]
          BY <1>11, <3>2, <4>1, SMTT(60)
        <5>2. x \notin notified
          BY <1>1, <1>12, <4>1, <5>1, ZenonT(60) DEF Fresh
        <5>3. CASE x = c
          <6>1. calls[i][1] = p
            BY <1>18, <5>1, <5>3, Zenon DEF Feeds
          <6>2. i = n
            <7>1. i # n => calls[i][1] < p
              BY <1>1, <1>11, <1>12, <4>1, Zenon
            <7> QED BY <1>20, <6>1, <7>1, SMTT(60)
          <6> QED BY <1>11, <4>1, <5>1, <5>3, <6>2, Zenon
        <5> QED BY <5>2, <5>3, SMTT(60)
      <4>2. CASE i = n + 1
        <5>1. x \in Outputs(c) /\ Feeds(c, x)
          BY <3>3, <4>2
        <5>2. x # c /\ c < x /\ x \in Nat
          BY <1>0, <3>1, <5>1, Zenon
        <5>3. ~(x <= p)
          BY <1>20, <5>2, SMTT(60)
        <5>4. c \notin notified
          BY <1>1, <1>4, <1>7, <1>12, <1>13, <1>18, Zenon DEF Fresh
        <5>5. ASSUME x \in notified PROVE FALSE
          <6>1. (\E q \in notified : Feeds(q, x)) \/ x <= p
            BY <1>1, <1>13, <5>5, ZenonT(60) DEF Reached
          <6> QED BY <5>1, <5>3, <5>4, <6>1, Zenon DEF Feeds
        <5> QED BY <5>2, <5>5
      <4> QED BY <3>4, <4>1, <4>2, SMTT(60)
    <3>10. Reached'
      <4> SUFFICES ASSUME NEW x \in notified \cup {c}
                   PROVE  \/ \E q \in notified \cup {c} : Feeds(q, x)
                          \/ \A d \in notified \cup {c} : x <= d
        BY <1>8, <2>7, SMTT(60) DEF Reached, Feeds
      <4>1. CASE x = c
        BY <1>13, <1>18, <4>1
      <4>2. CASE x \in notified
        <5>1. x \in Nat
          BY <1>0, <4>2
        <5>2. x <= p => x <= c
          BY <1>20, <5>1
        <5> QED BY <1>1, <1>13, <4>2, <5>2, Zenon DEF Reached
      <4> QED BY <4>1, <4>2, Zenon
    <3> QED BY <2>5, <3>5, <3>6, <3>7, <3>8, <3>9, <3>10, Zenon DEF IInv
  <2> QED BY <2>4, <2>6, <2>7, Zenon
<1> QED BY <1>17, <1>18

\* A return of clktree_recalc_output_freq.
LEMMA LeaveStep ==
  ASSUME IInv, Leave
  PROVE  IInv'
<1>1. /\ TypeOK /\ Local /\ Fed /\ Held /\ Down /\ Fresh /\ Reached
      /\ calls \in Seq(Clocks \X Freq \X SUBSET Clocks)
  BY DEF IInv, TypeOK, Freq
<1>2. PICK n \in Nat : n = Len(calls)
  BY <1>1, SMTT(60)
<1>3. /\ calls[n][3] = {} /\ n >= 1
      /\ UNCHANGED <<made, enabled, multiplier, divisor, selected,
                     input_freq, output_freq, notified>>
  BY <1>1, <1>2, SMTT(60) DEF Leave, Idle
<1>4. /\ calls' \in Seq(Clocks \X Freq \X SUBSET Clocks) /\ Len(calls') = n - 1
      /\ \A i \in 1..(n - 1) : calls'[i] = calls[i] /\ i \in 1..Len(calls)
  BY <1>1, <1>2, <1>3 DEF Leave, Below
<1>5. TypeOK' /\ Local'
  BY <1>1, <1>3, <1>4, ZenonT(60) DEF TypeOK, Local, Scaled, Freq
<1>6. \A c : Lags(c) => Lags(c)'
  <2> SUFFICES ASSUME NEW c, Lags(c) PROVE Lags(c)'
    BY SMTT(60)
  <2>1. PICK i \in 1..n : calls[i][1] = Source(c) /\ c \in calls[i][3]
    BY <1>2, Zenon DEF Lags
  <2>2. i \in 1..(n - 1)
    BY <1>3, <2>1
  <2> QED BY <1>3, <1>4, <2>1, <2>2, Zenon DEF Lags, Source
<1>7. Fed'
  BY <1>1, <1>3, <1>6, Zenon DEF Fed, Source
<1>8. Held' /\ Down'
  <2>0. \A i \in 1..Len(calls') : i \in 1..Len(calls) /\ calls'[i] = calls[i]
    BY <1>4
  <2>1. Held'
    BY <1>1, <1>3, <2>0, Zenon DEF Held
  <2>2. Down'
    BY <1>1, <2>0, ZenonT(60) DEF Down
  <2> QED BY <2>1, <2>2, SMTT(60)
<1>9. Fresh' /\ Reached'
  BY <1>1, <1>3, <1>4, ZenonT(60) DEF Fresh, Reached, Feeds
<1> QED BY <1>5, <1>7, <1>8, <1>9, Zenon DEF IInv

\* Before any clock is created nothing is under way.
LEMMA Initially == Init => IInv
<1> SUFFICES ASSUME Init PROVE IInv
  OBVIOUS
<1>1. 0 \in Freq /\ 1 \in Nat \ {0}
  BY ClockAssumption DEF ClockAssumption, Freq
<1>2. \A c \in Clocks : 0 \in 0..Len(Inputs[c])
  <2> SUFFICES ASSUME NEW c \in Clocks PROVE 0 \in 0..Len(Inputs[c])
    BY Zenon
  <2>1. Inputs[c] \in Seq(Clocks)
    BY ClockAssumption, Zenon DEF ClockAssumption
  <2> QED BY <2>1
<1>3. TypeOK
  BY <1>1, <1>2 DEF Init, TypeOK, Freq
<1>4. Local
  <2> SUFFICES ASSUME NEW c \in Clocks PROVE output_freq[c] = Scaled(c)
    BY Zenon DEF Local
  <2>1. ~enabled[c] /\ output_freq[c] = 0
    BY Zenon DEF Init
  <2> QED BY <2>1, Zenon DEF Scaled
<1>5. Len(calls) = 0 /\ made = {} /\ notified = {}
  BY DEF Init
<1> QED BY <1>3, <1>4, <1>5 DEF IInv, Fed, Held, Down, Fresh, Reached

\* The invariant holds in every reachable state of the tree.
LEMMA Invariance == Spec => []IInv
<1>1. ASSUME IInv, [Next]_vars PROVE IInv'
  <2>1. CASE UNCHANGED vars
    <3>1. TypeOK' /\ Local'
      BY <1>1, <2>1, Zenon DEF IInv, TypeOK, Local, Scaled, vars
    <3>2. Fed'
      BY <1>1, <2>1, Zenon DEF IInv, Fed, Lags, Source, vars
    <3>3. Held' /\ Down'
      BY <1>1, <2>1, Zenon DEF IInv, Held, Down, vars
    <3>4. Fresh' /\ Reached'
      BY <1>1, <2>1, Zenon DEF IInv, Fresh, Reached, Feeds, vars
    <3> QED BY <3>1, <3>2, <3>3, <3>4, Zenon DEF IInv
  <2> QED BY <1>1, <2>1, VisitStep, LeaveStep, OperationStep, Zenon DEF Next
<1> QED BY <1>1, Initially, PTL DEF Spec

\* Every field keeps its width and the stack of calls its shape, for every
\* tree of clocks and every sequence of operations.
THEOREM TypeCorrect == Spec => []TypeOK
BY Invariance, PTL DEF IInv

\* When an operation has ended, every clock of any tree runs at the scaled
\* frequency of the clock it selected.
THEOREM SettledCorrect == Spec => []Settled
<1>1. ASSUME IInv PROVE Settled
  <2> SUFFICES ASSUME Idle, NEW c \in made
               PROVE  /\ output_freq[c] = Scaled(c)
                      /\ input_freq[c] = IF Inputs[c] = <<>> THEN SourceFreq[c]
                                         ELSE IF selected[c] = 0 THEN 0
                                         ELSE output_freq[Inputs[c][selected[c]]]
    BY Zenon DEF Settled
  <2>1. Local /\ Fed /\ c \in Clocks
    BY <1>1 DEF IInv, TypeOK
  <2>2. Len(calls) = 0
    BY Zenon DEF Idle
  <2>3. ~Lags(c)
    BY <2>2 DEF Lags
  <2> QED BY <2>1, <2>3, Zenon DEF Local, Fed, Source
<1> QED BY <1>1, Invariance, PTL

\* No operation on any tree changes a clock twice: whoever a call of
\* clktree_recalc_output_freq changes had not been notified.
THEOREM ToldOnceCorrect == Spec => ToldOnce
<1>1. ASSUME IInv, [Next]_vars, ~Idle, NEW x \in Clocks, output_freq'[x] # output_freq[x]
      PROVE  x \notin notified
  <2>1. Visit
    <3>1. output_freq' # output_freq
      BY <1>1
    <3> QED BY <1>1, <3>1, ZenonT(60) DEF Next, Operation, vars, Leave, clktree_create_src_clk,
               clktree_create_clk, clktree_set_scale, clktree_set_enabled, clktree_set_selected_input
  <2>2. calls \in Seq(Clocks \X Freq \X SUBSET Clocks) /\ Fresh /\ output_freq \in [Clocks -> Freq]
    BY <1>1 DEF IInv, TypeOK, Freq
  <2>3. PICK n \in Nat : n = Len(calls) /\ n \in 1..Len(calls)
    BY <1>1, <2>2 DEF Idle
  <2>4. PICK c \in calls[n][3] :
          IF Feeds(calls[n][1], c)
          THEN clktree_recalc_output_freq(c, Append(Below, <<calls[n][1], calls[n][2],
                                                            calls[n][3] \ {c}>>), notified)
          ELSE output_freq' = output_freq
    BY <2>1, <2>3, ZenonT(60) DEF Visit
  <2>5. Feeds(calls[n][1], c)
    BY <1>1, <2>4, Zenon
  <2>6. output_freq' = output_freq \/ output_freq' = [output_freq EXCEPT ![c] = Scaled(c)']
    BY <2>4, <2>5, ZenonT(60) DEF clktree_recalc_output_freq
  <2>7. x = c
    BY <1>1, <2>2, <2>6
  <2> QED BY <2>2, <2>3, <2>5, <2>7 DEF Fresh
<1>2. ASSUME IInv, [Next]_vars
      PROVE  [~Idle => \A c \in Clocks : output_freq'[c] # output_freq[c] => c \notin notified]_vars
  BY <1>1, <1>2, Zenon
<1> QED BY <1>2, Invariance, PTL DEF Spec, ToldOnce

\* No clock has two calls under way.
NeverReentered ==
  \A i, j \in 1..Len(calls) : i # j => calls[i][1] # calls[j][1]

\* clktree_recalc_output_freq is never entered again for a clock that one of
\* its callers is still working on, so no caller's loop finds the frequency it
\* hands on changed under it.
THEOREM NoReentry == Spec => []NeverReentered
<1>1. IInv => NeverReentered
  <2> SUFFICES ASSUME IInv, NEW i \in 1..Len(calls), NEW j \in 1..Len(calls), i # j
               PROVE  calls[i][1] # calls[j][1]
    BY Zenon DEF NeverReentered
  <2>1. calls \in Seq(Clocks \X Freq \X SUBSET Clocks) /\ Down /\ Clocks \subseteq Nat
    BY ClockAssumption, Zenon DEF IInv, TypeOK, Freq, ClockAssumption
  <2>2. calls[i][1] \in Nat /\ calls[j][1] \in Nat
    <3>1. \A k \in 1..Len(calls) : calls[k] \in Clocks \X Freq \X SUBSET Clocks
      BY <2>1
    <3>2. calls[i][1] \in Clocks /\ calls[j][1] \in Clocks
      BY <3>1
    <3> QED BY <2>1, <3>2, Zenon
  <2>3. i < j \/ j < i
    BY <2>1
  <2>4. calls[i][1] < calls[j][1] \/ calls[j][1] < calls[i][1]
    BY <2>1, <2>3, Zenon DEF Down
  <2> QED BY <2>2, <2>4
<1> QED BY <1>1, Invariance, PTL

\* A turn uses up a clock that was not notified yet, or a child that is still
\* to be visited, or a call.
Descends ==
  LET top == calls[Len(calls)] IN
  \/ \E c \in Clocks \ notified : notified' = notified \cup {c}
  \/ /\ notified' = notified
     /\ \/ \E c \in top[3] : calls' = Append(Below, <<top[1], top[2], top[3] \ {c}>>)
        \/ calls' = Below

\* What RecursionEnds rests on besides fairness: every turn of the loops in
\* clktree_recalc_output_freq brings the operation nearer to its end, in a tree
\* of any size.
THEOREM RecursionDescends == Spec => [][Visit \/ Leave => Descends]_vars
<1>1. ASSUME IInv, Visit PROVE Descends
  <2> DEFINE n == Len(calls)  top == calls[n]
  <2>1. PICK c \in top[3] :
          IF Feeds(top[1], c)
          THEN clktree_recalc_output_freq(c, Append(Below, <<top[1], top[2], top[3] \ {c}>>), notified)
          ELSE /\ calls' = Append(Below, <<top[1], top[2], top[3] \ {c}>>)
               /\ notified' = notified
    BY <1>1, Zenon DEF Visit
  <2>2. calls \in Seq(Clocks \X Freq \X SUBSET Clocks) /\ Fresh /\ calls # <<>>
    BY <1>1, Zenon DEF IInv, TypeOK, Freq, Visit, Idle
  <2>3. n \in 1..Len(calls) /\ top \in Clocks \X Freq \X SUBSET Clocks
    BY <2>2
  <2>4. c \in Clocks
    BY <2>1, <2>3
  <2>5. Feeds(top[1], c) => c \notin notified
    BY <2>1, <2>2, <2>3, Zenon DEF Fresh
  <2> QED BY <2>1, <2>4, <2>5, Zenon DEF Descends, clktree_recalc_output_freq
<1>2. ASSUME Leave PROVE Descends
  BY <1>2, Zenon DEF Leave, Descends
<1>3. IInv /\ [Next]_vars => [Visit \/ Leave => Descends]_vars
  BY <1>1, <1>2, Zenon
<1> QED BY <1>3, Invariance, PTL DEF Spec
-----------------------------------------------------------------------------
\* The types of the state, which the arithmetic of the proofs needs.
TickTypes ==
  /\ now \in Nat /\ reload \in Nat
  /\ tick \in Int /\ timer \in Int /\ span \in Int /\ ran \in Int
  /\ ENABLE = TRUE \/ ENABLE = FALSE
  /\ system_clock_scale \in Nat /\ external_ref_clock_scale \in Nat

TickInv == TickTypes /\ KeepsTime

\* A period is a whole number of nanoseconds.
LEMMA PeriodType ==
  ASSUME TickTypes, NEW c PROVE Period(c) \in Int
<1> DEFINE a == reload + 1  b == systick_scale(c)
<1>1. a \in Int /\ b \in Int BY DEF TickTypes, systick_scale
<1>2. a * b \in Int
  <2> HIDE DEF a, b
  <2> QED BY <1>1, SMTT(60)
<1> QED BY <1>2 DEF Period

\* A full load leaves a count whose deadline is a period away.
LEMMA LoadKeeps ==
  ASSUME TickInv, NEW c, Load(c), ENABLE' = TRUE, now' = now
  PROVE  tick' \in Int /\ timer' \in Int /\ span' \in Int /\ ran' \in Int
         /\ KeepsTime'
<1> DEFINE p == Period(c)
<1>1. p \in Int BY PeriodType, Zenon DEF TickInv
<1>2. now \in Nat /\ tick' = now + p /\ timer' = tick' /\ span' = p /\ ran' = 0 /\ spent' = FALSE
  BY DEF TickInv, TickTypes, Load
<1> HIDE DEF p
<1> QED BY <1>1, <1>2 DEF KeepsTime

\* A pause, a resumption or a full load keeps the deadline exact: the step of
\* the control register.
LEMMA WriteCSRKeeps ==
  ASSUME TickInv, NEW e \in BOOLEAN, NEW t \in BOOLEAN, NEW c \in BOOLEAN, WriteCSR(e, t, c)
  PROVE  TickInv'
<1>1. /\ TickTypes /\ KeepsTime /\ ENABLE' = e /\ CLKSOURCE' = c /\ now' = now /\ reload' = reload
      /\ system_clock_scale' = system_clock_scale
      /\ external_ref_clock_scale' = external_ref_clock_scale
  BY Zenon DEF TickInv, WriteCSR
<1>2. CASE ENABLE = FALSE /\ e = TRUE /\ tick # 0
  <2>1. tick' = tick + now /\ timer' = tick' /\ span' = span /\ ran' = ran /\ spent' = spent
    BY <1>2, Zenon DEF WriteCSR, Enable
  <2>2. ENABLE' = TRUE BY <1>1, <1>2, SMTT(60)
  <2> QED BY <1>1, <1>2, <2>1, <2>2 DEF TickInv, TickTypes, KeepsTime
<1>3. CASE ENABLE = FALSE /\ e = TRUE /\ tick = 0
  <2>1. Load(c) BY <1>3, Zenon DEF WriteCSR, Enable
  <2>2. ENABLE' = TRUE BY <1>1, <1>3, SMTT(60)
  <2>3. tick' \in Int /\ timer' \in Int /\ span' \in Int /\ ran' \in Int /\ KeepsTime'
    BY <1>1, <2>1, <2>2, LoadKeeps, ZenonT(60)
  <2> QED BY <1>1, <2>2, <2>3 DEF TickInv, TickTypes
<1>4. CASE ENABLE = TRUE /\ e = FALSE
  <2>1. /\ timer' = NoTimer /\ tick' = IF tick - now < 0 THEN 0 ELSE tick - now
        /\ span' = span /\ ran' = ran /\ spent' = spent
    BY <1>4, Zenon DEF WriteCSR, Disable
  <2>2. ENABLE' = FALSE BY <1>1, <1>4, Zenon
  <2> QED BY <1>1, <1>4, <2>1, <2>2 DEF TickInv, TickTypes, KeepsTime, NoTimer
<1>5. CASE e = ENABLE /\ c # CLKSOURCE /\ ENABLE
  BY <1>1, <1>5, LoadKeeps, ZenonT(60) DEF WriteCSR, TickInv, TickTypes
<1>6. CASE e = ENABLE /\ ~(c # CLKSOURCE /\ ENABLE)
  BY <1>1, <1>6 DEF WriteCSR, Keep, TickInv, TickTypes, KeepsTime
<1>7. ENABLE = TRUE \/ ENABLE = FALSE BY <1>1 DEF TickTypes
<1>8. e = TRUE \/ e = FALSE OBVIOUS
<1> QED BY <1>2, <1>3, <1>4, <1>5, <1>6, <1>7, <1>8, ZenonT(60)

\* The expiry: the next period is counted from the old deadline, so the time
\* the callback was late is part of it.
LEMMA TickKeeps ==
  ASSUME TickInv, systick_timer_tick
  PROVE  TickInv'
<1>1. /\ TickTypes /\ KeepsTime /\ timer # NoTimer /\ timer <= now
      /\ now' = now /\ reload' = reload /\ CLKSOURCE' = CLKSOURCE
      /\ system_clock_scale' = system_clock_scale
      /\ external_ref_clock_scale' = external_ref_clock_scale
  BY DEF TickInv, systick_timer_tick
<1>2. ENABLE /\ timer = tick BY <1>1, ZenonT(60) DEF KeepsTime
<1>3. CASE reload = 0
  BY <1>1, <1>3, SMTT(60) DEF systick_timer_tick, TickInv, TickTypes, KeepsTime, NoTimer
<1>4. CASE reload # 0
  <2> DEFINE p == Period(CLKSOURCE)
  <2>1. p \in Int BY <1>1, PeriodType, Zenon
  <2>2. tick' = tick + p /\ timer' = tick' /\ span' = p /\ ran' = now - tick
        /\ spent' = FALSE /\ ENABLE' = ENABLE
    BY <1>4, Zenon DEF systick_timer_tick
  <2> HIDE DEF p
  <2> QED BY <1>1, <1>2, <2>1, <2>2 DEF TickInv, TickTypes, KeepsTime
<1> QED BY <1>3, <1>4, Zenon

\* Every step of the system timer, of the firmware and of time keeps TickInv.
LEMMA TickStepKeeps ==
  ASSUME TickInv, [SysTickNext]_sysTickVars
  PROVE  TickInv'
<1> USE SysTickAssumption
<1>1. CASE systick_timer_tick BY <1>1, TickKeeps
<1>2. CASE WriteCVR
  <2>1. CASE ENABLE
    <3>1. Load(CLKSOURCE) /\ ENABLE' = ENABLE /\ now' = now BY <1>2, <2>1, Zenon DEF WriteCVR
    <3> QED BY <1>2, <2>1, <3>1, LoadKeeps, Zenon DEF WriteCVR, TickInv, TickTypes
  <2>2. CASE ~ENABLE BY <1>2, <2>2, Zenon DEF WriteCVR, Keep, TickInv, TickTypes, KeepsTime
  <2> QED BY <2>1, <2>2, Zenon
<1>3. CASE ReadCSR BY <1>3, Zenon DEF ReadCSR, Keep, TickInv, TickTypes, KeepsTime
<1>4. CASE systick_reset BY <1>4, SMTT(60) DEF systick_reset, TickInv, TickTypes, KeepsTime, NoTimer
<1>5. CASE Advance BY <1>5, SMTT(60) DEF Advance, TickInv, TickTypes, KeepsTime
<1>6. CASE armv7m_nvic_acknowledge_irq
  BY <1>6, Zenon DEF armv7m_nvic_acknowledge_irq, Keep, TickInv, TickTypes, KeepsTime
<1>7. CASE \E e, t, c \in BOOLEAN : WriteCSR(e, t, c) BY <1>7, WriteCSRKeeps, Zenon
<1>8. CASE \E value \in Reloads : WriteRVR(value)
  BY <1>8, SMTT(60) DEF WriteRVR, Keep, TickInv, TickTypes, KeepsTime
<1>9. CASE \E scale \in Scales : stm32_rcc_hclk_upd_irq_handler(scale)
  BY <1>9, SMTT(60) DEF stm32_rcc_hclk_upd_irq_handler, Keep, TickInv, TickTypes, KeepsTime
<1>10. CASE UNCHANGED sysTickVars BY <1>10 DEF sysTickVars, TickInv, TickTypes, KeepsTime
<1> QED
  BY <1>1, <1>2, <1>3, <1>4, <1>5, <1>6, <1>7, <1>8, <1>9, <1>10, Zenon DEF SysTickNext

\* The invariant holds in every reachable state of the system timer.
LEMMA TickInvariance == SysTickSpec => []TickInv
<1>1. SysTickInit => TickInv
  BY SysTickAssumption DEF SysTickInit, TickInv, TickTypes, KeepsTime, NoTimer
<1> QED BY <1>1, TickStepKeeps, PTL DEF SysTickSpec

\* systick_reload and the pause and resumption in nvic_writel keep the deadline
\* and the time left exact, for every sequence of register accesses and late
\* callbacks.
THEOREM TimeKept == SysTickSpec => []KeepsTime
<1>1. TickInv => KeepsTime BY DEF TickInv
<1> QED BY <1>1, TickInvariance, PTL

\* systick_timer_tick runs only after a whole period of counting.
THEOREM NotEarly == SysTickSpec => NoEarlyTick
<1>1. ASSUME TickInv, [SysTickNext]_sysTickVars
      PROVE  [systick_timer_tick /\ ~spent => ran >= span]_sysTickVars
  BY <1>1 DEF TickInv, TickTypes, KeepsTime, systick_timer_tick, NoTimer
<1> QED BY <1>1, TickInvariance, PTL DEF SysTickSpec, NoEarlyTick
-----------------------------------------------------------------------------
\* A set of natural numbers has a least one.
LEMMA Least ==
  ASSUME NEW T, T \subseteq Nat, T # {}
  PROVE  \E x \in T : \A y \in T : x <= y
<1> DEFINE R == OpToRel(<,Nat)
<1>1. IsWellFoundedOn(R, Nat) BY NatLessThanWellFounded, Zenon
<1>2. PICK x \in T : \A y \in T : ~ (<<y, x>> \in R)
  <2> HIDE DEF R
  <2> QED BY <1>1, WFMin, Zenon
<1>3. ASSUME NEW y \in T PROVE x <= y
  <2>1. <<y, x>> \notin R BY <1>2, Zenon
  <2>2. y \in Nat /\ x \in Nat OBVIOUS
  <2>3. ~(y < x) BY <2>1, <2>2, Zenon DEF OpToRel
  <2> QED BY <2>2, <2>3
<1> QED BY <1>3

\* A set with 0 and with the successor of each of its numbers has them all.
LEMMA Induction ==
  ASSUME NEW S, 0 \in S, \A n \in Nat : n \in S => n + 1 \in S
  PROVE  Nat \subseteq S
<1> SUFFICES ASSUME NEW m \in Nat, m \notin S PROVE FALSE OBVIOUS
<1> DEFINE T == Nat \ S
<1>1. PICK x \in T : \A y \in T : x <= y
  <2>1. m \in T OBVIOUS
  <2>2. T \subseteq Nat /\ T # {} BY <2>1
  <2> HIDE DEF T
  <2> QED BY <2>2, Least, Zenon
<1>2. x \in Nat /\ x # 0 /\ x \notin S OBVIOUS
<1>3. x - 1 \in Nat /\ x - 1 \notin S BY <1>2
<1>4. x - 1 \in T BY <1>3
<1> QED BY <1>1, <1>2, <1>4
-----------------------------------------------------------------------------
\* f lists what the handler has left after each of the first n frequencies.
Steps(f, s, freqs, n) ==
  f = [k \in 0..n |-> IF k = 0 THEN s ELSE Rcc!Told(f[k - 1], freqs[k])]

\* Each state the handler of an HCLK change leaves follows from the one before.
LEMMA StepsAt ==
  ASSUME NEW f, NEW s, NEW freqs, NEW n \in Nat, Steps(f, s, freqs, n), NEW k \in 0..n
  PROVE  f[k] = IF k = 0 THEN s ELSE Rcc!Told(f[k - 1], freqs[k])
BY Zenon DEF Steps

\* The recursion has a solution.
LEMMA StepsExist ==
  ASSUME NEW s, NEW freqs, NEW n \in Nat PROVE \E f : Steps(f, s, freqs, n)
<1> DEFINE S == {m \in Nat : \E f : Steps(f, s, freqs, m)}
<1>1. 0 \in S
  <2> DEFINE e == [k \in 0..0 |-> s]
  <2>1. Steps(e, s, freqs, 0)
    <3>1. e = [k \in 0..0 |-> IF k = 0 THEN s ELSE Rcc!Told(e[k - 1], freqs[k])]
      OBVIOUS
    <3> HIDE DEF e
    <3> QED BY <3>1, Zenon DEF Steps
  <2> HIDE DEF e
  <2> QED BY <2>1, Zenon
<1>2. ASSUME NEW m \in Nat, m \in S PROVE m + 1 \in S
  <2>1. PICK f : Steps(f, s, freqs, m) BY <1>2, Zenon
  <2> DEFINE v == Rcc!Told(f[m], freqs[m + 1])
  <2> DEFINE g == [k \in 0..(m + 1) |-> IF k = m + 1 THEN v ELSE f[k]]
  <2> HIDE DEF v
  <2>2. ASSUME NEW k \in 0..(m + 1)
        PROVE  g[k] = IF k = 0 THEN s ELSE Rcc!Told(g[k - 1], freqs[k])
    <3>1. CASE k = m + 1
      <4>1. g[k] = v /\ g[k - 1] = f[m] /\ k # 0 BY <3>1
      <4> HIDE DEF g
      <4> QED BY <3>1, <4>1, Zenon DEF v
    <3>2. CASE k # m + 1
      <4>1. g[k] = f[k] /\ k \in 0..m BY <3>2
      <4>2. k # 0 => g[k - 1] = f[k - 1] BY <3>2, SMTT(60)
      <4>3. f[k] = IF k = 0 THEN s ELSE Rcc!Told(f[k - 1], freqs[k]) BY <2>1, <4>1, StepsAt
      <4> HIDE DEF g
      <4> QED BY <4>1, <4>2, <4>3, Zenon
    <3> QED BY <3>1, <3>2
  <2>3. Steps(g, s, freqs, m + 1)
    <3>1. g = [k \in 0..(m + 1) |-> g[k]] OBVIOUS
    <3> HIDE DEF g
    <3> QED BY <2>2, <3>1, Zenon DEF Steps
  <2>4. m + 1 \in Nat OBVIOUS
  <2> HIDE DEF g
  <2> QED BY <2>3, <2>4
<1>3. Nat \subseteq S
  <2> HIDE DEF S
  <2> QED BY <1>1, <1>2, Induction
<1> QED BY <1>3
-----------------------------------------------------------------------------
\* A frequency for which both scales are positive, or a stopped clock.
Ticks == Rcc!TicksPerSec
Usable == {0} \cup (8..Ticks)

Follows(s) ==
  /\ s.hclk \in Usable
  /\ s.sys \in Nat \ {0} /\ s.ext \in Nat \ {0}
  /\ s.hclk > 0 => s.sys = Ticks \div s.hclk /\ s.ext = Ticks \div (s.hclk \div 8)

\* A second has that many nanoseconds.
LEMMA TicksNat == Ticks \in Nat /\ Ticks >= 128000000
BY SMT DEF Ticks, Rcc!TicksPerSec

\* Neither scale of a running clock is 0.
LEMMA ScalesPositive ==
  ASSUME NEW t \in Nat, NEW f \in 8..t
  PROVE  t \div f \in Nat \ {0} /\ t \div (f \div 8) \in Nat \ {0}
<1>1. f \div 8 \in Nat /\ f \div 8 >= 1 /\ f \div 8 <= f OBVIOUS
<1>2. \A d \in Nat : 1 <= d /\ d <= t => t \div d \in Nat /\ t \div d # 0 BY SMTT(60)
<1> QED BY <1>1, <1>2

\* One call of stm32_rcc_hclk_upd_irq_handler.
LEMMA TellKeeps ==
  ASSUME NEW s, Follows(s), NEW freq \in Usable
  PROVE  Follows(Rcc!Told(s, freq)) /\ Rcc!Told(s, freq).hclk = freq
<1>1. CASE freq = s.hclk BY <1>1, Zenon DEF Rcc!Told
<1>2. CASE freq # s.hclk
  <2> DEFINE t == Rcc!Told(s, freq)
  <2>1. /\ t.hclk = freq
        /\ t.sys = IF freq > 0 THEN Ticks \div freq ELSE s.sys
        /\ t.ext = IF freq > 0 THEN Ticks \div (freq \div 8) ELSE s.ext
    BY <1>2, Zenon DEF Rcc!Told, Rcc!stm32_rcc_hclk_upd_irq_handler, Ticks
  <2>2. freq > 0 => /\ Ticks \div freq \in Nat \ {0}
                    /\ Ticks \div (freq \div 8) \in Nat \ {0}
    <3>1. freq > 0 => freq \in 8..Ticks BY TicksNat DEF Usable
    <3> QED BY <3>1, TicksNat, ScalesPositive
  <2> HIDE DEF t
  <2>3. Follows(t) 
    <3>1. CASE freq > 0 BY <2>1, <2>2, <3>1, Zenon DEF Follows
    <3>2. CASE ~(freq > 0) BY <2>1, <3>2, Zenon DEF Follows
    <3> QED BY <3>1, <3>2
  <2> QED BY <2>1, <2>3, Zenon DEF t
<1> QED BY <1>1, <1>2, SMTT(60)

ScalesNow == [hclk |-> hclk, sys |-> rcc_system_scale, ext |-> rcc_external_scale]

\* All the calls of one register write.
LEMMA OperationsKeep ==
  ASSUME NEW freqs, NEW n \in Nat \ {0}, Len(freqs) = n, \A k \in 1..n : freqs[k] \in Usable,
         Follows(ScalesNow), Rcc!Operations(freqs)
  PROVE  Follows(ScalesNow)' /\ hclk' = freqs[n]
<1> DEFINE f == CHOOSE g : Steps(g, ScalesNow, freqs, n)
<1>1. Steps(f, ScalesNow, freqs, n) BY StepsExist, Zenon
<1>2. hclk' = f[n].hclk /\ rcc_system_scale' = f[n].sys /\ rcc_external_scale' = f[n].ext
  BY ZenonT(60) DEF Rcc!Operations, Steps, ScalesNow
<1> HIDE DEF f
<1> DEFINE S == {k \in Nat : k \in 0..n => Follows(f[k]) /\ (k # 0 => f[k].hclk = freqs[k])}
<1>3. 0 \in S
  <2>1. 0 \in 0..n OBVIOUS
  <2>2. f[0] = ScalesNow BY <1>1, <2>1, StepsAt, Zenon
  <2> QED BY <2>2, Zenon
<1>4. ASSUME NEW k \in Nat, k \in S PROVE k + 1 \in S
  <2> SUFFICES ASSUME k + 1 \in 0..n
               PROVE  Follows(f[k + 1]) /\ f[k + 1].hclk = freqs[k + 1]
    OBVIOUS
  <2>1. k \in 0..n /\ k + 1 \in 1..n /\ k + 1 # 0 /\ (k + 1) - 1 = k BY SMTT(60)
  <2>2. Follows(f[k]) BY <1>4, <2>1, Zenon
  <2>3. f[k + 1] = Rcc!Told(f[(k + 1) - 1], freqs[k + 1]) BY <1>1, <2>1, StepsAt
  <2>4. f[k + 1] = Rcc!Told(f[k], freqs[k + 1]) BY <2>1, <2>3, Zenon
  <2>5. freqs[k + 1] \in Usable BY <2>1, Zenon
  <2> QED BY <2>2, <2>4, <2>5, TellKeeps, ZenonT(60)
<1>5. Nat \subseteq S
  <2> HIDE DEF S
  <2> QED BY <1>3, <1>4, Induction, Zenon
<1>6. Follows(f[n]) /\ f[n].hclk = freqs[n]
  <2>1. n \in Nat /\ n \in 0..n /\ n # 0 BY SMTT(60)
  <2> QED BY <1>5, <2>1, SMTT(60)
<1>7. /\ ScalesNow'.hclk = f[n].hclk /\ ScalesNow'.sys = f[n].sys /\ ScalesNow'.ext = f[n].ext
  BY <1>2, SMTT(60) DEF ScalesNow
<1> QED BY <1>2, <1>6, <1>7, Zenon DEF Follows
-----------------------------------------------------------------------------
CfgrType == [PLLMUL: 0..15, PLLXTPRE: 0..1, PLLSRC: 0..1,
             PPRE2: 0..7, PPRE1: 0..7, HPRE: 0..15, SW: 0..2]

\* The clock sources of the tree
Oscillators == {"HSICLK", "HSECLK", "PLLCLK"}

\* HCLK is off or fast enough for both scales, in every configuration.
LEMMA HclkUsable ==
  ASSUME NEW on, NEW f \in CfgrType PROVE Rcc!HCLK(on, f) \in Usable
<1> DEFINE hsi == Rcc!Source(on, "HSICLK", Rcc!HSI_FREQ)
           hse == Rcc!Source(on, "HSECLK", OscFreq)
           pll == Rcc!PLLCLK(on, f)
           sys == Rcc!SYSCLK(on, f)
           top == Rcc!HSI_FREQ
           Between(x, a, b) == x \in Nat /\ (x = 0 \/ (a <= x /\ x <= b))
<1>0. /\ top \in Nat /\ 256 <= top /\ 16 * top <= Ticks /\ Ticks \in Nat
      /\ OscFreq \in Nat /\ 256 <= OscFreq /\ OscFreq <= top
  BY RccAssumption, TicksNat, SMTT(60) DEF Rcc!HSI_FREQ
<1> HIDE DEF top
<1>1. Between(hsi, 256, top) BY <1>0, SMTT(60) DEF Rcc!Source, top
<1>2. Between(hse, 256, top) BY <1>0 DEF Rcc!Source
<1>3. Between(pll, 256, 16 * top)
  <2> DEFINE mul == IF f.PLLMUL = 15 THEN 16 ELSE f.PLLMUL + 2
             in == IF f.PLLSRC = 0 THEN hsi \div 2
                   ELSE IF f.PLLXTPRE = 0 THEN hse ELSE hse \div 2
  <2>1. pll = IF "PLLCLK" \notin on THEN 0 ELSE mul * in BY Zenon DEF Rcc!PLLCLK
  <2>2. mul \in 2..16 BY SMTT(60) DEF CfgrType
  <2> HIDE DEF hsi, hse
  <2>3. Between(in, 128, top) BY <1>0, <1>1, <1>2, SMTT(60)
  <2> HIDE DEF mul, in
  <2>4. Between(mul * in, 256, 16 * top)
    <3>1. CASE in = 0 BY <2>2, <3>1, SMTT(60)
    <3>2. CASE in # 0
      <4>1. in \in Nat /\ 128 <= in /\ in <= top BY <2>3, <3>2
      <4>2. mul \in Nat /\ 2 <= mul /\ mul <= 16 BY <2>2
      <4>3. 2 * in <= mul * in /\ mul * in <= 16 * in BY <4>1, <4>2
      <4>4. mul * in \in Nat BY <4>1, <4>2
      <4> QED BY <1>0, <4>1, <4>3, <4>4, SMTT(60)
    <3> QED BY <3>1, <3>2, SMTT(60)
  <2> HIDE DEF pll
  <2>5. CASE "PLLCLK" \in on
    <3>1. pll = mul * in BY <2>1, <2>5, Zenon
    <3> QED BY <2>4, <3>1, Zenon
  <2>6. CASE "PLLCLK" \notin on
    <3>1. pll = 0 BY <2>1, <2>6, ZenonT(60)
    <3> QED BY <3>1
  <2> QED BY <2>5, <2>6
<1>4. Between(sys, 256, 16 * top)
  <2>1. sys = <<hsi, hse, pll>>[f.SW + 1] BY Zenon DEF Rcc!SYSCLK, top
  <2>2. f.SW + 1 \in 1..3 BY DEF CfgrType
  <2> HIDE DEF hsi, hse, pll, sys
  <2>3. sys = hsi \/ sys = hse \/ sys = pll BY <2>1, <2>2
  <2> QED BY <1>0, <1>1, <1>2, <1>3, <2>3
<1> DEFINE d == IF f.HPRE < 8 THEN 1 ELSE 2 * (f.HPRE - 7)
<1>5. Rcc!HCLK(on, f) = sys \div d BY Zenon DEF Rcc!HCLK
<1>6. d \in 1..16 BY SMTT(60) DEF CfgrType
<1> HIDE DEF d, sys
<1>7. Between(sys \div d, 8, 16 * top)
  <2>1. CASE sys = 0 BY <1>6, <2>1, SMTT(60)
  <2>2. CASE sys # 0
    <3>1. sys \in Nat /\ 256 <= sys /\ sys <= 16 * top BY <1>4, <2>2, SMTT(60)
    <3>2. d \in Nat /\ 1 <= d /\ d <= 16 BY <1>6, SMTT(60)
    <3>3. sys \div d \in Nat /\ sys \div d <= sys BY <3>1, <3>2
    <3>4. sys \div d >= 8 BY <3>1, <3>2
    <3> QED BY <1>0, <3>1, <3>3, <3>4, SMTT(60)
  <2> QED BY <2>1, <2>2, SMTT(60)
<1> QED BY <1>0, <1>5, <1>7, SMTT(60) DEF Usable

\* HCLK depends on the oscillators only.
LEMMA HclkSame ==
  ASSUME NEW on, NEW on2, NEW f, \A c \in Oscillators : c \in on <=> c \in on2
  PROVE  Rcc!HCLK(on, f) = Rcc!HCLK(on2, f)
<1>1. /\ "HSICLK" \in on <=> "HSICLK" \in on2
      /\ "HSECLK" \in on <=> "HSECLK" \in on2
      /\ "PLLCLK" \in on <=> "PLLCLK" \in on2
  BY Zenon DEF Oscillators
<1>2. /\ \A x : Rcc!Source(on, "HSICLK", x) = Rcc!Source(on2, "HSICLK", x)
      /\ \A x : Rcc!Source(on, "HSECLK", x) = Rcc!Source(on2, "HSECLK", x)
  BY <1>1, Zenon DEF Rcc!Source
<1>3. Rcc!PLLCLK(on, f) = Rcc!PLLCLK(on2, f)
  <2>1. CASE "PLLCLK" \in on BY <1>1, <1>2, <2>1, Zenon DEF Rcc!PLLCLK
  <2>2. CASE "PLLCLK" \notin on BY <1>1, <2>2, Zenon DEF Rcc!PLLCLK
  <2> QED BY <2>1, <2>2
<1> QED BY <1>2, <1>3, Zenon DEF Rcc!HCLK, Rcc!SYSCLK

\* The configuration after the first n fields of a write, as the code's order
\* of the fields gives it.
Fields == <<"PLLMUL", "PLLXTPRE", "PLLSRC", "PPRE2", "PPRE1", "HPRE", "SW">>
Upto(f, v, n) == [x \in DOMAIN f |-> IF \E i \in 1..n : Fields[i] = x THEN v[x] ELSE f[x]]

\* It is a configuration, and after the last field it is the one written.
LEMMA UptoFacts ==
  ASSUME NEW f \in CfgrType, NEW v \in CfgrType, NEW n
  PROVE  Upto(f, v, n) \in CfgrType /\ Upto(f, v, 7) = v
<1>1. /\ DOMAIN f = {"PLLMUL", "PLLXTPRE", "PLLSRC", "PPRE2", "PPRE1", "HPRE", "SW"}
      /\ DOMAIN v = {"PLLMUL", "PLLXTPRE", "PLLSRC", "PPRE2", "PPRE1", "HPRE", "SW"}
  BY Zenon DEF CfgrType
<1>2. ASSUME NEW x \in DOMAIN f PROVE \E i \in 1..7 : Fields[i] = x
  BY <1>1 DEF Fields
<1>3. Upto(f, v, 7) = v
  <2>1. Upto(f, v, 7) = [x \in DOMAIN f |-> v[x]] BY <1>2, ZenonT(60) DEF Upto
  <2>2. v = [x \in DOMAIN v |-> v[x]] BY Zenon DEF CfgrType
  <2> QED BY <1>1, <2>1, <2>2, Zenon
<1>4. Upto(f, v, n) \in CfgrType
  <2> DEFINE g == Upto(f, v, n)
  <2>1. /\ DOMAIN g = DOMAIN f /\ g = [x \in DOMAIN f |-> g[x]]
        /\ \A x \in DOMAIN f : g[x] = v[x] \/ g[x] = f[x]
    BY ZenonT(60) DEF Upto
  <2> HIDE DEF g
  <2>2. /\ g.PLLMUL \in 0..15 /\ g.PLLXTPRE \in 0..1 /\ g.PLLSRC \in 0..1
        /\ g.PPRE2 \in 0..7 /\ g.PPRE1 \in 0..7 /\ g.HPRE \in 0..15 /\ g.SW \in 0..2
    BY <1>1, <2>1, Zenon DEF CfgrType
  <2>3. g \in CfgrType BY <1>1, <2>1, <2>2 DEF CfgrType
  <2> QED BY <2>3 DEF g
<1> QED BY <1>3, <1>4, Zenon
-----------------------------------------------------------------------------
Frequencies ==
  /\ cfgr \in CfgrType
  /\ Follows(ScalesNow)
  /\ hclk = Rcc!HCLK(rcc_enabled, cfgr)

\* What the statements of SystemInit before the next one have set up.
Progress ==
  /\ pc \in 1..12
  /\ pc \in 2..11 => "HSICLK" \in rcc_enabled
  /\ pc \in 3..11 => cfgr.SW = 0 /\ cfgr.HPRE = 0
  /\ pc \in 5..11 => cfgr.PLLXTPRE = 0
  /\ pc \in 6..11 => "HSECLK" \in rcc_enabled
  /\ pc \in 9..11 => cfgr.PLLSRC = 1 /\ cfgr.PLLMUL = 7
  /\ pc \in 10..11 => "PLLCLK" \in rcc_enabled

RccInv == Frequencies /\ Progress

\* The frequencies of a CR write, in the order of its three switches.
LEMMA CRWrite ==
  ASSUME Frequencies, NEW v, Rcc!stm32_rcc_RCC_CR_write(v)
  PROVE  /\ Frequencies' /\ cfgr' = cfgr
         /\ \A c \in Oscillators : c \in rcc_enabled' <=> c \in v
         /\ pc <= 11 => \A freq \in seen' : \E on :
              /\ freq = Rcc!HCLK(on, cfgr)
              /\ "HSICLK" \in rcc_enabled /\ "HSICLK" \in v => "HSICLK" \in on
<1> DEFINE switch(on, clk) == (on \ {clk}) \cup (v \cap {clk})
           pll == switch(rcc_enabled, "PLLCLK")
           hse == switch(pll, "HSECLK")
           hsi == switch(hse, "HSICLK")
           freqs == <<Rcc!HCLK(pll, cfgr), Rcc!HCLK(hse, cfgr), Rcc!HCLK(hsi, cfgr)>>
<1>1. rcc_enabled' = hsi /\ Rcc!Operations(freqs) /\ cfgr' = cfgr
  BY Zenon DEF Rcc!stm32_rcc_RCC_CR_write
<1>2. /\ \A c \in Oscillators : c \in hsi <=> c \in v
      /\ "HSICLK" \in rcc_enabled /\ "HSICLK" \in v =>
           "HSICLK" \in pll /\ "HSICLK" \in hse /\ "HSICLK" \in hsi
  BY DEF Oscillators
<1> HIDE DEF pll, hse, hsi
<1>3. /\ Rcc!HCLK(pll, cfgr) \in Usable /\ Rcc!HCLK(hse, cfgr) \in Usable
      /\ Rcc!HCLK(hsi, cfgr) \in Usable
  BY HclkUsable, Zenon DEF Frequencies
<1>4. /\ Len(freqs) = 3 /\ 3 \in Nat \ {0}
      /\ freqs[1] = Rcc!HCLK(pll, cfgr) /\ freqs[2] = Rcc!HCLK(hse, cfgr)
      /\ freqs[3] = Rcc!HCLK(hsi, cfgr) /\ 1..3 = {1, 2, 3}
  OBVIOUS
<1> HIDE DEF freqs
<1>5. \A k \in 1..3 : freqs[k] \in Usable BY <1>3, <1>4, Zenon
<1>6. Follows(ScalesNow)' /\ hclk' = freqs[3]
  BY <1>1, <1>4, <1>5, OperationsKeep, Zenon DEF Frequencies
<1>7. Frequencies' BY <1>1, <1>4, <1>6, ZenonT(60) DEF Frequencies
<1>8. pc <= 11 => seen' = {freqs[n] : n \in 1..3}
  BY <1>1, <1>4, Zenon DEF Rcc!Operations, Rcc!Startup
<1> QED BY <1>1, <1>2, <1>4, <1>7, <1>8, Zenon

\* The frequencies of a CFGR write, one after each of its fields.
LEMMA CFGRWrite ==
  ASSUME Frequencies, NEW v \in CfgrType, Rcc!stm32_rcc_RCC_CFGR_write(v)
  PROVE  /\ Frequencies' /\ cfgr' = v /\ rcc_enabled' = rcc_enabled
         /\ pc <= 11 => \A freq \in seen' : \E n \in 1..7 :
              freq = Rcc!HCLK(rcc_enabled, Upto(cfgr, v, n))
<1> DEFINE freqs == [n \in 1..7 |-> Rcc!HCLK(rcc_enabled, Upto(cfgr, v, n))]
<1>1. /\ Rcc!Operations([n \in 1..Len(Fields) |-> Rcc!HCLK(rcc_enabled, Upto(cfgr, v, n))])
      /\ cfgr' = v /\ rcc_enabled' = rcc_enabled
  BY Zenon DEF Rcc!stm32_rcc_RCC_CFGR_write, Fields, Upto
<1>2. Len(Fields) = 7 BY DEF Fields
<1>3. Rcc!Operations(freqs) BY <1>1, <1>2, Zenon
<1>4. \A n \in 1..7 : freqs[n] = Rcc!HCLK(rcc_enabled, Upto(cfgr, v, n)) BY Zenon
<1>5. \A n \in 1..7 : freqs[n] \in Usable
  BY <1>4, UptoFacts, HclkUsable, Zenon DEF Frequencies
<1>6. freqs = [n \in 1..7 |-> freqs[n]] BY Zenon
<1> HIDE DEF freqs
<1>7. Len(freqs) = 7 
  <2>1. freqs \in Seq(Usable) BY <1>5, <1>6
  <2>2. DOMAIN freqs = 1..7 BY <1>6, Zenon
  <2> QED BY <2>1, <2>2, SMTT(60)
<1>8. 7 \in Nat \ {0} /\ 7 \in 1..7 OBVIOUS
<1>9. Follows(ScalesNow)' /\ hclk' = freqs[7]
  BY <1>3, <1>5, <1>7, <1>8, OperationsKeep, Zenon DEF Frequencies
<1>10. freqs[7] = Rcc!HCLK(rcc_enabled, v)
  BY <1>4, <1>8, UptoFacts, Zenon DEF Frequencies
<1>11. Frequencies' BY <1>1, <1>9, <1>10, ZenonT(60) DEF Frequencies
<1>12. pc <= 11 => seen' = {freqs[n] : n \in 1..7}
  BY <1>3, <1>7, ZenonT(60) DEF Rcc!Operations, Rcc!Startup
<1> QED BY <1>1, <1>4, <1>11, <1>12, Zenon

\* Concatenation by index.
LEMMA Concatenation ==
  ASSUME NEW S, NEW a \in Seq(S), NEW b \in Seq(S)
  PROVE  /\ a \o b \in Seq(S) /\ Len(a \o b) = Len(a) + Len(b)
         /\ \A i \in 1..Len(a) + Len(b) :
              (a \o b)[i] = IF i <= Len(a) THEN a[i] ELSE b[i - Len(a)]
OBVIOUS

\* The frequencies of a reset are two and then eight more.
LEMMA TwoThenEight ==
  ASSUME NEW S, NEW a \in Seq(S), NEW b \in Seq(S), Len(a) = 2, Len(b) = 8
  PROVE  a \o b \in Seq(S) /\ Len(a \o b) = 10 /\ (a \o b)[10] = b[8]
<1> DEFINE c == a \o b
<1>1. /\ c \in Seq(S) /\ Len(c) = Len(a) + Len(b)
      /\ \A i \in 1..Len(a) + Len(b) : c[i] = IF i <= Len(a) THEN a[i] ELSE b[i - Len(a)]
  BY Concatenation, Zenon
<1>2. 10 \in 1..(Len(a) + Len(b)) /\ ~(10 <= Len(a)) /\ 10 - Len(a) = 8 /\ Len(a) + Len(b) = 10
  OBVIOUS
<1> HIDE DEF c
<1>3. c[10] = b[8] BY <1>1, <1>2, Zenon
<1> QED BY <1>1, <1>2, <1>3, Zenon DEF c

\* A reset: PLL and HSE off, HSI on, then the fields one after the other.
LEMMA ResetWrite ==
  ASSUME Frequencies, Rcc!stm32_rcc_reset PROVE Frequencies'
<1> DEFINE cr == (rcc_enabled \ {"PLLCLK", "HSECLK"}) \cup {"HSICLK"}
           on1 == rcc_enabled \ {"PLLCLK"}
           on2 == rcc_enabled \ {"PLLCLK", "HSECLK"}
           last == {"HSICLK"} \cup (rcc_enabled \cap {"RTC"})
           Zero(n) == [x \in DOMAIN cfgr |->
                         IF \E i \in 1..n : Fields[i] = x THEN 0 ELSE cfgr[x]]
           head == <<Rcc!HCLK(on1, cfgr), Rcc!HCLK(on2, cfgr)>>
           tail == [n \in 1..8 |-> Rcc!HCLK(cr, Zero(n - 1))]
<1>1. /\ rcc_enabled' = last /\ cfgr' = Rcc!ResetCFGR /\ Rcc!Operations(head \o tail)
  BY Zenon DEF Rcc!stm32_rcc_reset, Fields
<1>2. \A c \in Oscillators : c \in cr <=> c \in last BY Zenon DEF Oscillators
<1>3. Rcc!ResetCFGR \in CfgrType BY DEF Rcc!ResetCFGR, CfgrType
<1>4. \A n : Zero(n) = Upto(cfgr, Rcc!ResetCFGR, n)
  <2> SUFFICES ASSUME NEW n PROVE Zero(n) = Upto(cfgr, Rcc!ResetCFGR, n) BY ZenonT(60)
  <2>1. \A x \in DOMAIN cfgr : Rcc!ResetCFGR[x] = 0
    <3> DEFINE names == {"PLLMUL", "PLLXTPRE", "PLLSRC", "PPRE2", "PPRE1", "HPRE", "SW"}
    <3>1. cfgr \in CfgrType BY Zenon DEF Frequencies
    <3>2. DOMAIN cfgr = names BY <3>1, ZenonT(60) DEF CfgrType
    <3>3. /\ Rcc!ResetCFGR["PLLMUL"] = 0 /\ Rcc!ResetCFGR["PLLXTPRE"] = 0
          /\ Rcc!ResetCFGR["PLLSRC"] = 0 /\ Rcc!ResetCFGR["PPRE2"] = 0
          /\ Rcc!ResetCFGR["PPRE1"] = 0 /\ Rcc!ResetCFGR["HPRE"] = 0
          /\ Rcc!ResetCFGR["SW"] = 0
      BY SMTT(60) DEF Rcc!ResetCFGR
    <3> QED BY <3>2, <3>3, Zenon
  <2> QED BY <2>1, Zenon DEF Upto
<1> HIDE DEF cr, on1, on2, last, Zero
<1>5. \A n \in 1..8 : tail[n] = Rcc!HCLK(cr, Upto(cfgr, Rcc!ResetCFGR, n - 1))
  BY <1>4, Zenon
<1>6. \A n \in 1..8 : tail[n] \in Usable
  BY <1>3, <1>5, UptoFacts, HclkUsable, Zenon DEF Frequencies
<1>7. tail = [n \in 1..8 |-> tail[n]] BY Zenon
<1>8. Rcc!HCLK(on1, cfgr) \in Usable /\ Rcc!HCLK(on2, cfgr) \in Usable
  BY HclkUsable, Zenon DEF Frequencies
<1>9. tail[8] = Rcc!HCLK(last, Rcc!ResetCFGR)
  <2>1. 8 \in 1..8 /\ 8 - 1 = 7 OBVIOUS
  <2>2. tail[8] = Rcc!HCLK(cr, Upto(cfgr, Rcc!ResetCFGR, 7)) BY <1>5, <2>1, Zenon
  <2>3. Upto(cfgr, Rcc!ResetCFGR, 7) = Rcc!ResetCFGR
    BY <1>3, UptoFacts, Zenon DEF Frequencies
  <2>4. Rcc!HCLK(cr, Rcc!ResetCFGR) = Rcc!HCLK(last, Rcc!ResetCFGR)
    BY <1>2, HclkSame, Zenon
  <2> HIDE DEF tail
  <2> QED BY <2>2, <2>3, <2>4, Zenon
<1> HIDE DEF tail
<1>10. head \in Seq(Usable) /\ Len(head) = 2 BY <1>8
<1>11. tail \in Seq(Usable) /\ Len(tail) = 8
  <2>1. tail \in Seq(Usable) BY <1>6, <1>7
  <2>2. DOMAIN tail = 1..8 BY <1>7, Zenon
  <2> QED BY <2>1, <2>2, SMTT(60)
<1> HIDE DEF head
<1>12. /\ head \o tail \in Seq(Usable) /\ Len(head \o tail) = 10
       /\ (head \o tail)[10] = tail[8]
  BY <1>10, <1>11, TwoThenEight, ZenonT(60)
<1> DEFINE freqs == head \o tail
<1> HIDE DEF freqs
<1>13. /\ freqs \in Seq(Usable) /\ Len(freqs) = 10 /\ freqs[10] = tail[8]
       /\ Rcc!Operations(freqs)
  BY <1>1, <1>12, Zenon DEF freqs
<1>14. (\A k \in 1..10 : freqs[k] \in Usable) /\ 10 \in Nat \ {0}
  <2>1. \A k \in 1..Len(freqs) : freqs[k] \in Usable
    <3>1. freqs \in Seq(Usable) BY <1>13
    <3> QED BY <3>1, SMTT(60)
  <2> QED BY <1>13, <2>1
<1>15. Follows(ScalesNow)' /\ hclk' = freqs[10]
  BY <1>13, <1>14, OperationsKeep, Zenon DEF Frequencies
<1> QED BY <1>1, <1>3, <1>9, <1>13, <1>15, Zenon DEF Frequencies

\* A step that leaves the oscillators, CFGR and the scales alone.
LEMMA QuietWrite ==
  ASSUME Frequencies, \A c \in Oscillators : c \in rcc_enabled <=> c \in rcc_enabled',
         UNCHANGED <<cfgr, hclk, rcc_system_scale, rcc_external_scale>>
  PROVE  Frequencies'
<1>1. Rcc!HCLK(rcc_enabled, cfgr) = Rcc!HCLK(rcc_enabled', cfgr) BY HclkSame, ZenonT(60)
<1>2. cfgr' = cfgr /\ hclk' = hclk /\ ScalesNow' = ScalesNow BY DEF ScalesNow
<1>3. Follows(ScalesNow)' BY <1>2, Zenon DEF Frequencies, Follows
<1> QED BY <1>1, <1>2, <1>3, Zenon DEF Frequencies

\* No bit of a bus switches an oscillator.
LEMMA BusClocks ==
  /\ \A c \in Oscillators : c \notin Rcc!Switched(Rcc!Apb2)
  /\ \A c \in Oscillators : c \notin Rcc!Switched(Rcc!Apb1)
<1>1. ASSUME NEW b \in DOMAIN Rcc!Apb2 PROVE Rcc!Apb2[b] \notin Oscillators
  BY DEF Rcc!Apb2, Oscillators
<1>2. ASSUME NEW b \in DOMAIN Rcc!Apb1 PROVE Rcc!Apb1[b] \notin Oscillators
  BY DEF Rcc!Apb1, Oscillators
<1> QED BY <1>1, <1>2, Zenon DEF Rcc!Switched

\* stm32_rcc_periph_enable leaves the oscillators alone.
LEMMA PeriphSame ==
  ASSUME NEW on, NEW bus, NEW bits, \A c \in Oscillators : c \notin Rcc!Switched(bus)
  PROVE  \A c \in Oscillators : c \in on <=> c \in Rcc!stm32_rcc_periph_enable(on, bus, bits)
BY Zenon DEF Rcc!stm32_rcc_periph_enable, Rcc!Switched

\* The commands that switch peripherals, the backup domain and LSI.
LEMMA PeripheralWrite ==
  ASSUME Frequencies,
         \/ \E bits : Rcc!stm32_rcc_RCC_APB2ENR_write(bits)
         \/ \E bits : Rcc!stm32_rcc_RCC_APB1ENR_write(bits)
         \/ \E bits : Rcc!stm32_rcc_RCC_AHBENR_write(bits)
         \/ \E v : Rcc!stm32_rcc_RCC_BDCR_write(v)
         \/ \E on : Rcc!stm32_rcc_RCC_CSR_write(on)
  PROVE  /\ Frequencies' /\ UNCHANGED <<cfgr, seen>>
         /\ \A c \in Oscillators : c \in rcc_enabled <=> c \in rcc_enabled'
<1> DEFINE Same == \A c \in Oscillators : c \in rcc_enabled <=> c \in rcc_enabled'
           Kept == UNCHANGED <<cfgr, hclk, rcc_system_scale, rcc_external_scale>>
<1>1. ASSUME NEW bits, Rcc!stm32_rcc_RCC_APB2ENR_write(bits) PROVE Same /\ Kept /\ seen' = seen
  <2>1. Kept /\ seen' = seen BY <1>1 DEF Rcc!stm32_rcc_RCC_APB2ENR_write, Rcc!systick
  <2>2. rcc_enabled' = Rcc!stm32_rcc_periph_enable(rcc_enabled, Rcc!Apb2, bits)
    BY <1>1, Zenon DEF Rcc!stm32_rcc_RCC_APB2ENR_write
  <2> QED BY <2>1, <2>2, BusClocks, PeriphSame, ZenonT(60)
<1>2. ASSUME NEW bits, Rcc!stm32_rcc_RCC_APB1ENR_write(bits) PROVE Same /\ Kept /\ seen' = seen
  <2>1. Kept /\ seen' = seen BY <1>2 DEF Rcc!stm32_rcc_RCC_APB1ENR_write, Rcc!systick
  <2>2. rcc_enabled' = Rcc!stm32_rcc_periph_enable(rcc_enabled, Rcc!Apb1, bits)
    BY <1>2, ZenonT(60) DEF Rcc!stm32_rcc_RCC_APB1ENR_write
  <2> QED BY <2>1, <2>2, BusClocks, PeriphSame, ZenonT(60)
<1>3. ASSUME NEW bits, Rcc!stm32_rcc_RCC_AHBENR_write(bits) PROVE Same /\ Kept /\ seen' = seen
  BY <1>3, Zenon DEF Rcc!stm32_rcc_RCC_AHBENR_write, Rcc!systick, Oscillators
<1>4. ASSUME NEW v, Rcc!stm32_rcc_RCC_BDCR_write(v) PROVE Same /\ Kept /\ seen' = seen
  BY <1>4, Zenon DEF Rcc!stm32_rcc_RCC_BDCR_write, Rcc!systick, Oscillators
<1>5. ASSUME NEW on, Rcc!stm32_rcc_RCC_CSR_write(on) PROVE Same /\ Kept /\ seen' = seen
  BY <1>5 DEF Rcc!stm32_rcc_RCC_CSR_write, Rcc!systick, Oscillators
<1>6. Same /\ Kept /\ seen' = seen BY <1>1, <1>2, <1>3, <1>4, <1>5, ZenonT(60)
<1> QED BY <1>6, QuietWrite
-----------------------------------------------------------------------------
\* The statements of SystemInit that write CR, and those that write CFGR.
LEMMA CRStatements ==
  /\ Rcc!Startup[1] = Rcc!CR({"HSICLK"}, {})
  /\ Rcc!Startup[3] = Rcc!CR({}, {"HSECLK", "PLLCLK"})
  /\ Rcc!Startup[5] = Rcc!CR({"HSECLK"}, {})
  /\ Rcc!Startup[9] = Rcc!CR({"PLLCLK"}, {})
BY ZenonT(60) DEF Rcc!Startup

\* The statements of SystemInit that modify CFGR.
LEMMA CFGRStatements ==
  /\ Rcc!Startup[2] = Rcc!CFGR([PPRE2 |-> 0, PPRE1 |-> 0, HPRE |-> 0, SW |-> 0])
  /\ Rcc!Startup[4] = Rcc!CFGR([PLLMUL |-> 0, PLLXTPRE |-> 0, PLLSRC |-> 0])
  /\ Rcc!Startup[6] = Rcc!CFGR([PPRE1 |-> 4])
  /\ Rcc!Startup[7] = Rcc!CFGR([PLLMUL |-> 0, PLLXTPRE |-> 0, PLLSRC |-> 0])
  /\ Rcc!Startup[8] = Rcc!CFGR([PLLSRC |-> 1, PLLMUL |-> 7])
  /\ Rcc!Startup[10] = Rcc!CFGR([SW |-> 0])
  /\ Rcc!Startup[11] = Rcc!CFGR([SW |-> 2])
BY Zenon DEF Rcc!Startup

\* A read-modify-write of CFGR
Modified(f, g) == [x \in DOMAIN f |-> IF x \in DOMAIN g THEN g[x] ELSE f[x]]

\* What SystemInit writes to CFGR keeps each field within its width.
LEMMA ModifiedType ==
  ASSUME NEW f \in CfgrType
  PROVE  /\ Modified(f, [PPRE2 |-> 0, PPRE1 |-> 0, HPRE |-> 0, SW |-> 0]) \in CfgrType
         /\ Modified(f, [PLLMUL |-> 0, PLLXTPRE |-> 0, PLLSRC |-> 0]) \in CfgrType
         /\ Modified(f, [PPRE1 |-> 4]) \in CfgrType
         /\ Modified(f, [PLLSRC |-> 1, PLLMUL |-> 7]) \in CfgrType
         /\ Modified(f, [SW |-> 0]) \in CfgrType
         /\ Modified(f, [SW |-> 2]) \in CfgrType
<1>1. Modified(f, [PPRE2 |-> 0, PPRE1 |-> 0, HPRE |-> 0, SW |-> 0]) \in CfgrType
  BY SMTT(60) DEF CfgrType, Modified
<1>2. Modified(f, [PLLMUL |-> 0, PLLXTPRE |-> 0, PLLSRC |-> 0]) \in CfgrType
  BY SMTT(60) DEF CfgrType, Modified
<1>3. Modified(f, [PPRE1 |-> 4]) \in CfgrType BY SMTT(60) DEF CfgrType, Modified
<1>4. Modified(f, [PLLSRC |-> 1, PLLMUL |-> 7]) \in CfgrType BY SMTT(60) DEF CfgrType, Modified
<1>5. Modified(f, [SW |-> 0]) \in CfgrType BY SMTT(60) DEF CfgrType, Modified
<1>6. Modified(f, [SW |-> 2]) \in CfgrType BY DEF CfgrType, Modified
<1> QED BY <1>1, <1>2, <1>3, <1>4, <1>5, <1>6, ZenonT(60)

\* A statement that writes CFGR.
LEMMA CFGRStatement ==
  ASSUME Frequencies, Rcc!SystemInit, NEW g, Rcc!Startup[pc] = Rcc!CFGR(g),
         Modified(cfgr, g) \in CfgrType
  PROVE  /\ Frequencies' /\ cfgr' = Modified(cfgr, g) /\ rcc_enabled' = rcc_enabled
         /\ pc' = pc + 1
         /\ \A freq \in seen' : \E n \in 1..7 :
              freq = Rcc!HCLK(rcc_enabled, Upto(cfgr, Modified(cfgr, g), n))
<1>1. Rcc!Startup[pc].reg = "CFGR" /\ Rcc!Startup[pc].fields = g /\ "CFGR" # "CR"
  BY DEF Rcc!CFGR
<1>2. Rcc!stm32_rcc_RCC_CFGR_write(Modified(cfgr, g)) /\ pc' = pc + 1
  BY <1>1, Zenon DEF Rcc!SystemInit, Modified
<1>3. pc <= 11
  <2>1. pc <= Len(Rcc!Startup) BY ZenonT(60) DEF Rcc!SystemInit
  <2>2. Len(Rcc!Startup) = 11 BY Zenon DEF Rcc!Startup
  <2> QED BY <2>1, <2>2, Zenon
<1> QED BY <1>2, <1>3, CFGRWrite, ZenonT(60)

\* A statement that writes CR.
LEMMA CRStatement ==
  ASSUME Frequencies, Rcc!SystemInit, NEW set, NEW clear,
         Rcc!Startup[pc] = Rcc!CR(set, clear)
  PROVE  /\ Frequencies' /\ cfgr' = cfgr /\ pc' = pc + 1
         /\ \A c \in Oscillators :
              c \in rcc_enabled' <=> (c \in rcc_enabled \/ c \in set) /\ c \notin clear
         /\ \A freq \in seen' : \E on :
              /\ freq = Rcc!HCLK(on, cfgr)
              /\ "HSICLK" \in rcc_enabled /\ "HSICLK" \notin clear => "HSICLK" \in on
<1> DEFINE v == ((rcc_enabled \cap {"HSICLK", "HSECLK", "PLLCLK"}) \cup set) \ clear
<1>1. /\ Rcc!Startup[pc].reg = "CR" /\ "CFGR" # "CR"
      /\ Rcc!Startup[pc].set = set /\ Rcc!Startup[pc].clear = clear
  BY DEF Rcc!CR
<1>2. Rcc!stm32_rcc_RCC_CR_write(v) /\ pc' = pc + 1
  BY <1>1, Zenon DEF Rcc!SystemInit
<1>3. pc <= 11
  <2>1. pc <= Len(Rcc!Startup) BY ZenonT(60) DEF Rcc!SystemInit
  <2>2. Len(Rcc!Startup) = 11 BY Zenon DEF Rcc!Startup
  <2> QED BY <2>1, <2>2, Zenon
<1>4. /\ \A c \in Oscillators : c \in v <=> (c \in rcc_enabled \/ c \in set) /\ c \notin clear
      /\ "HSICLK" \in rcc_enabled /\ "HSICLK" \notin clear => "HSICLK" \in v
  BY Zenon DEF Oscillators
<1> HIDE DEF v
<1>5. /\ Frequencies' /\ cfgr' = cfgr
      /\ \A c \in Oscillators : c \in rcc_enabled' <=> c \in v
      /\ \A freq \in seen' : \E on :
           /\ freq = Rcc!HCLK(on, cfgr)
           /\ "HSICLK" \in rcc_enabled /\ "HSICLK" \in v => "HSICLK" \in on
  BY <1>2, <1>3, CRWrite, Zenon
<1> QED BY <1>2, <1>4, <1>5, ZenonT(60)
-----------------------------------------------------------------------------
\* Neither stopped nor above 72 MHz
Smooth(freq) == 0 < freq /\ freq <= 72000000

\* HCLK straight from HSI, and straight from a PLL that multiplies HSE by 9.
LEMMA SlowHclk ==
  ASSUME NEW on, "HSICLK" \in on, NEW f, f.SW = 0, f.HPRE = 0
  PROVE  Rcc!HCLK(on, f) = Rcc!HSI_FREQ /\ Smooth(Rcc!HCLK(on, f))
<1>1. Rcc!Source(on, "HSICLK", Rcc!HSI_FREQ) = Rcc!HSI_FREQ BY ZenonT(60) DEF Rcc!Source
<1>2. Rcc!SYSCLK(on, f) = Rcc!HSI_FREQ BY <1>1, SMTT(60) DEF Rcc!SYSCLK
<1>3. Rcc!HCLK(on, f) = Rcc!HSI_FREQ \div 1 BY <1>2 DEF Rcc!HCLK
<1>4. Rcc!HSI_FREQ \div 1 = Rcc!HSI_FREQ BY SMT DEF Rcc!HSI_FREQ
<1>5. Smooth(Rcc!HSI_FREQ) BY SMTT(60) DEF Smooth, Rcc!HSI_FREQ
<1> QED BY <1>3, <1>4, <1>5, Zenon

\* The second of the two: nine times the crystal, at most 72 MHz, never stopped.
LEMMA FullHclk ==
  ASSUME NEW on, "PLLCLK" \in on, "HSECLK" \in on, NEW f, f.SW = 2, f.HPRE = 0,
         f.PLLSRC = 1, f.PLLXTPRE = 0, f.PLLMUL = 7
  PROVE  Rcc!HCLK(on, f) = 9 * OscFreq /\ Smooth(Rcc!HCLK(on, f))
<1>1. Rcc!Source(on, "HSECLK", OscFreq) = OscFreq BY ZenonT(60) DEF Rcc!Source
<1>2. Rcc!PLLCLK(on, f) = 9 * OscFreq BY <1>1, SMTT(60) DEF Rcc!PLLCLK
<1>3. Rcc!SYSCLK(on, f) = 9 * OscFreq BY <1>2, SMTT(60) DEF Rcc!SYSCLK
<1>4. Rcc!HCLK(on, f) = (9 * OscFreq) \div 1 BY <1>3, SMTT(60) DEF Rcc!HCLK
<1>5. (9 * OscFreq) \div 1 = 9 * OscFreq BY RccAssumption, SMTT(60)
<1>6. Smooth(9 * OscFreq) BY RccAssumption, SMT DEF Smooth
<1> QED BY <1>4, <1>5, <1>6, Zenon

\* Between the fields of a write each field is the old or the new one.
LEMMA UptoField ==
  ASSUME NEW f \in CfgrType, NEW v, NEW n
  PROVE  /\ Upto(f, v, n).SW \in {f.SW, v.SW}
         /\ Upto(f, v, n).HPRE \in {f.HPRE, v.HPRE}
         /\ Upto(f, v, n).PLLMUL \in {f.PLLMUL, v.PLLMUL}
         /\ Upto(f, v, n).PLLXTPRE \in {f.PLLXTPRE, v.PLLXTPRE}
         /\ Upto(f, v, n).PLLSRC \in {f.PLLSRC, v.PLLSRC}
<1>1. DOMAIN f = {"PLLMUL", "PLLXTPRE", "PLLSRC", "PPRE2", "PPRE1", "HPRE", "SW"}
  BY DEF CfgrType
<1>2. \A x \in DOMAIN f : Upto(f, v, n)[x] \in {f[x], v[x]} BY Zenon DEF Upto
<1> QED BY <1>1, <1>2, Zenon

\* A statement that keeps HSI driving HCLK undivided keeps it smooth.
LEMMA SlowStatement ==
  ASSUME cfgr \in CfgrType, cfgr.SW = 0, cfgr.HPRE = 0, "HSICLK" \in rcc_enabled,
         NEW v, v.SW = 0, v.HPRE = 0, NEW n
  PROVE  Smooth(Rcc!HCLK(rcc_enabled, Upto(cfgr, v, n)))
<1>1. Upto(cfgr, v, n).SW = 0 /\ Upto(cfgr, v, n).HPRE = 0 BY UptoField, ZenonT(60)
<1> QED BY <1>1, SlowHclk, Zenon

\* Every statement of SystemInit, in turn.
LEMMA SystemInitStep ==
  ASSUME RccInv, Rcc!SystemInit
  PROVE  RccInv' /\ (pc >= 3 => \A freq \in seen' : Smooth(freq))
<1>1. CASE pc = 1
  <2> DEFINE set == {"HSICLK"}
             clear == {}
  <2>1. Rcc!Startup[pc] = Rcc!CR(set, clear) BY <1>1, CRStatements, Zenon
  <2> HIDE DEF set, clear
  <2>2. /\ Frequencies' /\ cfgr' = cfgr /\ pc' = pc + 1
        /\ \A c \in Oscillators :
             c \in rcc_enabled' <=> (c \in rcc_enabled \/ c \in set) /\ c \notin clear
        /\ \A freq \in seen' : \E on :
             /\ freq = Rcc!HCLK(on, cfgr)
             /\ "HSICLK" \in rcc_enabled /\ "HSICLK" \notin clear => "HSICLK" \in on
    BY <2>1, CRStatement, ZenonT(60) DEF RccInv
  <2>3. Progress' BY <1>1, <2>2 DEF RccInv, Progress, Oscillators, set, clear
  <2>4. ~(pc >= 3) BY <1>1
  <2> QED BY <2>2, <2>3, <2>4, Zenon DEF RccInv
<1>2. CASE pc = 2
  <2> DEFINE v == Modified(cfgr, [PPRE2 |-> 0, PPRE1 |-> 0, HPRE |-> 0, SW |-> 0])
  <2>1. Rcc!Startup[pc] = Rcc!CFGR([PPRE2 |-> 0, PPRE1 |-> 0, HPRE |-> 0, SW |-> 0]) BY <1>2, CFGRStatements, Zenon
  <2>2. cfgr \in CfgrType /\ v \in CfgrType BY ModifiedType, Zenon DEF RccInv, Frequencies
  <2>3. /\ Frequencies' /\ cfgr' = v /\ rcc_enabled' = rcc_enabled /\ pc' = pc + 1
        /\ \A freq \in seen' : \E n \in 1..7 : freq = Rcc!HCLK(rcc_enabled, Upto(cfgr, v, n))
    BY <2>1, <2>2, CFGRStatement, ZenonT(60) DEF RccInv
  <2>4. v.SW = 0 /\ v.HPRE = 0 /\ v.PLLXTPRE = cfgr.PLLXTPRE
        /\ v.PLLSRC = cfgr.PLLSRC /\ v.PLLMUL = cfgr.PLLMUL
    BY <2>2, ZenonT(60) DEF Modified, CfgrType
  <2> HIDE DEF v
  <2>5. Progress' BY <1>2, <2>3, <2>4 DEF RccInv, Progress
  <2>6. ~(pc >= 3) BY <1>2
  <2> QED BY <2>3, <2>5, <2>6, Zenon DEF RccInv
<1>3. CASE pc = 3
  <2> DEFINE set == {}
             clear == {"HSECLK", "PLLCLK"}
  <2>1. Rcc!Startup[pc] = Rcc!CR(set, clear) BY <1>3, CRStatements, Zenon
  <2> HIDE DEF set, clear
  <2>2. /\ Frequencies' /\ cfgr' = cfgr /\ pc' = pc + 1
        /\ \A c \in Oscillators :
             c \in rcc_enabled' <=> (c \in rcc_enabled \/ c \in set) /\ c \notin clear
        /\ \A freq \in seen' : \E on :
             /\ freq = Rcc!HCLK(on, cfgr)
             /\ "HSICLK" \in rcc_enabled /\ "HSICLK" \notin clear => "HSICLK" \in on
    BY <2>1, CRStatement, ZenonT(60) DEF RccInv
  <2>3. Progress' BY <1>3, <2>2 DEF RccInv, Progress, Oscillators, set, clear
  <2>4. \A freq \in seen' : Smooth(freq)
    <3>1. cfgr.SW = 0 /\ cfgr.HPRE = 0 /\ "HSICLK" \in rcc_enabled
      BY <1>3 DEF RccInv, Progress
    <3>2. "HSICLK" \notin clear BY DEF clear
    <3> QED BY <2>2, <3>1, <3>2, SlowHclk, ZenonT(60)
  <2> QED BY <2>2, <2>3, <2>4, Zenon DEF RccInv
<1>4. CASE pc = 4
  <2> DEFINE v == Modified(cfgr, [PLLMUL |-> 0, PLLXTPRE |-> 0, PLLSRC |-> 0])
  <2>1. Rcc!Startup[pc] = Rcc!CFGR([PLLMUL |-> 0, PLLXTPRE |-> 0, PLLSRC |-> 0]) BY <1>4, CFGRStatements, Zenon
  <2>2. cfgr \in CfgrType /\ v \in CfgrType BY ModifiedType, Zenon DEF RccInv, Frequencies
  <2>3. /\ Frequencies' /\ cfgr' = v /\ rcc_enabled' = rcc_enabled /\ pc' = pc + 1
        /\ \A freq \in seen' : \E n \in 1..7 : freq = Rcc!HCLK(rcc_enabled, Upto(cfgr, v, n))
    BY <2>1, <2>2, CFGRStatement, ZenonT(60) DEF RccInv
  <2>4. v.SW = cfgr.SW /\ v.HPRE = cfgr.HPRE /\ v.PLLXTPRE = 0
        /\ v.PLLSRC = 0 /\ v.PLLMUL = 0
    BY <2>2, ZenonT(60) DEF Modified, CfgrType
  <2> HIDE DEF v
  <2>5. Progress' BY <1>4, <2>3, <2>4 DEF RccInv, Progress
  <2>6. \A freq \in seen' : Smooth(freq)
    <3>1. /\ cfgr.SW = 0 /\ cfgr.HPRE = 0 /\ "HSICLK" \in rcc_enabled
          /\ v.SW = 0 /\ v.HPRE = 0
      BY <1>4, <2>4 DEF RccInv, Progress
    <3> QED BY <2>2, <2>3, <3>1, SlowStatement, ZenonT(60)
  <2> QED BY <2>3, <2>5, <2>6, Zenon DEF RccInv
<1>5. CASE pc = 5
  <2> DEFINE set == {"HSECLK"}
             clear == {}
  <2>1. Rcc!Startup[pc] = Rcc!CR(set, clear) BY <1>5, CRStatements, Zenon
  <2> HIDE DEF set, clear
  <2>2. /\ Frequencies' /\ cfgr' = cfgr /\ pc' = pc + 1
        /\ \A c \in Oscillators :
             c \in rcc_enabled' <=> (c \in rcc_enabled \/ c \in set) /\ c \notin clear
        /\ \A freq \in seen' : \E on :
             /\ freq = Rcc!HCLK(on, cfgr)
             /\ "HSICLK" \in rcc_enabled /\ "HSICLK" \notin clear => "HSICLK" \in on
    BY <2>1, CRStatement, Zenon DEF RccInv
  <2>3. Progress' BY <1>5, <2>2 DEF RccInv, Progress, Oscillators, set, clear
  <2>4. \A freq \in seen' : Smooth(freq)
    <3>1. cfgr.SW = 0 /\ cfgr.HPRE = 0 /\ "HSICLK" \in rcc_enabled
      BY <1>5 DEF RccInv, Progress
    <3>2. "HSICLK" \notin clear BY DEF clear
    <3> QED BY <2>2, <3>1, <3>2, SlowHclk, ZenonT(60)
  <2> QED BY <2>2, <2>3, <2>4, Zenon DEF RccInv
<1>6. CASE pc = 6
  <2> DEFINE v == Modified(cfgr, [PPRE1 |-> 4])
  <2>1. Rcc!Startup[pc] = Rcc!CFGR([PPRE1 |-> 4]) BY <1>6, CFGRStatements, Zenon
  <2>2. cfgr \in CfgrType /\ v \in CfgrType BY ModifiedType, Zenon DEF RccInv, Frequencies
  <2>3. /\ Frequencies' /\ cfgr' = v /\ rcc_enabled' = rcc_enabled /\ pc' = pc + 1
        /\ \A freq \in seen' : \E n \in 1..7 : freq = Rcc!HCLK(rcc_enabled, Upto(cfgr, v, n))
    BY <2>1, <2>2, CFGRStatement, ZenonT(60) DEF RccInv
  <2>4. v.SW = cfgr.SW /\ v.HPRE = cfgr.HPRE /\ v.PLLXTPRE = cfgr.PLLXTPRE
        /\ v.PLLSRC = cfgr.PLLSRC /\ v.PLLMUL = cfgr.PLLMUL
    BY <2>2, Zenon DEF Modified, CfgrType
  <2> HIDE DEF v
  <2>5. Progress' BY <1>6, <2>3, <2>4 DEF RccInv, Progress
  <2>6. \A freq \in seen' : Smooth(freq)
    <3>1. /\ cfgr.SW = 0 /\ cfgr.HPRE = 0 /\ "HSICLK" \in rcc_enabled
          /\ v.SW = 0 /\ v.HPRE = 0
      BY <1>6, <2>4 DEF RccInv, Progress
    <3> QED BY <2>2, <2>3, <3>1, SlowStatement, ZenonT(60)
  <2> QED BY <2>3, <2>5, <2>6, Zenon DEF RccInv
<1>7. CASE pc = 7
  <2> DEFINE v == Modified(cfgr, [PLLMUL |-> 0, PLLXTPRE |-> 0, PLLSRC |-> 0])
  <2>1. Rcc!Startup[pc] = Rcc!CFGR([PLLMUL |-> 0, PLLXTPRE |-> 0, PLLSRC |-> 0]) BY <1>7, CFGRStatements, Zenon
  <2>2. cfgr \in CfgrType /\ v \in CfgrType BY ModifiedType, Zenon DEF RccInv, Frequencies
  <2>3. /\ Frequencies' /\ cfgr' = v /\ rcc_enabled' = rcc_enabled /\ pc' = pc + 1
        /\ \A freq \in seen' : \E n \in 1..7 : freq = Rcc!HCLK(rcc_enabled, Upto(cfgr, v, n))
    BY <2>1, <2>2, CFGRStatement, Zenon DEF RccInv
  <2>4. v.SW = cfgr.SW /\ v.HPRE = cfgr.HPRE /\ v.PLLXTPRE = 0
        /\ v.PLLSRC = 0 /\ v.PLLMUL = 0
    BY <2>2, ZenonT(60) DEF Modified, CfgrType
  <2> HIDE DEF v
  <2>5. Progress' BY <1>7, <2>3, <2>4 DEF RccInv, Progress
  <2>6. \A freq \in seen' : Smooth(freq)
    <3>1. /\ cfgr.SW = 0 /\ cfgr.HPRE = 0 /\ "HSICLK" \in rcc_enabled
          /\ v.SW = 0 /\ v.HPRE = 0
      BY <1>7, <2>4 DEF RccInv, Progress
    <3> QED BY <2>2, <2>3, <3>1, SlowStatement, ZenonT(60)
  <2> QED BY <2>3, <2>5, <2>6, Zenon DEF RccInv
<1>8. CASE pc = 8
  <2> DEFINE v == Modified(cfgr, [PLLSRC |-> 1, PLLMUL |-> 7])
  <2>1. Rcc!Startup[pc] = Rcc!CFGR([PLLSRC |-> 1, PLLMUL |-> 7]) BY <1>8, CFGRStatements, Zenon
  <2>2. cfgr \in CfgrType /\ v \in CfgrType BY ModifiedType, Zenon DEF RccInv, Frequencies
  <2>3. /\ Frequencies' /\ cfgr' = v /\ rcc_enabled' = rcc_enabled /\ pc' = pc + 1
        /\ \A freq \in seen' : \E n \in 1..7 : freq = Rcc!HCLK(rcc_enabled, Upto(cfgr, v, n))
    BY <2>1, <2>2, CFGRStatement, Zenon DEF RccInv
  <2>4. v.SW = cfgr.SW /\ v.HPRE = cfgr.HPRE /\ v.PLLXTPRE = cfgr.PLLXTPRE
        /\ v.PLLSRC = 1 /\ v.PLLMUL = 7
    BY <2>2, ZenonT(60) DEF Modified, CfgrType
  <2> HIDE DEF v
  <2>5. Progress' BY <1>8, <2>3, <2>4, SMTT(60) DEF RccInv, Progress
  <2>6. \A freq \in seen' : Smooth(freq)
    <3>1. /\ cfgr.SW = 0 /\ cfgr.HPRE = 0 /\ "HSICLK" \in rcc_enabled
          /\ v.SW = 0 /\ v.HPRE = 0
      BY <1>8, <2>4 DEF RccInv, Progress
    <3> QED BY <2>2, <2>3, <3>1, SlowStatement, ZenonT(60)
  <2> QED BY <2>3, <2>5, <2>6, Zenon DEF RccInv
<1>9. CASE pc = 9
  <2> DEFINE set == {"PLLCLK"}
             clear == {}
  <2>1. Rcc!Startup[pc] = Rcc!CR(set, clear) BY <1>9, CRStatements, Zenon
  <2> HIDE DEF set, clear
  <2>2. /\ Frequencies' /\ cfgr' = cfgr /\ pc' = pc + 1
        /\ \A c \in Oscillators :
             c \in rcc_enabled' <=> (c \in rcc_enabled \/ c \in set) /\ c \notin clear
        /\ \A freq \in seen' : \E on :
             /\ freq = Rcc!HCLK(on, cfgr)
             /\ "HSICLK" \in rcc_enabled /\ "HSICLK" \notin clear => "HSICLK" \in on
    BY <2>1, CRStatement, Zenon DEF RccInv
  <2>3. Progress' BY <1>9, <2>2 DEF RccInv, Progress, Oscillators, set, clear
  <2>4. \A freq \in seen' : Smooth(freq)
    <3>1. cfgr.SW = 0 /\ cfgr.HPRE = 0 /\ "HSICLK" \in rcc_enabled
      BY <1>9 DEF RccInv, Progress
    <3>2. "HSICLK" \notin clear BY DEF clear
    <3> QED BY <2>2, <3>1, <3>2, SlowHclk, ZenonT(60)
  <2> QED BY <2>2, <2>3, <2>4, Zenon DEF RccInv
<1>10. CASE pc = 10
  <2> DEFINE v == Modified(cfgr, [SW |-> 0])
  <2>1. Rcc!Startup[pc] = Rcc!CFGR([SW |-> 0]) BY <1>10, CFGRStatements, Zenon
  <2>2. cfgr \in CfgrType /\ v \in CfgrType BY ModifiedType, Zenon DEF RccInv, Frequencies
  <2>3. /\ Frequencies' /\ cfgr' = v /\ rcc_enabled' = rcc_enabled /\ pc' = pc + 1
        /\ \A freq \in seen' : \E n \in 1..7 : freq = Rcc!HCLK(rcc_enabled, Upto(cfgr, v, n))
    BY <2>1, <2>2, CFGRStatement, ZenonT(60) DEF RccInv
  <2>4. v.SW = 0 /\ v.HPRE = cfgr.HPRE /\ v.PLLXTPRE = cfgr.PLLXTPRE
        /\ v.PLLSRC = cfgr.PLLSRC /\ v.PLLMUL = cfgr.PLLMUL
    BY <2>2, ZenonT(60) DEF Modified, CfgrType
  <2> HIDE DEF v
  <2>5. Progress' BY <1>10, <2>3, <2>4 DEF RccInv, Progress
  <2>6. \A freq \in seen' : Smooth(freq)
    <3>1. /\ cfgr.SW = 0 /\ cfgr.HPRE = 0 /\ "HSICLK" \in rcc_enabled
          /\ v.SW = 0 /\ v.HPRE = 0
      BY <1>10, <2>4 DEF RccInv, Progress
    <3> QED BY <2>2, <2>3, <3>1, SlowStatement, ZenonT(60)
  <2> QED BY <2>3, <2>5, <2>6, Zenon DEF RccInv
<1>11. CASE pc = 11
  <2> DEFINE v == Modified(cfgr, [SW |-> 2])
  <2>1. Rcc!Startup[pc] = Rcc!CFGR([SW |-> 2]) BY <1>11, CFGRStatements, Zenon
  <2>2. cfgr \in CfgrType /\ v \in CfgrType BY ModifiedType, Zenon DEF RccInv, Frequencies
  <2>3. /\ Frequencies' /\ cfgr' = v /\ rcc_enabled' = rcc_enabled /\ pc' = pc + 1
        /\ \A freq \in seen' : \E n \in 1..7 : freq = Rcc!HCLK(rcc_enabled, Upto(cfgr, v, n))
    BY <2>1, <2>2, CFGRStatement, Zenon DEF RccInv
  <2>4. v.SW = 2 /\ v.HPRE = cfgr.HPRE /\ v.PLLXTPRE = cfgr.PLLXTPRE
        /\ v.PLLSRC = cfgr.PLLSRC /\ v.PLLMUL = cfgr.PLLMUL
    BY <2>2, Zenon DEF Modified, CfgrType
  <2> HIDE DEF v
  <2>5. Progress' BY <1>11, <2>3, <2>4 DEF RccInv, Progress
  <2>6. \A freq \in seen' : Smooth(freq)
    <3> SUFFICES ASSUME NEW n \in 1..7 PROVE Smooth(Rcc!HCLK(rcc_enabled, Upto(cfgr, v, n)))
      BY <2>3, Zenon
    <3> DEFINE u == Upto(cfgr, v, n)
    <3>1. /\ cfgr.SW = 0 /\ cfgr.HPRE = 0 /\ cfgr.PLLXTPRE = 0
          /\ cfgr.PLLSRC = 1 /\ cfgr.PLLMUL = 7
          /\ "HSICLK" \in rcc_enabled /\ "HSECLK" \in rcc_enabled /\ "PLLCLK" \in rcc_enabled
      BY <1>11, SMTT(60) DEF RccInv, Progress
    <3>2. /\ u.SW \in {0, 2} /\ u.HPRE = 0 /\ u.PLLXTPRE = 0
          /\ u.PLLSRC = 1 /\ u.PLLMUL = 7
      <4>1. /\ u.SW \in {cfgr.SW, v.SW} /\ u.HPRE \in {cfgr.HPRE, v.HPRE}
            /\ u.PLLMUL \in {cfgr.PLLMUL, v.PLLMUL}
            /\ u.PLLXTPRE \in {cfgr.PLLXTPRE, v.PLLXTPRE}
            /\ u.PLLSRC \in {cfgr.PLLSRC, v.PLLSRC}
        BY <2>2, UptoField, Zenon
      <4> HIDE DEF u
      <4> QED BY <2>4, <3>1, <4>1
    <3> HIDE DEF u
    <3>3. CASE u.SW = 0 BY <3>1, <3>2, <3>3, SlowHclk, Zenon DEF u
    <3>4. CASE u.SW = 2 BY <3>1, <3>2, <3>4, FullHclk, ZenonT(60) DEF u
    <3> QED BY <3>2, <3>3, <3>4, Zenon
  <2> QED BY <2>3, <2>5, <2>6, Zenon DEF RccInv
<1>12. pc \in 1..11
  <2>1. pc <= Len(Rcc!Startup) BY ZenonT(60) DEF Rcc!SystemInit
  <2>2. Len(Rcc!Startup) = 11 BY DEF Rcc!Startup
  <2> QED BY <2>1, <2>2 DEF RccInv, Progress
<1> QED BY <1>1, <1>2, <1>3, <1>4, <1>5, <1>6, <1>7, <1>8, <1>9, <1>10, <1>11, <1>12, SMTT(60)

\* The application's writes and a reset.
LEMMA ApplicationStep ==
  ASSUME RccInv, Rcc!Application PROVE RccInv'
<1>1. pc = 12
  <2>1. pc > Len(Rcc!Startup) BY ZenonT(60) DEF Rcc!Application
  <2>2. Len(Rcc!Startup) = 11 BY Zenon DEF Rcc!Startup
  <2> QED BY <2>1, <2>2 DEF RccInv, Progress
<1>2. ASSUME pc' = pc PROVE Progress' BY <1>1, <1>2 DEF Progress
<1>3. ASSUME NEW v \in CRs, Rcc!stm32_rcc_RCC_CR_write(v), pc' = pc PROVE RccInv'
  BY <1>2, <1>3, CRWrite, Zenon DEF RccInv
<1>4. ASSUME NEW v \in CFGRs, Rcc!stm32_rcc_RCC_CFGR_write(v), pc' = pc PROVE RccInv'
  <2>1. v \in CfgrType BY RccAssumption DEF CfgrType
  <2> QED BY <1>2, <1>4, <2>1, CFGRWrite, ZenonT(60) DEF RccInv
<1>5. ASSUME \/ \E bits : Rcc!stm32_rcc_RCC_APB2ENR_write(bits)
             \/ \E bits : Rcc!stm32_rcc_RCC_APB1ENR_write(bits)
             \/ \E bits : Rcc!stm32_rcc_RCC_AHBENR_write(bits)
             \/ \E v : Rcc!stm32_rcc_RCC_BDCR_write(v)
             \/ \E on : Rcc!stm32_rcc_RCC_CSR_write(on),
             pc' = pc
      PROVE  RccInv'
  BY <1>2, <1>5, PeripheralWrite, Zenon DEF RccInv
<1>6. ASSUME pc' = 1, UNCHANGED <<rcc_enabled, cfgr, hclk, rcc_system_scale, rcc_external_scale>>
      PROVE  RccInv'
  <2>1. Frequencies' BY <1>6, QuietWrite, ZenonT(60) DEF RccInv
  <2>2. Progress' BY <1>6 DEF Progress
  <2> QED BY <2>1, <2>2, Zenon DEF RccInv
<1>7. \/ \E v \in CRs : Rcc!stm32_rcc_RCC_CR_write(v) /\ pc' = pc
      \/ \E v \in CFGRs : Rcc!stm32_rcc_RCC_CFGR_write(v) /\ pc' = pc
      \/ /\ pc' = pc
         /\ \/ \E bits : Rcc!stm32_rcc_RCC_APB2ENR_write(bits)
            \/ \E bits : Rcc!stm32_rcc_RCC_APB1ENR_write(bits)
            \/ \E bits : Rcc!stm32_rcc_RCC_AHBENR_write(bits)
            \/ \E v : Rcc!stm32_rcc_RCC_BDCR_write(v)
            \/ \E on : Rcc!stm32_rcc_RCC_CSR_write(on)
      \/ pc' = 1 /\ UNCHANGED <<rcc_enabled, cfgr, hclk, rcc_system_scale, rcc_external_scale>>
  BY Zenon DEF Rcc!Application, Rcc!RCC_APB2PeriphClockCmd, Rcc!RCC_APB1PeriphClockCmd,
     Rcc!RCC_AHBPeriphClockCmd, Rcc!clocks, Rcc!systick
<1> QED BY <1>3, <1>4, <1>5, <1>6, <1>7, ZenonT(60)

\* A reset starts SystemInit again.
LEMMA ResetStep ==
  ASSUME RccInv, Rcc!stm32_rcc_reset PROVE RccInv'
<1>1. Frequencies' BY ResetWrite, Zenon DEF RccInv
<1>2. pc' = 1 BY Zenon DEF Rcc!stm32_rcc_reset
<1>3. Progress' BY <1>2 DEF Progress
<1> QED BY <1>1, <1>3, Zenon DEF RccInv
-----------------------------------------------------------------------------
\* A machine that has just been reset.
LEMMA RccInitially ==
  ASSUME Rcc!Init PROVE RccInv
<1>1. /\ cfgr = Rcc!ResetCFGR /\ rcc_enabled = {"HSICLK"} /\ pc = 1 /\ hclk = Rcc!HSI_FREQ
      /\ rcc_system_scale = Ticks \div Rcc!HSI_FREQ
      /\ rcc_external_scale = Ticks \div (Rcc!HSI_FREQ \div 8)
  BY ZenonT(60) DEF Rcc!Init, Ticks
<1>2. cfgr \in CfgrType /\ cfgr.SW = 0 /\ cfgr.HPRE = 0 BY <1>1 DEF Rcc!ResetCFGR, CfgrType
<1>3. hclk = Rcc!HCLK(rcc_enabled, cfgr)
  <2>1. "HSICLK" \in rcc_enabled BY <1>1
  <2> QED BY <1>1, <1>2, <2>1, SlowHclk, ZenonT(60)
<1>4. Follows(ScalesNow)
  <2>1. Rcc!HSI_FREQ \in Nat /\ 8 <= Rcc!HSI_FREQ /\ Rcc!HSI_FREQ <= Ticks
    BY TicksNat, SMT DEF Rcc!HSI_FREQ
  <2>2. Rcc!HSI_FREQ \in 8..Ticks BY <2>1, TicksNat, SMTT(60)
  <2>3. /\ Ticks \div Rcc!HSI_FREQ \in Nat \ {0}
        /\ Ticks \div (Rcc!HSI_FREQ \div 8) \in Nat \ {0}
    BY <2>2, TicksNat, ScalesPositive, SMTT(60)
  <2>4. ScalesNow.hclk = hclk /\ ScalesNow.sys = rcc_system_scale /\ ScalesNow.ext = rcc_external_scale
    BY DEF ScalesNow
  <2>5. hclk \in Usable BY <1>1, <2>2, Zenon DEF Usable
  <2> QED BY <1>1, <2>3, <2>4, <2>5, Zenon DEF Follows
<1>5. Progress BY <1>1 DEF Progress
<1> QED BY <1>2, <1>3, <1>4, <1>5, Zenon DEF RccInv, Frequencies

\* A stuttering step.
LEMMA RccStutter ==
  ASSUME RccInv, UNCHANGED Rcc!vars PROVE RccInv'
<1>1. UNCHANGED <<rcc_enabled, cfgr, hclk, rcc_system_scale, rcc_external_scale, pc>>
  BY Zenon DEF Rcc!vars, Rcc!clocks, Rcc!systick
<1>2. Frequencies' BY <1>1, QuietWrite, Zenon DEF RccInv
<1>3. Progress' BY <1>1, Zenon DEF RccInv, Progress
<1> QED BY <1>2, <1>3, Zenon DEF RccInv

\* The invariant of the reset and clock controller.
LEMMA RccInvariance == Rcc!Spec => []RccInv
<1>1. Rcc!Init => RccInv BY RccInitially
<1>2. RccInv /\ [Rcc!Next]_(Rcc!vars) => RccInv'
  BY SystemInitStep, ApplicationStep, ResetStep, RccStutter, Zenon DEF Rcc!Next
<1> QED BY <1>1, <1>2, PTL DEF Rcc!Spec

\* While HCLK runs the SysTick scales are those of its frequency, and they
\* are never 0, whatever the application writes to the clock registers
\* (stm32_rcc_hclk_upd_irq_handler).
THEOREM ScalesFollowHclk == Rcc!Spec => []ScalesFollow
<1>1. RccInv => ScalesFollow
  <2> SUFFICES ASSUME RccInv PROVE ScalesFollow BY Zenon
  <2>1. ScalesNow.hclk = hclk /\ ScalesNow.sys = rcc_system_scale /\ ScalesNow.ext = rcc_external_scale
    BY DEF ScalesNow
  <2>2. /\ rcc_system_scale \in Nat \ {0} /\ rcc_external_scale \in Nat \ {0}
        /\ hclk = Rcc!HCLK(rcc_enabled, cfgr)
        /\ hclk > 0 => /\ rcc_system_scale = Ticks \div hclk
                       /\ rcc_external_scale = Ticks \div (hclk \div 8)
    BY <2>1, Zenon DEF RccInv, Frequencies, Follows
  <2>3. rcc_system_scale > 0 /\ rcc_external_scale > 0 BY <2>2
  <2> QED BY <2>2, <2>3, Zenon DEF ScalesFollow, Rcc!ScalesFollow, Ticks
<1> QED BY <1>1, RccInvariance, PTL

\* From its third statement on SystemInit neither stops HCLK nor takes it
\* above 72 MHz, not even between two fields of one write
\* (stm32_rcc_RCC_CFGR_write, stm32_rcc_RCC_CR_write).
THEOREM StartupSmooth == Rcc!Spec => StartupIsSmooth
<1>1. RccInv /\ [Rcc!Next]_(Rcc!vars) =>
        [Rcc!SystemInit /\ pc >= 3 => \A freq \in seen' : Smooth(freq)]_(Rcc!vars)
  BY SystemInitStep, Zenon
<1> QED BY <1>1, RccInvariance, PTL DEF Rcc!Spec, StartupIsSmooth, Rcc!StartupIsSmooth, Smooth

\* What ReachesFullSpeed rests on besides fairness: whatever configuration the
\* application left and however the values it wrote combine, the last statement
\* of SystemInit leaves HCLK at nine times the crystal.
THEOREM StartupEndsFast ==
  Rcc!Spec => [][Rcc!SystemInit /\ pc = 11 => hclk' = 9 * OscFreq]_(Rcc!vars)
<1>1. ASSUME RccInv, Rcc!SystemInit, pc = 11 PROVE hclk' = 9 * OscFreq
  <2> DEFINE v == Modified(cfgr, [SW |-> 2])
  <2>1. Rcc!Startup[pc] = Rcc!CFGR([SW |-> 2]) BY <1>1, CFGRStatements, Zenon
  <2>2. cfgr \in CfgrType /\ v \in CfgrType BY <1>1, ModifiedType, Zenon DEF RccInv, Frequencies
  <2>3. Frequencies' /\ cfgr' = v /\ rcc_enabled' = rcc_enabled
    BY <1>1, <2>1, <2>2, CFGRStatement, Zenon DEF RccInv
  <2>4. v.SW = 2 /\ v.HPRE = cfgr.HPRE /\ v.PLLXTPRE = cfgr.PLLXTPRE
        /\ v.PLLSRC = cfgr.PLLSRC /\ v.PLLMUL = cfgr.PLLMUL
    BY <2>2, Zenon DEF Modified, CfgrType
  <2> HIDE DEF v
  <2>5. /\ cfgr.HPRE = 0 /\ cfgr.PLLXTPRE = 0 /\ cfgr.PLLSRC = 1 /\ cfgr.PLLMUL = 7
        /\ "HSECLK" \in rcc_enabled /\ "PLLCLK" \in rcc_enabled
    <3>1. 11 \in 3..11 /\ 11 \in 5..11 /\ 11 \in 6..11 /\ 11 \in 9..11 /\ 11 \in 10..11
      OBVIOUS
    <3> QED BY <1>1, <3>1, Zenon DEF RccInv, Progress
  <2>6. Rcc!HCLK(rcc_enabled, v) = 9 * OscFreq BY <2>4, <2>5, FullHclk, Zenon
  <2>7. ScalesNow'.hclk = hclk' BY Zenon DEF ScalesNow
  <2>8. hclk' = Rcc!HCLK(rcc_enabled', cfgr') BY <2>3, <2>7, Zenon DEF Frequencies, Follows
  <2> QED BY <2>3, <2>6, <2>8, Zenon
<1>2. RccInv /\ [Rcc!Next]_(Rcc!vars) =>
        [Rcc!SystemInit /\ pc = 11 => hclk' = 9 * OscFreq]_(Rcc!vars)
  BY <1>1, Zenon
<1> QED BY <1>2, RccInvariance, PTL DEF Rcc!Spec
=============================================================================
