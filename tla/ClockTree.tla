------------------------------ MODULE ClockTree ------------------------------
(***************************************************************************)
(* The clock tree, hw/arm/stm32_clktree.c.  A change of a clock is passed   *)
(* on to the clocks that selected it, recursively; here every call of       *)
(* clktree_recalc_output_freq is a step and the calls in their loops are    *)
(* the stack "calls", so that what the users of a clock see in the middle   *)
(* of a propagation is part of the model.                                   *)
(***************************************************************************)
EXTENDS Integers, Sequences

CONSTANTS
  Clocks,      \* numbered in the order of their creation
  Inputs,      \* the clocks each one can select; none for a source
  SourceFreq,  \* frequency of the sources
  Multipliers, Divisors,
  Mod          \* frequencies are counted modulo this: 2^32 in the code

ASSUME ClockAssumption ==
  /\ Clocks \subseteq Nat
  /\ Mod \in Nat \ {0}
  /\ Multipliers \subseteq Nat /\ Divisors \subseteq Nat \ {0}
  /\ SourceFreq \in [Clocks -> 0..(Mod - 1)]
  /\ Inputs \in [Clocks -> Seq(Clocks)]
  /\ \A c \in Clocks : \A i \in 1..Len(Inputs[c]) : Inputs[c][i] < c

VARIABLES
  made,        \* clocks created so far
  enabled,
  multiplier, divisor,
  selected,    \* selected_input + 1: 0 is CLKTREE_NO_INPUT
  input_freq, output_freq,
  calls,       \* <<clock, its new frequency, children not yet visited>>
  notified     \* history: clocks whose users the current operation told

vars == <<made, enabled, multiplier, divisor, selected,
          input_freq, output_freq, calls, notified>>

\* clk is the clock that c gets its frequency from.
Feeds(clk, c) == selected[c] # 0 /\ Inputs[c][selected[c]] = clk

Outputs(clk) == {c \in made : \E i \in 1..Len(Inputs[c]) : Inputs[c][i] = clk}

muldiv64(freq, m, d) == ((freq * m) \div d) % Mod

Scaled(c) == IF enabled[c] THEN muldiv64(input_freq[c], multiplier[c], divisor[c]) ELSE 0
-----------------------------------------------------------------------------
\* clktree_recalc_output_freq up to its loop over the children; "below" are
\* the calls it returns to.
clktree_recalc_output_freq(clk, below, told) ==
  IF Scaled(clk)' # output_freq[clk]
  THEN /\ output_freq' = [output_freq EXCEPT ![clk] = Scaled(clk)']
       /\ notified' = told \cup {clk}
       /\ calls' = Append(below, <<clk, Scaled(clk)', Outputs(clk)>>)
  ELSE /\ calls' = below
       /\ notified' = told
       /\ UNCHANGED output_freq

\* An operation starts when no other is running.
Idle == calls = <<>>

clktree_create_src_clk(clk, on) ==
  /\ Idle /\ clk \notin made /\ Inputs[clk] = <<>>
  /\ made' = made \cup {clk}
  /\ enabled' = [enabled EXCEPT ![clk] = on]
  /\ multiplier' = [multiplier EXCEPT ![clk] = 1]
  /\ divisor' = [divisor EXCEPT ![clk] = 1]
  /\ input_freq' = [input_freq EXCEPT ![clk] = SourceFreq[clk]]
  /\ UNCHANGED selected
  /\ clktree_recalc_output_freq(clk, <<>>, {})

\* A new clock ends its creation by selecting its input.
clktree_create_clk(clk, m, d, on, sel) ==
  /\ Idle /\ clk \notin made /\ Inputs[clk] # <<>>
  /\ \A i \in 1..Len(Inputs[clk]) : Inputs[clk][i] \in made
  /\ made' = made \cup {clk}
  /\ enabled' = [enabled EXCEPT ![clk] = on]
  /\ multiplier' = [multiplier EXCEPT ![clk] = m]
  /\ divisor' = [divisor EXCEPT ![clk] = d]
  /\ selected' = [selected EXCEPT ![clk] = sel]
  /\ input_freq' = [input_freq EXCEPT ![clk] =
                      IF sel = 0 THEN 0 ELSE output_freq[Inputs[clk][sel]]]
  /\ clktree_recalc_output_freq(clk, <<>>, {})

clktree_set_scale(clk, m, d) ==
  /\ Idle /\ clk \in made
  /\ multiplier' = [multiplier EXCEPT ![clk] = m]
  /\ divisor' = [divisor EXCEPT ![clk] = d]
  /\ UNCHANGED <<made, enabled, selected, input_freq>>
  /\ clktree_recalc_output_freq(clk, <<>>, {})

clktree_set_enabled(clk, on) ==
  /\ Idle /\ clk \in made
  /\ enabled' = [enabled EXCEPT ![clk] = on]
  /\ UNCHANGED <<made, multiplier, divisor, selected, input_freq>>
  /\ clktree_recalc_output_freq(clk, <<>>, {})

\* Mutant: the new input's frequency is not fetched.
set_selected_inputLazy(clk, sel) ==
  /\ Idle /\ clk \in made /\ Inputs[clk] # <<>>
  /\ selected' = [selected EXCEPT ![clk] = sel]
  /\ UNCHANGED <<made, enabled, multiplier, divisor, input_freq>>
  /\ clktree_recalc_output_freq(clk, <<>>, {})

\* A source is never asked to select: it would lose its frequency.
clktree_set_selected_input(clk, sel) ==
  /\ Idle /\ clk \in made /\ Inputs[clk] # <<>>
  /\ selected' = [selected EXCEPT ![clk] = sel]
  /\ input_freq' = [input_freq EXCEPT ![clk] =
                      IF sel = 0 THEN 0 ELSE output_freq[Inputs[clk][sel]]]
  /\ UNCHANGED <<made, enabled, multiplier, divisor>>
  /\ clktree_recalc_output_freq(clk, <<>>, {})

Below == SubSeq(calls, 1, Len(calls) - 1)

\* Mutants: children that selected another clock are changed too; the loop
\* stays at its first child.
VisitAll ==
  LET top == calls[Len(calls)] IN
  /\ ~Idle
  /\ UNCHANGED <<made, enabled, multiplier, divisor, selected>>
  /\ \E c \in top[3] :
       /\ \A d \in top[3] : c <= d
       /\ input_freq' = [input_freq EXCEPT ![c] = top[2]]
       /\ clktree_recalc_output_freq(c, Append(Below, <<top[1], top[2], top[3] \ {c}>>), notified)

VisitStays ==
  LET top == calls[Len(calls)] IN
  /\ ~Idle
  /\ UNCHANGED <<made, enabled, multiplier, divisor, selected>>
  /\ \E c \in top[3] :
       /\ \A d \in top[3] : c <= d
       /\ input_freq' = [input_freq EXCEPT ![c] = IF Feeds(top[1], c) THEN top[2] ELSE @]
       /\ clktree_recalc_output_freq(c, calls, notified)

\* One turn of the innermost loop: the next child, in order of creation,
\* recalculates if it selected the clock.
Visit ==
  LET top == calls[Len(calls)] IN
  /\ ~Idle
  /\ UNCHANGED <<made, enabled, multiplier, divisor, selected>>
  /\ \E c \in top[3] :
       /\ \A d \in top[3] : c <= d
       /\ LET rest == Append(Below, <<top[1], top[2], top[3] \ {c}>>) IN
          IF Feeds(top[1], c)
          THEN /\ input_freq' = [input_freq EXCEPT ![c] = top[2]]
               /\ clktree_recalc_output_freq(c, rest, notified)
          ELSE calls' = rest /\ UNCHANGED <<input_freq, output_freq, notified>>

\* The innermost loop ends.
Leave ==
  /\ ~Idle /\ calls[Len(calls)][3] = {}
  /\ calls' = Below
  /\ UNCHANGED <<made, enabled, multiplier, divisor, selected,
                 input_freq, output_freq, notified>>

Init ==
  /\ made = {}
  /\ enabled = [c \in Clocks |-> FALSE]
  /\ multiplier = [c \in Clocks |-> 1] /\ divisor = [c \in Clocks |-> 1]
  /\ selected = [c \in Clocks |-> 0]
  /\ input_freq = [c \in Clocks |-> 0] /\ output_freq = [c \in Clocks |-> 0]
  /\ calls = <<>> /\ notified = {}

Operation(clk) ==
  \/ \E on \in BOOLEAN : clktree_create_src_clk(clk, on) \/ clktree_set_enabled(clk, on)
  \/ \E m \in Multipliers, d \in Divisors, on \in BOOLEAN, sel \in 0..Len(Inputs[clk]) :
       clktree_create_clk(clk, m, d, on, sel)
  \/ \E m \in Multipliers, d \in Divisors : clktree_set_scale(clk, m, d)
  \/ \E sel \in 0..Len(Inputs[clk]) : clktree_set_selected_input(clk, sel)

Next == Visit \/ Leave \/ \E clk \in Clocks : Operation(clk)

\* The code runs to the end of an operation without giving up the CPU.
Spec == Init /\ [][Next]_vars /\ WF_vars(Visit \/ Leave)
-----------------------------------------------------------------------------
\* All fields have their widths, and the stack holds clocks with some of
\* their children.
TypeOK ==
  /\ made \subseteq Clocks /\ notified \subseteq Clocks
  /\ enabled \in [Clocks -> BOOLEAN]
  /\ multiplier \in [Clocks -> Nat] /\ divisor \in [Clocks -> Nat \ {0}]
  /\ selected \in [Clocks -> Nat]
  /\ \A c \in Clocks : selected[c] \in 0..Len(Inputs[c])
  /\ input_freq \in [Clocks -> 0..(Mod - 1)]
  /\ output_freq \in [Clocks -> 0..(Mod - 1)]
  /\ calls \in Seq(Clocks \X (0..(Mod - 1)) \X SUBSET Clocks)

\* Between operations every clock runs at the frequency of the clock it
\* selected, scaled, or at 0: whatever was switched, rescaled, enabled or
\* created, in whatever order, the change has reached everything below it.
Settled ==
  Idle => \A c \in made :
    /\ output_freq[c] = Scaled(c)
    /\ input_freq[c] = IF Inputs[c] = <<>> THEN SourceFreq[c]
                       ELSE IF selected[c] = 0 THEN 0
                       ELSE output_freq[Inputs[c][selected[c]]]

\* One operation changes the frequency of a clock, and tells its users, at
\* most once, also where two paths of the tree lead to the same clock: no
\* user sees a frequency that is only passing.
ToldOnce ==
  [][~Idle => \A c \in Clocks : output_freq'[c] # output_freq[c] => c \notin notified]_vars

\* "The clock tree should not be too deep, so we shouldn't have to recurse too
\* many times": every operation comes to an end.
RecursionEnds == []<>Idle
=============================================================================
