------------------------------ MODULE DmaProofs ------------------------------
(***************************************************************************)
(* Proofs about the DMA controller, for every set of channels, every width  *)
(* of an address and all uses that DmaAssumption admits.                    *)
(*                                                                          *)
(* Between two library calls every enabled channel is in its block (Inside).*)
(* During a call that is so of all channels but one, and of that one it is  *)
(* known how far the call has programmed it (Stopping, Starting): a request *)
(* or an expiry may fall between any two of the accesses, but moves nothing *)
(* of a channel that is disabled.  A transfer is one item (Moved), a whole  *)
(* block as many as there are (Transfers): what it copies is proved by      *)
(* induction over the items, on addresses that wrap round.                  *)
(***************************************************************************)
EXTENDS Stm32Dma, WellFoundedInduction, TLAPS

\* A set of natural numbers has a least one.
LEMMA Least ==
  ASSUME NEW T, T \subseteq Nat, T # {}
  PROVE  \E x \in T : \A y \in T : x <= y
<1> DEFINE R == OpToRel(<,Nat)
<1>1. IsWellFoundedOn(R, Nat) BY NatLessThanWellFounded, Zenon
<1>2. PICK x \in T : \A y \in T : ~ (<<y, x>> \in R)
  <2> HIDE DEF R
  <2> QED BY <1>1, WFMin, Zenon
<1>3. ASSUME NEW y \in T PROVE x <= y
  <2>1. <<y, x>> \notin R BY <1>2, Zenon
  <2>2. y \in Nat /\ x \in Nat OBVIOUS
  <2>3. ~(y < x) BY <2>1, <2>2, Zenon DEF OpToRel
  <2> QED BY <2>2, <2>3
<1> QED BY <1>3

\* A set with 0 and with the successor of each of its numbers has them all.
LEMMA Induction ==
  ASSUME NEW S, 0 \in S, \A n \in Nat : n \in S => n + 1 \in S
  PROVE  Nat \subseteq S
<1> SUFFICES ASSUME NEW m \in Nat, m \notin S PROVE FALSE OBVIOUS
<1> DEFINE T == Nat \ S
<1>1. PICK x \in T : \A y \in T : x <= y
  <2>1. m \in T OBVIOUS
  <2>2. T \subseteq Nat /\ T # {} BY <2>1
  <2> HIDE DEF T
  <2> QED BY <2>2, Least, Zenon
<1>2. x \in Nat /\ x # 0 /\ x \notin S OBVIOUS
<1>3. x - 1 \in Nat /\ x - 1 \notin S BY <1>2
<1>4. x - 1 \in T BY <1>3
<1> QED BY <1>1, <1>2, <1>4

\* The remainder is the only one.
LEMMA Remainder ==
  ASSUME NEW w \in Nat \ {0}, NEW x \in Int, NEW p \in Int, NEW r \in 0..(w - 1), x = p * w + r
  PROVE  x % w = r
<1> DEFINE q == x \div w  s == x % w
<1>1. q \in Int /\ s \in 0..(w - 1) /\ x = q * w + s OBVIOUS
<1> HIDE DEF q, s
<1>2. (p - q) * w = s - r BY <1>1
<1>3. CASE p - q >= 1
  <2>1. (p - q) * w >= w BY <1>1, <1>3
  <2> QED BY <1>1, <1>2, <2>1
<1>4. CASE q - p >= 1
  <2>1. (q - p) * w >= w BY <1>1, <1>4
  <2>2. (q - p) * w = r - s BY <1>1
  <2> QED BY <1>1, <2>1, <2>2
<1>5. CASE p = q
  BY <1>5, <1>2, <1>1 DEF s
<1> QED BY <1>1, <1>3, <1>4, <1>5

\* A sum of remainders is reduced like the sum.
LEMMA ModPlus ==
  ASSUME NEW w \in Nat \ {0}, NEW x \in Int, NEW y \in Int
  PROVE  ((x % w) + y) % w = (x + y) % w
<1> DEFINE q == x \div w  s == x % w
<1>1. q \in Int /\ s \in 0..(w - 1) /\ x = q * w + s OBVIOUS
<1> HIDE DEF q, s
<1> DEFINE p == (s + y) \div w  r == (s + y) % w
<1>2. p \in Int /\ r \in 0..(w - 1) /\ s + y = p * w + r BY <1>1
<1> HIDE DEF p, r
<1>3. x + y = (q + p) * w + r BY <1>1, <1>2
<1> DEFINE z == x + y  o == q + p
<1>4. z \in Int /\ o \in Int /\ z = o * w + r BY <1>1, <1>2, <1>3
<1>5. z % w = r
  <2> HIDE DEF z, o
  <2> QED BY <1>2, <1>4, Remainder, Zenon
<1> QED BY <1>5 DEF r, s

\* Sums and differences of reduced numbers wrap at most once.
LEMMA ModSum ==
  ASSUME NEW w \in Nat \ {0}, NEW x \in 0..(w - 1), NEW y \in 0..(w - 1)
  PROVE  /\ (x + y) % w = IF x + y < w THEN x + y ELSE x + y - w
         /\ (x - y) % w = IF x >= y THEN x - y ELSE x - y + w
<1> DEFINE a == x + y  b == x - y
<1> DEFINE p == IF x + y < w THEN 0 ELSE 1  q == IF x >= y THEN 0 ELSE -1
<1> DEFINE r == IF x + y < w THEN x + y ELSE x + y - w  s == IF x >= y THEN x - y ELSE x - y + w
<1>1. a \in Int /\ p \in Int /\ r \in 0..(w - 1) /\ a = p * w + r OBVIOUS
<1>2. b \in Int /\ q \in Int /\ s \in 0..(w - 1) /\ b = q * w + s OBVIOUS
<1> HIDE DEF a, b, p, q, r, s
<1>3. a % w = r BY <1>1, Remainder, Zenon
<1>4. b % w = s BY <1>2, Remainder, Zenon
<1> QED BY <1>3, <1>4 DEF a, b, r, s
-----------------------------------------------------------------------------
\* The types of what the state holds
CrFields == {"EN", "DIR", "CIRC", "PINC", "MINC", "MEM2MEM", "psize", "msize"}
StreamType ==
  [EN: BOOLEAN, DIR: BOOLEAN, CIRC: BOOLEAN, PINC: BOOLEAN, MINC: BOOLEAN, MEM2MEM: BOOLEAN,
   psize: 0..3, msize: 0..3, ndtr: Addresses, par: Addresses, mar: Addresses,
   circular_ndtr: Addresses, circular_par: Addresses, circular_mar: Addresses]
CrType ==
  [EN: BOOLEAN, DIR: BOOLEAN, CIRC: BOOLEAN, PINC: BOOLEAN, MINC: BOOLEAN, MEM2MEM: BOOLEAN,
   psize: 0..3, msize: 0..3]
DmaFields == {"stream", "chan", "timer", "isr", "from", "accesses", "ccr", "ended"}

DmaTypes(d) ==
  /\ DOMAIN d = DmaFields
  /\ \A n \in Streams : d.stream[n] \in StreamType
  /\ DOMAIN d.stream = Streams
  /\ d.chan \in Streams \cup {0} /\ d.ccr \in CrType /\ d.timer \in BOOLEAN

\* The addresses are k items into the block.
At(s, k) ==
  /\ s.mar = Plus(s.circular_mar, IF s.MINC THEN k * msize(s) ELSE 0)
  /\ s.par = Plus(s.circular_par, IF s.PINC THEN k * psize(s) ELSE 0)

InBlock(s) == s.ndtr \in 1..s.circular_ndtr /\ At(s, s.circular_ndtr - s.ndtr)

\* A channel that no library call is at work on
Inside(d, n) ==
  LET s == d.stream[n] IN
  /\ s.EN /\ ~s.MEM2MEM =>
       /\ (s.CIRC => Away(s)) => InBlock(s)
       /\ s.CIRC => d.chan = n /\ d.timer
  /\ s.CIRC => s.EN

\* The accesses of DMA_DeInit, of DMA_Init and DMA_Cmd, and what is left of
\* them from the i-th on
Stops == <<"CR read", "CR disable", "CR clear", "NDTR", "PAR", "MAR">>
Starts == <<"CR read", "CR configure", "NDTR", "PAR", "MAR", "CR read", "CR enable">>
Rest(n, use, regs, i) ==
  [j \in 1..(Len(regs) - i + 1) |-> [n |-> n, use |-> use, reg |-> regs[i + j - 1]]]

\* Before access i of DMA_DeInit
Stopping(d, n, i) ==
  /\ d.accesses = Rest(n, NoStream, Stops, i)
  /\ i >= 4 => ~d.stream[n].EN /\ ~d.stream[n].CIRC

\* Before access i of DMA_Init and DMA_Cmd: how far the channel is programmed
Configured(s, use) == \A f \in CrFields \ {"EN"} : s[f] = use[f]
Ready(d, n, use, i) ==
  LET s == d.stream[n] IN
  /\ i >= 3 => Configured(s, use)
  /\ i >= 4 => ~s.EN /\ s.ndtr = use.ndtr /\ s.circular_ndtr = use.ndtr
  /\ i >= 5 => s.par = use.par /\ s.circular_par = use.par
  /\ i >= 6 => s.mar = use.mar /\ s.circular_mar = use.mar
  /\ i >= 7 => d.ccr = CR(s)
Starting(d, n, use, i) == d.accesses = Rest(n, use, Starts, i) /\ Ready(d, n, use, i)

Stage(d, n) ==
  \/ \E i \in 1..6 : Stopping(d, n, i)
  \/ \E use \in Uses, i \in 1..7 : Starting(d, n, use, i)

\* The inductive invariant
Idle(d) == d.accesses = <<>> /\ \A n \in Streams : Inside(d, n)
Busy(d, n) == Stage(d, n) /\ \A m \in Streams \ {n} : Inside(d, m)
Body(d) == Idle(d) \/ \E n \in Streams : Busy(d, n)
DmaOk(d) == ~d.ended => DmaTypes(d) /\ Body(d)

-----------------------------------------------------------------------------

\* What is reduced to the width of an address is an address.
LEMMA AddressRange ==
  ASSUME NEW x \in Int PROVE x % AddressWord \in Addresses
BY DmaAssumption DEF Addresses

\* An address is a number.
LEMMA AddressIsInt ==
  ASSUME NEW x \in Addresses PROVE x \in Nat /\ x < AddressWord
BY DmaAssumption DEF Addresses

\* An item has one byte, two, or is refused.
LEMMA Sizes ==
  ASSUME NEW c \in 0..3 PROVE msize_table[c + 1] \in 0..2
BY DEF msize_table

\* The fields a transfer and a reload leave alone.
Lasting == {"DIR", "CIRC", "PINC", "MINC", "MEM2MEM", "psize", "msize",
            "circular_ndtr", "circular_par", "circular_mar"}

\* One transfer counts down and moves the addresses.
LEMMA AdvancedFacts ==
  ASSUME NEW s \in StreamType
  PROVE  LET t == Advanced(s) IN
         /\ t \in StreamType
         /\ t.ndtr = (s.ndtr - 1) % AddressWord
         /\ t.par = IF s.PINC THEN Plus(s.par, psize(s)) ELSE s.par
         /\ t.mar = IF s.MINC THEN Plus(s.mar, msize(s)) ELSE s.mar
         /\ t.EN = s.EN /\ \A f \in Lasting : t[f] = s[f]
<1>1. /\ (s.ndtr - 1) % AddressWord \in Addresses
      /\ Plus(s.par, psize(s)) \in Addresses
      /\ Plus(s.mar, msize(s)) \in Addresses
  <2>1. psize(s) \in 0..2 /\ msize(s) \in 0..2 BY Sizes DEF psize, msize, StreamType
  <2>2. s.ndtr \in Nat /\ s.par \in Nat /\ s.mar \in Nat BY AddressIsInt DEF StreamType
  <2>3. s.ndtr - 1 \in Int /\ s.par + psize(s) \in Int /\ s.mar + msize(s) \in Int
    BY <2>1, <2>2
  <2> QED BY <2>3, AddressRange, Zenon DEF Plus
<1> DEFINE a == (s.ndtr - 1) % AddressWord
           b == Plus(s.par, psize(s))
           c == Plus(s.mar, msize(s))
           t == Advanced(s)
<1>2. t = [s EXCEPT !.ndtr = a, !.par = IF s.PINC THEN b ELSE @, !.mar = IF s.MINC THEN c ELSE @]
  BY DEF Advanced
<1> HIDE DEF a, b, c, t
<1>3. t \in StreamType BY <1>1, <1>2, ZenonT(60) DEF StreamType, a, b, c
<1>4. t.ndtr = a /\ t.par = (IF s.PINC THEN b ELSE s.par) /\ t.mar = IF s.MINC THEN c ELSE s.mar
  BY <1>2 DEF StreamType
<1>5. t.EN = s.EN /\ \A f \in Lasting : t[f] = s[f] BY <1>2 DEF StreamType, Lasting
<1> QED BY <1>3, <1>4, <1>5, Zenon DEF a, b, c, t

\* The channel after a transfer
Moved(s) ==
  LET t == Advanced(s) IN IF t.ndtr = 0 /\ ~t.CIRC THEN [t EXCEPT !.EN = FALSE] ELSE t

\* All but channel n, the flags and the memory
Keeps(d, e, n) ==
  /\ e.chan = d.chan /\ e.timer = d.timer /\ e.accesses = d.accesses /\ e.ccr = d.ccr
  /\ \A m \in Streams \ {n} : e.stream[m] = d.stream[m]

\* It is a channel still.
LEMMA MovedType ==
  ASSUME NEW s \in StreamType PROVE Moved(s) \in StreamType
<1> DEFINE t == Advanced(s)
<1>1. t \in StreamType BY AdvancedFacts
<1> HIDE DEF t
<1>2. [t EXCEPT !.EN = FALSE] \in StreamType BY <1>1, Zenon DEF StreamType
<1>3. Moved(s) = IF t.ndtr = 0 /\ ~t.CIRC THEN [t EXCEPT !.EN = FALSE] ELSE t
  BY DEF Moved, t
<1> QED BY <1>1, <1>2, <1>3, Zenon

\* A changed channel, and flags and memory whatever they are
Put(d, n, s, f, i) == [d EXCEPT !.from = f, !.stream = [d.stream EXCEPT ![n] = s], !.isr = i]

\* It leaves the others alone.
LEMMA PutKeeps ==
  ASSUME NEW d, DmaTypes(d), NEW n \in Streams, NEW s \in StreamType, NEW f, NEW i
  PROVE  LET e == Put(d, n, s, f, i) IN
         /\ DmaTypes(e) /\ Keeps(d, e, n) /\ e.stream[n] = s
         /\ e.ended = d.ended /\ e.from = f
<1> DEFINE e == Put(d, n, s, f, i)
<1> DEFINE S == [d.stream EXCEPT ![n] = s]
<1>1. /\ DOMAIN e = DmaFields
      /\ e.stream = S
      /\ e.chan = d.chan /\ e.timer = d.timer /\ e.accesses = d.accesses /\ e.ccr = d.ccr
      /\ e.ended = d.ended /\ e.from = f
  <2>1. e = [d EXCEPT !.from = f, !.stream = S, !.isr = i] BY DEF Put
  <2>2. DOMAIN d = DmaFields BY DEF DmaTypes
  <2> HIDE DEF S, e
  <2>3. DOMAIN e = DmaFields BY <2>1, <2>2, Zenon
  <2>4. e.stream = S BY <2>1, <2>2 DEF DmaFields
  <2>5. e.chan = d.chan /\ e.timer = d.timer BY <2>1, <2>2 DEF DmaFields
  <2>6. e.accesses = d.accesses /\ e.ccr = d.ccr BY <2>1, <2>2 DEF DmaFields
  <2>7. e.ended = d.ended BY <2>1, <2>2 DEF DmaFields
  <2>8. e.from = f BY <2>1, <2>2 DEF DmaFields
  <2> QED BY <2>3, <2>4, <2>5, <2>6, <2>7, <2>8, Zenon
<1> HIDE DEF e
<1>2. /\ e.stream[n] = s /\ DOMAIN e.stream = Streams
      /\ \A m \in Streams \ {n} : e.stream[m] = d.stream[m]
  BY <1>1 DEF DmaTypes
<1>3. \A m \in Streams : e.stream[m] \in StreamType BY <1>2, Zenon DEF DmaTypes
<1>4. DmaTypes(e) /\ Keeps(d, e, n) BY <1>1, <1>2, <1>3 DEF DmaTypes, Keeps
<1> QED BY <1>1, <1>2, <1>4, Zenon DEF e

\* stm32_dma_stream_start_once changes nothing but the channel, its flag and
\* the memory, unless it ends the emulator.
LEMMA OnceKeeps ==
  ASSUME NEW d, DmaTypes(d), NEW n \in Streams, NEW skip \in BOOLEAN
  PROVE  LET e == stm32_dma_stream_start_once(d, n, skip) IN
         /\ DmaTypes(e) /\ Keeps(d, e, n)
         /\ \/ e.ended = TRUE
            \/ ~skip /\ ~d.stream[n].EN /\ e = d
            \/ (skip \/ d.stream[n].EN) /\ e.stream[n] = Moved(d.stream[n]) /\ e.ended = d.ended
<1> DEFINE e == stm32_dma_stream_start_once(d, n, skip)  s == d.stream[n]
<1>1. s \in StreamType /\ Moved(s) \in StreamType BY MovedType DEF DmaTypes
<1> SUFFICES /\ DmaTypes(e) /\ Keeps(d, e, n)
             /\ \/ e.ended = TRUE
                \/ ~skip /\ ~s.EN /\ e = d
                \/ (skip \/ s.EN) /\ e.stream[n] = Moved(s) /\ e.ended = d.ended
  BY Zenon
<1>2. CASE psize(s) = 0 \/ msize(s) = 0
  <2>1. e = [d EXCEPT !.ended = TRUE] BY <1>2, Zenon DEF stm32_dma_stream_start_once
  <2> HIDE DEF e
  <2>2. /\ DOMAIN e = DmaFields /\ e.stream = d.stream
        /\ e.chan = d.chan /\ e.timer = d.timer /\ e.accesses = d.accesses /\ e.ccr = d.ccr
        /\ e.ended = TRUE
    BY <2>1, SMT DEF DmaTypes, DmaFields
  <2> QED BY <2>2 DEF DmaTypes, Keeps
<1>3. CASE ~(psize(s) = 0 \/ msize(s) = 0) /\ ~skip /\ ~s.EN
  <2>1. e = d BY <1>3, Zenon DEF stm32_dma_stream_start_once
  <2> HIDE DEF e
  <2> QED BY <1>3, <2>1 DEF Keeps
<1>4. CASE ~(psize(s) = 0 \/ msize(s) = 0) /\ (skip \/ s.EN)
  <2>1. PICK f, i : e = Put(d, n, Moved(s), f, i)
    <3> DEFINE f == Written(d.from, IF s.DIR THEN s.par ELSE s.mar,
                      Read(d.from, IF s.DIR THEN s.mar ELSE s.par,
                               IF s.DIR THEN msize(s) ELSE psize(s)),
                      IF s.DIR THEN psize(s) ELSE msize(s))
               i == IF Advanced(s).ndtr = 0 THEN d.isr \cup {n} ELSE d.isr
    <3>1. e = Put(d, n, Moved(s), f, i)
      BY <1>4 DEF stm32_dma_stream_start_once, Moved, Put
    <3> HIDE DEF f, i
    <3> QED BY <3>1, Zenon
  <2> HIDE DEF s, e
  <2> DEFINE v == Moved(s)
  <2>2. DmaTypes(e) /\ Keeps(d, e, n) /\ e.stream[n] = v /\ e.ended = d.ended
    <3>1. v \in StreamType BY <1>1
    <3>3. e = Put(d, n, v, f, i) BY <2>1
    <3> DEFINE p == Put(d, n, v, f, i)
    <3> HIDE DEF v
    <3>2. DmaTypes(p) /\ Keeps(d, p, n) /\ p.stream[n] = v /\ p.ended = d.ended
      BY <3>1, PutKeeps, SMT
    <3> QED BY <3>3, <3>2, Zenon
  <2> QED BY <1>4, <2>2, Zenon DEF s
<1> QED BY <1>2, <1>3, <1>4, Zenon

-----------------------------------------------------------------------------
\* f lists what each of m transfers of channel n leaves.
Transfers(f, d, n, m) ==
  f = [k \in 0..m |-> IF k = 0 THEN d ELSE stm32_dma_stream_start_once(f[k - 1], n, TRUE)]

\* Each transfer follows from the one before.
LEMMA TransfersAt ==
  ASSUME NEW f, NEW d, NEW n, NEW m \in Nat, Transfers(f, d, n, m), NEW k \in 0..m
  PROVE  f[k] = IF k = 0 THEN d ELSE stm32_dma_stream_start_once(f[k - 1], n, TRUE)
BY Zenon DEF Transfers

\* The recursion has a solution.
LEMMA TransfersExist ==
  ASSUME NEW d, NEW n, NEW m \in Nat PROVE \E f : Transfers(f, d, n, m)
<1> DEFINE S == {j \in Nat : \E f : Transfers(f, d, n, j)}
<1>1. 0 \in S
  <2> DEFINE e == [k \in 0..0 |-> d]
  <2>1. Transfers(e, d, n, 0)
    <3>1. e = [k \in 0..0 |-> IF k = 0 THEN d ELSE stm32_dma_stream_start_once(e[k - 1], n, TRUE)]
      OBVIOUS
    <3> HIDE DEF e
    <3> QED BY <3>1, Zenon DEF Transfers
  <2> HIDE DEF e
  <2> QED BY <2>1, Zenon
<1>2. ASSUME NEW j \in Nat, j \in S PROVE j + 1 \in S
  <2>1. PICK f : Transfers(f, d, n, j) BY <1>2
  <2> DEFINE v == stm32_dma_stream_start_once(f[j], n, TRUE)
  <2> DEFINE g == [k \in 0..(j + 1) |-> IF k = j + 1 THEN v ELSE f[k]]
  <2> HIDE DEF v
  <2>2. ASSUME NEW k \in 0..(j + 1)
        PROVE  g[k] = IF k = 0 THEN d ELSE stm32_dma_stream_start_once(g[k - 1], n, TRUE)
    <3>1. CASE k = j + 1
      <4>1. g[k] = v /\ g[k - 1] = f[j] /\ k # 0 BY <3>1
      <4> HIDE DEF g
      <4> QED BY <3>1, <4>1, Zenon DEF v
    <3>2. CASE k # j + 1
      <4>1. g[k] = f[k] /\ k \in 0..j BY <3>2
      <4>2. k # 0 => g[k - 1] = f[k - 1] BY <3>2
      <4>3. f[k] = IF k = 0 THEN d ELSE stm32_dma_stream_start_once(f[k - 1], n, TRUE)
        BY <2>1, <4>1, Zenon DEF Transfers
      <4> HIDE DEF g
      <4> QED BY <4>1, <4>2, <4>3, Zenon
    <3> QED BY <3>1, <3>2, Zenon
  <2>3. Transfers(g, d, n, j + 1)
    <3>1. g = [k \in 0..(j + 1) |-> g[k]] OBVIOUS
    <3> HIDE DEF g
    <3> QED BY <2>2, <3>1, Zenon DEF Transfers
  <2>4. j + 1 \in Nat OBVIOUS
  <2> HIDE DEF g
  <2> QED BY <2>3, <2>4
<1>3. Nat \subseteq S
  <2> HIDE DEF S
  <2> QED BY <1>1, <1>2, Induction
<1> QED BY <1>3

\* stm32_dma_stream_start_whole is that many transfers.
LEMMA WholeIs ==
  ASSUME NEW d, NEW n, d.stream[n].ndtr \in Nat
  PROVE  \E f : /\ Transfers(f, d, n, d.stream[n].ndtr)
                /\ stm32_dma_stream_start_whole(d, n) = f[d.stream[n].ndtr]
<1> DEFINE m == d.stream[n].ndtr
<1> DEFINE f == CHOOSE g : Transfers(g, d, n, m)
<1>1. Transfers(f, d, n, m)
  <2>1. m \in Nat OBVIOUS
  <2> HIDE DEF m
  <2> QED BY <2>1, TransfersExist, Zenon
<1>2. stm32_dma_stream_start_whole(d, n) = f[m]
  BY Zenon DEF stm32_dma_stream_start_whole, Transfers
<1> HIDE DEF f, m
<1>3. \E g : Transfers(g, d, n, m) /\ stm32_dma_stream_start_whole(d, n) = g[m]
  BY <1>1, <1>2, Zenon
<1> QED BY <1>3, Zenon DEF m

\* So it changes nothing else either.
LEMMA WholeKeeps ==
  ASSUME NEW d, DmaTypes(d), NEW n \in Streams
  PROVE  LET e == stm32_dma_stream_start_whole(d, n) IN DmaTypes(e) /\ Keeps(d, e, n)
<1> DEFINE m == d.stream[n].ndtr
<1>1. m \in Nat BY AddressIsInt DEF DmaTypes, StreamType
<1>2. PICK f : Transfers(f, d, n, m) /\ stm32_dma_stream_start_whole(d, n) = f[m]
  BY <1>1, WholeIs, Zenon
<1> HIDE DEF m
<1> DEFINE S == {k \in Nat : k \in 0..m => DmaTypes(f[k]) /\ Keeps(d, f[k], n)}
<1>3. 0 \in S
  <2>1. 0 \in 0..m BY <1>1
  <2>2. f[0] = d BY <1>1, <1>2, <2>1, TransfersAt, Zenon
  <2>3. Keeps(d, d, n) BY Zenon DEF Keeps
  <2> QED BY <2>2, <2>3
<1>4. ASSUME NEW k \in Nat, k \in S PROVE k + 1 \in S
  <2> SUFFICES ASSUME k + 1 \in 0..m PROVE DmaTypes(f[k + 1]) /\ Keeps(d, f[k + 1], n)
    OBVIOUS
  <2>1. k \in 0..m /\ k + 1 # 0 /\ (k + 1) - 1 = k BY <1>1
  <2>2. DmaTypes(f[k]) /\ Keeps(d, f[k], n) BY <1>4, <2>1
  <2> DEFINE j == k + 1
  <2>3. f[j] = stm32_dma_stream_start_once(f[j - 1], n, TRUE)
    <3>1. j \in 0..m /\ j # 0 BY <2>1
    <3>2. Transfers(f, d, n, m) BY <1>2
    <3> HIDE DEF j
    <3>3. f[j] = IF j = 0 THEN d ELSE stm32_dma_stream_start_once(f[j - 1], n, TRUE)
      BY <3>1, <3>2, Zenon DEF Transfers
    <3> QED BY <3>1, <3>3, Zenon
  <2> DEFINE c == f[k]  e == f[k + 1]
  <2>4. e = stm32_dma_stream_start_once(c, n, TRUE) BY <2>1, <2>3, Zenon
  <2>5. DmaTypes(c) /\ Keeps(d, c, n) BY <2>2
  <2> HIDE DEF c, e
  <2>6. DmaTypes(e) /\ Keeps(c, e, n)
    <3>1. TRUE \in BOOLEAN OBVIOUS
    <3> DEFINE o == stm32_dma_stream_start_once(c, n, TRUE)
    <3>2. DmaTypes(o) /\ Keeps(c, o, n) BY <2>5, <3>1, OnceKeeps, Zenon
    <3> QED BY <2>4, <3>2, Zenon
  <2>7. Keeps(d, e, n) BY <2>5, <2>6 DEF Keeps
  <2> QED BY <2>6, <2>7 DEF e
<1>5. Nat \subseteq S
  <2> HIDE DEF S
  <2> QED BY <1>3, <1>4, Induction
<1>6. DmaTypes(f[m]) /\ Keeps(d, f[m], n)
  <2>1. m \in Nat /\ m \in 0..m BY <1>1
  <2> QED BY <1>5, <2>1
<1> QED BY <1>2, <1>6, Zenon

-----------------------------------------------------------------------------
\* The address after one item more.
LEMMA PlusNext ==
  ASSUME NEW a \in Addresses, NEW k \in Nat, NEW z \in 0..2
  PROVE  Plus(Plus(a, k * z), z) = Plus(a, (k + 1) * z)
<1> DEFINE x == a + k * z
<1>1. a \in Nat BY AddressIsInt
<1>2. x \in Int /\ z \in Int /\ x + z = a + (k + 1) * z BY <1>1
<1> HIDE DEF x
<1>3. ((x % AddressWord) + z) % AddressWord = (x + z) % AddressWord BY <1>2, DmaAssumption, ModPlus, Zenon
<1> QED BY <1>2, <1>3, Zenon DEF Plus, x

\* The address of the first item.
LEMMA PlusZero ==
  ASSUME NEW a \in Addresses PROVE Plus(a, 0) = a
<1>1. a \in Nat /\ a < AddressWord /\ a + 0 = a BY AddressIsInt
<1>2. a % AddressWord = a BY <1>1, DmaAssumption
<1> QED BY <1>1, <1>2 DEF Plus

\* A transfer takes the addresses one item further.
LEMMA AtNext ==
  ASSUME NEW s \in StreamType, NEW k \in Nat, At(s, k)
  PROVE  At(Advanced(s), k + 1)
<1> DEFINE t == Advanced(s)
<1>1. /\ t.par = IF s.PINC THEN Plus(s.par, psize(s)) ELSE s.par
      /\ t.mar = IF s.MINC THEN Plus(s.mar, msize(s)) ELSE s.mar
      /\ t.PINC = s.PINC /\ t.MINC = s.MINC /\ t.psize = s.psize /\ t.msize = s.msize
      /\ t.circular_par = s.circular_par /\ t.circular_mar = s.circular_mar
  BY AdvancedFacts DEF Lasting
<1> HIDE DEF t
<1>2. psize(s) \in 0..2 /\ msize(s) \in 0..2
  BY Sizes DEF psize, msize, StreamType
<1>3. psize(t) = psize(s) /\ msize(t) = msize(s)
  BY <1>1, Zenon DEF psize, msize
<1>4. s.circular_par \in Addresses /\ s.circular_mar \in Addresses BY DEF StreamType
<1>5. s.PINC => t.par = Plus(s.circular_par, (k + 1) * psize(s))
  <2>1. Plus(Plus(s.circular_par, k * psize(s)), psize(s))
          = Plus(s.circular_par, (k + 1) * psize(s))
    BY <1>2, <1>4, PlusNext, Zenon
  <2> QED BY <1>1, <2>1, Zenon DEF At
<1>6. s.MINC => t.mar = Plus(s.circular_mar, (k + 1) * msize(s))
  <2>1. Plus(Plus(s.circular_mar, k * msize(s)), msize(s))
          = Plus(s.circular_mar, (k + 1) * msize(s))
    BY <1>2, <1>4, PlusNext, Zenon
  <2> QED BY <1>1, <2>1, Zenon DEF At
<1>7. At(t, k + 1) BY <1>1, <1>3, <1>5, <1>6, Zenon DEF At
<1> QED BY <1>7 DEF t

\* A transfer leaves them alone.
LEMMA MovedLasting ==
  ASSUME NEW s \in StreamType PROVE \A f \in Lasting : Moved(s)[f] = s[f]
<1> DEFINE a == Advanced(s)  t == Moved(s)
<1>1. a \in StreamType /\ \A f \in Lasting : a[f] = s[f] BY AdvancedFacts, Zenon
<1>2. t = IF a.ndtr = 0 /\ ~a.CIRC THEN [a EXCEPT !.EN = FALSE] ELSE a BY DEF Moved
<1> HIDE DEF a, t
<1>3. [a EXCEPT !.EN = FALSE] = a \/ \A f \in Lasting : [a EXCEPT !.EN = FALSE][f] = a[f]
  BY <1>1 DEF StreamType, Lasting
<1> QED BY <1>1, <1>2, <1>3, Zenon DEF t

\* The channel after a transfer is one item further, or at the end of its
\* block: disabled, or if circular about to be reloaded.
LEMMA MovedInside ==
  ASSUME NEW s \in StreamType, s.EN, InBlock(s)
  PROVE  LET t == Moved(s) IN
         /\ \A f \in Lasting : t[f] = s[f]
         /\ \/ t.EN /\ t.ndtr # 0 /\ InBlock(t)
            \/ ~t.EN /\ ~t.CIRC
            \/ t.EN /\ t.CIRC /\ t.ndtr = 0 /\ s.circular_ndtr >= 1
<1> DEFINE a == Advanced(s)  t == Moved(s)
<1>1. s.ndtr \in Nat /\ s.circular_ndtr \in Nat /\ s.ndtr < AddressWord
      /\ s.ndtr >= 1 /\ s.ndtr <= s.circular_ndtr
  BY AddressIsInt DEF StreamType, InBlock
<1>2. /\ a \in StreamType /\ a.ndtr = (s.ndtr - 1) % AddressWord /\ a.EN = s.EN
      /\ \A f \in Lasting : a[f] = s[f]
  BY AdvancedFacts, Zenon
<1>3. a.ndtr = s.ndtr - 1 BY <1>1, <1>2, DmaAssumption
<1>4. At(a, (s.circular_ndtr - s.ndtr) + 1) BY <1>1, AtNext DEF InBlock
<1>5. t = IF a.ndtr = 0 /\ ~a.CIRC THEN [a EXCEPT !.EN = FALSE] ELSE a BY DEF Moved
<1> HIDE DEF a, t
<1>6. a.circular_ndtr = s.circular_ndtr /\ a.CIRC = s.CIRC BY <1>2 DEF Lasting
<1>7. CASE a.ndtr = 0 /\ ~a.CIRC
  <2>1. t = [a EXCEPT !.EN = FALSE] BY <1>5, <1>7
  <2>2. ~t.EN /\ t.CIRC = a.CIRC /\ \A f \in Lasting : t[f] = a[f]
    BY <2>1, <1>2 DEF StreamType, Lasting
  <2> QED BY <1>2, <1>7, <2>2, Zenon DEF t
<1>8. CASE a.ndtr = 0 /\ a.CIRC
  <2>1. t = a /\ s.circular_ndtr >= 1 BY <1>1, <1>5, <1>8
  <2> QED BY <1>2, <1>8, <2>1, Zenon DEF t
<1>9. CASE a.ndtr # 0
  <2>1. t = a BY <1>5, <1>9
  <2>2. (s.circular_ndtr - s.ndtr) + 1 = a.circular_ndtr - a.ndtr /\ a.ndtr \in 1..a.circular_ndtr
    BY <1>1, <1>3, <1>6, <1>9
  <2>3. InBlock(a) BY <1>4, <2>2 DEF InBlock
  <2> QED BY <1>2, <1>9, <2>1, <2>3, Zenon DEF t
<1> QED BY <1>7, <1>8, <1>9

\* A reload takes the channel back to the start of its block.
LEMMA ReloadInside ==
  ASSUME NEW s \in StreamType, s.CIRC, s.ndtr = 0
  PROVE  LET t == CircularReload(s) IN
         /\ t \in StreamType /\ t.EN /\ \A f \in Lasting : t[f] = s[f]
         /\ t.ndtr = s.circular_ndtr
         /\ s.circular_ndtr >= 1 => InBlock(t)
<1> DEFINE t == CircularReload(s)
<1>1. t = [s EXCEPT !.mar = s.circular_mar, !.par = s.circular_par,
                    !.ndtr = s.circular_ndtr, !.EN = TRUE]
  BY DEF CircularReload
<1> HIDE DEF t
<1>2. t \in StreamType BY <1>1, Zenon DEF StreamType
<1>3. /\ t.EN /\ t.ndtr = s.circular_ndtr /\ t.mar = s.circular_mar /\ t.par = s.circular_par
  BY <1>1 DEF StreamType
<1>4. \A f \in Lasting : t[f] = s[f] BY <1>1, Zenon DEF StreamType, Lasting
<1>5. ASSUME s.circular_ndtr >= 1 PROVE InBlock(t)
  <2>1. t.circular_mar = t.mar /\ t.circular_par = t.par /\ t.circular_ndtr = t.ndtr
    BY <1>3, <1>4 DEF Lasting
  <2>2. Plus(t.mar, 0) = t.mar /\ Plus(t.par, 0) = t.par
    BY <1>2, PlusZero DEF StreamType
  <2>3. psize(t) \in 0..2 /\ msize(t) \in 0..2
    BY <1>2, Sizes DEF psize, msize, StreamType
  <2>4. 0 * psize(t) = 0 /\ 0 * msize(t) = 0 BY <2>3
  <2>5. At(t, 0) BY <2>1, <2>2, <2>4, Zenon DEF At
  <2>6. t.ndtr \in Nat /\ t.ndtr >= 1 BY <1>2, <1>3, <1>5, AddressIsInt DEF StreamType
  <2>7. t.circular_ndtr - t.ndtr = 0 /\ t.ndtr \in 1..t.circular_ndtr BY <2>1, <2>6
  <2> QED BY <2>5, <2>7, Zenon DEF InBlock
<1> QED BY <1>2, <1>3, <1>4, <1>5, Zenon DEF t

-----------------------------------------------------------------------------
\* A step that leaves the channel alone, and its timer if it has it.
LEMMA InsideKept ==
  ASSUME NEW d, NEW e, NEW m, Inside(d, m), e.stream[m] = d.stream[m],
         d.chan = m /\ d.timer => e.chan = m /\ e.timer
  PROVE  Inside(e, m)
BY Zenon DEF Inside

\* A request or an expiry changes a channel that is enabled, or reloads one: the
\* library has not come to the point from which it relies on what it wrote.
LEMMA StageKept ==
  ASSUME NEW d, NEW e, NEW n, Stage(d, n), e.accesses = d.accesses, e.ccr = d.ccr,
         \/ e.stream[n] = d.stream[n]
         \/ /\ \A f \in Lasting : e.stream[n][f] = d.stream[n][f]
            /\ d.stream[n].EN \/ (d.stream[n].ndtr = 0 /\ d.stream[n].CIRC)
  PROVE  Stage(e, n)
<1> DEFINE s == d.stream[n]  t == e.stream[n]
<1>1. ASSUME NEW i \in 1..6, Stopping(d, n, i) PROVE Stopping(e, n, i)
  <2>1. CASE t = s BY <1>1, <2>1, Zenon DEF Stopping
  <2>2. CASE s.EN \/ (s.ndtr = 0 /\ s.CIRC)
    <3>1. ~(i >= 4) BY <1>1, <2>2, Zenon DEF Stopping
    <3> QED BY <1>1, <3>1, Zenon DEF Stopping
  <2> QED BY <2>1, <2>2
<1>2. ASSUME NEW use \in Uses, NEW i \in 1..7, Starting(d, n, use, i) PROVE Starting(e, n, use, i)
  <2>1. CASE t = s BY <1>2, <2>1, Zenon DEF Starting, Ready
  <2>2. CASE (\A f \in Lasting : t[f] = s[f]) /\ (s.EN \/ (s.ndtr = 0 /\ s.CIRC))
    <3>0. use.ndtr # 0 BY DmaAssumption
    <3>1. ~(i >= 4) BY <1>2, <2>2, <3>0, Zenon DEF Starting, Ready
    <3>2. ~(i >= 5) /\ ~(i >= 6) /\ ~(i >= 7) BY <3>1
    <3>3. Configured(s, use) => Configured(t, use)
      BY <2>2 DEF Configured, CrFields, Lasting
    <3> QED BY <1>2, <3>1, <3>2, <3>3, Zenon DEF Starting, Ready
  <2> QED BY <2>1, <2>2
<1> QED BY <1>1, <1>2, Zenon DEF Stage

\* So a request or an expiry keeps the invariant.
LEMMA EventOk ==
  ASSUME NEW d, NEW e, NEW c \in Streams, Body(d), e.accesses = d.accesses, e.ccr = d.ccr,
         e.chan = d.chan, e.timer = d.timer \/ d.chan = c,
         \A m \in Streams \ {c} : e.stream[m] = d.stream[m],
         \/ e.stream[c] = d.stream[c]
         \/ /\ \A f \in Lasting : e.stream[c][f] = d.stream[c][f]
            /\ d.stream[c].EN \/ (d.stream[c].ndtr = 0 /\ d.stream[c].CIRC),
         Inside(d, c) => Inside(e, c)
  PROVE  Body(e)
<1>1. ASSUME NEW m \in Streams, Inside(d, m) PROVE Inside(e, m)
  <2>1. CASE m = c BY <1>1, <2>1
  <2>2. CASE m # c
    <3>1. e.stream[m] = d.stream[m] BY <2>2
    <3>2. d.chan = m /\ d.timer => e.chan = m /\ e.timer BY <2>2, Zenon
    <3> QED BY <1>1, <3>1, <3>2, InsideKept
  <2> QED BY <2>1, <2>2
<1>2. CASE Idle(d) BY <1>1, <1>2, Zenon DEF Idle, Body
<1>3. ASSUME NEW n \in Streams, Busy(d, n) PROVE Body(e)
  <2>1. \A m \in Streams \ {n} : Inside(e, m) BY <1>1, <1>3, Zenon DEF Busy
  <2>2. Stage(e, n)
    <3>1. Stage(d, n) BY <1>3 DEF Busy
    <3>2. CASE n = c BY <3>1, <3>2, StageKept, Zenon
    <3>3. CASE n # c
      <4>1. e.stream[n] = d.stream[n] BY <3>3
      <4> QED BY <3>1, <4>1, StageKept
    <3> QED BY <3>2, <3>3
  <2> QED BY <2>1, <2>2, Zenon DEF Body, Busy
<1> QED BY <1>2, <1>3 DEF Body

-----------------------------------------------------------------------------
\* The register of a channel that was never used, and of any channel.
LEMMA NoStreamType ==
  NoStream \in StreamType /\ ~NoStream.EN /\ ~NoStream.CIRC
<1>1. 0 \in Addresses BY DmaAssumption DEF Addresses
<1> QED BY <1>1 DEF NoStream, StreamType

\* What a read of CCR gives.
LEMMA CRType ==
  ASSUME NEW s \in StreamType
  PROVE  CR(s) \in CrType /\ \A f \in CrFields : CR(s)[f] = s[f]
BY DEF CR, CrType, StreamType, CrFields

\* Sequences are equal when they agree everywhere.
LEMMA SameStream ==
  ASSUME NEW S, NEW p \in Seq(S), NEW q \in Seq(S), NEW m, Len(p) = m, Len(q) = m,
         \A i \in 1..m : p[i] = q[i]
  PROVE  p = q
OBVIOUS

\* r is what a call has left from access i on.
Upcoming(r, n, use, regs, i) ==
  /\ r # <<>> /\ 1 \in 1..Len(r) /\ r[1].n = n
  /\ Head(r) = [n |-> n, use |-> use, reg |-> regs[i]]
  /\ i < Len(regs) => Tail(r) = Rest(n, use, regs, i + 1)
  /\ i = Len(regs) => Tail(r) = <<>>

\* A call that goes on has an access to make.
LEMMA RestSeq ==
  ASSUME NEW n, NEW use, NEW regs, NEW i \in 1..Len(regs), Len(regs) \in Nat
  PROVE  Upcoming(Rest(n, use, regs, i), n, use, regs, i)
<1> DEFINE r == Rest(n, use, regs, i)  k == Len(regs) - i + 1
           x(j) == [n |-> n, use |-> use, reg |-> regs[i + j - 1]]
<1>1. k \in Nat /\ k >= 1 OBVIOUS
<1>2. r = [j \in 1..k |-> x(j)] BY Zenon DEF Rest
<1>3. r \in Seq({x(j) : j \in 1..k}) /\ Len(r) = k
  <2> HIDE DEF x, k
  <2> QED BY <1>1, <1>2
<1>4. r # <<>> /\ Head(r) = x(1) /\ 1 \in 1..Len(r) /\ r[1] = x(1)
  <2> HIDE DEF x, k, r
  <2>1. r # <<>> /\ Head(r) = x(1) BY <1>1, <1>2, <1>3, SMTT(60)
  <2>2. 1 \in 1..k BY <1>1
  <2> QED BY <1>2, <1>3, <2>1, <2>2, Zenon
<1>5. x(1) = [n |-> n, use |-> use, reg |-> regs[i]] OBVIOUS
<1>6. Tail(r) = [j \in 1..(k - 1) |-> x(j + 1)]
  <2> HIDE DEF x, k, r
  <2>0. /\ Tail(r) \in Seq({x(j) : j \in 1..k}) /\ Len(Tail(r)) = k - 1
        /\ \A j \in 1..(k - 1) : Tail(r)[j] = r[j + 1]
    BY <1>1, <1>3, <1>4
  <2> DEFINE q == [j \in 1..(k - 1) |-> x(j + 1)]
  <2>1. \A j \in 1..(k - 1) : j + 1 \in 1..k BY <1>1
  <2>2. \A j \in 1..(k - 1) : r[j + 1] = x(j + 1) BY <1>2, <2>1, Zenon
  <2>3. /\ q \in Seq({x(j) : j \in 1..k}) /\ Len(q) = k - 1
        /\ \A j \in 1..(k - 1) : q[j] = x(j + 1)
    <3> DEFINE T == {x(j) : j \in 1..k}
    <3>1. k - 1 \in Nat /\ \A j \in 1..(k - 1) : x(j + 1) \in T BY <1>1, <2>1
    <3> HIDE DEF T
    <3>2. q \in Seq(T) /\ Len(q) = k - 1 BY <3>1
    <3> QED BY <3>2, Zenon DEF T
  <2>4. \A j \in 1..(k - 1) : Tail(r)[j] = q[j] BY <2>0, <2>2, <2>3, Zenon
  <2> HIDE DEF q
  <2>5. Tail(r) = q BY <2>0, <2>3, <2>4, SameStream, Zenon
  <2> QED BY <2>5 DEF q
<1>7. ASSUME i < Len(regs) PROVE Tail(r) = Rest(n, use, regs, i + 1)
  <2>1. k - 1 = Len(regs) - (i + 1) + 1 OBVIOUS
  <2>2. \A j \in 1..(k - 1) : i + (j + 1) - 1 = (i + 1) + j - 1 OBVIOUS
  <2>3. \A j \in 1..(k - 1) : x(j + 1) = [n |-> n, use |-> use, reg |-> regs[(i + 1) + j - 1]]
    BY <2>2, Zenon
  <2> HIDE DEF x, k, r
  <2> QED BY <1>6, <2>1, <2>3, Zenon DEF Rest
<1>8. ASSUME i = Len(regs) PROVE Tail(r) = <<>>
  <2>1. k - 1 = 0 BY <1>8
  <2> HIDE DEF x, k, r
  <2> QED BY <1>3, <1>6, <2>1
<1>9. Upcoming(r, n, use, regs, i)
  <2>1. x(1).n = n OBVIOUS
  <2> HIDE DEF r, x
  <2>2. r[1].n = n BY <1>4, <2>1
  <2> QED BY <1>4, <1>5, <1>7, <1>8, <2>2, Zenon DEF Upcoming
<1> QED BY <1>9

\* A call under way has an access to make, to its own channel.
LEMMA StageNonempty ==
  ASSUME NEW d, NEW n, Stage(d, n)
  PROVE  d.accesses # <<>> /\ 1 \in 1..Len(d.accesses) /\ d.accesses[1].n = n
<1>1. Len(Stops) = 6 /\ Len(Starts) = 7 BY DEF Stops, Starts
<1>2. ASSUME NEW u, NEW i \in 1..6
      PROVE  LET r == Rest(n, u, Stops, i) IN r # <<>> /\ 1 \in 1..Len(r) /\ r[1].n = n
  <2>1. i \in 1..Len(Stops) /\ Len(Stops) \in Nat BY <1>1
  <2>2. Upcoming(Rest(n, u, Stops, i), n, u, Stops, i) BY <2>1, RestSeq, Zenon
  <2> QED BY <2>2, Zenon DEF Upcoming
<1>3. ASSUME NEW u, NEW i \in 1..7
      PROVE  LET r == Rest(n, u, Starts, i) IN r # <<>> /\ 1 \in 1..Len(r) /\ r[1].n = n
  <2>1. i \in 1..Len(Starts) /\ Len(Starts) \in Nat BY <1>1
  <2>2. Upcoming(Rest(n, u, Starts, i), n, u, Starts, i) BY <2>1, RestSeq, Zenon
  <2> QED BY <2>2, Zenon DEF Upcoming
<1> QED BY <1>2, <1>3, Zenon DEF Stage, Stopping, Starting, Ready

\* Starting a step changes only the history of the memory.
LEMMA StillSame ==
  ASSUME DmaTypes(dma), Body(dma)
  PROVE  LET d == Still IN
         /\ DmaTypes(d) /\ Body(d) /\ d.stream = dma.stream /\ d.accesses = dma.accesses
         /\ d.chan = dma.chan /\ d.timer = dma.timer /\ d.ccr = dma.ccr /\ d.ended = dma.ended
         /\ d.from = [a \in Addresses |-> a]
<1> DEFINE d == Still
<1>0. DOMAIN dma = DmaFields BY DEF DmaTypes
<1>1. d = [dma EXCEPT !.from = [a \in Addresses |-> a]] BY DEF Still
<1> HIDE DEF d
<1>2. /\ DOMAIN d = DmaFields /\ d.stream = dma.stream /\ d.accesses = dma.accesses
      /\ d.chan = dma.chan /\ d.timer = dma.timer /\ d.ccr = dma.ccr /\ d.ended = dma.ended
  BY <1>0, <1>1 DEF DmaFields
<1>3. d.from = [a \in Addresses |-> a] BY <1>0, <1>1 DEF DmaFields
<1>4. DmaTypes(d) BY <1>2, Zenon DEF DmaTypes
<1>5. \A n : Inside(d, n) <=> Inside(dma, n) BY <1>2, Zenon DEF Inside
<1>6. ASSUME NEW n, Stage(dma, n) PROVE Stage(d, n)
  <2>1. d.stream[n] = dma.stream[n] /\ d.accesses = dma.accesses /\ d.ccr = dma.ccr BY <1>2
  <2> QED BY <1>6, <2>1, StageKept
<1>7. Body(d) BY <1>2, <1>5, <1>6, Zenon DEF Body, Idle, Busy
<1> QED BY <1>2, <1>3, <1>4, <1>7, Zenon DEF d

\* A circular channel at the data register of USART1 has a block through it.
LEMMA NotAway ==
  ASSUME NEW d, NEW c, d.stream[c] \in StreamType, Inside(d, c),
         d.stream[c].EN, ~d.stream[c].MEM2MEM, d.stream[c].mar = DR \/ d.stream[c].par = DR
  PROVE  d.stream[c].CIRC => ~Away(d.stream[c])
<1> DEFINE s == d.stream[c]  k == s.circular_ndtr - s.ndtr
<1>1. SUFFICES ASSUME s.CIRC, Away(s) PROVE FALSE OBVIOUS
<1>2. InBlock(s) /\ Away(s) BY <1>1 DEF Inside
<1>3. At(s, k) /\ k \in 0..(s.circular_ndtr - 1)
  <2>1. s.ndtr \in Nat /\ s.circular_ndtr \in Nat BY AddressIsInt DEF StreamType
  <2>2. s.ndtr \in 1..s.circular_ndtr /\ At(s, k) BY <1>2 DEF InBlock
  <2> QED BY <2>1, <2>2
<1> HIDE DEF s, k
<1>4. s.mar # DR /\ s.par # DR BY <1>2, <1>3, Zenon DEF Away, At
<1> QED BY <1>4 DEF s

\* Whether a block is away from the data register depends on what lasts.
LEMMA AwayLasts ==
  ASSUME NEW s, NEW t, \A f \in Lasting : t[f] = s[f]
  PROVE  Away(t) <=> Away(s)
<1>1. /\ t.circular_mar = s.circular_mar /\ t.circular_par = s.circular_par
      /\ t.circular_ndtr = s.circular_ndtr
      /\ t.MINC = s.MINC /\ t.PINC = s.PINC /\ t.msize = s.msize /\ t.psize = s.psize
  BY DEF Lasting
<1>2. msize(t) = msize(s) /\ psize(t) = psize(s) BY <1>1, Zenon DEF msize, psize
<1> QED BY <1>1, <1>2, Zenon DEF Away

\* A circular channel stays enabled.
LEMMA CircularStays ==
  ASSUME NEW s \in StreamType, s.EN, s.CIRC
  PROVE  Moved(s).EN
<1> DEFINE a == Advanced(s)  m == Moved(s)
<1>1. a.EN = s.EN BY AdvancedFacts, Zenon
<1>2. m = IF a.ndtr = 0 /\ ~a.CIRC THEN [a EXCEPT !.EN = FALSE] ELSE a BY DEF Moved
<1>3. a.CIRC = s.CIRC BY AdvancedFacts, Zenon DEF Lasting
<1> HIDE DEF a, m
<1>4. m = a BY <1>2, <1>3
<1> QED BY <1>1, <1>4, Zenon DEF m

\* One transfer of a channel that is in its block, at a request.
LEMMA TransferInside ==
  ASSUME NEW d, DmaTypes(d), NEW c \in Streams, Inside(d, c), NEW e,
         e.stream[c] = Moved(d.stream[c]), e.chan = d.chan, e.timer = d.timer,
         d.stream[c].EN, d.stream[c].mar = DR \/ d.stream[c].par = DR
  PROVE  Inside(e, c)
<1> DEFINE s == d.stream[c]  t == Moved(s)
<1>0. s \in StreamType BY DEF DmaTypes
<1>1. CASE s.MEM2MEM
  <2> DEFINE a == Advanced(s)
  <2>1. a \in StreamType /\ a.MEM2MEM = s.MEM2MEM /\ a.EN = s.EN /\ a.CIRC = s.CIRC
    BY <1>0, AdvancedFacts, Zenon DEF Lasting
  <2>2. t = IF a.ndtr = 0 /\ ~a.CIRC THEN [a EXCEPT !.EN = FALSE] ELSE a BY DEF Moved
  <2> HIDE DEF a, t, s
  <2>3. t.MEM2MEM /\ (t.CIRC => t.EN)
    <3>1. CASE a.ndtr = 0 /\ ~a.CIRC
      <4>1. t = [a EXCEPT !.EN = FALSE] BY <2>2, <3>1
      <4>2. t.MEM2MEM = a.MEM2MEM /\ t.CIRC = a.CIRC BY <2>1, <4>1 DEF StreamType
      <4> QED BY <1>1, <2>1, <3>1, <4>2
    <3>2. CASE ~(a.ndtr = 0 /\ ~a.CIRC)
      <4>1. t = a BY <2>2, <3>2
      <4>2. a.EN BY <2>1 DEF s
      <4> QED BY <1>1, <2>1, <4>1, <4>2, Zenon
    <3> QED BY <3>1, <3>2
  <2>4. e.stream[c] = t BY DEF t, s
  <2> QED BY <2>3, <2>4, Zenon DEF Inside
<1>2. CASE ~s.MEM2MEM /\ s.CIRC
  <2>1. t.EN /\ \A f \in Lasting : t[f] = s[f]
    <3>1. \A f \in Lasting : t[f] = s[f] BY <1>0, MovedLasting, Zenon
    <3>2. s.EN OBVIOUS
    <3> QED BY <1>0, <1>2, <3>1, <3>2, CircularStays, Zenon
  <2>2. ~Away(t)
    <3>1. ~Away(s) BY <1>0, <1>2, NotAway
    <3> HIDE DEF s, t
    <3> QED BY <2>1, <3>1, AwayLasts, Zenon
  <2>3. e.stream[c] = t OBVIOUS
  <2>4. d.chan = c /\ d.timer BY <1>2, Zenon DEF Inside
  <2>5. t.CIRC BY <1>2, <2>1 DEF Lasting
  <2> HIDE DEF t, s
  <2> QED BY <2>1, <2>2, <2>3, <2>4, <2>5, Zenon DEF Inside
<1>3. CASE ~s.MEM2MEM /\ ~s.CIRC
  <2>1. ~s.CIRC BY <1>3
  <2>2. InBlock(s) BY <1>3 DEF Inside
  <2>3. /\ \A f \in Lasting : t[f] = s[f]
        /\ (t.EN /\ t.ndtr # 0 /\ InBlock(t)) \/ (~t.EN /\ ~t.CIRC)
           \/ (t.EN /\ t.CIRC /\ t.ndtr = 0 /\ s.circular_ndtr >= 1)
    BY <1>0, <2>2, MovedInside, Zenon
  <2>4. e.stream[c] = t OBVIOUS
  <2> HIDE DEF t, s
  <2>5. t.CIRC = s.CIRC BY <2>3 DEF Lasting
  <2> QED BY <2>1, <2>3, <2>4, <2>5, Zenon DEF Inside
<1> QED BY <1>1, <1>2, <1>3

\* A request of USART1.
LEMMA RequestOk ==
  ASSUME NEW d, DmaTypes(d), Body(d), ~d.ended, NEW c \in Streams,
         d.stream[c].mar = DR \/ d.stream[c].par = DR
  PROVE  DmaOk(stm32_dma_stream_start_once(d, c, FALSE))
<1> DEFINE e == stm32_dma_stream_start_once(d, c, FALSE)
<1>1. /\ DmaTypes(e) /\ Keeps(d, e, c)
      /\ e.ended = TRUE \/ e = d
         \/ (d.stream[c].EN /\ e.stream[c] = Moved(d.stream[c]))
  BY OnceKeeps, Zenon
<1> HIDE DEF e
<1>2. CASE e.ended = TRUE BY <1>2, Zenon DEF DmaOk, e
<1>3. CASE e = d BY <1>3, Zenon DEF DmaOk, e
<1>4. CASE d.stream[c].EN /\ e.stream[c] = Moved(d.stream[c])
  <2>1. /\ e.accesses = d.accesses /\ e.ccr = d.ccr /\ e.chan = d.chan /\ e.timer = d.timer
        /\ \A m \in Streams \ {c} : e.stream[m] = d.stream[m]
    BY <1>1, Zenon DEF Keeps
  <2>2. Inside(d, c) => Inside(e, c) BY <1>4, <2>1, TransferInside, Zenon
  <2>3. \A f \in Lasting : e.stream[c][f] = d.stream[c][f]
    BY <1>4, MovedLasting DEF DmaTypes
  <2>4. Body(e) BY <1>4, <2>1, <2>2, <2>3, EventOk
  <2> QED BY <1>1, <2>4, Zenon DEF DmaOk, e
<1> QED BY <1>1, <1>2, <1>3, <1>4, Zenon

\* The channel after the timer's transfer and reload.
LEMMA ReloadType ==
  ASSUME NEW s \in StreamType
  PROVE  LET t == CircularReload(s) IN
         t \in StreamType /\ (\A f \in Lasting : t[f] = s[f]) /\ (~(s.ndtr = 0 /\ s.CIRC) => t = s)
<1> DEFINE t == CircularReload(s)
<1>1. CASE s.ndtr = 0 /\ s.CIRC BY <1>1, ReloadInside, Zenon
<1>2. CASE ~(s.ndtr = 0 /\ s.CIRC)
  <2>1. t = s BY <1>2, Zenon DEF CircularReload
  <2> QED BY <1>2, <2>1
<1> QED BY <1>1, <1>2

\* After an expiry the channel of the timer is in its block, reloaded if it was
\* at the end, with the timer armed again while it is enabled.
LEMMA ExpiryInside ==
  ASSUME NEW d, DmaTypes(d), NEW c \in Streams, Inside(d, c), NEW e, NEW t,
         t = CircularReload(IF d.stream[c].EN THEN Moved(d.stream[c]) ELSE d.stream[c]),
         e.stream[c] = t, e.chan = c, e.timer = t.EN
  PROVE  Inside(e, c)
<1> DEFINE s == d.stream[c]  m == Moved(s)
<1>0. s \in StreamType /\ m \in StreamType /\ (\A f \in Lasting : m[f] = s[f])
  BY MovedType, MovedLasting DEF DmaTypes
<1>1. CASE ~s.EN
  <2>1. ~s.CIRC BY <1>1 DEF Inside
  <2>2. t = s BY <1>0, <1>1, <2>1, ReloadType, Zenon
  <2> QED BY <1>1, <2>1, <2>2, Zenon DEF Inside
<1>2. CASE s.EN
  <2>0. t = CircularReload(m) BY <1>2
  <2>1. t \in StreamType /\ (\A f \in Lasting : t[f] = m[f]) /\ (~(m.ndtr = 0 /\ m.CIRC) => t = m)
    <3> DEFINE r == CircularReload(m)
    <3>1. r \in StreamType /\ (\A f \in Lasting : r[f] = m[f]) /\ (~(m.ndtr = 0 /\ m.CIRC) => r = m)
      <4>1. m \in StreamType BY <1>0, ZenonT(60)
      <4> HIDE DEF m
      <4> QED BY <4>1, ReloadType, Zenon
    <3> QED BY <2>0, <3>1, Zenon
  <2>2. t.MEM2MEM = s.MEM2MEM /\ t.CIRC = s.CIRC /\ m.CIRC = s.CIRC
        /\ t.circular_ndtr = s.circular_ndtr /\ m.circular_ndtr = s.circular_ndtr
    BY <1>0, <2>1 DEF Lasting
  <2>3. m.CIRC => m.EN BY <1>0, <1>2, <2>2, CircularStays, Zenon
  <2>4. t.CIRC => t.EN
    <3>1. CASE m.ndtr = 0 /\ m.CIRC BY <1>0, <2>0, <3>1, ReloadInside, Zenon
    <3>2. CASE ~(m.ndtr = 0 /\ m.CIRC) BY <2>1, <2>3, <3>2, Zenon
    <3> QED BY <3>1, <3>2
  <2>5. CASE s.MEM2MEM BY <2>2, <2>4, <2>5, Zenon DEF Inside
  <2>6. CASE ~s.MEM2MEM
    <3>1. Away(t) <=> Away(s)
      <4>1. \A f \in Lasting : t[f] = s[f] BY <1>0, <2>1, Zenon
      <4> HIDE DEF s, m
      <4> QED BY <4>1, AwayLasts, Zenon
    <3>2. ASSUME t.EN, t.CIRC => Away(t) PROVE InBlock(t)
      <4>0. (m.EN /\ m.ndtr # 0 /\ InBlock(m)) \/ (~m.EN /\ ~m.CIRC)
            \/ (m.EN /\ m.CIRC /\ m.ndtr = 0 /\ s.circular_ndtr >= 1)
        <5>1. InBlock(s) BY <1>2, <2>2, <2>6, <3>1, <3>2, Zenon DEF Inside
        <5> QED BY <1>0, <1>2, <5>1, MovedInside, Zenon
      <4>1. CASE m.EN /\ m.ndtr # 0 /\ InBlock(m) BY <2>1, <4>1, Zenon
      <4>2. CASE ~m.EN /\ ~m.CIRC BY <2>1, <3>2, <4>2, Zenon
      <4>3. CASE m.EN /\ m.CIRC /\ m.ndtr = 0 /\ s.circular_ndtr >= 1
        <5>1. m.circular_ndtr >= 1 BY <2>2, <4>3
        <5> QED BY <1>0, <2>0, <4>3, <5>1, ReloadInside, ZenonT(60)
      <4> QED BY <4>0, <4>1, <4>2, <4>3
    <3> QED BY <2>4, <3>1, <3>2, Zenon DEF Inside
  <2> QED BY <2>5, <2>6
<1> QED BY <1>1, <1>2

\* An expiry of the timer.
LEMMA ExpiryOk ==
  ASSUME DmaOk(dma), stm32_dma_stream_circular_timer
  PROVE  DmaOk(dma')
<1> DEFINE d == Still
<1>0. ~dma.ended /\ DmaTypes(dma) /\ Body(dma)
  BY DEF stm32_dma_stream_circular_timer, DmaOk
<1>1. DmaTypes(d) /\ Body(d) /\ d.chan = dma.chan /\ d.ended = dma.ended BY <1>0, StillSame, Zenon
<1>2. CASE dma.chan = 0
  <2>1. dma' = [d EXCEPT !.ended = TRUE] BY <1>2, Zenon DEF stm32_dma_stream_circular_timer
  <2> HIDE DEF d
  <2>2. dma'.ended = TRUE BY <1>1, <2>1 DEF DmaTypes, DmaFields
  <2> QED BY <2>2 DEF DmaOk
<1>3. CASE dma.chan # 0
  <2> DEFINE c == dma.chan
             a == stm32_dma_stream_start_once(d, c, FALSE)
             t == CircularReload(a.stream[a.chan])
  <2>1. dma' = [a EXCEPT !.stream[a.chan] = t, !.timer = t.EN]
    BY <1>3, Zenon DEF stm32_dma_stream_circular_timer
  <2>2. c \in Streams BY <1>0, <1>3 DEF DmaTypes
  <2>3. /\ DmaTypes(a) /\ Keeps(d, a, c)
        /\ a.ended = TRUE \/ (~d.stream[c].EN /\ a = d)
           \/ (d.stream[c].EN /\ a.stream[c] = Moved(d.stream[c]))
    BY <1>1, <2>2, OnceKeeps, Zenon
  <2> DEFINE S == [a.stream EXCEPT ![c] = t]
  <2>4. a.chan = c BY <1>1, <2>3, Zenon DEF Keeps
  <2>5. dma' = [a EXCEPT !.stream = S, !.timer = t.EN] BY <2>1, <2>4, Zenon
  <2>6. a.stream[c] \in StreamType BY <2>2, <2>3, Zenon DEF DmaTypes
  <2>7. t = CircularReload(a.stream[c]) BY <2>4, Zenon
  <2> HIDE DEF d, c, a, t
  <2>8. /\ t \in StreamType /\ \A f \in Lasting : t[f] = a.stream[c][f]
        /\ ~(a.stream[c].ndtr = 0 /\ a.stream[c].CIRC) => t = a.stream[c]
    BY <2>6, <2>7, ReloadType
  <2>9. DOMAIN S = Streams /\ S[c] = t /\ \A m \in Streams \ {c} : S[m] = a.stream[m]
    BY <2>2, <2>3 DEF DmaTypes
  <2> HIDE DEF S
  <2>10. DOMAIN a = DmaFields BY <2>3 DEF DmaTypes
  <2>11. /\ DOMAIN dma' = DmaFields /\ dma'.stream = S /\ dma'.timer = t.EN
         /\ dma'.chan = a.chan /\ dma'.accesses = a.accesses /\ dma'.ccr = a.ccr
         /\ dma'.ended = a.ended
    BY <2>5, <2>10 DEF DmaFields
  <2>12. DmaTypes(dma')
    <3>1. \A m \in Streams : dma'.stream[m] \in StreamType
      BY <2>3, <2>8, <2>9, <2>11, Zenon DEF DmaTypes
    <3>2. t.EN \in BOOLEAN BY <2>8 DEF StreamType
    <3> QED BY <2>3, <2>9, <2>11, <3>1, <3>2, Zenon DEF DmaTypes
  <2>13. CASE a.ended = TRUE BY <2>11, <2>13 DEF DmaOk
  <2>14. CASE ~(a.ended = TRUE)
    <3> DEFINE s == d.stream[c]
    <3>1. a.stream[c] = IF s.EN THEN Moved(s) ELSE s BY <2>3, <2>14, Zenon
    <3>2. s \in StreamType BY <1>1, <2>2 DEF DmaTypes
    <3>3. dma'.stream[c] = t BY <2>9, <2>11
    <3>4. Inside(d, c) => Inside(dma', c)
      <4>1. t = CircularReload(IF s.EN THEN Moved(s) ELSE s) BY <2>7, <3>1, Zenon
      <4>2. dma'.chan = c /\ dma'.timer = t.EN BY <2>4, <2>11
      <4> QED BY <1>1, <2>2, <3>3, <4>1, <4>2, ExpiryInside, Zenon
    <3>5. \/ t = s
          \/ (\A f \in Lasting : t[f] = s[f]) /\ (s.EN \/ (s.ndtr = 0 /\ s.CIRC))
      <4> HIDE DEF s
      <4>1. CASE s.EN
        <5>1. \A f \in Lasting : Moved(s)[f] = s[f] BY <3>2, MovedLasting, Zenon
        <5> QED BY <2>8, <3>1, <4>1, <5>1, Zenon
      <4>2. CASE ~s.EN BY <2>8, <3>1, <4>2, Zenon
      <4> QED BY <4>1, <4>2
    <3>6. /\ dma'.accesses = d.accesses /\ dma'.ccr = d.ccr /\ dma'.chan = d.chan /\ d.chan = c
          /\ \A m \in Streams \ {c} : dma'.stream[m] = d.stream[m]
      BY <2>3, <2>4, <2>9, <2>11, ZenonT(60) DEF Keeps
    <3>7. \/ dma'.stream[c] = d.stream[c]
          \/ /\ \A f \in Lasting : dma'.stream[c][f] = d.stream[c][f]
             /\ d.stream[c].EN \/ (d.stream[c].ndtr = 0 /\ d.stream[c].CIRC)
      BY <3>3, <3>5, Zenon
    <3>8. Body(dma') BY <1>1, <2>2, <3>4, <3>6, <3>7, EventOk
    <3> QED BY <2>12, <3>8 DEF DmaOk
  <2> QED BY <2>13, <2>14, Zenon
<1> QED BY <1>2, <1>3

\* A request of USART1, to whichever channel.
LEMMA RequestsOk ==
  ASSUME DmaOk(dma), NEW receive \in BOOLEAN, dma_irq_handler(receive)
  PROVE  DmaOk(dma')
<1> DEFINE d == Still  c == dma_find_channel(receive)
<1>0. ~dma.ended /\ DmaTypes(dma) /\ Body(dma) BY DEF dma_irq_handler, DmaOk
<1>1. DmaTypes(d) /\ Body(d) /\ d.stream = dma.stream /\ d.ended = dma.ended
  BY <1>0, StillSame, Zenon
<1>2. CASE c = -1
  <2>1. dma' = [d EXCEPT !.ended = TRUE] BY <1>2, Zenon DEF dma_irq_handler
  <2> HIDE DEF d
  <2>2. dma'.ended = TRUE BY <1>1, <2>1 DEF DmaTypes, DmaFields
  <2> QED BY <2>2 DEF DmaOk
<1>3. CASE c # -1
  <2>1. dma' = stm32_dma_stream_start_once(d, c, FALSE) BY <1>3, Zenon DEF dma_irq_handler
  <2>2. c \in Streams /\ (dma.stream[c].mar = DR \/ dma.stream[c].par = DR)
    <3> DEFINE found == {n \in Streams : DR = IF receive THEN dma.stream[n].mar
                                              ELSE dma.stream[n].par}
    <3>1. found # {} /\ c = CHOOSE n \in found : \A m \in found : n <= m
      BY <1>3, Zenon DEF dma_find_channel
    <3>2. found \subseteq Nat BY DmaAssumption, Zenon
    <3>3. c \in found
      <4> HIDE DEF found, c
      <4>1. \E n \in found : \A m \in found : n <= m BY <3>1, <3>2, Least, Zenon
      <4> QED BY <3>1, <4>1, Zenon
    <3> HIDE DEF c
    <3> QED BY <3>3
  <2> HIDE DEF d, c
  <2>3. d.stream[c].mar = DR \/ d.stream[c].par = DR BY <1>1, <2>2
  <2>4. DmaOk(stm32_dma_stream_start_once(d, c, FALSE)) BY <1>0, <1>1, <2>2, <2>3, RequestOk, Zenon
  <2> QED BY <2>1, <2>4, Zenon
<1> QED BY <1>2, <1>3

-----------------------------------------------------------------------------
\* A reset.
LEMMA ResetOk ==
  ASSUME DmaOk(dma), stm32_dma_reset
  PROVE  DmaOk(dma')
<1> DEFINE d == Still  S == [n \in Streams |-> NoStream]  C == CR(NoStream)
<1>0. ~dma.ended /\ DmaTypes(dma) /\ Body(dma) BY DEF stm32_dma_reset, DmaOk
<1>1. DmaTypes(d) BY <1>0, StillSame, Zenon
<1>2. dma' = [d EXCEPT !.stream = S, !.chan = 0, !.accesses = <<>>, !.ccr = C]
  BY Zenon DEF stm32_dma_reset
<1>3. NoStream \in StreamType /\ ~NoStream.EN /\ ~NoStream.CIRC BY NoStreamType
<1>4. C \in CrType BY <1>3, CRType
<1>5. DOMAIN S = Streams /\ \A n \in Streams : S[n] = NoStream OBVIOUS
<1> HIDE DEF d, S, C
<1>6. DOMAIN d = DmaFields /\ d.timer \in BOOLEAN BY <1>1 DEF DmaTypes
<1>7. /\ DOMAIN dma' = DmaFields /\ dma'.stream = S /\ dma'.timer = d.timer
      /\ dma'.chan = 0 /\ dma'.accesses = <<>> /\ dma'.ccr = C
  BY <1>2, <1>6 DEF DmaFields
<1>8. DmaTypes(dma') BY <1>3, <1>4, <1>5, <1>6, <1>7 DEF DmaTypes
<1>9. \A n \in Streams : Inside(dma', n) BY <1>3, <1>5, <1>7, Zenon DEF Inside
<1> QED BY <1>7, <1>8, <1>9, Zenon DEF DmaOk, Body, Idle

\* The first accesses of a library call are all of them.
LEMMA RestAll ==
  ASSUME NEW n, NEW use
  PROVE  /\ Calls(n, use, Stops) = Rest(n, use, Stops, 1)
         /\ Calls(n, use, Starts) = Rest(n, use, Starts, 1)
<1>1. Len(Stops) = 6 /\ Len(Starts) = 7 BY DEF Stops, Starts
<1>2. ASSUME NEW regs, Len(regs) \in Nat PROVE Calls(n, use, regs) = Rest(n, use, regs, 1)
  <2>1. 1..Len(regs) = 1..(Len(regs) - 1 + 1) BY <1>2
  <2>2. \A i \in 1..Len(regs) : 1 + i - 1 = i OBVIOUS
  <2> QED BY <2>1, <2>2 DEF Calls, Rest
<1>3. Len(Stops) \in Nat /\ Len(Starts) \in Nat BY <1>1
<1> QED BY <1>2, <1>3, Zenon

\* The library call that comes next.
LEMMA CallsOk ==
  ASSUME DmaOk(dma), GuestCalls
  PROVE  DmaOk(dma')
<1> DEFINE d == Still
<1>0. ~dma.ended /\ DmaTypes(dma) /\ Body(dma) BY DEF GuestCalls, DmaOk
<1>1. /\ DmaTypes(d) /\ Body(d) /\ d.accesses = dma.accesses
  BY <1>0, StillSame, Zenon
<1>p. PICK n \in Streams :
           \E a : /\ dma' = [d EXCEPT !.accesses = a]
                  /\ a = DMA_DeInit(n) \/ \E use \in Uses : a = DMA_Start(n, use)
  BY Zenon DEF GuestCalls
<1>2. PICK a : /\ dma' = [d EXCEPT !.accesses = a]
               /\ a = DMA_DeInit(n) \/ \E use \in Uses : a = DMA_Start(n, use)
  BY <1>p, Zenon
<1>3. d.accesses = <<>> BY <1>1, Zenon DEF GuestCalls
<1> HIDE DEF d
<1>4. DOMAIN d = DmaFields BY <1>1 DEF DmaTypes
<1>5. /\ DOMAIN dma' = DmaFields /\ dma'.stream = d.stream /\ dma'.timer = d.timer
      /\ dma'.chan = d.chan /\ dma'.accesses = a /\ dma'.ccr = d.ccr
  BY <1>2, <1>4 DEF DmaFields
<1>6. DmaTypes(dma') BY <1>1, <1>5, Zenon DEF DmaTypes
<1>7. \A m \in Streams : Inside(dma', m)
  <2>1. \A m \in Streams : Inside(d, m)
    <3>1. CASE Idle(d) BY <3>1 DEF Idle
    <3>2. ASSUME NEW m \in Streams, Busy(d, m) PROVE FALSE
      BY <1>3, <3>2, StageNonempty DEF Busy
    <3> QED BY <1>1, <3>1, <3>2, Zenon DEF Body
  <2> QED BY <1>5, <2>1, InsideKept
<1>8. Stage(dma', n)
  <2>1. CASE a = DMA_DeInit(n)
    <3>1. a = Rest(n, NoStream, Stops, 1) BY <2>1, RestAll, Zenon DEF DMA_DeInit, Stops
    <3>2. 1 \in 1..6 /\ ~(1 >= 4) OBVIOUS
    <3>3. Stopping(dma', n, 1) BY <1>5, <3>1, <3>2, Zenon DEF Stopping
    <3> QED BY <3>2, <3>3, Zenon DEF Stage
  <2>2. ASSUME NEW use \in Uses, a = DMA_Start(n, use) PROVE Stage(dma', n)
    <3>1. a = Rest(n, use, Starts, 1) BY <2>2, RestAll, Zenon DEF DMA_Start, Starts
    <3>2. 1 \in 1..7 /\ ~(1 >= 3) /\ ~(1 >= 4) /\ ~(1 >= 5) /\ ~(1 >= 6) /\ ~(1 >= 7) OBVIOUS
    <3>3. Starting(dma', n, use, 1) BY <1>5, <3>1, <3>2, Zenon DEF Starting, Ready
    <3> QED BY <3>2, <3>3, Zenon DEF Stage
  <2> QED BY <1>2, <2>1, <2>2
<1> QED BY <1>6, <1>7, <1>8, Zenon DEF DmaOk, Body, Busy

-----------------------------------------------------------------------------
\* An access of the library, and its write of CCR.
AccessTo(d, n, use, reg) == Access(d, [n |-> n, use |-> use, reg |-> reg])
Back(d, n, cr) == [WriteCR(d, n, cr) EXCEPT !.ccr = CR(NoStream)]
Fetch(d, n) == [d EXCEPT !.ccr = CR(d.stream[n])]
Configuration(d, use) == [CR(Store(NoStream, use)) EXCEPT !.EN = d.ccr.EN]
Switched(cr, on) == [cr EXCEPT !.EN = on]

\* Which access is which.
LEMMA AccessIs ==
  ASSUME NEW d, NEW n, NEW use
  PROVE  /\ AccessTo(d, n, use, "CR read") = Fetch(d, n)
         /\ AccessTo(d, n, use, "CR configure") = Back(d, n, Configuration(d, use))
         /\ AccessTo(d, n, use, "CR clear") = Back(d, n, CR(NoStream))
         /\ AccessTo(d, n, use, "CR disable") = Back(d, n, Switched(d.ccr, FALSE))
         /\ AccessTo(d, n, use, "CR enable") = Back(d, n, Switched(d.ccr, TRUE))
         /\ AccessTo(d, n, use, "NDTR") = WriteNDTR(d, n, use.ndtr)
         /\ AccessTo(d, n, use, "PAR") = WritePAR(d, n, use.par)
         /\ AccessTo(d, n, use, "MAR") = WriteMAR(d, n, use.mar)
BY DEF Access, AccessTo, Back, Fetch, Configuration, Switched

\* Storing CCR.
LEMMA StoreType ==
  ASSUME NEW s \in StreamType, NEW cr \in CrType
  PROVE  LET t == Store(s, cr) IN
         /\ t \in StreamType /\ \A f \in CrFields : t[f] = cr[f]
         /\ t.ndtr = s.ndtr /\ t.par = s.par /\ t.mar = s.mar /\ t.circular_ndtr = s.circular_ndtr
         /\ t.circular_par = s.circular_par /\ t.circular_mar = s.circular_mar
<1> DEFINE t == Store(s, cr)
<1>1. DOMAIN cr = CrFields BY DEF CrType, CrFields
<1>2. DOMAIN s = CrFields \cup {"ndtr", "par", "mar",
                            "circular_ndtr", "circular_par", "circular_mar"}
  BY DEF StreamType, CrFields
<1>3. t = [f \in DOMAIN s |-> IF f \in CrFields THEN cr[f] ELSE s[f]]
  BY <1>1, Zenon DEF Store
<1> HIDE DEF t
<1>4. \A f \in CrFields : t[f] = cr[f] BY <1>2, <1>3, Zenon
<1>5. /\ t.ndtr = s.ndtr /\ t.par = s.par /\ t.mar = s.mar /\ t.circular_ndtr = s.circular_ndtr
      /\ t.circular_par = s.circular_par /\ t.circular_mar = s.circular_mar
  BY <1>2, <1>3 DEF CrFields
<1>6. t \in StreamType
  BY <1>2, <1>3 DEF StreamType, CrType, CrFields
<1> QED BY <1>4, <1>5, <1>6, Zenon DEF t

\* What an access to channel n leaves alone, if the emulator goes on.
Elsewhere(d, a, n) ==
  /\ a.accesses = d.accesses
  /\ \A m \in Streams \ {n} : a.stream[m] = d.stream[m]
  /\ \A m \in Streams \ {n} : d.chan = m /\ d.timer => a.chan = m /\ a.timer

\* a is what a write of CCR leaves.
CcrWritten(d, n, cr, a) ==
  \/ a.ended = TRUE /\ DOMAIN a = DmaFields
  \/ /\ DmaTypes(a) /\ Elsewhere(d, a, n)
     /\ \A f \in CrFields : a.stream[n][f] = cr[f]
     /\ ~d.stream[n].EN /\ cr.EN /\ ~cr.MEM2MEM =>
          /\ a.stream[n] = Store(d.stream[n], cr)
          /\ cr.CIRC => a.chan = n /\ a.timer

\* A write of CCR.
LEMMA CRWrite ==
  ASSUME NEW d, DmaTypes(d), ~d.ended, NEW n \in Streams, NEW cr \in CrType
  PROVE  CcrWritten(d, n, cr, Back(d, n, cr))
<1> DEFINE s == d.stream[n]  rises == ~s.EN /\ cr.EN
           w == stm32_dma_stream_start_whole(d, n)
           g == [d EXCEPT !.ended = TRUE]
           h == [d EXCEPT !.chan = n, !.timer = TRUE]
           b == IF rises /\ cr.MEM2MEM THEN w
                ELSE IF rises /\ cr.CIRC THEN IF cr.DIR \/ d.chan # 0 THEN g ELSE h
                ELSE d
           C == CR(NoStream)
           t == Store(b.stream[n], cr)
           a == Back(d, n, cr)
<1>1. WriteCR(d, n, cr) = [b EXCEPT !.stream[n] = t] BY Zenon DEF WriteCR
<1>2. a = [b EXCEPT !.stream = [b.stream EXCEPT ![n] = t], !.ccr = C] BY <1>1 DEF Back
<1>3. DmaTypes(w) /\ Keeps(d, w, n) BY WholeKeeps, Zenon
<1>4. C \in CrType BY NoStreamType, CRType, Zenon
<1>5. DOMAIN d = DmaFields BY DEF DmaTypes
<1> HIDE DEF w, C, a
<1>6. g.ended = TRUE /\ DOMAIN g = DmaFields BY <1>5 DEF DmaFields
<1>7. /\ h.stream = d.stream /\ h.chan = n /\ h.timer = TRUE /\ h.accesses = d.accesses
      /\ h.ccr = d.ccr /\ DOMAIN h = DmaFields
  BY <1>5 DEF DmaFields
<1> HIDE DEF g, h
<1>8. DmaTypes(h) BY <1>7, Zenon DEF DmaTypes
<1>9. CASE b = g
  <2> HIDE DEF b, t
  <2>1. a.ended = TRUE /\ DOMAIN a = DmaFields BY <1>2, <1>6, <1>9 DEF DmaFields
  <2> QED BY <2>1 DEF a, CcrWritten
<1>10. CASE b # g
  <2>1. /\ DmaTypes(b) /\ b.accesses = d.accesses
        /\ \A m \in Streams \ {n} : b.stream[m] = d.stream[m]
        /\ \A m \in Streams \ {n} : d.chan = m /\ d.timer => b.chan = m /\ b.timer
        /\ rises /\ ~cr.MEM2MEM => b.stream[n] = d.stream[n] /\ (cr.CIRC => b.chan = n /\ b.timer)
    <3>1. CASE rises /\ cr.MEM2MEM
      <4>1. b = w BY <3>1
      <4> HIDE DEF b
      <4> QED BY <1>3, <3>1, <4>1, Zenon DEF Keeps
    <3>2. CASE rises /\ ~cr.MEM2MEM /\ cr.CIRC
      <4>1. b = h /\ d.chan = 0 BY <1>10, <3>2, Zenon
      <4>2. \A m \in Streams : m # 0 BY DmaAssumption
      <4> HIDE DEF b
      <4> QED BY <1>7, <1>8, <4>1, <4>2, Zenon
    <3>3. CASE ~(rises /\ cr.MEM2MEM) /\ ~(rises /\ cr.CIRC)
      <4>1. b = d BY <3>3, Zenon
      <4> HIDE DEF b
      <4> QED BY <3>3, <4>1, Zenon
    <3> HIDE DEF b
    <3> QED BY <3>1, <3>2, <3>3, Zenon
  <2> HIDE DEF b
  <2>2. b.stream[n] \in StreamType /\ DOMAIN b.stream = Streams /\ DOMAIN b = DmaFields
    BY <2>1 DEF DmaTypes
  <2>3. t \in StreamType /\ \A f \in CrFields : t[f] = cr[f]
    BY <2>2, StoreType, Zenon
  <2> DEFINE S == [b.stream EXCEPT ![n] = t]
  <2>t. rises /\ ~cr.MEM2MEM => t = Store(d.stream[n], cr) BY <2>1, Zenon
  <2> HIDE DEF t
  <2>4. DOMAIN S = Streams /\ S[n] = t /\ \A m \in Streams \ {n} : S[m] = b.stream[m]
    BY <2>2
  <2>5. a = [b EXCEPT !.stream = S, !.ccr = C] BY <1>2
  <2> HIDE DEF S
  <2>6. /\ DOMAIN a = DmaFields /\ a.stream = S /\ a.ccr = C /\ a.chan = b.chan
        /\ a.timer = b.timer /\ a.accesses = b.accesses
    BY <2>2, <2>5 DEF DmaFields
  <2>7. \A m \in Streams : S[m] \in StreamType BY <2>1, <2>3, <2>4, Zenon DEF DmaTypes
  <2>8. DmaTypes(a) BY <1>4, <2>1, <2>4, <2>6, <2>7, Zenon DEF DmaTypes
  <2>9. Elsewhere(d, a, n) BY <2>1, <2>4, <2>6, Zenon DEF Elsewhere
  <2> QED BY <2>1, <2>3, <2>4, <2>6, <2>8, <2>9, <2>t, Zenon DEF rises, s, a, CcrWritten
<1> QED BY <1>9, <1>10

\* a is what the write of another register leaves, t the channel.
Updated(d, n, t, a) == DmaTypes(a) /\ Elsewhere(d, a, n) /\ a.stream[n] = t
Replaced(d, n, t) == [d EXCEPT !.stream = [d.stream EXCEPT ![n] = t]]

\* A write of one of the other registers of a channel.
LEMMA FieldWrite ==
  ASSUME NEW d, DmaTypes(d), NEW n \in Streams, NEW t \in StreamType
  PROVE  Updated(d, n, t, Replaced(d, n, t))
<1> DEFINE S == [d.stream EXCEPT ![n] = t]  a == Replaced(d, n, t)
<1>1. DOMAIN S = Streams /\ S[n] = t /\ \A m \in Streams \ {n} : S[m] = d.stream[m]
  BY DEF DmaTypes
<1>2. a = [d EXCEPT !.stream = S] /\ DOMAIN d = DmaFields BY DEF DmaTypes, Replaced
<1> HIDE DEF S, a
<1>3. /\ DOMAIN a = DmaFields /\ a.stream = S /\ a.ccr = d.ccr /\ a.chan = d.chan
      /\ a.timer = d.timer /\ a.accesses = d.accesses
  BY <1>2 DEF DmaFields
<1>4. \A m \in Streams : S[m] \in StreamType BY <1>1, Zenon DEF DmaTypes
<1>5. DmaTypes(a) BY <1>1, <1>3, <1>4, Zenon DEF DmaTypes
<1>6. Elsewhere(d, a, n) BY <1>1, <1>3, Zenon DEF Elsewhere
<1> QED BY <1>1, <1>3, <1>5, <1>6, Zenon DEF a, Updated

\* The channel after a write of NDTR, PAR or MAR
Counted(s, v) == [s EXCEPT !.ndtr = v, !.circular_ndtr = v]
ParSet(s, v) == [s EXCEPT !.par = v, !.circular_par = v]
MarSet(s, v) == [s EXCEPT !.mar = v, !.circular_mar = v]

\* The three of them.
LEMMA RegisterWrites ==
  ASSUME NEW d, DmaTypes(d), NEW n \in Streams, NEW v \in Addresses
  PROVE  /\ d.stream[n].EN => LET a == WriteNDTR(d, n, v) IN a.ended = TRUE /\ DOMAIN a = DmaFields
         /\ ~d.stream[n].EN => Updated(d, n, Counted(d.stream[n], v), WriteNDTR(d, n, v))
         /\ Updated(d, n, ParSet(d.stream[n], v), WritePAR(d, n, v))
         /\ Updated(d, n, MarSet(d.stream[n], v), WriteMAR(d, n, v))
<1> DEFINE s == d.stream[n]
<1>0. s \in StreamType /\ DOMAIN d = DmaFields BY DEF DmaTypes
<1> DEFINE x == Counted(s, v)  y == ParSet(s, v)  z == MarSet(s, v)
<1>1. x \in StreamType BY <1>0, Zenon DEF StreamType, Counted
<1>2. y \in StreamType BY <1>0, Zenon DEF StreamType, ParSet
<1>3. z \in StreamType BY <1>0, Zenon DEF StreamType, MarSet
<1>n. DOMAIN d.stream = Streams BY DEF DmaTypes
<1>4. ~s.EN => WriteNDTR(d, n, v) = Replaced(d, n, x)
  BY <1>0, <1>n, Zenon DEF WriteNDTR, DmaFields, Replaced, Counted
<1>5. WritePAR(d, n, v) = Replaced(d, n, y)
  BY <1>0, <1>n, Zenon DEF WritePAR, DmaFields, Replaced, ParSet
<1>6. WriteMAR(d, n, v) = Replaced(d, n, z)
  BY <1>0, <1>n, Zenon DEF WriteMAR, DmaFields, Replaced, MarSet
<1>7. s.EN => LET a == WriteNDTR(d, n, v) IN a.ended = TRUE /\ DOMAIN a = DmaFields
  BY <1>0 DEF WriteNDTR, DmaFields
<1> HIDE DEF x, y, z
<1>8. Updated(d, n, x, Replaced(d, n, x))
  BY <1>1, FieldWrite, Zenon
<1>9. Updated(d, n, y, Replaced(d, n, y))
  BY <1>2, FieldWrite, Zenon
<1>10. Updated(d, n, z, Replaced(d, n, z))
  BY <1>3, FieldWrite, Zenon
<1> QED BY <1>4, <1>5, <1>6, <1>7, <1>8, <1>9, <1>10, Zenon DEF x, y, z

\* A read of CCR.
LEMMA CRRead ==
  ASSUME NEW d, DmaTypes(d), NEW n \in Streams
  PROVE  LET a == Fetch(d, n) IN
         DmaTypes(a) /\ Elsewhere(d, a, n) /\ a.stream = d.stream /\ a.ccr = CR(d.stream[n])
<1> DEFINE C == CR(d.stream[n])  a == Fetch(d, n)
<1>1. C \in CrType BY CRType DEF DmaTypes
<1>2. a = [d EXCEPT !.ccr = C] /\ DOMAIN d = DmaFields BY DEF DmaTypes, Fetch
<1> HIDE DEF C, a
<1>3. /\ DOMAIN a = DmaFields /\ a.stream = d.stream /\ a.ccr = C /\ a.chan = d.chan
      /\ a.timer = d.timer /\ a.accesses = d.accesses
  BY <1>2 DEF DmaFields
<1>5. DmaTypes(a) BY <1>1, <1>3, Zenon DEF DmaTypes
<1>6. Elsewhere(d, a, n) BY <1>3, Zenon DEF Elsewhere
<1> QED BY <1>3, <1>5, <1>6, Zenon DEF C, a

\* With the access made, the call is one access further.
Continues(d, a, n) ==
  \A b : b.stream = a.stream /\ b.accesses = Tail(d.accesses) /\ b.ccr = a.ccr => Stage(b, n)

\* After an access the call goes on, or it is done and the channel is in its
\* block.
LEMMA AccessDone ==
  ASSUME NEW d, NEW n \in Streams, \A m \in Streams \ {n} : Inside(d, m), NEW a, NEW e,
         e = [a EXCEPT !.accesses = Tail(@)], DOMAIN a = DmaFields,
         \/ a.ended = TRUE
         \/ /\ DmaTypes(a) /\ Elsewhere(d, a, n)
            /\ Continues(d, a, n) \/ (Tail(d.accesses) = <<>> /\ Inside(a, n))
  PROVE  DmaOk(e)
<1>1. /\ DOMAIN e = DmaFields /\ e.stream = a.stream /\ e.ccr = a.ccr /\ e.chan = a.chan
      /\ e.timer = a.timer /\ e.accesses = Tail(a.accesses) /\ e.ended = a.ended
  BY DEF DmaFields
<1>2. CASE a.ended = TRUE BY <1>1, <1>2 DEF DmaOk
<1>3. CASE DmaTypes(a) /\ Elsewhere(d, a, n)
           /\ (Continues(d, a, n) \/ (Tail(d.accesses) = <<>> /\ Inside(a, n)))
  <2>1. DmaTypes(e) BY <1>1, <1>3, Zenon DEF DmaTypes
  <2>2. e.accesses = Tail(d.accesses) BY <1>1, <1>3, Zenon DEF Elsewhere
  <2>3. ASSUME NEW m \in Streams, m # n PROVE Inside(e, m)
    <3>1. e.stream[m] = d.stream[m] /\ (d.chan = m /\ d.timer => e.chan = m /\ e.timer)
      BY <1>1, <1>3, <2>3, Zenon DEF Elsewhere
    <3>2. Inside(d, m) BY <2>3
    <3> QED BY <3>1, <3>2, InsideKept, ZenonT(60)
  <2>4. CASE Continues(d, a, n)
    <3>1. Stage(e, n) BY <1>1, <2>2, <2>4, Zenon DEF Continues
    <3> QED BY <2>1, <2>3, <3>1, Zenon DEF DmaOk, Body, Busy
  <2>5. CASE Tail(d.accesses) = <<>> /\ Inside(a, n)
    <3>1. Inside(e, n) BY <1>1, <2>5, Zenon DEF Inside
    <3> QED BY <2>1, <2>2, <2>3, <2>5, <3>1, Zenon DEF DmaOk, Body, Idle
  <2> QED BY <1>3, <2>4, <2>5
<1> QED BY <1>2, <1>3, Zenon

\* An access of DMA_DeInit.
LEMMA StopAccess ==
  ASSUME NEW d, DmaTypes(d), ~d.ended, NEW n \in Streams, \A m \in Streams \ {n} : Inside(d, m),
         NEW i \in 1..6, Stopping(d, n, i), NEW e,
         e = [Access(d, Head(d.accesses)) EXCEPT !.accesses = Tail(@)]
  PROVE  DmaOk(e)
<1> DEFINE u == NoStream
           A(reg) == AccessTo(d, n, u, reg)
           s == d.stream[n]
<1>0. /\ Stops[1] = "CR read" /\ Stops[2] = "CR disable" /\ Stops[3] = "CR clear"
      /\ Stops[4] = "NDTR" /\ Stops[5] = "PAR" /\ Stops[6] = "MAR"
  BY DEF Stops
<1>L. Len(Stops) = 6 BY DEF Stops
<1>1. /\ Head(d.accesses) = [n |-> n, use |-> u, reg |-> Stops[i]]
      /\ i < 6 => Tail(d.accesses) = Rest(n, u, Stops, i + 1)
      /\ i = 6 => Tail(d.accesses) = <<>>
  <2>1. i \in 1..Len(Stops) /\ Len(Stops) \in Nat BY <1>L
  <2>2. d.accesses = Rest(n, u, Stops, i) BY DEF Stopping
  <2>3. Upcoming(Rest(n, u, Stops, i), n, u, Stops, i)
    <3> HIDE DEF u
    <3> QED BY <2>1, RestSeq, Zenon
  <2> HIDE DEF u
  <2> QED BY <1>L, <2>2, <2>3, Zenon DEF Upcoming
<1>2. e = [A(Stops[i]) EXCEPT !.accesses = Tail(@)] BY <1>1, Zenon DEF AccessTo
<1>3. s \in StreamType /\ d.ccr \in CrType BY DEF DmaTypes
<1>4. u.ndtr \in Addresses /\ u.par \in Addresses /\ u.mar \in Addresses
  BY NoStreamType DEF StreamType
<1>5. i >= 4 => ~s.EN /\ ~s.CIRC BY DEF Stopping
<1> HIDE DEF A, u
<1>6. ASSUME NEW a, a = A(Stops[i]), i # 6, DOMAIN a = DmaFields,
             a.ended = TRUE \/ (DmaTypes(a) /\ Elsewhere(d, a, n)),
             a.ended = TRUE \/ (i >= 3 => ~a.stream[n].EN /\ ~a.stream[n].CIRC)
      PROVE  DmaOk(e)
  <2>1. e = [a EXCEPT !.accesses = Tail(@)] BY <1>2, <1>6, Zenon
  <2>2. CASE a.ended = TRUE BY <1>6, <2>1, <2>2, AccessDone, Zenon
  <2>3. CASE /\ DmaTypes(a) /\ Elsewhere(d, a, n)
             /\ (i >= 3 => ~a.stream[n].EN /\ ~a.stream[n].CIRC)
    <3>1. ASSUME NEW b, b.stream = a.stream, b.accesses = Tail(d.accesses), b.ccr = a.ccr
          PROVE  Stage(b, n)
      <4>1. i + 1 \in 1..6 /\ (i + 1 >= 4 => i >= 3) /\ i < 6 BY <1>6
      <4>2. Stopping(b, n, i + 1) BY <1>1, <2>3, <3>1, <4>1, Zenon DEF Stopping, u
      <4> QED BY <4>1, <4>2, Zenon DEF Stage
    <3>2. Continues(d, a, n) BY <3>1, Zenon DEF Continues
    <3>3. DmaTypes(a) /\ Elsewhere(d, a, n) /\ DOMAIN a = DmaFields BY <1>6, <2>3
    <3> QED BY <1>6, <2>1, <2>3, <3>2, <3>3, AccessDone, Zenon
  <2> QED BY <1>6, <2>2, <2>3, Zenon
<1>7. CASE i = 1
  <2> DEFINE a == A("CR read")
  <2>1. a = Fetch(d, n) BY AccessIs, ZenonT(60) DEF A
  <2>2. DmaTypes(a) /\ Elsewhere(d, a, n)
    <3> HIDE DEF a
    <3> QED BY <2>1, CRRead
  <2>3. a = A(Stops[i]) BY <1>0, <1>7, Zenon
  <2>4. i # 6 /\ ~(i >= 3) BY <1>7
  <2>5. DOMAIN a = DmaFields BY <2>2, Zenon DEF DmaTypes
  <2> HIDE DEF a
  <2> QED BY <1>6, <2>2, <2>3, <2>4, <2>5, Zenon
<1>8. CASE i = 2
  <2> DEFINE a == A("CR disable")  cr == Switched(d.ccr, FALSE)
  <2>1. a = Back(d, n, cr) BY AccessIs, Zenon DEF A
  <2>2. cr \in CrType BY <1>3, Zenon DEF CrType, Switched
  <2> HIDE DEF a, cr
  <2>3. (a.ended = TRUE /\ DOMAIN a = DmaFields) \/ (DmaTypes(a) /\ Elsewhere(d, a, n))
    <3>1. CcrWritten(d, n, cr, a) BY <2>1, <2>2, CRWrite, Zenon
    <3> QED BY <3>1, Zenon DEF CcrWritten
  <2>4. a = A(Stops[i]) BY <1>0, <1>8, Zenon DEF a
  <2>5. DOMAIN a = DmaFields BY <2>3, Zenon DEF DmaTypes
  <2>6. i # 6 /\ ~(i >= 3) BY <1>8
  <2> QED BY <1>6, <2>3, <2>4, <2>5, <2>6, Zenon
<1>9. CASE i = 3
  <2> DEFINE a == A("CR clear")  cr == CR(NoStream)
  <2>1. a = Back(d, n, cr) BY AccessIs, Zenon DEF A
  <2>2. cr \in CrType /\ ~cr.EN /\ ~cr.CIRC BY NoStreamType, CRType DEF CrFields
  <2> HIDE DEF a, cr
  <2>3. \/ a.ended = TRUE /\ DOMAIN a = DmaFields
        \/ DmaTypes(a) /\ Elsewhere(d, a, n) /\ \A f \in CrFields : a.stream[n][f] = cr[f]
    <3>1. CcrWritten(d, n, cr, a) BY <2>1, <2>2, CRWrite, Zenon
    <3> QED BY <3>1, Zenon DEF CcrWritten
  <2>4. a = A(Stops[i]) /\ i # 6
    <3>1. a = A(Stops[i]) BY <1>0, <1>9, Zenon DEF a
    <3> QED BY <1>9, <3>1
  <2>5. DOMAIN a = DmaFields BY <2>3 DEF DmaTypes
  <2>6. a.ended = TRUE \/ (/\ DmaTypes(a) /\ Elsewhere(d, a, n)
                          /\ ~a.stream[n].EN /\ ~a.stream[n].CIRC)
    BY <2>2, <2>3 DEF CrFields
  <2> QED BY <1>6, <2>4, <2>5, <2>6, Zenon
<1>10. ASSUME NEW a, a = A(Stops[i]), i >= 4, DmaTypes(a), Elsewhere(d, a, n),
              a.stream[n].EN = s.EN, a.stream[n].CIRC = s.CIRC
       PROVE  DmaOk(e)
  <2>1. ~a.stream[n].EN /\ ~a.stream[n].CIRC /\ DOMAIN a = DmaFields BY <1>5, <1>10 DEF DmaTypes
  <2>2. CASE i # 6 BY <1>6, <1>10, <2>1, <2>2, Zenon
  <2>3. CASE i = 6
    <3>1. Inside(a, n) BY <2>1, Zenon DEF Inside
    <3>2. e = [a EXCEPT !.accesses = Tail(@)] BY <1>2, <1>10, Zenon
    <3> QED BY <1>1, <1>10, <2>1, <2>3, <3>1, <3>2, AccessDone, Zenon
  <2> QED BY <2>2, <2>3
<1>11. CASE i = 4
  <2> DEFINE a == A("NDTR")
  <2>1. a = WriteNDTR(d, n, u.ndtr) BY AccessIs, Zenon DEF A
  <2>2. ~s.EN BY <1>5, <1>11
  <2>3. DmaTypes(a) /\ Elsewhere(d, a, n) /\ a.stream[n] = Counted(s, u.ndtr)
    <3> DEFINE v == u.ndtr
    <3>1. v \in Addresses BY <1>4
    <3> HIDE DEF v
    <3>2. Updated(d, n, Counted(s, v), WriteNDTR(d, n, v))
      BY <2>2, <3>1, RegisterWrites, Zenon
    <3> QED BY <2>1, <3>2, Zenon DEF v, Updated
  <2> HIDE DEF a
  <2>4. a.stream[n].EN = s.EN /\ a.stream[n].CIRC = s.CIRC BY <1>3, <2>3 DEF StreamType, Counted
  <2>5. a = A(Stops[i]) BY <1>0, <1>11, Zenon DEF a
  <2>6. i >= 4 BY <1>11
  <2> QED BY <1>10, <2>3, <2>4, <2>5, <2>6, Zenon
<1>12. CASE i = 5
  <2> DEFINE a == A("PAR")
  <2>1. a = WritePAR(d, n, u.par) BY AccessIs, Zenon DEF A
  <2>3. DmaTypes(a) /\ Elsewhere(d, a, n) /\ a.stream[n] = ParSet(s, u.par)
    <3> DEFINE v == u.par
    <3>1. v \in Addresses BY <1>4
    <3> HIDE DEF v
    <3>2. Updated(d, n, ParSet(s, v), WritePAR(d, n, v))
      BY <3>1, RegisterWrites, Zenon
    <3> QED BY <2>1, <3>2, Zenon DEF v, Updated
  <2> HIDE DEF a
  <2>4. a.stream[n].EN = s.EN /\ a.stream[n].CIRC = s.CIRC BY <1>3, <2>3 DEF StreamType, ParSet
  <2>5. a = A(Stops[i]) BY <1>0, <1>12, Zenon DEF a
  <2>6. i >= 4 BY <1>12
  <2> QED BY <1>10, <2>3, <2>4, <2>5, <2>6, Zenon
<1>13. CASE i = 6
  <2> DEFINE a == A("MAR")
  <2>1. a = WriteMAR(d, n, u.mar) BY AccessIs, Zenon DEF A
  <2>3. DmaTypes(a) /\ Elsewhere(d, a, n) /\ a.stream[n] = MarSet(s, u.mar)
    <3> DEFINE v == u.mar
    <3>1. v \in Addresses BY <1>4
    <3> HIDE DEF v
    <3>2. Updated(d, n, MarSet(s, v), WriteMAR(d, n, v))
      BY <3>1, RegisterWrites, Zenon
    <3> QED BY <2>1, <3>2, Zenon DEF v, Updated
  <2> HIDE DEF a
  <2>4. a.stream[n].EN = s.EN /\ a.stream[n].CIRC = s.CIRC BY <1>3, <2>3 DEF StreamType, MarSet
  <2>5. a = A(Stops[i]) BY <1>0, <1>13, Zenon DEF a
  <2>6. i >= 4 BY <1>13
  <2> QED BY <1>10, <2>3, <2>4, <2>5, <2>6, Zenon
<1> QED BY <1>7, <1>8, <1>9, <1>11, <1>12, <1>13

-----------------------------------------------------------------------------
\* The CCR that DMA_Init writes.
LEMMA ConfigurationIs ==
  ASSUME NEW d, DmaTypes(d), NEW use \in Uses
  PROVE  /\ Configuration(d, use) \in CrType
         /\ \A f \in CrFields \ {"EN"} : Configuration(d, use)[f] = use[f]
<1> DEFINE N == NoStream
           t == Store(N, use)
<1>1. use \in [DIR: BOOLEAN, CIRC: BOOLEAN, PINC: BOOLEAN, MINC: BOOLEAN, MEM2MEM: BOOLEAN,
               psize: 0..3, msize: 0..3, ndtr: 1..(AddressWord - 1),
               par: Addresses, mar: Addresses]
  BY DmaAssumption
<1>2. DOMAIN use = {"DIR", "CIRC", "PINC", "MINC", "MEM2MEM", "psize", "msize",
                   "ndtr", "par", "mar"}
  BY <1>1
<1>3. DOMAIN N = CrFields \cup {"ndtr", "par", "mar",
                            "circular_ndtr", "circular_par", "circular_mar"}
  BY DEF NoStream, CrFields
<1>4. t = [f \in DOMAIN N |-> IF f \in DOMAIN use THEN use[f] ELSE N[f]] BY Zenon DEF Store
<1>5. d.ccr.EN \in BOOLEAN BY DEF DmaTypes, CrType
<1> HIDE DEF N, t
<1>6. /\ t.DIR = use.DIR /\ t.CIRC = use.CIRC /\ t.PINC = use.PINC /\ t.MINC = use.MINC
      /\ t.MEM2MEM = use.MEM2MEM /\ t.psize = use.psize /\ t.msize = use.msize
  BY <1>2, <1>3, <1>4 DEF CrFields
<1> DEFINE c == Configuration(d, use)  e == d.ccr.EN
<1>7. c = [CR(t) EXCEPT !.EN = e] BY Zenon DEF Configuration, t, N
<1>8. c = [[f \in CrFields |-> t[f]] EXCEPT !.EN = e] BY <1>7, Zenon DEF CR, CrFields
<1> HIDE DEF c, e
<1>9. /\ DOMAIN c = CrFields /\ c.EN = e /\ c.DIR = use.DIR /\ c.CIRC = use.CIRC
      /\ c.PINC = use.PINC /\ c.MINC = use.MINC /\ c.MEM2MEM = use.MEM2MEM
      /\ c.psize = use.psize /\ c.msize = use.msize
  BY <1>6, <1>8 DEF CrFields
<1>10. c = [f \in CrFields |-> c[f]] BY <1>8
<1>11. c \in CrType BY <1>1, <1>5, <1>9, <1>10 DEF CrType, CrFields, e
<1>12. \A f \in CrFields \ {"EN"} : c[f] = use[f] BY <1>9 DEF CrFields
<1> QED BY <1>11, <1>12, Zenon DEF c

\* A channel that is enabled after it was programmed is at the start of its
\* block.
LEMMA EnabledInside ==
  ASSUME NEW s \in StreamType, NEW use \in Uses, Configured(s, use),
         s.ndtr = use.ndtr, s.circular_ndtr = use.ndtr, s.par = use.par, s.circular_par = use.par,
         s.mar = use.mar, s.circular_mar = use.mar
  PROVE  InBlock(s)
<1>1. use.ndtr \in 1..(AddressWord - 1) /\ use.par \in Addresses /\ use.mar \in Addresses
  BY DmaAssumption
<1>2. s.ndtr \in 1..s.circular_ndtr /\ s.circular_ndtr - s.ndtr = 0 BY <1>1
<1>3. msize(s) \in Int /\ psize(s) \in Int
  <2>1. s.msize \in 0..3 /\ s.psize \in 0..3 BY DEF StreamType
  <2>2. msize_table[s.msize + 1] \in 0..2 /\ msize_table[s.psize + 1] \in 0..2
    BY <2>1, Sizes
  <2> QED BY <2>2 DEF msize, psize
<1>4. Plus(s.mar, 0) = s.mar /\ Plus(s.par, 0) = s.par BY PlusZero DEF StreamType
<1>5. 0 * msize(s) = 0 /\ 0 * psize(s) = 0 BY <1>3
<1>6. At(s, 0) BY <1>4, <1>5, Zenon DEF At
<1> QED BY <1>2, <1>6, Zenon DEF InBlock

\* An access of DMA_Init or DMA_Cmd.
LEMMA StartAccess ==
  ASSUME NEW d, DmaTypes(d), ~d.ended, NEW n \in Streams, \A m \in Streams \ {n} : Inside(d, m),
         NEW u \in Uses, NEW i \in 1..7, Starting(d, n, u, i), NEW e,
         e = [Access(d, Head(d.accesses)) EXCEPT !.accesses = Tail(@)]
  PROVE  DmaOk(e)
<1> DEFINE A(reg) == AccessTo(d, n, u, reg)
           s == d.stream[n]
<1>0. /\ Starts[1] = "CR read" /\ Starts[2] = "CR configure" /\ Starts[3] = "NDTR"
      /\ Starts[4] = "PAR" /\ Starts[5] = "MAR" /\ Starts[6] = "CR read" /\ Starts[7] = "CR enable"
  BY DEF Starts
<1>L. Len(Starts) = 7 BY DEF Starts
<1>1. /\ Head(d.accesses) = [n |-> n, use |-> u, reg |-> Starts[i]]
      /\ i < 7 => Tail(d.accesses) = Rest(n, u, Starts, i + 1)
      /\ i = 7 => Tail(d.accesses) = <<>>
  <2>1. i \in 1..Len(Starts) /\ Len(Starts) \in Nat BY <1>L
  <2>2. d.accesses = Rest(n, u, Starts, i) BY DEF Starting, Ready
  <2>3. Upcoming(Rest(n, u, Starts, i), n, u, Starts, i) BY <2>1, RestSeq, Zenon
  <2> QED BY <1>L, <2>2, <2>3, Zenon DEF Upcoming
<1>2. e = [A(Starts[i]) EXCEPT !.accesses = Tail(@)] BY <1>1, Zenon DEF AccessTo
<1>3. s \in StreamType /\ d.ccr \in CrType BY DEF DmaTypes
<1>4. u.ndtr \in Addresses /\ u.par \in Addresses /\ u.mar \in Addresses
  BY DmaAssumption DEF Addresses
<1>5. Ready(d, n, u, i) BY DEF Starting, Ready
<1> HIDE DEF A
<1>6. ASSUME NEW a, a = A(Starts[i]), i # 7, DOMAIN a = DmaFields,
             a.ended = TRUE \/ (DmaTypes(a) /\ Elsewhere(d, a, n)),
             a.ended = TRUE \/ Ready(a, n, u, i + 1)
      PROVE  DmaOk(e)
  <2>1. e = [a EXCEPT !.accesses = Tail(@)] BY <1>2, <1>6, Zenon
  <2>2. CASE a.ended = TRUE BY <1>6, <2>1, <2>2, AccessDone, Zenon
  <2>3. CASE DmaTypes(a) /\ Elsewhere(d, a, n) /\ Ready(a, n, u, i + 1)
    <3>1. ASSUME NEW b, b.stream = a.stream, b.accesses = Tail(d.accesses), b.ccr = a.ccr
          PROVE  Stage(b, n)
      <4>1. i + 1 \in 1..7 /\ i < 7 BY <1>6
      <4>2. Starting(b, n, u, i + 1) BY <1>1, <2>3, <3>1, <4>1, Zenon DEF Starting, Ready
      <4> QED BY <4>1, <4>2, Zenon DEF Stage
    <3>2. Continues(d, a, n) BY <3>1, Zenon DEF Continues
    <3>3. DmaTypes(a) /\ Elsewhere(d, a, n) /\ DOMAIN a = DmaFields BY <1>6, <2>3
    <3> QED BY <1>6, <2>1, <2>3, <3>2, <3>3, AccessDone, Zenon
  <2> QED BY <1>6, <2>2, <2>3, Zenon
<1>7. CASE i = 1
  <2> DEFINE a == A("CR read")
  <2>1. a = Fetch(d, n) BY AccessIs, ZenonT(60) DEF A
  <2>2. DmaTypes(a) /\ Elsewhere(d, a, n)
    <3> HIDE DEF a
    <3> QED BY <2>1, CRRead
  <2>3. a = A(Starts[i]) BY <1>0, <1>7, Zenon
  <2>4. i # 7 BY <1>7
  <2>5. DOMAIN a = DmaFields BY <2>2, Zenon DEF DmaTypes
  <2> HIDE DEF a
  <2>6. Ready(a, n, u, i + 1) BY <1>7 DEF Ready
  <2> QED BY <1>6, <2>2, <2>3, <2>4, <2>5, <2>6, Zenon
<1>8. CASE i = 2
  <2> DEFINE a == A("CR configure")  cr == Configuration(d, u)
  <2>1. a = Back(d, n, cr) BY AccessIs, ZenonT(60) DEF A
  <2>2. cr \in CrType /\ \A f \in CrFields \ {"EN"} : cr[f] = u[f] BY ConfigurationIs, Zenon
  <2> HIDE DEF a, cr
  <2>3. \/ a.ended = TRUE /\ DOMAIN a = DmaFields
        \/ DmaTypes(a) /\ Elsewhere(d, a, n) /\ \A f \in CrFields : a.stream[n][f] = cr[f]
    <3>1. CcrWritten(d, n, cr, a) BY <2>1, <2>2, CRWrite, Zenon
    <3> QED BY <3>1, Zenon DEF CcrWritten
  <2>4. a = A(Starts[i]) BY <1>0, <1>8, Zenon DEF a
  <2>5. DOMAIN a = DmaFields BY <2>3, Zenon DEF DmaTypes
  <2>6. i # 7 /\ ~(i + 1 >= 4) /\ ~(i + 1 >= 5) /\ ~(i + 1 >= 6) /\ ~(i + 1 >= 7) BY <1>8
  <2>7. a.ended = TRUE \/ Configured(a.stream[n], u) BY <2>2, <2>3, Zenon DEF Configured
  <2>8. a.ended = TRUE \/ Ready(a, n, u, i + 1) BY <2>6, <2>7, Zenon DEF Ready
  <2> QED BY <1>6, <2>3, <2>4, <2>5, <2>6, <2>8, Zenon
<1>9. CASE i = 3
  <2> DEFINE a == A("NDTR")  v == u.ndtr  t == Counted(s, v)
  <2>1. a = WriteNDTR(d, n, v) BY AccessIs, ZenonT(60) DEF A
  <2>2. v \in Addresses BY <1>4
  <2>3. a = A(Starts[i]) BY <1>0, <1>9, Zenon
  <2>4. i # 7 BY <1>9
  <2>5. Configured(s, u) BY <1>5, <1>9 DEF Ready
  <2>6. /\ t.ndtr = v /\ t.circular_ndtr = v /\ t.EN = s.EN
        /\ \A f \in CrFields : t[f] = s[f]
    BY <1>3 DEF Counted, StreamType, CrFields
  <2> HIDE DEF a, v, t
  <2>7. CASE s.EN
    <3>1. a.ended = TRUE /\ DOMAIN a = DmaFields BY <2>1, <2>2, <2>7, RegisterWrites, Zenon
    <3> QED BY <1>6, <2>3, <2>4, <3>1, Zenon
  <2>8. CASE ~s.EN
    <3>1. Updated(d, n, t, a) BY <2>1, <2>2, <2>8, RegisterWrites, Zenon DEF t
    <3>2. DmaTypes(a) /\ Elsewhere(d, a, n) /\ a.stream[n] = t BY <3>1, Zenon DEF Updated
    <3>3. Configured(t, u) BY <2>5, <2>6, Zenon DEF Configured
    <3>4. ~(i + 1 >= 5) /\ ~(i + 1 >= 6) /\ ~(i + 1 >= 7) BY <1>9
    <3>5. Ready(a, n, u, i + 1) BY <2>6, <2>8, <3>2, <3>3, <3>4, Zenon DEF Ready, v
    <3>6. DOMAIN a = DmaFields BY <3>2, Zenon DEF DmaTypes
    <3> QED BY <1>6, <2>3, <2>4, <3>2, <3>5, <3>6, Zenon
  <2> QED BY <2>7, <2>8
<1>10. CASE i = 4
  <2> DEFINE a == A("PAR")  v == u.par  t == ParSet(s, v)
  <2>1. a = WritePAR(d, n, v) BY AccessIs, Zenon DEF A
  <2>2. v \in Addresses BY <1>4
  <2>3. a = A(Starts[i]) BY <1>0, <1>10, Zenon
  <2>4. i # 7 BY <1>10
  <2>5. Configured(s, u) /\ ~s.EN /\ s.ndtr = u.ndtr /\ s.circular_ndtr = u.ndtr
    BY <1>5, <1>10 DEF Ready
  <2>6. /\ t.par = v /\ t.circular_par = v /\ t.EN = s.EN
        /\ t.ndtr = s.ndtr /\ t.circular_ndtr = s.circular_ndtr
        /\ \A f \in CrFields : t[f] = s[f]
    BY <1>3 DEF ParSet, StreamType, CrFields
  <2> HIDE DEF a, v, t
  <2>7. Updated(d, n, t, a) BY <2>1, <2>2, RegisterWrites, Zenon DEF t
  <2>8. DmaTypes(a) /\ Elsewhere(d, a, n) /\ a.stream[n] = t BY <2>7, Zenon DEF Updated
  <2>9. Configured(t, u) BY <2>5, <2>6, Zenon DEF Configured
  <2>10. ~(i + 1 >= 6) /\ ~(i + 1 >= 7) BY <1>10
  <2>11. Ready(a, n, u, i + 1) BY <2>5, <2>6, <2>8, <2>9, <2>10, Zenon DEF Ready, v
  <2>12. DOMAIN a = DmaFields BY <2>8, Zenon DEF DmaTypes
  <2> QED BY <1>6, <2>3, <2>4, <2>8, <2>11, <2>12, Zenon
<1>11. CASE i = 5
  <2> DEFINE a == A("MAR")  v == u.mar  t == MarSet(s, v)
  <2>1. a = WriteMAR(d, n, v) BY AccessIs, Zenon DEF A
  <2>2. v \in Addresses BY <1>4
  <2>3. a = A(Starts[i]) BY <1>0, <1>11, Zenon
  <2>4. i # 7 BY <1>11
  <2>5. /\ Configured(s, u) /\ ~s.EN /\ s.ndtr = u.ndtr /\ s.circular_ndtr = u.ndtr
        /\ s.par = u.par /\ s.circular_par = u.par
    BY <1>5, <1>11 DEF Ready
  <2>6. /\ t.mar = v /\ t.circular_mar = v /\ t.EN = s.EN
        /\ t.ndtr = s.ndtr /\ t.circular_ndtr = s.circular_ndtr
        /\ t.par = s.par /\ t.circular_par = s.circular_par
        /\ \A f \in CrFields : t[f] = s[f]
    BY <1>3 DEF MarSet, StreamType, CrFields
  <2> HIDE DEF a, v, t
  <2>7. Updated(d, n, t, a) BY <2>1, <2>2, RegisterWrites, Zenon DEF t
  <2>8. DmaTypes(a) /\ Elsewhere(d, a, n) /\ a.stream[n] = t BY <2>7, Zenon DEF Updated
  <2>9. Configured(t, u) BY <2>5, <2>6, Zenon DEF Configured
  <2>10. ~(i + 1 >= 7) BY <1>11
  <2>11. Ready(a, n, u, i + 1) BY <2>5, <2>6, <2>8, <2>9, <2>10, Zenon DEF Ready, v
  <2>12. DOMAIN a = DmaFields BY <2>8, Zenon DEF DmaTypes
  <2> QED BY <1>6, <2>3, <2>4, <2>8, <2>11, <2>12, Zenon
<1>12. CASE i = 6
  <2> DEFINE a == A("CR read")
  <2>1. a = Fetch(d, n) BY AccessIs, ZenonT(60) DEF A
  <2>2. a = A(Starts[i]) BY <1>0, <1>12, Zenon
  <2>3. i # 7 BY <1>12
  <2> HIDE DEF a
  <2>4. DmaTypes(a) /\ Elsewhere(d, a, n) /\ a.stream = d.stream /\ a.ccr = CR(s)
    BY <2>1, CRRead
  <2>5. DOMAIN a = DmaFields BY <2>4, Zenon DEF DmaTypes
  <2>6. i >= 3 /\ i >= 4 /\ i >= 5 /\ i >= 6 BY <1>12
  <2>7. Ready(a, n, u, i + 1) BY <1>5, <2>4, <2>6, Zenon DEF Ready
  <2> QED BY <1>6, <2>2, <2>3, <2>4, <2>5, <2>7, Zenon
<1>13. CASE i = 7
  <2> DEFINE a == A("CR enable")  cr == Switched(d.ccr, TRUE)  t == Store(s, cr)
  <2>1. a = Back(d, n, cr) BY AccessIs, Zenon DEF A
  <2>2. cr \in CrType /\ cr.EN /\ \A f \in CrFields \ {"EN"} : cr[f] = d.ccr[f]
    BY <1>3, Zenon DEF CrType, Switched, CrFields
  <2>3. a = A(Starts[i]) BY <1>0, <1>13, Zenon
  <2> HIDE DEF a, cr
  <2>4. e = [a EXCEPT !.accesses = Tail(@)] BY <1>2, <2>3, Zenon
  <2>5. Tail(d.accesses) = <<>> BY <1>1, <1>13
  <2>6. i >= 3 /\ i >= 4 /\ i >= 5 /\ i >= 6 /\ i >= 7 BY <1>13
  <2>7. /\ Configured(s, u) /\ ~s.EN /\ s.ndtr = u.ndtr /\ s.circular_ndtr = u.ndtr
        /\ s.par = u.par /\ s.circular_par = u.par /\ s.mar = u.mar /\ s.circular_mar = u.mar
        /\ d.ccr = CR(s)
    BY <1>5, <2>6, Zenon DEF Ready
  <2>8. \A f \in CrFields : d.ccr[f] = s[f] BY <1>3, <2>7, CRType, Zenon
  <2>9. Configured(cr, u) BY <2>2, <2>7, <2>8, ZenonT(60) DEF Configured
  <2>10. /\ t \in StreamType /\ \A f \in CrFields : t[f] = cr[f]
         /\ t.ndtr = s.ndtr /\ t.par = s.par /\ t.mar = s.mar /\ t.circular_ndtr = s.circular_ndtr
         /\ t.circular_par = s.circular_par /\ t.circular_mar = s.circular_mar
    BY <1>3, <2>2, StoreType
  <2> HIDE DEF t
  <2>11. Configured(t, u) BY <2>9, <2>10, Zenon DEF Configured
  <2>12. InBlock(t) BY <2>7, <2>10, <2>11, EnabledInside, SMTT(60)
  <2>13. CcrWritten(d, n, cr, a) BY <2>1, <2>2, CRWrite, Zenon
  <2>14. CASE a.ended = TRUE /\ DOMAIN a = DmaFields BY <2>4, <2>14, AccessDone, Zenon
  <2>15. CASE /\ DmaTypes(a) /\ Elsewhere(d, a, n)
              /\ \A f \in CrFields : a.stream[n][f] = cr[f]
              /\ (~s.EN /\ cr.EN /\ ~cr.MEM2MEM =>
                     a.stream[n] = t /\ (cr.CIRC => a.chan = n /\ a.timer))
    <3>1. a.stream[n].EN /\ a.stream[n].MEM2MEM = cr.MEM2MEM /\ t.CIRC = cr.CIRC
      BY <2>2, <2>10, <2>15 DEF CrFields
    <3>2. Inside(a, n) BY <2>2, <2>7, <2>12, <2>15, <3>1, Zenon DEF Inside
    <3>3. DOMAIN a = DmaFields BY <2>15, Zenon DEF DmaTypes
    <3> QED BY <2>4, <2>5, <2>15, <3>2, <3>3, AccessDone, ZenonT(60)
  <2> QED BY <2>13, <2>14, <2>15, Zenon DEF CcrWritten, t
<1> QED BY <1>7, <1>8, <1>9, <1>10, <1>11, <1>12, <1>13, SMTT(60)

\* An access, whichever.
LEMMA AccessesOk ==
  ASSUME DmaOk(dma), GuestAccess
  PROVE  DmaOk(dma')
<1> DEFINE d == Still
<1>0. ~dma.ended /\ DmaTypes(dma) /\ Body(dma) BY DEF GuestAccess, DmaOk
<1>1. DmaTypes(d) /\ Body(d) /\ d.accesses = dma.accesses /\ d.ended = dma.ended
  BY <1>0, StillSame, Zenon
<1>2. d.accesses # <<>> BY <1>1, Zenon DEF GuestAccess
<1>3. dma' = [Access(d, Head(d.accesses)) EXCEPT !.accesses = Tail(@)]
  BY <1>1, Zenon DEF GuestAccess
<1> HIDE DEF d
<1>4. ~d.ended BY <1>0, <1>1
<1>5. PICK n \in Streams : Busy(d, n) BY <1>1, <1>2, Zenon DEF Body, Idle
<1>6. Stage(d, n) /\ \A m \in Streams \ {n} : Inside(d, m) BY <1>5, SMTT(60) DEF Busy
<1>7. ASSUME NEW i \in 1..6, Stopping(d, n, i) PROVE DmaOk(dma')
  BY <1>1, <1>3, <1>4, <1>6, <1>7, StopAccess, Zenon
<1>8. ASSUME NEW use \in Uses, NEW i \in 1..7, Starting(d, n, use, i) PROVE DmaOk(dma')
  BY <1>1, <1>3, <1>4, <1>6, <1>8, StartAccess, Zenon
<1> QED BY <1>6, <1>7, <1>8, Zenon DEF Stage

-----------------------------------------------------------------------------
\* No channel is enabled when the emulator starts.
LEMMA DmaInitOk ==
  ASSUME DmaInit PROVE DmaOk(dma)
<1> DEFINE S == [n \in Streams |-> NoStream]  C == CR(NoStream)
<1>1. NoStream \in StreamType /\ ~NoStream.EN /\ ~NoStream.CIRC BY NoStreamType
<1>2. C \in CrType BY <1>1, CRType
<1>3. DOMAIN S = Streams /\ \A n \in Streams : S[n] = NoStream OBVIOUS
<1>4. /\ DOMAIN dma = DmaFields /\ dma.stream = S /\ dma.timer = FALSE
      /\ dma.chan = 0 /\ dma.accesses = <<>> /\ dma.ccr = C
  <2> HIDE DEF S, C
  <2>1. dma = [stream |-> S, chan |-> 0, timer |-> FALSE, isr |-> {},
               from |-> [a \in Addresses |-> a], accesses |-> <<>>, ccr |-> C, ended |-> FALSE]
    BY Zenon DEF DmaInit, S, C
  <2> QED BY <2>1 DEF DmaFields
<1> HIDE DEF S, C
<1>5. DmaTypes(dma) BY <1>1, <1>2, <1>3, <1>4, Zenon DEF DmaTypes
<1>6. \A n \in Streams : Inside(dma, n) BY <1>1, <1>3, <1>4, Zenon DEF Inside
<1> QED BY <1>4, <1>5, <1>6, Zenon DEF DmaOk, Body, Idle

\* The invariant of the DMA is inductive.
LEMMA DmaStep ==
  ASSUME DmaOk(dma), [DmaNext]_dma PROVE DmaOk(dma')
<1>1. CASE UNCHANGED dma BY <1>1
<1>2. CASE DmaNext
  BY <1>2, CallsOk, AccessesOk, ResetOk, ExpiryOk, RequestsOk, Zenon DEF DmaNext
<1> QED BY <1>1, <1>2

\* A channel that is not being programmed is in its block.
LEMMA DmaInside ==
  ASSUME DmaOk(dma) PROVE InsideBlock
<1> SUFFICES ASSUME NEW n \in Streams, Programmed(n), dma.stream[n].EN, ~dma.stream[n].MEM2MEM
             PROVE  LET s == dma.stream[n]
                        moved == s.circular_ndtr - s.ndtr
                    IN  /\ s.CIRC => dma.chan = n /\ dma.timer
                        /\ (s.CIRC => Away(s)) =>
                             /\ s.ndtr \in 1..s.circular_ndtr
                             /\ s.mar = Plus(s.circular_mar, IF s.MINC THEN moved * msize(s) ELSE 0)
                             /\ s.par = Plus(s.circular_par, IF s.PINC THEN moved * psize(s) ELSE 0)
  BY Zenon DEF InsideBlock
<1>1. Body(dma) BY DEF DmaOk, Programmed
<1>2. Inside(dma, n)
  <2>1. CASE Idle(dma) BY <2>1 DEF Idle
  <2>2. ASSUME NEW m \in Streams, Busy(dma, m) PROVE Inside(dma, n)
    <3>1. 1 \in 1..Len(dma.accesses) /\ dma.accesses[1].n = m BY <2>2, StageNonempty, Zenon DEF Busy
    <3>2. n # m BY <3>1, Zenon DEF Programmed
    <3> QED BY <2>2, <3>2 DEF Busy
  <2> QED BY <1>1, <2>1, <2>2 DEF Body
<1> QED BY <1>2, Zenon DEF Inside, InBlock, At

\* The invariant.
LEMMA DmaInvariance == DmaInit /\ [][DmaNext]_dma => []DmaOk(dma)
<1>1. DmaInit => DmaOk(dma) BY DmaInitOk, SMTT(60)
<1>2. DmaOk(dma) /\ [DmaNext]_dma => DmaOk(dma)'
  <2>1. DmaOk(dma) /\ [DmaNext]_dma => DmaOk(dma') BY DmaStep
  <2> QED BY <2>1, Zenon DEF DmaOk, DmaTypes, Body, Idle, Busy, Stage, Stopping, Starting, Ready, Inside,
                      InBlock, At, Away, Configured
<1> QED BY <1>1, <1>2, PTL

\* An enabled channel is as far into its block as items were moved, with its
\* timer armed if it is circular, whatever requests of USART1, expiries of the
\* timer, resets and accesses of the library fall between each other
\* (stm32_dma.c), for every set of channels and every use of them.  Requests of
\* USART1 may take a circular block through its data register past the end.
THEOREM BlockCorrect == DmaInit /\ [][DmaNext]_dma => []InsideBlock
<1>1. DmaOk(dma) => InsideBlock BY DmaInside
<1> QED BY <1>1, DmaInvariance, PTL
-----------------------------------------------------------------------------

\* Sums and differences of addresses, without the remainder.
LEMMA PlusIs ==
  ASSUME NEW x \in Addresses, NEW y \in Addresses
  PROVE  /\ Plus(x, y) = IF x + y < AddressWord THEN x + y ELSE x + y - AddressWord
         /\ Plus(x, y) \in Addresses
<1>1. AddressWord \in Nat \ {0} /\ x \in 0..(AddressWord - 1) /\ y \in 0..(AddressWord - 1)
  BY DmaAssumption, Zenon DEF Addresses
<1>2. (x + y) % AddressWord = IF x + y < AddressWord THEN x + y ELSE x + y - AddressWord
  BY <1>1, ModSum, Zenon
<1>3. x + y \in Int BY <1>1
<1> QED BY <1>2, <1>3, AddressRange, Zenon DEF Plus

\* How far one address is behind another.
LEMMA OffsetIs ==
  ASSUME NEW x \in Addresses, NEW y \in Addresses
  PROVE  /\ Offset(x, y) = IF x >= y THEN x - y ELSE x - y + AddressWord
         /\ Offset(x, y) \in Addresses
<1>1. AddressWord \in Nat \ {0} /\ x \in 0..(AddressWord - 1) /\ y \in 0..(AddressWord - 1)
  BY DmaAssumption DEF Addresses
<1>2. (x - y) % AddressWord = IF x >= y THEN x - y ELSE x - y + AddressWord
  BY <1>1, ModSum, Zenon
<1>3. x - y \in Int BY <1>1
<1> QED BY <1>2, <1>3, AddressRange, Zenon DEF Offset

\* The address that is o behind b is o behind b.
LEMMA OffsetOfPlus ==
  ASSUME NEW b \in Addresses, NEW o \in Addresses
  PROVE  Offset(Plus(b, o), b) = o
<1> DEFINE p == Plus(b, o)
<1>1. p \in Addresses /\ p = IF b + o < AddressWord THEN b + o ELSE b + o - AddressWord
  BY PlusIs
<1> HIDE DEF p
<1>2. Offset(p, b) = IF p >= b THEN p - b ELSE p - b + AddressWord BY <1>1, OffsetIs
<1>3. b \in Nat /\ b < AddressWord /\ o \in Nat /\ o < AddressWord BY AddressIsInt
<1>4. AddressWord \in Nat BY DmaAssumption
<1>5. Offset(p, b) = o BY <1>1, <1>2, <1>3, <1>4, SMTT(60)
<1> QED BY <1>5 DEF p

\* Offsets from a place c further.
LEMMA OffsetFrom ==
  ASSUME NEW a \in Addresses, NEW b \in Addresses, NEW c \in Addresses
  PROVE  LET o == Offset(a, b) IN
         Offset(a, Plus(b, c)) = IF o >= c THEN o - c ELSE o - c + AddressWord
<1> DEFINE p == Plus(b, c)  o == Offset(a, b)
<1>1. p \in Addresses /\ p = IF b + c < AddressWord THEN b + c ELSE b + c - AddressWord
  BY PlusIs
<1>2. o = IF a >= b THEN a - b ELSE a - b + AddressWord BY OffsetIs
<1> HIDE DEF p, o
<1>3. Offset(a, p) = IF a >= p THEN a - p ELSE a - p + AddressWord BY <1>1, OffsetIs
<1>4. /\ a \in Nat /\ b \in Nat /\ c \in Nat
      /\ a < AddressWord /\ b < AddressWord /\ c < AddressWord BY AddressIsInt
<1>5. AddressWord \in Nat BY DmaAssumption
<1>6. Offset(a, p) = IF o >= c THEN o - c ELSE o - c + AddressWord
  BY <1>1, <1>2, <1>3, <1>4, <1>5, SMTT(60)
<1> QED BY <1>6 DEF p, o

\* What the memory holds with the first c bytes of a block copied.
Copied(par, mar, c) ==
  [a \in Addresses |-> LET o == Offset(a, mar) IN IF o < c THEN Plus(par, o) ELSE a]

\* Blocks that are apart are shorter than the memory.
LEMMA ApartFits ==
  ASSUME NEW par \in Addresses, NEW mar \in Addresses, NEW size \in Nat,
         Apart(par, mar, size)
  PROVE  size < AddressWord
<1>1. Offset(par, par) = 0
  BY AddressIsInt, OffsetIs
<1>2. Offset(par, mar) \in Nat /\ Offset(par, mar) < AddressWord BY OffsetIs, AddressIsInt
<1>3. 0 >= size \/ Offset(par, mar) >= size BY <1>1, Zenon DEF Apart
<1> QED BY <1>2, <1>3, DmaAssumption

\* A byte of the source holds what it held when the copy began.
LEMMA SourceCell ==
  ASSUME NEW par \in Addresses, NEW mar \in Addresses, NEW size \in Nat,
         Apart(par, mar, size), NEW c \in Nat, NEW o \in Nat, c <= o, o < size
  PROVE  Cell(Copied(par, mar, c), Plus(par, o)) = Plus(par, o)
<1> DEFINE b == Plus(par, o)
<1>1. o \in Addresses BY ApartFits, DmaAssumption DEF Addresses
<1>2. b \in Addresses /\ Offset(b, par) = o BY <1>1, PlusIs, OffsetOfPlus
<1> HIDE DEF b
<1>3. /\ Offset(b, par) >= size \/ Offset(b, mar) >= size
      /\ b \in Peripherals => Offset(b, par) >= size
  BY <1>2, Zenon DEF Apart
<1>4. Offset(b, mar) \in Nat BY <1>2, OffsetIs, AddressIsInt
<1>5. b \notin Peripherals /\ ~(Offset(b, mar) < c) BY <1>2, <1>3, <1>4
<1>6. Copied(par, mar, c)[b] = b BY <1>2, <1>5, Zenon DEF Copied
<1> QED BY <1>5, <1>6, Zenon DEF Cell, b

\* One item copies the bytes of one item more.
LEMMA CopyItem ==
  ASSUME NEW par \in Addresses, NEW mar \in Addresses, NEW size \in Nat,
         Apart(par, mar, size), NEW z \in {1, 2}, NEW c \in Nat, c + z <= size
  PROVE  LET from == Copied(par, mar, c) IN
         Written(from, Plus(mar, c), Read(from, Plus(par, c), z), z)
         = Copied(par, mar, c + z)
<1> DEFINE from == Copied(par, mar, c)  dest == Plus(mar, c)  src == Plus(par, c)
           buf == Read(from, src, z)
           after == Written(from, dest, buf, z)
<1>0. size < AddressWord /\ AddressWord \in Nat BY ApartFits, DmaAssumption
<1>1. c \in Addresses /\ 1 \in Addresses BY <1>0 DEF Addresses
<1>2. Cell(from, src) = src
  <2>1. c < size BY <1>0
  <2> QED BY <2>1, SourceCell
<1>3. z = 2 => Cell(from, Plus(src, 1)) = Plus(par, c + 1)
  <2> SUFFICES ASSUME z = 2 PROVE Cell(from, Plus(src, 1)) = Plus(par, c + 1)
    OBVIOUS
  <2>1. Plus(src, 1) = Plus(par, c + 1)
    <3> DEFINE x == par + c
    <3>1. par \in Nat BY AddressIsInt
    <3>2. x \in Int /\ 1 \in Int /\ x + 1 = par + (c + 1) BY <3>1, SMTT(60)
    <3> HIDE DEF x
    <3>3. ((x % AddressWord) + 1) % AddressWord = (x + 1) % AddressWord
      BY <3>2, DmaAssumption, ModPlus, Zenon
    <3> QED BY <3>2, <3>3, Zenon DEF Plus, x
  <2> DEFINE o == c + 1
  <2>2. o \in Nat /\ c <= o /\ o < size BY <1>0
  <2> HIDE DEF o
  <2>3. Cell(from, Plus(par, o)) = Plus(par, o) BY <2>2, SourceCell
  <2> QED BY <2>1, <2>3 DEF o
<1>4. buf[1] = Plus(par, c) /\ (z = 2 => buf[2] = Plus(par, c + 1))
  <2> DEFINE y == IF z = 2 THEN Cell(from, Plus(src, 1)) ELSE Junk
             x == Cell(from, src)
  <2>1. buf = <<x, y>> BY Zenon DEF Read
  <2>2. x = Plus(par, c) /\ (z = 2 => y = Plus(par, c + 1)) BY <1>2, <1>3
  <2> HIDE DEF x, y, buf
  <2> QED BY <2>1, <2>2
<1> HIDE DEF buf
<1>5. ASSUME NEW a \in Addresses
      PROVE  after[a] = LET o == Offset(a, mar) IN IF o < c + z THEN Plus(par, o) ELSE a
  <2> DEFINE o == Offset(a, mar)  j == Offset(a, dest)  i == j + 1
  <2>1. after[a] = IF i \in 1..z /\ a \notin Peripherals THEN buf[i] ELSE from[a]
    BY Zenon DEF Written, Offset
  <2>2. from[a] = IF o < c THEN Plus(par, o) ELSE a BY Zenon DEF Copied
  <2>3. o \in Addresses BY OffsetIs
  <2>4. j = IF o >= c THEN o - c ELSE o - c + AddressWord BY <1>1, OffsetFrom
  <2>5. a \in Peripherals => o >= size BY Zenon DEF Apart
  <2>6. o \in Nat /\ o < AddressWord BY <2>3, AddressIsInt
  <2> HIDE DEF o, j, after, from, dest, src
  <2>7. i \in 1..z <=> o >= c /\ o < c + z BY <1>0, <2>4, <2>6
  <2>8. CASE o >= c /\ o < c + z
    <3>1. a \notin Peripherals BY <1>0, <2>5, <2>6, <2>8, SMTT(60)
    <3>2. after[a] = buf[i] BY <2>1, <2>7, <2>8, <3>1, SMTT(60)
    <3>3. \/ i = 1 /\ o = c
          \/ i = 2 /\ o = c + 1 /\ z = 2
      BY <1>0, <2>4, <2>6, <2>8
    <3>4. buf[i] = Plus(par, o) BY <1>4, <3>3, Zenon
    <3> QED BY <2>8, <3>2, <3>4, Zenon DEF o
  <2>9. CASE ~(o >= c /\ o < c + z)
    <3>1. after[a] = from[a] BY <2>1, <2>7, <2>9, Zenon
    <3>2. o < c + z <=> o < c BY <1>0, <2>6, <2>9
    <3> QED BY <2>2, <3>1, <3>2, Zenon DEF o
  <2> QED BY <2>8, <2>9
<1>6. after = [a \in Addresses |-> after[a]] BY Zenon DEF Written
<1> HIDE DEF after
<1>7. after = Copied(par, mar, c + z) BY <1>5, <1>6, Zenon DEF Copied
<1> QED BY <1>7, Zenon DEF after, buf

\* A transfer from the peripheral address to the memory address.
LEMMA OnceCopies ==
  ASSUME NEW d, DmaTypes(d), NEW n \in Streams, ~d.stream[n].DIR
  PROVE  LET s == d.stream[n]
             e == stm32_dma_stream_start_once(d, n, TRUE)
         IN  /\ psize(s) = 0 \/ msize(s) = 0 => e.ended = TRUE
             /\ psize(s) # 0 /\ msize(s) # 0 =>
                  /\ e.stream[n] = Moved(s)
                  /\ e.from = Written(d.from, s.mar, Read(d.from, s.par, psize(s)),
                                         msize(s))
<1> DEFINE s == d.stream[n]
           e == stm32_dma_stream_start_once(d, n, TRUE)
           f == Written(d.from, s.mar, Read(d.from, s.par, psize(s)), msize(s))
<1>1. s \in StreamType /\ Moved(s) \in StreamType BY MovedType DEF DmaTypes
<1>2. ASSUME psize(s) = 0 \/ msize(s) = 0 PROVE e.ended = TRUE
  <2>1. e = [d EXCEPT !.ended = TRUE] BY <1>2, Zenon DEF stm32_dma_stream_start_once
  <2> HIDE DEF e
  <2> QED BY <2>1 DEF DmaTypes, DmaFields
<1>3. ASSUME psize(s) # 0, msize(s) # 0 PROVE e.stream[n] = Moved(s) /\ e.from = f
  <2> DEFINE i == IF Advanced(s).ndtr = 0 THEN d.isr \cup {n} ELSE d.isr
             v == Moved(s)
             p == Put(d, n, v, f, i)
  <2>1. e = p BY <1>3 DEF stm32_dma_stream_start_once, Moved, Put
  <2>2. v \in StreamType BY <1>1, SMTT(60)
  <2> HIDE DEF i, v, f, e
  <2>3. p.stream[n] = v /\ p.from = f BY <2>2, PutKeeps, SMT
  <2> QED BY <2>1, <2>3, Zenon DEF v
<1> QED BY <1>2, <1>3, Zenon DEF f

\* The state after k items of the channel that held s.
Copying(e, s, n, k) ==
  LET t == e.stream[n]
      c == k * msize(s)
  IN  /\ DmaTypes(e) /\ \A f \in Lasting : t[f] = s[f]
      /\ t.par = Plus(s.par, c) /\ t.mar = Plus(s.mar, c) /\ e.from = Copied(s.par, s.mar, c)

\* A channel that copies forward, item by item, what does not overlap.
Forward(s) ==
  /\ ~s.DIR /\ s.PINC /\ s.MINC /\ s.psize = s.msize
  /\ Apart(s.par, s.mar, s.ndtr * msize(s))

\* One item more.
LEMMA CopyStep ==
  ASSUME NEW s \in StreamType, Forward(s), NEW n \in Streams, NEW k \in Nat, k + 1 <= s.ndtr,
         NEW d, Copying(d, s, n, k), msize(s) # 0
  PROVE  Copying(stm32_dma_stream_start_once(d, n, TRUE), s, n, k + 1)
<1> DEFINE e == stm32_dma_stream_start_once(d, n, TRUE)
           t == d.stream[n]  z == msize(s)  c == k * z  size == s.ndtr * z  u == Advanced(t)
<1>0. DmaTypes(d) /\ t \in StreamType BY SMTT(60) DEF Copying, DmaTypes
<1>1. /\ t.DIR = s.DIR /\ t.PINC = s.PINC /\ t.MINC = s.MINC /\ t.psize = s.psize
      /\ t.msize = s.msize
  BY SMTT(60) DEF Copying, Lasting
<1>2. msize(t) = z /\ psize(t) = z BY <1>1 DEF msize, psize, Forward
<1>3. z \in {1, 2}
  <2>1. z \in 0..2 BY Sizes, SMTT(60) DEF msize, StreamType
  <2> QED BY <2>1
<1>4. ~t.DIR /\ t.PINC /\ t.MINC BY <1>1 DEF Forward
<1>5. /\ DmaTypes(e)
      /\ e.stream[n] = Moved(t) /\ e.from = Written(d.from, t.mar, Read(d.from, t.par, z), z)
  <2>1. DmaTypes(e)
    <3>1. TRUE \in BOOLEAN OBVIOUS
    <3> QED BY <1>0, <3>1, OnceKeeps, Zenon
  <2>2. z # 0 BY <1>3
  <2> HIDE DEF z
  <2> QED BY <1>0, <1>2, <1>4, <2>1, <2>2, OnceCopies, Zenon
<1>6. s.par \in Addresses /\ s.mar \in Addresses /\ s.ndtr \in Nat
  BY AddressIsInt, SMTT(60) DEF StreamType
<1>7. c \in Nat /\ size \in Nat /\ c + z <= size /\ (k + 1) * z = c + z
  <2>1. (k + 1) * z <= s.ndtr * z
    <3> HIDE DEF z
    <3> QED BY <1>3, <1>6
  <2> HIDE DEF z
  <2> QED BY <1>3, <1>6, <2>1, SMTT(60)
<1>8. e.from = Copied(s.par, s.mar, c + z)
  <2>1. d.from = Copied(s.par, s.mar, c) /\ t.mar = Plus(s.mar, c) /\ t.par = Plus(s.par, c)
    BY Zenon DEF Copying
  <2>2. Apart(s.par, s.mar, size) BY Zenon DEF Forward
  <2> DEFINE p == s.par  m == s.mar
  <2>3. p \in Addresses /\ m \in Addresses /\ Apart(p, m, size) BY <1>6, <2>2, SMTT(60)
  <2> HIDE DEF c, z, size, e, p, m
  <2>4. Written(Copied(p, m, c), Plus(m, c), Read(Copied(p, m, c), Plus(p, c), z), z)
        = Copied(p, m, c + z)
    BY <1>3, <1>7, <2>3, CopyItem, ZenonT(60)
  <2> QED BY <1>5, <2>1, <2>4, Zenon DEF p, m
<1>9. /\ u \in StreamType /\ u.par = Plus(t.par, z) /\ u.mar = Plus(t.mar, z)
      /\ \A f \in Lasting : u[f] = t[f]
  <2> HIDE DEF z
  <2> QED BY <1>0, <1>2, <1>4, AdvancedFacts
<1>10. LET v == Moved(t) IN v.par = u.par /\ v.mar = u.mar /\ \A f \in Lasting : v[f] = u[f]
  <2>1. Moved(t) = IF u.ndtr = 0 /\ ~u.CIRC THEN [u EXCEPT !.EN = FALSE] ELSE u BY DEF Moved
  <2> HIDE DEF u
  <2>2. LET v == [u EXCEPT !.EN = FALSE] IN
        v.par = u.par /\ v.mar = u.mar /\ \A f \in Lasting : v[f] = u[f]
    BY <1>9 DEF StreamType, Lasting
  <2> QED BY <2>1, <2>2, Zenon
<1>11. /\ Plus(Plus(s.par, c), z) = Plus(s.par, c + z)
       /\ Plus(Plus(s.mar, c), z) = Plus(s.mar, c + z)
  <2>1. z \in 0..2 BY <1>3
  <2> HIDE DEF z
  <2>2. \A a \in Addresses : Plus(Plus(a, k * z), z) = Plus(a, (k + 1) * z)
    BY <2>1, PlusNext, Zenon
  <2> QED BY <1>6, <1>7, <2>2, Zenon
<1> HIDE DEF e, u, z
<1>12. /\ e.stream[n].par = Plus(s.par, c + z) /\ e.stream[n].mar = Plus(s.mar, c + z)
       /\ \A f \in Lasting : e.stream[n][f] = s[f]
  BY <1>5, <1>9, <1>10, <1>11, ZenonT(60) DEF Copying, z
<1> QED BY <1>5, <1>7, <1>8, <1>12, ZenonT(60) DEF Copying, e, z

\* The whole block, unless the size ends the emulator.
LEMMA CopyWhole ==
  ASSUME NEW d, DmaTypes(d), NEW n \in Streams, Forward(d.stream[n]),
         d.from = [a \in Addresses |-> a],
         ~stm32_dma_stream_start_whole(d, n).ended
  PROVE  LET s == d.stream[n] IN
         stm32_dma_stream_start_whole(d, n).from
         = Copied(s.par, s.mar, s.ndtr * msize(s))
<1> DEFINE s == d.stream[n]  m == s.ndtr  z == msize(s)
<1>0. s \in StreamType BY Zenon DEF DmaTypes
<1>1. m \in Nat /\ s.par \in Addresses /\ s.mar \in Addresses
  BY <1>0, AddressIsInt DEF StreamType
<1>2. PICK f : Transfers(f, d, n, m) /\ stm32_dma_stream_start_whole(d, n) = f[m]
  BY <1>1, WholeIs, ZenonT(60)
<1>3. z \in 0..2 BY <1>0, Sizes DEF msize, StreamType
<1>4. f[0] = d
  <2>1. 0 \in 0..m BY <1>1
  <2> HIDE DEF m
  <2> QED BY <1>1, <1>2, <2>1, TransfersAt, ZenonT(60)
<1>5. ASSUME NEW k \in Nat, k + 1 <= m
      PROVE  f[k + 1] = stm32_dma_stream_start_once(f[k], n, TRUE)
  <2> DEFINE j == k + 1
  <2>1. j \in 0..m /\ j # 0 /\ j - 1 = k BY <1>1, <1>5
  <2> HIDE DEF j, m
  <2>2. f[j] = IF j = 0 THEN d ELSE stm32_dma_stream_start_once(f[j - 1], n, TRUE)
    BY <1>2, <2>1, Zenon DEF Transfers
  <2> QED BY <2>1, <2>2, ZenonT(60) DEF j
<1>6. Copying(d, s, n, 0)
  <2>1. 0 * z = 0 BY <1>3, SMTT(60)
  <2>2. Plus(s.par, 0) = s.par /\ Plus(s.mar, 0) = s.mar BY <1>1, PlusZero, SMTT(60)
  <2>3. Copied(s.par, s.mar, 0) = [a \in Addresses |-> a]
    <3> DEFINE p == s.par  q == s.mar
    <3>1. q \in Addresses BY <1>1, SMTT(60)
    <3> HIDE DEF p, q
    <3>2. ASSUME NEW a \in Addresses PROVE ~(Offset(a, q) < 0)
      <4>1. Offset(a, q) \in Nat BY <3>1, OffsetIs, AddressIsInt
      <4> QED BY <4>1, SMTT(60)
    <3>3. Copied(p, q, 0) = [a \in Addresses |-> a] BY <3>2, Zenon DEF Copied
    <3> QED BY <3>3, SMTT(60) DEF p, q
  <2> QED BY <2>1, <2>2, <2>3, Zenon DEF Copying
<1>7. CASE z # 0
  <2> DEFINE S == {k \in Nat : k <= m => Copying(f[k], s, n, k)}
  <2>1. 0 \in S BY <1>4, <1>6
  <2>2. ASSUME NEW k \in Nat, k \in S PROVE k + 1 \in S
    <3> SUFFICES ASSUME k + 1 <= m PROVE Copying(f[k + 1], s, n, k + 1) BY SMTT(60)
    <3>1. Copying(f[k], s, n, k) BY <1>1, <2>2, SMTT(60)
    <3>2. f[k + 1] = stm32_dma_stream_start_once(f[k], n, TRUE) BY <1>5, Zenon
    <3> DEFINE c == f[k]
    <3> HIDE DEF c, s
    <3>3. Copying(stm32_dma_stream_start_once(c, n, TRUE), s, n, k + 1)
      BY <1>0, <1>7, <3>1, CopyStep, Zenon DEF c, s
    <3> QED BY <3>2, <3>3, ZenonT(60) DEF c
  <2>3. Nat \subseteq S
    <3> HIDE DEF S
    <3> QED BY <2>1, <2>2, Induction
  <2>4. Copying(f[m], s, n, m) BY <1>1, <2>3
  <2> QED BY <1>2, <2>4, ZenonT(60) DEF Copying
<1>8. CASE m = 0
  <2>1. Copying(f[m], s, n, m) BY <1>4, <1>6, <1>8, ZenonT(60)
  <2> QED BY <1>2, <2>1, Zenon DEF Copying
<1>9. CASE z = 0 /\ m # 0
  <2> DEFINE S == {k \in Nat : k <= m =>
                     DmaTypes(f[k]) /\ f[k].stream[n] = s /\ (k # 0 => f[k].ended = TRUE)}
  <2>1. 0 \in S BY <1>4, SMTT(60)
  <2>2. ASSUME NEW k \in Nat, k \in S PROVE k + 1 \in S
    <3> DEFINE c == f[k]  e == f[k + 1]
    <3>0. k + 1 \in Nat /\ k + 1 # 0 OBVIOUS
    <3> SUFFICES ASSUME k + 1 <= m PROVE DmaTypes(e) /\ e.stream[n] = s /\ e.ended = TRUE
      BY <3>0, ZenonT(60)
    <3>1. DmaTypes(c) /\ c.stream[n] = s BY <1>1, <2>2, SMTT(60)
    <3>2. e = stm32_dma_stream_start_once(c, n, TRUE) BY <1>5, Zenon
    <3> HIDE DEF c, e, s
    <3>3. e = [c EXCEPT !.ended = TRUE]
      BY <1>9, <3>1, <3>2, Zenon DEF stm32_dma_stream_start_once
    <3>4. DOMAIN c = DmaFields BY <3>1 DEF DmaTypes
    <3>5. /\ DOMAIN e = DmaFields /\ e.stream = c.stream /\ e.chan = c.chan /\ e.timer = c.timer
          /\ e.ccr = c.ccr /\ e.ended = TRUE
      BY <3>3, <3>4 DEF DmaFields
    <3>6. DmaTypes(e) BY <3>1, <3>5, Zenon DEF DmaTypes
    <3> QED BY <3>1, <3>5, <3>6
  <2>3. Nat \subseteq S
    <3> HIDE DEF S
    <3> QED BY <2>1, <2>2, Induction
  <2>4. f[m].ended = TRUE BY <1>1, <1>9, <2>3
  <2> QED BY <1>2, <2>4, SMTT(60)
<1> QED BY <1>7, <1>8, <1>9, Zenon

\* The next access enables channel n.
Enabling(d, n) == Head(d.accesses).n = n /\ Head(d.accesses).reg = "CR enable"

\* It finds in ccr what it has read, and writes it back with EN set.
EnablesRead(d, n) ==
  /\ n \in Streams /\ d.ccr = CR(d.stream[n])
  /\ Access(d, Head(d.accesses)) = Back(d, n, Switched(d.ccr, TRUE))

\* Which access that is.
LEMMA OneEnables ==
  /\ \A i \in 1..6 : Stops[i] # "CR enable"
  /\ \A i \in 1..7 : Starts[i] = "CR enable" => i = 7
BY DEF Stops, Starts

\* No register is written between the read and the write that enables.
LEMMA EnableIs ==
  ASSUME NEW d, DmaTypes(d), Body(d), d.accesses # <<>>, NEW n, Enabling(d, n)
  PROVE  EnablesRead(d, n)
<1> DEFINE w == Head(d.accesses)
<1>1. PICK m \in Streams : Stage(d, m) BY Zenon DEF Body, Idle, Busy
<1>2. ASSUME NEW i \in 1..6, Stopping(d, m, i) PROVE FALSE
  <2>1. Len(Stops) = 6 BY SMTT(60) DEF Stops
  <2>2. i \in 1..Len(Stops) /\ Len(Stops) \in Nat BY <2>1, SMTT(60)
  <2>3. d.accesses = Rest(m, NoStream, Stops, i) BY <1>2 DEF Stopping
  <2> DEFINE u == NoStream
  <2> HIDE DEF u
  <2>4. Upcoming(Rest(m, u, Stops, i), m, u, Stops, i) BY <2>2, RestSeq, Zenon
  <2>5. w = [n |-> m, use |-> u, reg |-> Stops[i]] BY <2>3, <2>4, ZenonT(60) DEF Upcoming, u
  <2> HIDE DEF w
  <2>6. w.reg = Stops[i] BY <2>5
  <2>7. w.reg = "CR enable" BY Zenon DEF Enabling, w
  <2> QED BY <2>6, <2>7, OneEnables, Zenon
<1>3. ASSUME NEW use \in Uses, NEW i \in 1..7, Starting(d, m, use, i)
      PROVE  n = m /\ d.ccr = CR(d.stream[n]) /\ w = [n |-> n, use |-> use, reg |-> "CR enable"]
  <2>1. Len(Starts) = 7 BY DEF Starts
  <2>2. i \in 1..Len(Starts) /\ Len(Starts) \in Nat BY <2>1, SMTT(60)
  <2>3. d.accesses = Rest(m, use, Starts, i) BY <1>3 DEF Starting, Ready
  <2>4. Upcoming(Rest(m, use, Starts, i), m, use, Starts, i) BY <2>2, RestSeq, Zenon
  <2>5. w = [n |-> m, use |-> use, reg |-> Starts[i]] BY <2>3, <2>4, ZenonT(60) DEF Upcoming
  <2> HIDE DEF w
  <2>6. w.n = m /\ w.reg = Starts[i] BY <2>5
  <2>7. n = m /\ Starts[i] = "CR enable" BY <2>6, Zenon DEF Enabling, w
  <2>8. i = 7 BY <2>7, OneEnables, Zenon
  <2>9. i >= 7 BY <2>8
  <2>10. d.ccr = CR(d.stream[m]) BY <1>3, <2>9, Zenon DEF Starting, Ready
  <2> QED BY <2>5, <2>7, <2>10, ZenonT(60)
<1>4. PICK use \in Uses :
        n = m /\ d.ccr = CR(d.stream[n]) /\ w = [n |-> n, use |-> use, reg |-> "CR enable"]
  BY <1>1, <1>2, <1>3, Zenon DEF Stage
<1>5. Access(d, w) = AccessTo(d, n, use, "CR enable") BY <1>4, Zenon DEF AccessTo
<1>6. AccessTo(d, n, use, "CR enable") = Back(d, n, Switched(d.ccr, TRUE)) BY AccessIs, Zenon
<1> QED BY <1>4, <1>5, <1>6, Zenon DEF EnablesRead

\* Each step that enables a memory to memory channel copies its block.
LEMMA CopiesOk ==
  ASSUME DmaOk(dma), NEW n \in Streams
  PROVE  CopiesBlock(n)
<1> DEFINE d == Still  s == dma.stream[n]  size == s.ndtr * msize(s)
           w == Head(dma.accesses)
           cr == Switched(d.ccr, TRUE)
           e == stm32_dma_stream_start_whole(d, n)
           a == Access(d, w)
<1> SUFFICES ASSUME GuestAccess, ~dma'.ended, w.n = n, w.reg = "CR enable",
                    s.MEM2MEM, ~s.DIR, s.PINC, s.MINC, ~s.EN, s.psize = s.msize,
                    Apart(s.par, s.mar, size)
             PROVE  dma'.from = Copied(s.par, s.mar, size)
  BY Zenon DEF CopiesBlock, Copied
<1>0. ~dma.ended /\ DmaTypes(dma) /\ Body(dma) /\ dma.accesses # <<>> BY Zenon DEF GuestAccess, DmaOk
<1>1. /\ DmaTypes(d) /\ Body(d) /\ d.stream = dma.stream /\ d.accesses = dma.accesses
      /\ d.from = [b \in Addresses |-> b]
  BY <1>0, StillSame, Zenon
<1>2. dma' = [a EXCEPT !.accesses = Tail(@)] BY Zenon DEF GuestAccess
<1> HIDE DEF d
<1>3. d.ccr = CR(d.stream[n]) /\ a = Back(d, n, cr)
  <2>1. Head(d.accesses) = w /\ d.accesses # <<>> /\ Enabling(d, n)
    BY <1>0, <1>1, Zenon DEF Enabling
  <2>2. EnablesRead(d, n) BY <1>1, <2>1, EnableIs, ZenonT(60)
  <2> QED BY <2>1, <2>2, Zenon DEF EnablesRead
<1>4. s \in StreamType BY <1>0, Zenon DEF DmaTypes
<1>5. cr.EN /\ cr.MEM2MEM /\ cr \in CrType
  <2>1. d.ccr = CR(s) BY <1>1, <1>3, Zenon
  <2>2. d.ccr \in CrType /\ \A f \in CrFields : d.ccr[f] = s[f] BY <1>4, <2>1, CRType, ZenonT(60)
  <2>3. d.ccr.MEM2MEM BY <2>2, Zenon DEF CrFields
  <2>4. \A c \in CrType : c.MEM2MEM =>
          LET b == Switched(c, TRUE) IN b \in CrType /\ b.EN /\ b.MEM2MEM
    BY Zenon DEF CrType, Switched
  <2> QED BY <2>2, <2>3, <2>4, Zenon
<1>6. WriteCR(d, n, cr) = [e EXCEPT !.stream[n] = Store(@, cr)]
  <2>1. ~d.stream[n].EN BY <1>1, Zenon
  <2> HIDE DEF cr, e
  <2> QED BY <1>5, <2>1, Zenon DEF WriteCR, e
<1>7. DOMAIN e = DmaFields BY <1>1, WholeKeeps, Zenon DEF DmaTypes
<1>8. a.from = e.from /\ a.ended = e.ended /\ DOMAIN a = DmaFields
  <2> DEFINE T == [e.stream EXCEPT ![n] = Store(@, cr)]  C == CR(NoStream)
  <2>1. a = [e EXCEPT !.stream = T, !.ccr = C] BY <1>3, <1>6, <1>7, Zenon DEF Back
  <2> HIDE DEF T, C, a, e
  <2> QED BY <1>7, <2>1, Zenon DEF DmaFields
<1>9. dma'.from = e.from /\ dma'.ended = e.ended
  <2> HIDE DEF a, e
  <2> QED BY <1>2, <1>8, ZenonT(60) DEF DmaFields
<1>10. ~e.ended BY <1>9, Zenon
<1>11. Forward(s) BY Zenon DEF Forward
<1>12. e.from = Copied(s.par, s.mar, size)
  <2>1. d.stream[n] = s BY <1>1, Zenon
  <2>2. e.from = LET r == d.stream[n] IN Copied(r.par, r.mar, r.ndtr * msize(r))
    BY <1>1, <1>10, <1>11, <2>1, CopyWhole, ZenonT(60)
  <2> QED BY <2>1, <2>2, ZenonT(60)
<1> QED BY <1>9, <1>12, Zenon

\* Enabling a memory to memory channel copies its block and changes no other
\* byte, for blocks of every length, at every address, round the end of the
\* address space included (stm32_dma_stream_start_whole).
THEOREM CopyIsExact == DmaInit /\ [][DmaNext]_dma => CopyExact
<1>1. DmaOk(dma) => \A n \in Streams : CopiesBlock(n) BY CopiesOk, Zenon
<1>2. DmaOk(dma) /\ [DmaNext]_dma => [\A n \in Streams : CopiesBlock(n)]_dma BY <1>1
<1> QED BY <1>2, DmaInvariance, PTL DEF CopyExact, CopyExact
=============================================================================
