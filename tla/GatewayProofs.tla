---------------------------- MODULE GatewayProofs ----------------------------
(***************************************************************************)
(* RelayExact, for any characters, any number of them and every interleaving *)
(* of the gateway's threads with the peers and the shutdown.  The invariant  *)
(* adds to it which thread holds a message when (Hands), that nothing has    *)
(* moved before the connections exist (Fresh), and that what was relayed, is *)
(* in hand and still to be read is the beginning of what the phone sent even *)
(* after the phone left (UpOk).                                              *)
(***************************************************************************)
EXTENDS BluetoothGateway, WellFoundedInduction, TLAPS

(***************************************************************************)
(* Induction over the natural numbers in a form the provers can use, with a *)
(* set in the place of the predicate.                                       *)
(***************************************************************************)
\* A set of natural numbers has a least one.
LEMMA Least ==
  ASSUME NEW T, T \subseteq Nat, T # {}
  PROVE  \E x \in T : \A y \in T : x <= y
<1> DEFINE R == OpToRel(<,Nat)
<1>1. IsWellFoundedOn(R, Nat) BY NatLessThanWellFounded, Zenon
<1>2. PICK x \in T : \A y \in T : ~ (<<y, x>> \in R)
  <2> HIDE DEF R
  <2> QED BY <1>1, WFMin, Zenon
<1>3. ASSUME NEW y \in T PROVE x <= y
  <2>1. <<y, x>> \notin R BY <1>2, Zenon
  <2>2. y \in Nat /\ x \in Nat OBVIOUS
  <2>3. ~(y < x) BY <2>1, <2>2, Zenon DEF OpToRel
  <2> QED BY <2>2, <2>3
<1> QED BY <1>3

\* A set with 0 and with the successor of each of its numbers has them all.
LEMMA Induction ==
  ASSUME NEW S, 0 \in S, \A n \in Nat : n \in S => n + 1 \in S
  PROVE  Nat \subseteq S
<1> SUFFICES ASSUME NEW m \in Nat, m \notin S PROVE FALSE OBVIOUS
<1> DEFINE T == Nat \ S
<1>1. PICK x \in T : \A y \in T : x <= y
  <2>1. m \in T OBVIOUS
  <2>2. T \subseteq Nat /\ T # {} BY <2>1
  <2> HIDE DEF T
  <2> QED BY <2>2, Least, Zenon
<1>2. x \in Nat /\ x # 0 /\ x \notin S OBVIOUS
<1>3. x - 1 \in Nat /\ x - 1 \notin S BY <1>2
<1>4. x - 1 \in T BY <1>3
<1> QED BY <1>1, <1>2, <1>4
-----------------------------------------------------------------------------
(***************************************************************************)
(* Joined, step by step.  Flat is the property that its definition asks *)
(* of the function of partial results.                                      *)
(***************************************************************************)
Cat(a, b) == a \o b

Flat(f, s, n) ==
  f = [i \in 1..n |-> IF i = 1 THEN s[i] ELSE Cat(f[i-1], s[i])]

\* Its values
LEMMA FlatAt ==
  ASSUME NEW f, NEW s, NEW n \in Nat, Flat(f, s, n), NEW i \in 1..n
  PROVE  f[i] = IF i = 1 THEN s[i] ELSE Cat(f[i-1], s[i])
BY Zenon DEF Flat

\* The partial results exist.
LEMMA FlatExists ==
  ASSUME NEW s, NEW n \in Nat PROVE \E f : Flat(f, s, n)
<1> DEFINE S == {k \in Nat : \E f : Flat(f, s, k)}
<1>1. 0 \in S
  <2> DEFINE e == [i \in 1..0 |-> s[1]]
  <2>1. Flat(e, s, 0) BY DEF Flat
  <2> HIDE DEF e
  <2> QED BY <2>1, Zenon
<1>2. ASSUME NEW k \in Nat, k \in S PROVE k + 1 \in S
  <2>1. PICK f : Flat(f, s, k) BY <1>2, Zenon
  <2> DEFINE v == IF k = 0 THEN s[k+1] ELSE Cat(f[k], s[k+1])
  <2> DEFINE g == [i \in 1..(k+1) |-> IF i = k + 1 THEN v ELSE f[i]]
  <2>2. ASSUME NEW i \in 1..(k+1)
        PROVE  g[i] = IF i = 1 THEN s[i] ELSE Cat(g[i-1], s[i])
    <3>1. CASE i = k + 1
      <4>1. g[i] = v BY <3>1
      <4>2. i # 1 => g[i-1] = f[k] BY <3>1
      <4> HIDE DEF g
      <4> QED BY <3>1, <4>1, <4>2, SMTT(60)
    <3>2. CASE i # k + 1
      <4>1. g[i] = f[i] /\ i \in 1..k BY <3>2
      <4>2. i # 1 => g[i-1] = f[i-1] BY <3>2
      <4>3. f[i] = IF i = 1 THEN s[i] ELSE Cat(f[i-1], s[i]) BY <2>1, <4>1, FlatAt, SMTT(60)
      <4> HIDE DEF g
      <4> QED BY <4>1, <4>2, <4>3, Zenon
    <3> QED BY <3>1, <3>2, Zenon
  <2>3. Flat(g, s, k + 1)
    <3>1. g = [i \in 1..(k+1) |-> g[i]] OBVIOUS
    <3> HIDE DEF g
    <3> QED BY <2>2, <3>1, Zenon DEF Flat
  <2>4. k + 1 \in Nat OBVIOUS
  <2> HIDE DEF g
  <2> QED BY <2>3, <2>4, Zenon
<1>3. Nat \subseteq S
  <2> HIDE DEF S
  <2> QED BY <1>1, <1>2, Induction, Zenon
<1> QED BY <1>3

Agree(s, t, n) == \A i \in 1..n : s[i] = t[i]

\* They are determined by the sequences they are made of.
LEMMA FlatUnique ==
  ASSUME NEW s, NEW t, NEW n \in Nat, NEW m \in Nat, n <= m,
         NEW f, NEW g, Flat(f, s, n), Flat(g, t, m),
         Agree(s, t, n)
  PROVE  \A i \in 1..n : f[i] = g[i]
<1>0. \A i \in 1..n : s[i] = t[i] BY DEF Agree
<1> DEFINE S == {k \in Nat : k + 1 \in 1..n => f[k+1] = g[k+1]}
<1>1. 0 \in S
  <2>1. CASE n # 0
    <3>1. 1 \in 1..n /\ 1 \in 1..m BY <2>1, SMTT(60)
    <3>2. f[1] = s[1] /\ g[1] = t[1] BY <3>1, FlatAt, Zenon
    <3> QED BY <1>0, <3>1, <3>2, SMTT(60)
  <2> QED BY <2>1
<1>2. ASSUME NEW k \in Nat, k \in S PROVE k + 1 \in S
  <2>1. CASE k + 2 \in 1..n
    <3>1. f[k+1] = g[k+1] /\ s[k+2] = t[k+2] BY <1>0, <1>2, <2>1, SMTT(60)
    <3>2. k + 2 \in 1..m /\ k + 2 # 1 /\ (k + 2) - 1 = k + 1 BY <2>1
    <3>3. f[k+2] = Cat(f[k+1], s[k+2])
      <4>1. f[k+2] = Cat(f[(k+2)-1], s[k+2]) BY <2>1, <3>2, FlatAt, SMTT(60)
      <4> QED BY <3>2, <4>1, Zenon
    <3>4. g[k+2] = Cat(g[k+1], t[k+2])
      <4>1. g[k+2] = Cat(g[(k+2)-1], t[k+2]) BY <3>2, FlatAt, SMTT(60)
      <4> QED BY <3>2, <4>1, Zenon
    <3> QED BY <3>1, <3>3, <3>4, SMTT(60)
  <2> QED BY <2>1
<1>3. Nat \subseteq S
  <2> HIDE DEF S
  <2> QED BY <1>1, <1>2, Induction, Zenon
<1> TAKE i \in 1..n
<1>4. i - 1 \in Nat /\ i - 1 \in S BY <1>3
<1> QED BY <1>4

\* Joined is the last partial result.
LEMMA JoinedIs ==
  ASSUME NEW s, Len(s) \in Nat \ {0}, NEW f, Flat(f, s, Len(s))
  PROVE  Joined(s) = f[Len(s)]
<1> DEFINE c == CHOOSE g : Flat(g, s, Len(s))
<1>1. Flat(c, s, Len(s)) BY Zenon
<1>2. Joined(s) = c[Len(s)]
  <2>1. Len(<<>>) = 0 /\ Len(s) # 0 OBVIOUS
  <2>2. s # <<>> BY <2>1, Zenon
  <2> QED BY <2>2, Zenon DEF Joined, Flat, Cat
<1> HIDE DEF c
<1>3. Agree(s, s, Len(s)) BY DEF Agree
<1>4. \A i \in 1..Len(s) : f[i] = c[i] BY <1>1, <1>3, FlatUnique, SMTT(60)
<1> QED BY <1>2, <1>4, SMTT(60)

\* Of the empty sequence
LEMMA JoinedEmpty == Joined(<<>>) = <<>>
BY DEF Joined

\* One more sequence goes to the end.
LEMMA JoinedAppend ==
  ASSUME NEW S, NEW s \in Seq(Seq(S)), NEW x \in Seq(S)
  PROVE  Joined(Append(s, x)) = Joined(s) \o x
<1> DEFINE n == Len(s)
<1> DEFINE t == Append(s, x)
<1>1. n \in Nat /\ n + 1 \in Nat \ {0} /\ Len(t) = n + 1 /\ t[n+1] = x OBVIOUS
<1>2. Agree(s, t, n) BY DEF Agree
<1>3. n = 0 => s = <<>> OBVIOUS
<1> HIDE DEF n, t
<1>4. PICK f : Flat(f, t, n + 1) BY <1>1, FlatExists, ZenonT(60)
<1>5. Joined(t) = f[n+1] BY <1>1, <1>4, JoinedIs, Zenon
<1>6. CASE n = 0
  <2>1. f[1] = x
    <3>1. 1 \in 1..(n+1) /\ n + 1 = 1 BY <1>6
    <3> QED BY <1>1, <1>4, <3>1, FlatAt
  <2>2. Joined(s) \o x = x BY <1>3, <1>6, JoinedEmpty, SMTT(60)
  <2> QED BY <1>5, <1>6, <2>1, <2>2 DEF t
<1>7. CASE n # 0
  <2>1. PICK g : Flat(g, s, n) BY <1>1, FlatExists, Zenon
  <2>2. Joined(s) = g[n]
    <3>1. Flat(g, s, Len(s)) /\ Len(s) \in Nat \ {0} BY <1>1, <1>7, <2>1, Zenon DEF n
    <3> QED BY <3>1, JoinedIs, Zenon DEF n
  <2>3. g[n] = f[n]
    <3>1. n <= n + 1 /\ n \in 1..n /\ n + 1 \in Nat /\ n \in Nat BY <1>1, <1>7, SMTT(60)
    <3>2. \A i \in 1..n : g[i] = f[i] BY <1>2, <1>4, <2>1, <3>1, FlatUnique, SMTT(60)
    <3> QED BY <3>1, <3>2, Zenon
  <2>4. f[n+1] = Cat(f[n], t[n+1])
    <3>1. n + 1 \in 1..(n+1) /\ n + 1 # 1 /\ (n + 1) - 1 = n BY <1>1, <1>7, SMTT(60)
    <3>2. f[n+1] = Cat(f[(n+1)-1], t[n+1]) BY <1>1, <1>4, <3>1, FlatAt, SMTT(60)
    <3> QED BY <3>1, <3>2
  <2>5. f[n+1] = Cat(Joined(s), x) BY <1>1, <2>2, <2>3, <2>4, Zenon
  <2> QED BY <1>5, <2>5, Zenon DEF t, Cat
<1> QED BY <1>6, <1>7, Zenon

\* The type
LEMMA CatType ==
  ASSUME NEW S, NEW a \in Seq(S), NEW b \in Seq(S) PROVE Cat(a, b) \in Seq(S)
BY DEF Cat

\* What sequences of characters flatten to is one.
LEMMA JoinedType ==
  ASSUME NEW S, NEW s \in Seq(Seq(S)) PROVE Joined(s) \in Seq(S)
<1>1. CASE Len(s) = 0
  <2>1. s = <<>> BY <1>1, SMTT(60)
  <2>2. Joined(s) = <<>> BY <2>1, JoinedEmpty, Zenon
  <2> QED BY <2>2, SMTT(60)
<1>2. CASE Len(s) # 0
  <2> DEFINE n == Len(s)
  <2>1. n \in Nat \ {0} /\ \A i \in 1..n : s[i] \in Seq(S) BY <1>2, SMTT(60)
  <2>2. n = Len(s) OBVIOUS
  <2> HIDE DEF n
  <2>3. PICK f : Flat(f, s, n) BY <2>1, FlatExists, Zenon
  <2> DEFINE T == {k \in Nat : k + 1 \in 1..n => f[k+1] \in Seq(S)}
  <2>4. 0 \in T
    <3>1. 1 \in 1..n BY <2>1
    <3>2. f[1] = s[1] BY <2>1, <2>3, <3>1, FlatAt, Zenon
    <3> QED BY <2>1, <3>1, <3>2
  <2>5. ASSUME NEW k \in Nat, k \in T PROVE k + 1 \in T
    <3>1. CASE k + 2 \in 1..n
      <4>1. k + 2 # 1 /\ (k + 2) - 1 = k + 1 /\ k + 1 \in 1..n BY <2>1, <3>1, SMTT(60)
      <4>2. f[k+2] = Cat(f[(k+2)-1], s[k+2]) BY <2>1, <2>3, <3>1, <4>1, FlatAt, SMTT(60)
      <4>3. f[k+1] \in Seq(S) /\ s[k+2] \in Seq(S) BY <2>1, <2>5, <3>1, <4>1, Zenon
      <4>4. Cat(f[k+1], s[k+2]) \in Seq(S) BY <4>3, CatType, Zenon
      <4> QED BY <4>1, <4>2, <4>4, SMTT(60)
    <3> QED BY <3>1, SMTT(60)
  <2>6. Nat \subseteq T
    <3> HIDE DEF T
    <3> QED BY <2>4, <2>5, Induction, Zenon
  <2>7. n - 1 \in Nat /\ (n - 1) + 1 = n /\ n \in 1..n BY <2>1
  <2>8. n - 1 \in T BY <2>6, <2>7, Zenon
  <2>9. f[n] \in Seq(S) BY <2>7, <2>8, Zenon
  <2> QED BY <2>1, <2>2, <2>3, <2>9, JoinedIs, SMTT(60)
<1> QED BY <1>1, <1>2, Zenon
-----------------------------------------------------------------------------
(***************************************************************************)
(* Streams that are cut, moved and put together again.                      *)
(***************************************************************************)
\* A byte that has been replaced stays replaced.
LEMMA SameTransitive ==
  ASSUME NEW x, NEW y, NEW z, Same(x, y), Same(y, z) PROVE Same(x, z)
BY Zenon DEF Same

\* It still does when more is sent.
LEMMA CarriesLonger ==
  ASSUME NEW S, NEW a \in Seq(S), NEW b \in Seq(S), NEW x \in S, Carries(a, b)
  PROVE  Carries(a, Append(b, x))
BY DEF Carries

\* A part of a beginning is a beginning.
LEMMA CarriesShorter ==
  ASSUME NEW S, NEW a \in Seq(S), NEW b \in Seq(S), NEW c \in Seq(S), Carries(a \o b, c)
  PROVE  Carries(a, c)
BY SMTT(60) DEF Carries

\* What is sent arrives at the end of what is under way.
LEMMA CarriesNext ==
  ASSUME NEW S, NEW a \in Seq(S), NEW b \in Seq(S), NEW x \in S, Carries(a, b),
         Len(a) = Len(b)
  PROVE  Carries(Append(a, x), Append(b, x)) /\ Len(Append(a, x)) = Len(Append(b, x))
<1> DEFINE c == Append(a, x)  d == Append(b, x)  n == Len(a)
<1>1. /\ n \in Nat /\ Len(c) = n + 1 /\ Len(d) = n + 1
      /\ c[n + 1] = x /\ d[n + 1] = x
      /\ \A i \in 1..n : c[i] = a[i] /\ d[i] = b[i]
  OBVIOUS
<1>2. \A i \in 1..n : Same(a[i], b[i])
  BY Zenon DEF Carries
<1>3. Same(x, x) BY Zenon DEF Same
<1> HIDE DEF c, d, n
<1>4. ASSUME NEW i \in 1..(n + 1) PROVE Same(c[i], d[i])
  <2>1. i \in 1..n \/ i = n + 1 BY <1>1
  <2> QED BY <1>1, <1>2, <1>3, <2>1, Zenon
<1>5. Carries(c, d) BY <1>1, <1>4 DEF Carries
<1> QED BY <1>1, <1>5, Zenon DEF c, d

\* Type and length of two parts put together.
LEMMA CatLen ==
  ASSUME NEW S, NEW a \in Seq(S), NEW b \in Seq(S)
  PROVE  a \o b \in Seq(S) /\ Len(a \o b) = Len(a) + Len(b)
OBVIOUS

\* A part of a stream is replaced, byte by byte, by one that carries it.
LEMMA CarriesPart ==
  ASSUME NEW S, NEW a \in Seq(S), NEW b \in Seq(S), NEW c \in Seq(S), NEW d \in Seq(S),
         NEW p, Carries(b, c), Len(b) = Len(c), Carries((a \o c) \o d, p)
  PROVE  Carries((a \o b) \o d, p) /\ Len((a \o b) \o d) = Len((a \o c) \o d)
<1> DEFINE x == (a \o b) \o d  y == (a \o c) \o d  m == Len(y)
<1>1. /\ Len(x) = m /\ m \in Nat /\ m = Len(a) + Len(c) + Len(d)
      /\ Len(a) \in Nat /\ Len(b) \in Nat /\ Len(d) \in Nat
  <2> DEFINE f == a \o b  g == a \o c
  <2>1. /\ f \in Seq(S) /\ Len(f) = Len(a) + Len(b)
        /\ g \in Seq(S) /\ Len(g) = Len(a) + Len(c)
    BY CatLen, Zenon
  <2> HIDE DEF f, g
  <2>2. Len(f \o d) = Len(f) + Len(d) /\ Len(g \o d) = Len(g) + Len(d)
    BY <2>1, CatLen, Zenon
  <2>3. Len(a) \in Nat /\ Len(b) \in Nat /\ Len(d) \in Nat OBVIOUS
  <2>4. Len(x) = Len(f) + Len(d) /\ m = Len(g) + Len(d) BY <2>2, Zenon DEF f, g
  <2> QED BY <2>1, <2>3, <2>4
<1>2. \A i \in 1..Len(b) : Same(b[i], c[i])
  BY Zenon DEF Carries
<1>3. ASSUME NEW z PROVE Same(z, z) BY Zenon DEF Same
<1>4. ASSUME NEW i \in 1..m PROVE Same(x[i], y[i])
  <2>1. CASE i <= Len(a)
    <3>1. x[i] = a[i] /\ y[i] = a[i] BY <1>1, <2>1, SMTT(60)
    <3> QED BY <1>3, <3>1, Zenon
  <2>2. CASE i > Len(a) /\ i <= Len(a) + Len(b)
    <3>1. i - Len(a) \in 1..Len(b) BY <1>1, <2>2
    <3>2. x[i] = b[i - Len(a)] BY <1>1, <2>2, SMTT(60)
    <3>3. y[i] = c[i - Len(a)] BY <1>1, <2>2, SMTT(60)
    <3> QED BY <1>2, <3>1, <3>2, <3>3, Zenon
  <2>3. CASE i > Len(a) + Len(b)
    <3>1. x[i] = d[i - (Len(a) + Len(b))] BY <1>1, <2>3, SMTT(60)
    <3>2. y[i] = d[i - (Len(a) + Len(b))] BY <1>1, <2>3, SMTT(60)
    <3> QED BY <1>3, <3>1, <3>2, Zenon
  <2> QED BY <1>1, <2>1, <2>2, <2>3
<1>5. Len(y) <= Len(p) /\ \A i \in 1..m : Same(y[i], p[i])
  BY Zenon DEF Carries
<1> HIDE DEF x, y, m
<1>6. \A i \in 1..m : Same(x[i], p[i])
  BY <1>4, <1>5, SameTransitive, Zenon
<1>7. Len(x) <= Len(p) BY <1>1, <1>5 DEF m
<1>8. Carries(x, p) BY <1>1, <1>6, <1>7, Zenon DEF Carries
<1> QED BY <1>1, <1>8, Zenon DEF x, y, m

\* Nothing waiting, or nothing relayed yet.
LEMMA CatEmpty == ASSUME NEW S, NEW a \in Seq(S) PROVE a \o <<>> = a /\ <<>> \o a = a
OBVIOUS

\* What arrives last is last.
LEMMA CatAppend ==
  ASSUME NEW S, NEW a \in Seq(S), NEW b \in Seq(S), NEW x \in S
  PROVE  a \o Append(b, x) = Append(a \o b, x)
OBVIOUS

\* Streams are equal when they agree everywhere.
LEMMA SameStream ==
  ASSUME NEW S, NEW p \in Seq(S), NEW q \in Seq(S), NEW m, Len(p) = m, Len(q) = m,
         \A i \in 1..m : p[i] = q[i]
  PROVE  p = q
OBVIOUS

\* The first n of what is waiting become the message in hand.
LEMMA CatTake ==
  ASSUME NEW S, NEW a \in Seq(S), NEW b \in Seq(S), NEW n \in 1..Len(b)
  PROVE  /\ SubSeq(b, 1, n) \in Seq(S) /\ SubSeq(b, n + 1, Len(b)) \in Seq(S)
         /\ (a \o SubSeq(b, 1, n)) \o SubSeq(b, n + 1, Len(b)) = a \o b
<1> DEFINE c == SubSeq(b, 1, n)  d == SubSeq(b, n + 1, Len(b))
<1>1. c \in Seq(S) /\ Len(c) = n /\ \A i \in 1..n : c[i] = b[i] OBVIOUS
<1>2. /\ d \in Seq(S) /\ Len(d) = Len(b) - n
      /\ \A i \in 1..(Len(b) - n) : d[i] = b[n + i]
  OBVIOUS
<1> HIDE DEF c, d
<1> DEFINE e == a \o c
<1>3. Len(a) \in Nat /\ Len(b) \in Nat /\ n \in Nat OBVIOUS
<1>4. /\ e \in Seq(S) /\ Len(e) = Len(a) + n
      /\ \A i \in 1..Len(a) : e[i] = a[i]
      /\ \A i \in 1..n : e[Len(a) + i] = b[i]
  <2>1. e \in Seq(S) BY <1>1
  <2>2. Len(e) = Len(a) + Len(c) BY <1>1, SMTT(60)
  <2>3. \A i \in 1..Len(a) : e[i] = a[i] BY <1>1
  <2>4. ASSUME NEW i \in 1..n PROVE e[Len(a) + i] = b[i]
    <3>1. Len(a) + i \in 1..(Len(a) + Len(c)) /\ ~(Len(a) + i <= Len(a)) /\ (Len(a) + i) - Len(a) = i
      BY <1>1, <1>3, SMTT(60)
    <3>2. e[Len(a) + i] = c[(Len(a) + i) - Len(a)] BY <1>1, <3>1, SMTT(60)
    <3> QED BY <1>1, <3>1, <3>2, Zenon
  <2> HIDE DEF e
  <2> QED BY <1>1, <2>1, <2>2, <2>3, <2>4, Zenon
<1> HIDE DEF e
<1>5. e \o d = a \o b
  <2>1. e \o d \in Seq(S) /\ Len(e \o d) = Len(a) + Len(b)
    <3>1. e \o d \in Seq(S) /\ Len(e \o d) = Len(e) + Len(d)
      <4>1. e \in Seq(S) /\ d \in Seq(S) BY <1>2, <1>4, Zenon
      <4> QED BY <4>1, CatLen, Zenon
    <3> QED BY <1>2, <1>3, <1>4, <3>1, SMTT(60)
  <2>2. a \o b \in Seq(S) /\ Len(a \o b) = Len(a) + Len(b) OBVIOUS
  <2>3. ASSUME NEW i \in 1..(Len(a) + Len(b)) PROVE (e \o d)[i] = (a \o b)[i]
    <3>1. CASE i <= Len(a) BY <1>2, <1>3, <1>4, <3>1, SMTT(60)
    <3>2. CASE i > Len(a) /\ i <= Len(a) + n
      <4>1. i - Len(a) \in 1..n /\ Len(a) + (i - Len(a)) = i BY <1>3, <3>2, SMTT(60)
      <4>2. (e \o d)[i] = e[i] BY <1>2, <1>3, <1>4, <3>2, SMTT(60)
      <4>3. (a \o b)[i] = b[i - Len(a)] BY <1>3, <3>2, SMTT(60)
      <4>4. e[Len(a) + (i - Len(a))] = b[i - Len(a)] BY <1>4, <4>1, Zenon
      <4> QED BY <4>1, <4>2, <4>3, <4>4, SMTT(60)
    <3>3. CASE i > Len(a) + n
      <4>1. /\ i - (Len(a) + n) \in 1..(Len(b) - n)
            /\ n + (i - (Len(a) + n)) = i - Len(a)
        BY <1>3, <3>3, SMTT(60)
      <4>2. (e \o d)[i] = d[i - (Len(a) + n)] BY <1>2, <1>3, <1>4, <3>3, SMTT(60)
      <4>3. (a \o b)[i] = b[i - Len(a)] BY <1>3, <3>3, SMTT(60)
      <4>4. d[i - (Len(a) + n)] = b[n + (i - (Len(a) + n))] BY <1>2, <4>1, Zenon
      <4> QED BY <4>1, <4>2, <4>3, <4>4, SMTT(60)
    <3>4. i <= Len(a) \/ (i > Len(a) /\ i <= Len(a) + n) \/ i > Len(a) + n BY <1>3
    <3> QED BY <3>1, <3>2, <3>3, <3>4, ZenonT(60)
  <2> DEFINE p == e \o d  q == a \o b  m == Len(a) + Len(b)
  <2>4. /\ p \in Seq(S) /\ q \in Seq(S) /\ Len(p) = m /\ Len(q) = m
        /\ \A i \in 1..m : p[i] = q[i]
    BY <2>1, <2>2, <2>3, Zenon
  <2> HIDE DEF p, q, m
  <2>5. p = q BY <2>4, SameStream, SMT
  <2> QED BY <2>5, Zenon DEF p, q
<1> QED BY <1>1, <1>2, <1>5, Zenon DEF c, d, e

\* The first one joins the message in hand.
LEMMA CatMove ==
  ASSUME NEW S, NEW a \in Seq(S), NEW b \in Seq(S), b # <<>>
  PROVE  /\ Head(b) \in S /\ Tail(b) \in Seq(S)
         /\ Append(a, Head(b)) \o Tail(b) = a \o b
BY SMTT(60)
-----------------------------------------------------------------------------
(***************************************************************************)
(* The gateway.                                                             *)
(***************************************************************************)
\* The bytes of a message: the phone's, or a replacement.
UpChars == PhoneChars \cup {Bad}

Up == Joined(Texts(relayed))
Down == Joined(delivered)

\* Every message to the emulator is a line.
Line(m) == Text(m) # <<>> /\ m = Text(m) \o Separator
Separated(messages) == \A i \in 1..Len(messages) : Line(messages[i])

Types ==
  /\ up \in Seq(UpChars) /\ readMessage \in Seq(UpChars)
  /\ phoneSent \in Seq(UpChars)
  /\ relayed \in Seq(Seq(UpChars \cup {CR, NL})) /\ Texts(relayed) \in Seq(Seq(UpChars))
  /\ Separated(relayed)
  /\ down \in Seq(EmuChars) /\ sb \in Seq(EmuChars)
  /\ emuSent \in Seq(EmuChars) /\ delivered \in Seq(Seq(EmuChars))

\* A message is in a thread's hands only between its read and its send.
Hands ==
  /\ rx = "send" => readMessage # <<>>
  /\ rx # "send" => readMessage = <<>>
  /\ tx \in {"new", "test", "sleep"} => sb = <<>>
  /\ main \in {"telnet", "bluetooth", "start_rx"} => rx = "new"
  /\ main \in {"telnet", "bluetooth", "start_rx", "start_tx"} => tx = "new"

\* main makes the connections before it starts the threads.
Fresh ==
  /\ main = "telnet" => emuSent = <<>> /\ down = <<>> /\ telnet = "null"
  /\ main \in {"telnet", "bluetooth"} =>
       /\ bt = "null"
       /\ phoneSent = <<>> /\ up = <<>> /\ relayed = <<>> /\ delivered = <<>>

Whole == (Up \o readMessage) \o up

UpOk ==
  /\ Carries(Up, phoneSent)
  /\ telnet = "open" /\ ~emuGone => Carries(Whole, phoneSent)
  /\ telnet = "open" /\ ~emuGone /\ ~phoneGone => Len(Whole) = Len(phoneSent)

\* All but the last of a sequence are no newlines.
OneLine(s) == \A j \in 1..(Len(s) - 1) : s[j] # NL
NoLine(s) == \A j \in 1..Len(s) : s[j] # NL

Lines ==
  /\ \A i \in 1..Len(delivered) : OneLine(delivered[i])
  /\ OneLine(sb)
  /\ tx = "read" => NoLine(sb)

DownOk ==
  (main \in {"telnet", "bluetooth"} \/ (bt = "open" /\ ~phoneGone)) =>
    (Down \o sb) \o down = emuSent

IInv == Types /\ Hands /\ Fresh /\ UpOk /\ Lines /\ DownOk

upVars == <<relayed, readMessage, up, phoneSent>>
downVars == <<delivered, sb, down, emuSent>>

\* Decoding replaces bytes that are no character and changes nothing else.
LEMMA DecodedCarries ==
  ASSUME NEW c \in Seq(UpChars)
  PROVE  Decoded(c) \in Seq(UpChars) /\ Len(Decoded(c)) = Len(c) /\ Carries(Decoded(c), c)
<1> DEFINE d == Decoded(c)
<1>1. /\ Len(c) \in Nat /\ d \in [1..Len(c) -> UpChars]
      /\ \A i \in 1..Len(c) : d[i] = c[i] \/ (d[i] = Bad /\ c[i] \notin Ascii)
  BY DEF Decoded, UpChars
<1> HIDE DEF d
<1>2. d \in Seq(UpChars) /\ Len(d) = Len(c) BY <1>1
<1>3. Carries(d, c) BY <1>1, <1>2 DEF Carries, Same
<1> QED BY <1>2, <1>3, Zenon DEF d

\* Taking the separator off a line gives its text back.
LEMMA TextOfLine ==
  ASSUME NEW m \in Seq(UpChars)
  PROVE  /\ m \o Separator \in Seq(UpChars \cup {CR, NL})
         /\ Text(m \o Separator) = m
<1> DEFINE S == UpChars \cup {CR, NL}  c == m \o Separator  t == Text(c)
<1>1. m \in Seq(S) /\ Separator \in Seq(S) /\ Len(m) \in Nat /\ Len(Separator) \in Nat
  <2>1. CR \in S /\ NL \in S /\ UpChars \subseteq S BY Zenon
  <2> HIDE DEF S
  <2>2. m \in Seq(S) /\ Len(m) \in Nat BY <2>1
  <2>3. <<NL>> \in Seq(S) /\ <<CR, NL>> \in Seq(S) BY <2>1
  <2>4. Separator \in Seq(S) BY <2>3, GatewayAssumption, Zenon
  <2>5. Len(Separator) \in Nat BY <2>4
  <2> QED BY <2>2, <2>4, <2>5, Zenon
<1> HIDE DEF S
<1>2. /\ c \in Seq(S) /\ Len(c) = Len(m) + Len(Separator)
      /\ \A i \in 1..Len(m) : c[i] = m[i]
  BY <1>1
<1> HIDE DEF c
<1>3. t = SubSeq(c, 1, Len(m))
  <2>1. Len(c) - Len(Separator) = Len(m) BY <1>1, <1>2
  <2> QED BY <2>1, Zenon DEF Text
<1>4. t \in Seq(S) /\ Len(t) = Len(m) /\ \A i \in 1..Len(m) : t[i] = m[i]
  BY <1>1, <1>2, <1>3, SMTT(60)
<1> HIDE DEF t
<1>5. t = m BY <1>1, <1>4, SameStream, SMT
<1> QED BY <1>2, <1>5, Zenon DEF c, t, S

\* Before the first line.
LEMMA NoTexts ==
  /\ Texts(<<>>) = <<>> /\ Separated(<<>>) /\ Carries(<<>>, <<>>)
BY DEF Texts, Separated, Carries

\* One more line.
LEMMA TextsAppend ==
  ASSUME NEW q \in Seq(Seq(UpChars \cup {CR, NL})), Texts(q) \in Seq(Seq(UpChars)),
         Separated(q), NEW m \in Seq(UpChars), m # <<>>
  PROVE  LET w == Append(q, m \o Separator)
         IN  /\ w \in Seq(Seq(UpChars \cup {CR, NL})) /\ Texts(w) \in Seq(Seq(UpChars))
             /\ Texts(w) = Append(Texts(q), m)
             /\ Separated(w)
<1> DEFINE S == Seq(UpChars \cup {CR, NL})  c == m \o Separator  w == Append(q, c)
           n == Len(q)  t == Texts(q)  u == Append(t, m)
<1>1. c \in S /\ Text(c) = m BY TextOfLine, Zenon
<1>2. Line(c)
  <2>1. c = Text(c) \o Separator BY <1>1, Zenon
  <2> QED BY <1>1, <2>1, Zenon DEF Line
<1> HIDE DEF S, c
<1>3. /\ w \in Seq(S) /\ Len(w) = n + 1 /\ n \in Nat /\ w[n + 1] = c
      /\ \A i \in 1..n : w[i] = q[i]
  BY <1>1 DEF S
<1> HIDE DEF w
<1>4. t = [i \in 1..n |-> Text(q[i])] BY Zenon DEF Texts
<1>5. Len(t) = n /\ \A i \in 1..n : t[i] = Text(q[i])
  <2>1. t \in Seq(Seq(UpChars)) OBVIOUS
  <2> HIDE DEF t
  <2>2. DOMAIN t = 1..n /\ \A i \in 1..n : t[i] = Text(q[i]) BY <1>4, Zenon
  <2> QED BY <1>3, <2>1, <2>2
<1> HIDE DEF t
<1>6. /\ u \in Seq(Seq(UpChars)) /\ Len(u) = n + 1 /\ u[n + 1] = m
      /\ \A i \in 1..n : u[i] = t[i]
  <2>1. t \in Seq(Seq(UpChars)) BY Zenon DEF t
  <2> QED BY <1>3, <1>5, <2>1
<1> HIDE DEF u, n
<1>7. ASSUME NEW i \in 1..(n + 1) PROVE u[i] = Text(w[i]) /\ Line(w[i])
  <2>1. i \in 1..n \/ i = n + 1 BY <1>3
  <2>2. CASE i \in 1..n
    <3>1. Line(q[i]) BY <2>2, Zenon DEF Separated, n
    <3> QED BY <1>3, <1>5, <1>6, <2>2, <3>1, Zenon
  <2>3. CASE i = n + 1 BY <1>1, <1>2, <1>3, <1>6, <2>3, Zenon
  <2> QED BY <2>1, <2>2, <2>3, Zenon
<1>8. Separated(w) BY <1>3, <1>7, Zenon DEF Separated
<1>9. Texts(w) = u
  <2>1. Texts(w) = [i \in 1..(n + 1) |-> Text(w[i])] BY <1>3, Zenon DEF Texts
  <2>2. [i \in 1..(n + 1) |-> Text(w[i])] = [i \in 1..(n + 1) |-> u[i]] BY <1>7, Zenon
  <2>3. u = [i \in 1..(n + 1) |-> u[i]] BY <1>3, <1>6, SMTT(60)
  <2> QED BY <2>1, <2>2, <2>3, Zenon
<1> QED BY <1>3, <1>6, <1>8, <1>9, Zenon DEF S, c, w, u, t

\* The types of the flattened histories and of the parts put together
LEMMA FlatTypes ==
  ASSUME Types
  PROVE  /\ Up \in Seq(UpChars) /\ Down \in Seq(EmuChars)
         /\ Up \o readMessage \in Seq(UpChars) /\ Whole \in Seq(UpChars)
         /\ Down \o sb \in Seq(EmuChars)
<1>1. Up \in Seq(UpChars) BY JoinedType, Zenon DEF Types, Up
<1>2. Down \in Seq(EmuChars) BY JoinedType, Zenon DEF Types, Down
<1> QED BY <1>1, <1>2 DEF Types, Whole

\* A step that moves no character and neither opens the telnet socket nor
\* brings a peer back
LEMMA UpFewer ==
  ASSUME UpOk, UNCHANGED upVars,
         telnet' = "open" => telnet = "open",
         emuGone' \in {emuGone, TRUE}, phoneGone' \in {phoneGone, TRUE}
  PROVE  UpOk'
BY Zenon DEF UpOk, upVars, Up, Whole

\* The same for the stream towards the phone
LEMMA DownFewer ==
  ASSUME DownOk, UNCHANGED downVars,
         main' \in {"telnet", "bluetooth"} => main \in {"telnet", "bluetooth"},
         bt' = "open" => bt = "open" \/ main \in {"telnet", "bluetooth"},
         phoneGone' \in {phoneGone, TRUE}
  PROVE  DownOk'
BY Zenon DEF DownOk, downVars, Down

\* A step of another thread leaves the lines as they are.
LEMMA LinesKept ==
  ASSUME Lines, UNCHANGED <<delivered, sb>>, tx' = "read" => tx = "read"
  PROVE  Lines'
BY Zenon DEF Lines, OneLine, NoLine

\* ... and the types.
LEMMA TypesKept ==
  ASSUME Types, UNCHANGED <<upVars, downVars>> PROVE Types'
BY Zenon DEF Types, upVars, downVars

\* A step that touches no character and no connection
LEMMA QuietStep ==
  ASSUME IInv, UNCHANGED <<main, rx, tx, telnet, bt, emuGone, phoneGone, upVars, downVars>>
  PROVE  IInv'
<1> USE DEF IInv
<1>1. Types' BY TypesKept, Zenon
<1>2. Hands' /\ Fresh' BY Zenon DEF Hands, Fresh, upVars, downVars
<1>3. UpOk' BY UpFewer, Zenon
<1>4. Lines' BY LinesKept, Zenon DEF downVars
<1>5. DownOk' BY DownFewer, Zenon
<1> QED BY <1>1, <1>2, <1>3, <1>4, <1>5, ZenonT(60)

\* Steps of main: the connections are made, the threads started.
LEMMA MainStep == IInv /\ Main => IInv'
<1> SUFFICES ASSUME IInv, Main PROVE IInv' OBVIOUS
<1> USE DEF IInv
<1>1. UNCHANGED <<upVars, downVars, emuGone, phoneGone>>
  BY Zenon DEF Main, newClientTelnet, newClientBluetooth, Start, startReceiver,
        startTransmitter, catchSignal, history, streams, upVars, downVars
<1>2. CASE newClientTelnet
  <2>1. Hands' BY <1>2, <1>1, ZenonT(60) DEF newClientTelnet, Hands, upVars, downVars
  <2>2. Fresh' BY <1>2, <1>1, ZenonT(60) DEF newClientTelnet, Fresh, upVars, downVars
  <2>3. UpOk'
    <3>1. relayed = <<>> /\ readMessage = <<>> /\ up = <<>> /\ phoneSent = <<>>
      BY <1>2, Zenon DEF newClientTelnet, Fresh, Hands
    <3>2. relayed' = <<>> /\ readMessage' = <<>> /\ up' = <<>> /\ phoneSent' = <<>>
      BY <1>1, <3>1, ZenonT(60) DEF upVars
    <3>3. Up' = <<>>
      <4>1. Texts(<<>>) = <<>> BY NoTexts, Zenon
      <4> QED BY <3>2, <4>1, JoinedEmpty, ZenonT(60) DEF Up
    <3>4. Whole' = (<<>> \o <<>>) \o <<>> BY <3>2, <3>3, ZenonT(60) DEF Whole
    <3>5. Whole' = <<>> BY <3>4, SMTT(60)
    <3>6. Carries(<<>>, <<>>) BY NoTexts, Zenon
    <3> QED BY <3>2, <3>3, <3>5, <3>6, ZenonT(60) DEF UpOk
  <2>4. Lines' BY <1>1, <1>2, LinesKept, ZenonT(60) DEF newClientTelnet, downVars
  <2>5. DownOk' BY <1>1, <1>2, DownFewer, ZenonT(60) DEF newClientTelnet
  <2> QED BY <1>1, <2>1, <2>2, <2>3, <2>4, <2>5, TypesKept, Zenon
<1>3. CASE newClientBluetooth
  <2>1. Hands' BY <1>3, <1>1, ZenonT(60) DEF newClientBluetooth, Hands, upVars, downVars
  <2>2. Fresh' BY <1>3, <1>1, ZenonT(60) DEF newClientBluetooth, Fresh, upVars, downVars
  <2>3. UpOk' BY <1>1, <1>3, UpFewer, ZenonT(60) DEF newClientBluetooth
  <2>4. Lines' BY <1>1, <1>3, LinesKept, ZenonT(60) DEF newClientBluetooth, downVars
  <2>5. DownOk' BY <1>1, <1>3, DownFewer, ZenonT(60) DEF newClientBluetooth
  <2> QED BY <1>1, <2>1, <2>2, <2>3, <2>4, <2>5, TypesKept, SMTT(60)
<1>4. CASE Start
  <2>1. UNCHANGED streams BY <1>4, ZenonT(60) DEF Start, startReceiver, startTransmitter, catchSignal
  <2>2. Hands'
    BY <1>4, <1>1, ZenonT(60) DEF Start, startReceiver, startTransmitter, catchSignal, Hands,
          upVars, downVars
  <2>3. Fresh'
    BY <1>4, <1>1, <2>1, ZenonT(60) DEF Start, startReceiver, startTransmitter, catchSignal,
          Fresh, streams, upVars, downVars
  <2>4. UpOk' BY <1>1, <2>1, UpFewer, ZenonT(60) DEF streams
  <2>5. Lines'
    <3>1. tx' = "read" => tx = "read"
      BY <1>4, Zenon DEF Start, startReceiver, startTransmitter, catchSignal
    <3> QED BY <1>1, <3>1, LinesKept, ZenonT(60) DEF downVars
  <2>6. DownOk'
    <3>1. main' \notin {"telnet", "bluetooth"}
      BY <1>4, ZenonT(60) DEF Start, startReceiver, startTransmitter, catchSignal
    <3> QED BY <1>1, <2>1, <3>1, DownFewer, ZenonT(60) DEF streams
  <2> QED BY <1>1, <2>2, <2>3, <2>4, <2>5, <2>6, TypesKept, Zenon
<1> QED BY <1>2, <1>3, <1>4, ZenonT(60) DEF Main

\* The receiver takes bytes out of the stream and hands them on.
LEMMA ReceiverStep == IInv /\ Receiver => IInv'
<1> SUFFICES ASSUME IInv, Receiver PROVE IInv' BY Zenon
<1> USE DEF IInv
<1>1. UNCHANGED <<main, tx, downVars, emuGone, phoneGone, phoneSent>>
  BY Zenon DEF Receiver, receiverTest, receiveDataFromBluetooth, sendDataToQemu,
        closeConnection, history, streams, downVars
<1>2. rx # "new" /\ rx' # "new"
  BY Zenon DEF Receiver, receiverTest, receiveDataFromBluetooth, sendDataToQemu,
        closeConnection
<1>3. main \notin {"telnet", "bluetooth", "start_rx"} BY <1>2, ZenonT(60) DEF Hands
<1>4. Fresh' BY <1>1, <1>3, Zenon DEF Fresh
<1>5. Lines' BY <1>1, LinesKept, Zenon DEF downVars
<1>6. ASSUME bt' = "open" => bt = "open" PROVE DownOk'
  BY <1>1, <1>6, DownFewer, ZenonT(60)
<1>7. CASE receiverTest \/ closeConnection
  <2>1. UNCHANGED upVars /\ rx # "send" /\ rx' # "send"
    BY <1>7, Zenon DEF receiverTest, closeConnection, upVars, history, streams
  <2>2. (telnet' = "open" => telnet = "open") /\ (bt' = "open" => bt = "open")
    BY <1>7, Zenon DEF receiverTest, closeConnection, streams, Closed
  <2>3. Hands' BY <1>1, <1>3, <2>1, ZenonT(60) DEF Hands, upVars, downVars
  <2>4. UpOk' BY <1>1, <2>1, <2>2, UpFewer, ZenonT(60)
  <2> QED BY <1>1, <1>4, <1>5, <1>6, <2>1, <2>2, <2>3, <2>4, TypesKept, ZenonT(60)
<1>8. CASE receiveDataFromBluetooth
  <2>1. UNCHANGED <<relayed, telnet, bt>> /\ rx = "read"
    BY <1>8, ZenonT(60) DEF receiveDataFromBluetooth, history
  <2>2. readMessage = <<>> BY <2>1, ZenonT(60) DEF Hands
  <2>3. CASE UNCHANGED <<up, readMessage>> /\ rx' = "dead"
    <3>1. UNCHANGED upVars BY <1>1, <2>1, <2>3, ZenonT(60) DEF upVars
    <3>2. UpOk' BY <1>1, <2>1, <3>1, UpFewer, ZenonT(60)
    <3>3. Hands' BY <1>1, <1>3, <2>2, <2>3, ZenonT(60) DEF Hands, downVars
    <3> QED BY <1>1, <1>4, <1>5, <1>6, <2>1, <3>1, <3>2, <3>3, TypesKept, ZenonT(60)
  <2>4. ASSUME NEW n \in 1..Len(up), readMessage' = Decoded(SubSeq(up, 1, n)),
               up' = SubSeq(up, n + 1, Len(up)), rx' = "send"
        PROVE  IInv'
    <3>3. Up \in Seq(UpChars) /\ up \in Seq(UpChars) BY FlatTypes, Zenon DEF Types
    <3> DEFINE c == SubSeq(up, 1, n)  d == SubSeq(up, n + 1, Len(up))
    <3>4. c \in Seq(UpChars) /\ d \in Seq(UpChars) /\ (Up \o c) \o d = Up \o up
      BY <3>3, CatTake, ZenonT(60)
    <3>5. c # <<>> /\ Len(c) # 0 BY <3>3
    <3>6. readMessage' = Decoded(c) /\ up' = d BY <2>4, Zenon
    <3> HIDE DEF c, d
    <3>7. /\ Decoded(c) \in Seq(UpChars) /\ Len(Decoded(c)) = Len(c)
          /\ Carries(Decoded(c), c) /\ Decoded(c) # <<>>
      <4>1. Len(<<>>) = 0 OBVIOUS
      <4> QED BY <3>4, <3>5, <4>1, DecodedCarries, Zenon
    <3>8. Up' = Up BY <2>1, Zenon DEF Up
    <3>11. Whole = (Up \o c) \o d
      <4>1. Whole = Up \o up BY <2>2, <3>3, CatEmpty, Zenon DEF Whole
      <4> QED BY <3>4, <4>1, Zenon
    <3>12. Whole' = (Up \o Decoded(c)) \o d BY <3>6, <3>8, Zenon DEF Whole
    <3>13. Carries(Whole, phoneSent) => Carries(Whole', phoneSent) /\ Len(Whole') = Len(Whole)
      <4> SUFFICES ASSUME Carries(Whole, phoneSent)
                   PROVE  Carries(Whole', phoneSent) /\ Len(Whole') = Len(Whole)
        OBVIOUS
      <4> DEFINE e == Decoded(c)  a == Up
      <4>1. /\ a \in Seq(UpChars) /\ e \in Seq(UpChars) /\ c \in Seq(UpChars) /\ d \in Seq(UpChars)
            /\ Carries(e, c) /\ Len(e) = Len(c) /\ Carries((a \o c) \o d, phoneSent)
        BY <3>3, <3>4, <3>7, <3>11, Zenon
      <4> HIDE DEF e, a
      <4>2. Carries((a \o e) \o d, phoneSent) /\ Len((a \o e) \o d) = Len((a \o c) \o d)
        BY <4>1, CarriesPart, SMTT(60)
      <4> QED BY <3>11, <3>12, <4>2, Zenon DEF e, a
    <3>14. UpOk' BY <1>1, <2>1, <3>8, <3>13, ZenonT(60) DEF UpOk
    <3>15. Types' BY <1>1, <2>1, <3>4, <3>6, <3>7, ZenonT(60) DEF Types, downVars
    <3>16. Hands' BY <1>1, <1>3, <2>4, <3>6, <3>7, ZenonT(60) DEF Hands, downVars
    <3> QED BY <1>4, <1>5, <1>6, <2>1, <3>14, <3>15, <3>16, ZenonT(60)
  <2> QED BY <1>8, <2>3, <2>4, ZenonT(60) DEF receiveDataFromBluetooth
<1>9. CASE sendDataToQemu
  <2>1. UNCHANGED <<telnet, bt, up>> /\ readMessage' = <<>> /\ rx' = "test" /\ rx = "send"
    BY <1>9, ZenonT(60) DEF sendDataToQemu, streams
  <2>2. Hands' BY <1>1, <1>3, <2>1, ZenonT(60) DEF Hands, downVars
  <2>3. /\ Up \in Seq(UpChars) /\ up \in Seq(UpChars) /\ readMessage \in Seq(UpChars)
        /\ Up \o readMessage \in Seq(UpChars) /\ Whole \in Seq(UpChars)
        /\ phoneSent \in Seq(UpChars) /\ Texts(relayed) \in Seq(Seq(UpChars))
    BY FlatTypes, SMTT(60) DEF Types
  <2>4. CASE telnet = "open" /\ ~emuGone
    <3>0. readMessage # <<>> /\ relayed' = Append(relayed, readMessage \o Separator)
      BY <1>9, <2>1, <2>4, ZenonT(60) DEF sendDataToQemu, Hands
    <3>1. /\ relayed' \in Seq(Seq(UpChars \cup {CR, NL}))
          /\ Texts(relayed') \in Seq(Seq(UpChars))
          /\ Texts(relayed') = Append(Texts(relayed), readMessage) /\ Separated(relayed')
      BY <2>3, <3>0, TextsAppend, ZenonT(60) DEF Types
    <3>2. Up' = Up \o readMessage BY <2>3, <3>1, JoinedAppend, Zenon DEF Up
    <3>3. Whole' = Whole
      <4>1. Whole' = (Up' \o <<>>) \o up BY <2>1, ZenonT(60) DEF Whole
      <4>2. Up' \o <<>> = Up \o readMessage BY <2>3, <3>2, CatEmpty, Zenon
      <4> QED BY <4>1, <4>2, ZenonT(60) DEF Whole
    <3>4. Carries(Whole, phoneSent) BY <2>4, ZenonT(60) DEF UpOk
    <3>5. Carries(Up', phoneSent) BY <2>3, <3>2, <3>4, CarriesShorter, Zenon DEF Whole
    <3>6. UpOk' BY <1>1, <2>1, <3>3, <3>4, <3>5, Zenon DEF UpOk
    <3>8. <<>> \in Seq(UpChars) OBVIOUS
    <3>9. Types' BY <1>1, <2>1, <3>1, <3>8, ZenonT(60) DEF Types, downVars
    <3> QED BY <1>4, <1>5, <1>6, <2>1, <2>2, <3>6, <3>9, ZenonT(60)
  <2>5. CASE ~(telnet = "open" /\ ~emuGone)
    <3>1. relayed' = relayed BY <1>9, <2>5, ZenonT(60) DEF sendDataToQemu
    <3>2. Up' = Up BY <3>1, ZenonT(60) DEF Up
    <3>3. UpOk' BY <1>1, <2>1, <2>5, <3>2, ZenonT(60) DEF UpOk
    <3>4. <<>> \in Seq(UpChars) OBVIOUS
    <3>5. Types' BY <1>1, <2>1, <3>1, <3>4, ZenonT(60) DEF Types, downVars
    <3> QED BY <1>4, <1>5, <1>6, <2>1, <2>2, <3>3, <3>5, ZenonT(60)
  <2> QED BY <2>4, <2>5, Zenon
<1> QED BY <1>7, <1>8, <1>9, ZenonT(60) DEF Receiver

\* The transmitter moves one character at a time.
LEMMA TransmitterStep == IInv /\ Transmitter => IInv'
<1> SUFFICES ASSUME IInv, Transmitter PROVE IInv' OBVIOUS
<1> USE DEF IInv
<1>1. UNCHANGED <<main, rx, upVars, telnet, bt, emuGone, phoneGone, emuSent>>
  BY ZenonT(60) DEF Transmitter, transmitterTest, receiveDataFromQemu, sendDataToBluetooth,
        transmitterSleep, history, streams, upVars
<1>2. tx # "new" /\ tx' # "new"
  BY Zenon DEF Transmitter, transmitterTest, receiveDataFromQemu, sendDataToBluetooth,
        transmitterSleep
<1>3. main \notin {"telnet", "bluetooth", "start_rx", "start_tx"} BY <1>2, ZenonT(60) DEF Hands
<1>4. Fresh' BY <1>1, <1>3, ZenonT(60) DEF Fresh
<1>5. UpOk' BY <1>1, UpFewer, ZenonT(60)
<1>6. ASSUME tx' \in {"new", "test", "sleep"} => sb' = <<>> PROVE Hands'
  BY <1>1, <1>3, <1>6, ZenonT(60) DEF Hands, upVars
<1>7. <<>> \in Seq(EmuChars) /\ OneLine(<<>>) /\ NoLine(<<>>) BY DEF OneLine, NoLine
<1>8. CASE transmitterTest
  <2>1. UNCHANGED <<delivered, down>> /\ sb = <<>> /\ sb' = <<>>
    BY <1>8, Zenon DEF transmitterTest, history, streams, Hands
  <2>2. UNCHANGED downVars BY <1>1, <2>1, ZenonT(60) DEF downVars
  <2>3. DownOk' BY <1>1, <2>2, DownFewer, ZenonT(60)
  <2>4. Lines' BY <1>7, <2>1, ZenonT(60) DEF Lines, OneLine
  <2> QED BY <1>1, <1>4, <1>5, <1>6, <2>1, <2>2, <2>3, <2>4, TypesKept, ZenonT(60)
<1>9. CASE transmitterSleep
  <2>1. UNCHANGED <<delivered, down, sb>> /\ sb = <<>> /\ tx' # "read"
    BY <1>9, ZenonT(60) DEF transmitterSleep, history, streams, Hands
  <2>2. UNCHANGED downVars BY <1>1, <2>1, ZenonT(60) DEF downVars
  <2>3. DownOk' BY <1>1, <2>2, DownFewer, ZenonT(60)
  <2>4. Lines' BY <2>1, LinesKept, ZenonT(60)
  <2> QED BY <1>1, <1>4, <1>5, <1>6, <2>1, <2>2, <2>3, <2>4, TypesKept, ZenonT(60)
<1>10. CASE receiveDataFromQemu
  <2>1. UNCHANGED delivered /\ tx = "read" /\ tx' \notin {"new", "test", "sleep"}
    BY <1>10, Zenon DEF receiveDataFromQemu, history
  <2>2. CASE UNCHANGED <<sb, down>>
    <3>1. UNCHANGED downVars BY <1>1, <2>1, <2>2, ZenonT(60) DEF downVars
    <3>2. DownOk' BY <1>1, <3>1, DownFewer, ZenonT(60)
    <3>3. Lines' BY <2>1, <2>2, LinesKept, ZenonT(60)
    <3> QED BY <1>1, <1>4, <1>5, <1>6, <2>1, <3>1, <3>2, <3>3, TypesKept, ZenonT(60)
  <2>3. CASE ~ UNCHANGED <<sb, down>>
    <3>1. /\ down # <<>> /\ sb' = Append(sb, Head(down)) /\ down' = Tail(down)
          /\ tx' \in IF Head(down) = NL THEN {"send"} ELSE {"read", "send"}
      BY <1>10, <2>3, ZenonT(60) DEF receiveDataFromQemu
    <3>2. /\ Down \in Seq(EmuChars) /\ sb \in Seq(EmuChars) /\ down \in Seq(EmuChars)
          /\ Down \o sb \in Seq(EmuChars)
      BY FlatTypes, Zenon DEF Types
    <3>3. /\ Head(down) \in EmuChars /\ down' \in Seq(EmuChars)
          /\ Append(Down \o sb, Head(down)) \o down' = (Down \o sb) \o down
      BY <3>1, <3>2, CatMove, ZenonT(60)
    <3>4. Down \o sb' = Append(Down \o sb, Head(down)) BY <3>1, <3>2, <3>3, CatAppend, SMTT(60)
    <3>5. Down' = Down BY <2>1, ZenonT(60) DEF Down
    <3>6. DownOk' BY <1>1, <3>3, <3>4, <3>5, ZenonT(60) DEF DownOk
    <3>7. sb' \in Seq(EmuChars) BY <3>1, <3>2, <3>3, SMTT(60)
    <3>8. Types' BY <1>1, <2>1, <3>3, <3>7, ZenonT(60) DEF Types, upVars
    <3>9. NoLine(sb) BY <2>1, ZenonT(60) DEF Lines
    <3>10. OneLine(sb') BY <3>1, <3>2, <3>3, <3>9, SMTT(60) DEF OneLine, NoLine
    <3>11. tx' = "read" => NoLine(sb')
      <4>1. tx' = "read" => Head(down) # NL BY <3>1, Zenon
      <4> QED BY <3>1, <3>2, <3>3, <3>9, <4>1, SMTT(60) DEF NoLine
    <3>12. Lines' BY <2>1, <3>10, <3>11, ZenonT(60) DEF Lines, OneLine
    <3> QED BY <1>4, <1>5, <1>6, <2>1, <3>6, <3>8, <3>12, ZenonT(60)
  <2> QED BY <2>2, <2>3, Zenon
<1>11. CASE sendDataToBluetooth
  <2>1. UNCHANGED down /\ sb' = <<>> /\ tx' # "read"
    BY <1>11, ZenonT(60) DEF sendDataToBluetooth, streams
  <2>2. /\ Down \in Seq(EmuChars) /\ sb \in Seq(EmuChars) /\ down \in Seq(EmuChars)
        /\ Down \o sb \in Seq(EmuChars) /\ delivered \in Seq(Seq(EmuChars))
    BY FlatTypes, SMTT(60) DEF Types
  <2>3. CASE bt = "open" /\ ~phoneGone /\ sb # <<>>
    <3>1. delivered' = Append(delivered, sb) BY <1>11, <2>3, ZenonT(60) DEF sendDataToBluetooth
    <3>2. Down' = Down \o sb BY <2>2, <3>1, JoinedAppend, Zenon DEF Down
    <3>3. (Down' \o sb') \o down' = (Down \o sb) \o down BY <2>1, <2>2, <3>2, CatEmpty, Zenon
    <3>4. DownOk' BY <1>1, <3>3, ZenonT(60) DEF DownOk
    <3>5. delivered' \in Seq(Seq(EmuChars)) BY <2>2, <3>1, SMTT(60)
    <3>6. Types' BY <1>1, <1>7, <2>1, <3>5, ZenonT(60) DEF Types, upVars
    <3>7. ASSUME NEW i \in 1..Len(delivered') PROVE OneLine(delivered'[i])
      <4>1. Len(delivered') = Len(delivered) + 1 BY <2>2, <3>1, SMTT(60)
      <4>2. CASE i = Len(delivered) + 1
        <5>1. delivered'[i] = sb BY <2>2, <3>1, <4>2, SMTT(60)
        <5> QED BY <5>1, ZenonT(60) DEF Lines
      <4>3. CASE i # Len(delivered) + 1
        <5>1. i \in 1..Len(delivered) /\ delivered'[i] = delivered[i]
          BY <2>2, <3>1, <4>1, <4>3, SMTT(60)
        <5> QED BY <5>1, ZenonT(60) DEF Lines
      <4> QED BY <4>2, <4>3, Zenon
    <3>8. Lines' BY <1>7, <2>1, <3>7, ZenonT(60) DEF Lines, OneLine
    <3> QED BY <1>4, <1>5, <1>6, <2>1, <3>4, <3>6, <3>8, ZenonT(60)
  <2>4. CASE ~(bt = "open" /\ ~phoneGone /\ sb # <<>>)
    <3>1. delivered' = delivered BY <1>11, <2>4, ZenonT(60) DEF sendDataToBluetooth
    <3>2. Types' BY <1>1, <1>7, <2>1, <3>1, ZenonT(60) DEF Types, upVars
    <3>3. Lines' BY <1>7, <2>1, <3>1, ZenonT(60) DEF Lines, OneLine
    <3>4. DownOk' BY <1>1, <1>3, <2>1, <2>4, <3>1, ZenonT(60) DEF DownOk, Down
    <3> QED BY <1>4, <1>5, <1>6, <2>1, <3>2, <3>3, <3>4, ZenonT(60)
  <2> QED BY <2>3, <2>4, Zenon
<1> QED BY <1>8, <1>9, <1>10, <1>11, ZenonT(60) DEF Transmitter

\* Shutdown and its hook touch threads and flags only.
LEMMA EndStep == IInv /\ (Shutdown \/ Hook) => IInv'
<1> SUFFICES ASSUME IInv, Shutdown \/ Hook PROVE IInv' OBVIOUS
<1>1. UNCHANGED <<main, rx, tx, telnet, bt, emuGone, phoneGone, upVars, downVars>>
  BY Zenon DEF Shutdown, Hook, history, streams, upVars, downVars
<1> QED BY <1>1, QuietStep, ZenonT(60)

\* The phone sends, the phone leaves, the emulator sends, the emulator leaves.
LEMMA PeersStep == IInv /\ Peers => IInv'
<1> SUFFICES ASSUME IInv, Peers PROVE IInv' OBVIOUS
<1> USE DEF IInv
<1>1. UNCHANGED <<main, rx, tx, telnet, bt, readMessage, sb, relayed, delivered>>
  BY Zenon DEF Peers, PhoneSends, EmuSends, PhoneLeaves, EmuLeaves, threads, history
<1>2. Hands' BY <1>1, Zenon DEF Hands
<1>3. Lines' BY <1>1, LinesKept, ZenonT(60)
<1>4. Up' = Up /\ Down' = Down BY <1>1, ZenonT(60) DEF Up, Down
<1>5. /\ Up \in Seq(UpChars) /\ Down \o sb \in Seq(EmuChars)
      /\ Up \o readMessage \in Seq(UpChars) /\ Whole \in Seq(UpChars)
      /\ up \in Seq(UpChars) /\ phoneSent \in Seq(UpChars)
      /\ down \in Seq(EmuChars) /\ emuSent \in Seq(EmuChars)
  BY FlatTypes, ZenonT(60) DEF Types
<1>6. ASSUME NEW c \in PhoneChars, PhoneSends(c) PROVE IInv'
  <2>1. /\ bt = "open" /\ ~phoneGone /\ up' = Append(up, c)
        /\ phoneSent' = Append(phoneSent, c)
        /\ UNCHANGED <<emuGone, phoneGone, downVars>>
    BY <1>6, Zenon DEF PhoneSends, downVars
  <2>0. c \in UpChars BY Zenon DEF UpChars
  <2>2. Types'
    <3>1. up' \in Seq(UpChars) /\ phoneSent' \in Seq(UpChars) BY <1>5, <2>0, <2>1, SMTT(60)
    <3> QED BY <1>1, <2>1, <3>1, ZenonT(60) DEF Types, downVars
  <2>3. Fresh'
    <3>1. main \notin {"telnet", "bluetooth"} BY <2>1, ZenonT(60) DEF Fresh
    <3> QED BY <1>1, <3>1, ZenonT(60) DEF Fresh
  <2>4. Carries(Up', phoneSent')
    BY <1>4, <1>5, <2>0, <2>1, CarriesLonger, Zenon DEF UpOk
  <2>5. Whole' = Append(Whole, c)
    <3>1. Whole' = (Up \o readMessage) \o Append(up, c) BY <1>1, <1>4, <2>1, ZenonT(60) DEF Whole
    <3>2. (Up \o readMessage) \o Append(up, c) = Append((Up \o readMessage) \o up, c)
      <4> DEFINE a == Up \o readMessage
      <4>1. a \in Seq(UpChars) /\ up \in Seq(UpChars) BY <1>5, ZenonT(60)
      <4> HIDE DEF a
      <4>2. a \o Append(up, c) = Append(a \o up, c) BY <2>0, <4>1, CatAppend, SMTT(60)
      <4> QED BY <4>2, ZenonT(60) DEF a
    <3> QED BY <3>1, <3>2, ZenonT(60) DEF Whole
  <2>6. CASE telnet = "open" /\ ~emuGone
    <3>1. Carries(Whole, phoneSent) /\ Len(Whole) = Len(phoneSent)
      BY <2>1, <2>6, ZenonT(60) DEF UpOk
    <3>2. Carries(Append(Whole, c), Append(phoneSent, c))
          /\ Len(Append(Whole, c)) = Len(Append(phoneSent, c))
      BY <1>5, <2>0, <3>1, CarriesNext, Zenon
    <3>3. Carries(Whole', phoneSent') /\ Len(Whole') = Len(phoneSent')
      BY <2>1, <2>5, <3>2, Zenon
    <3>4. UpOk' BY <2>4, <3>3, ZenonT(60) DEF UpOk
    <3>5. DownOk' BY <1>1, <2>1, DownFewer, ZenonT(60)
    <3> QED BY <1>2, <1>3, <2>2, <2>3, <3>4, <3>5, ZenonT(60)
  <2>7. CASE ~(telnet = "open" /\ ~emuGone)
    <3>1. UpOk' BY <1>1, <2>1, <2>4, <2>7, ZenonT(60) DEF UpOk
    <3>2. DownOk' BY <1>1, <2>1, DownFewer, ZenonT(60)
    <3> QED BY <1>2, <1>3, <2>2, <2>3, <3>1, <3>2, ZenonT(60)
  <2> QED BY <2>6, <2>7, ZenonT(60)
<1>7. ASSUME NEW c \in EmuChars, EmuSends(c) PROVE IInv'
  <2>1. /\ telnet = "open" /\ ~emuGone /\ down' = Append(down, c)
        /\ emuSent' = Append(emuSent, c)
        /\ UNCHANGED <<emuGone, phoneGone, upVars>>
    BY <1>7, ZenonT(60) DEF EmuSends, upVars
  <2>2. Types'
    <3>1. down' \in Seq(EmuChars) /\ emuSent' \in Seq(EmuChars) BY <1>5, <2>1, SMTT(60)
    <3> QED BY <1>1, <2>1, <3>1, ZenonT(60) DEF Types, upVars
  <2>3. Fresh'
    <3>1. main # "telnet" BY <2>1, ZenonT(60) DEF Fresh
    <3> QED BY <1>1, <2>1, <3>1, ZenonT(60) DEF Fresh, upVars
  <2>4. UpOk' BY <1>1, <2>1, UpFewer, ZenonT(60)
  <2>5. (Down \o sb) \o Append(down, c) = Append((Down \o sb) \o down, c)
    <3> DEFINE a == Down \o sb
    <3>1. a \in Seq(EmuChars) /\ down \in Seq(EmuChars) BY <1>5, ZenonT(60)
    <3> HIDE DEF a
    <3>2. a \o Append(down, c) = Append(a \o down, c) BY <3>1, CatAppend, SMTT(60)
    <3> QED BY <3>2, ZenonT(60) DEF a
  <2>6. DownOk' BY <1>1, <1>4, <2>1, <2>5, ZenonT(60) DEF DownOk
  <2> QED BY <1>2, <1>3, <2>2, <2>3, <2>4, <2>6, ZenonT(60)
<1>8. CASE PhoneLeaves
  <2>1. /\ bt = "open" /\ ~phoneGone /\ phoneGone' = TRUE /\ up' \in {up, <<>>}
        /\ UNCHANGED <<emuGone, phoneSent, downVars>>
    BY <1>8, ZenonT(60) DEF PhoneLeaves, history, downVars
  <2>2. Types'
    <3>0. <<>> \in Seq(UpChars) OBVIOUS
    <3>1. up' \in Seq(UpChars) BY <1>5, <2>1, <3>0, ZenonT(60)
    <3> QED BY <1>1, <2>1, <3>1, ZenonT(60) DEF Types, downVars
  <2>3. Fresh'
    <3>1. main \notin {"telnet", "bluetooth"} BY <2>1, ZenonT(60) DEF Fresh
    <3> QED BY <1>1, <3>1, ZenonT(60) DEF Fresh
  <2>4. DownOk' BY <1>1, <2>1, DownFewer, ZenonT(60)
  <2>5. UpOk'
    <3>1. CASE up' = up
      <4>1. UNCHANGED upVars BY <1>1, <2>1, <3>1, ZenonT(60) DEF upVars
      <4> QED BY <1>1, <2>1, <4>1, UpFewer, ZenonT(60)
    <3>2. CASE up' = <<>>
      <4>1. Whole' = Up \o readMessage
        <5>1. Whole' = (Up \o readMessage) \o <<>> BY <1>1, <1>4, <3>2, ZenonT(60) DEF Whole
        <5> QED BY <1>5, <5>1, CatEmpty, Zenon
      <4>2. Carries(Whole, phoneSent) => Carries(Up \o readMessage, phoneSent)
        BY <1>5, CarriesShorter, ZenonT(60) DEF Whole
      <4> QED BY <1>1, <1>4, <2>1, <4>1, <4>2, ZenonT(60) DEF UpOk
    <3> QED BY <2>1, <3>1, <3>2, ZenonT(60)
  <2> QED BY <1>2, <1>3, <2>2, <2>3, <2>4, <2>5, ZenonT(60)
<1>9. CASE EmuLeaves
  <2>1. emuGone' = TRUE /\ UNCHANGED <<phoneGone, upVars, downVars>>
    BY <1>9, Zenon DEF EmuLeaves, history, upVars, downVars
  <2>2. Fresh' BY <1>1, <2>1, ZenonT(60) DEF Fresh, upVars, downVars
  <2> QED BY <1>1, <1>2, <1>3, <2>1, <2>2, TypesKept, UpFewer, DownFewer, Zenon
<1> QED BY <1>6, <1>7, <1>8, <1>9, ZenonT(60) DEF Peers

\* Before anything is connected, nothing was said.
LEMMA Initially == Init => IInv
<1> SUFFICES ASSUME Init PROVE IInv OBVIOUS
<1>1. Up = <<>> /\ Down = <<>> BY NoTexts, JoinedEmpty, ZenonT(60) DEF Init, Up, Down
<1>2. Types
  <2>1. <<>> \in Seq(UpChars) /\ <<>> \in Seq(Seq(UpChars \cup {CR, NL})) /\ <<>> \in Seq(EmuChars)
        /\ <<>> \in Seq(Seq(UpChars)) /\ <<>> \in Seq(Seq(EmuChars))
    OBVIOUS
  <2> QED BY <2>1, NoTexts, ZenonT(60) DEF Init, Types
<1>3. Hands /\ Fresh BY Zenon DEF Init, Hands, Fresh
<1>4. Carries(<<>>, <<>>) BY NoTexts, Zenon
<1>5. (<<>> \o <<>>) \o <<>> = <<>> OBVIOUS
<1>6. Whole = <<>> /\ (Down \o sb) \o down = <<>> BY <1>1, <1>5, ZenonT(60) DEF Init, Whole
<1>7. UpOk BY <1>1, <1>4, <1>6, ZenonT(60) DEF Init, UpOk
<1>8. DownOk BY <1>6, ZenonT(60) DEF Init, DownOk
<1>9. Lines BY DEF Init, Lines, OneLine, NoLine
<1> QED BY <1>2, <1>3, <1>7, <1>8, <1>9, ZenonT(60) DEF IInv

\* No step of any thread, of the peers or of the shutdown breaks it.
LEMMA Step == IInv /\ [Next]_vars => IInv'
<1> SUFFICES ASSUME IInv, [Next]_vars PROVE IInv' OBVIOUS
<1>1. CASE Next BY <1>1, MainStep, ReceiverStep, TransmitterStep, EndStep, PeersStep, ZenonT(60) DEF Next
<1>2. CASE UNCHANGED vars
  <2>1. UNCHANGED <<main, rx, tx, telnet, bt, emuGone, phoneGone, upVars, downVars>>
    BY <1>2, ZenonT(60) DEF vars, threads, streams, history, upVars, downVars
  <2> QED BY <2>1, QuietStep, ZenonT(60)
<1> QED BY <1>1, <1>2, Zenon

\* The invariant holds in every reachable state.
LEMMA Invariance == Spec => []IInv
BY Initially, Step, PTL DEF Spec

\* What the invariant says of the two directions
LEMMA IInvGivesRelayExact == IInv => RelayExact
<1> SUFFICES ASSUME IInv PROVE RelayExact OBVIOUS
<1> USE DEF IInv
<1>2. Separated(relayed) BY Zenon DEF Types
<1>3. UpInOrder BY <1>2, ZenonT(60) DEF UpInOrder, UpOk, Up, Whole, Separated, Line
<1>4. DownInOrder BY Zenon DEF DownInOrder, Lines, OneLine, DownOk, Down
<1> QED BY <1>3, <1>4, ZenonT(60) DEF RelayExact

\* The gateway relays both streams in order (ReceiverThread.run,
\* TransmitterThread.run): what reaches the emulator is lines, one per message
\* and each closed by a separator of the gateway's own, and their texts put
\* together are a prefix of what the phone sent up to replaced non-ASCII bytes;
\* all of it is relayed, in hand or unread while both are there; towards the phone no character is lost, repeated or overtaken and no
\* message spans two lines.  For every alphabet, every number of characters
\* and every order of the threads, the peers and the shutdown.
THEOREM RelayIsExact == Spec => []RelayExact
BY Invariance, IInvGivesRelayExact, PTL
-----------------------------------------------------------------------------
(***************************************************************************)
(* The order of a shutdown.                                                 *)
(***************************************************************************)
\* Where the hook is once it has told the receiver.
Told == {"interrupt_tx", "join_rx", "join_tx", "done"}

\* The program closes a socket only on its way out, and its hook outlasts both
\* threads.
OrderlyEnd ==
  /\ telnet = "closed" \/ bt = "closed" => hook \in Told
  /\ hook = "done" => rx = "dead" /\ tx = "dead"

\* The receiver closes because it was told, and a hook is there only after
\* main has started the threads: nobody brings an ended one back.
EndInv ==
  /\ hook # "none" => main = "returned"
  /\ rxInt => hook \in Told
  /\ rx \in {"close_telnet", "close_bt"} => rxInt
  /\ hook \in {"join_tx", "done"} => rx = "dead"
  /\ OrderlyEnd

\* main opens sockets and starts threads before there is a hook.
LEMMA EndMain == ASSUME EndInv, Main PROVE EndInv'
<1>1. CASE newClientTelnet
  <2>1. /\ main # "returned" /\ telnet' # "closed"
        /\ UNCHANGED <<rx, tx, hook, rxInt, bt>>
    BY <1>1, Zenon DEF newClientTelnet
  <2>2. hook = "none" BY <2>1, Zenon DEF EndInv
  <2> QED BY <2>1, <2>2, Zenon DEF EndInv, OrderlyEnd, Told
<1>2. CASE newClientBluetooth
  <2>1. /\ main # "returned" /\ bt' # "closed"
        /\ UNCHANGED <<rx, tx, hook, rxInt, telnet>>
    BY <1>2, Zenon DEF newClientBluetooth
  <2>2. hook = "none" BY <2>1, Zenon DEF EndInv
  <2> QED BY <2>1, <2>2, Zenon DEF EndInv, OrderlyEnd, Told
<1>3. CASE startReceiver \/ startTransmitter
  <2>1. /\ main # "returned" /\ rx' \in {"test", rx}
        /\ UNCHANGED <<hook, rxInt, telnet, bt>>
    BY <1>3, Zenon DEF startReceiver, startTransmitter, streams
  <2>2. hook = "none" BY <2>1, Zenon DEF EndInv
  <2> QED BY <2>1, <2>2, Zenon DEF EndInv, OrderlyEnd, Told
<1>4. CASE catchSignal
  <2>1. /\ main # "returned" /\ main' = "returned" /\ hook' = "registered"
        /\ UNCHANGED <<rx, tx, rxInt, telnet, bt>>
    BY <1>4, Zenon DEF catchSignal, streams
  <2>2. hook = "none" BY <2>1, Zenon DEF EndInv
  <2> QED BY <2>1, <2>2, Zenon DEF EndInv, OrderlyEnd, Told
<1> QED BY <1>1, <1>2, <1>3, <1>4, Zenon DEF Main, Start

\* The receiver closes the sockets only when its flag is set.
LEMMA EndReceiver == ASSUME EndInv, Receiver PROVE EndInv'
<1>1. CASE receiverTest
  <2>1. /\ rx # "dead" /\ rx' \in {"close_telnet", "read"} /\ (rx' = "close_telnet" => rxInt)
        /\ UNCHANGED <<main, tx, hook, rxInt, telnet, bt>>
    BY <1>1, Zenon DEF receiverTest, streams
  <2> QED BY <2>1, Zenon DEF EndInv, OrderlyEnd
<1>2. CASE receiveDataFromBluetooth \/ sendDataToQemu
  <2>1. /\ rx # "dead" /\ rx' \in {"dead", "send", "test"}
        /\ UNCHANGED <<main, tx, hook, rxInt, telnet, bt>>
    BY <1>2, Zenon DEF receiveDataFromBluetooth, sendDataToQemu, streams
  <2> QED BY <2>1, Zenon DEF EndInv, OrderlyEnd
<1>3. CASE closeConnection
  <2>1. /\ rx \in {"close_telnet", "close_bt"} /\ rx' \in {"close_bt", "dead"}
        /\ UNCHANGED <<main, tx, hook, rxInt>>
    BY <1>3, Zenon DEF closeConnection
  <2>2. rxInt /\ hook \in Told BY <2>1, Zenon DEF EndInv
  <2> QED BY <2>1, <2>2, Zenon DEF EndInv, OrderlyEnd
<1> QED BY <1>1, <1>2, <1>3, Zenon DEF Receiver

\* No step of the transmitter touches the sockets, and an ended one stays so.
LEMMA EndTransmitter == ASSUME EndInv, Transmitter PROVE EndInv'
<1>1. tx # "dead"
  BY Zenon DEF Transmitter, transmitterTest, receiveDataFromQemu, sendDataToBluetooth,
        transmitterSleep
<1>2. UNCHANGED <<main, rx, hook, rxInt, telnet, bt>>
  BY Zenon DEF Transmitter, transmitterTest, receiveDataFromQemu, sendDataToBluetooth,
        transmitterSleep, streams
<1> QED BY <1>1, <1>2, Zenon DEF EndInv, OrderlyEnd

\* The hook tells the threads and waits for both.
LEMMA EndHook == ASSUME EndInv, Shutdown \/ Hook PROVE EndInv'
<1>0. UNCHANGED <<main, rx, tx, telnet, bt>> BY Zenon DEF Shutdown, Hook, streams
<1>1. CASE Shutdown
  <2>1. UNCHANGED rxInt /\ (hook' = hook \/ (hook = "registered" /\ hook' = "interrupt_rx"))
    BY <1>1, Zenon DEF Shutdown
  <2> QED BY <1>0, <2>1, Zenon DEF EndInv, OrderlyEnd, Told
<1>2. CASE hook = "interrupt_rx" /\ hook' = "interrupt_tx" /\ rxInt' = Alive(rx)
  <2>1. rx \in {"close_telnet", "close_bt"} => rxInt' BY <1>2, Zenon DEF Alive
  <2> QED BY <1>0, <1>2, <2>1, Zenon DEF EndInv, OrderlyEnd, Told
<1>3. CASE hook = "interrupt_tx" /\ hook' = "join_rx" /\ UNCHANGED rxInt
  BY <1>0, <1>3, Zenon DEF EndInv, OrderlyEnd, Told
<1>4. CASE hook = "join_rx" /\ rx = "dead" /\ hook' = "join_tx" /\ UNCHANGED rxInt
  BY <1>0, <1>4, Zenon DEF EndInv, OrderlyEnd, Told
<1>5. CASE hook = "join_tx" /\ tx = "dead" /\ hook' = "done" /\ UNCHANGED rxInt
  BY <1>0, <1>5, Zenon DEF EndInv, OrderlyEnd, Told
<1> QED BY <1>1, <1>2, <1>3, <1>4, <1>5, Zenon DEF Hook

\* Nobody breaks it.
LEMMA EndStays == EndInv /\ [Next]_vars => EndInv'
<1> SUFFICES ASSUME EndInv, [Next]_vars PROVE EndInv' OBVIOUS
<1>1. CASE Peers \/ UNCHANGED vars
  <2>1. UNCHANGED <<main, rx, tx, hook, rxInt, telnet, bt>>
    BY <1>1, Zenon DEF Peers, PhoneSends, EmuSends, PhoneLeaves, EmuLeaves, vars, threads, streams
  <2> QED BY <2>1, Zenon DEF EndInv, OrderlyEnd
<1> QED BY <1>1, EndMain, EndReceiver, EndTransmitter, EndHook, Zenon DEF Next

\* However Ctrl+C, the threads and the peers interleave: a socket is closed by
\* the receiver after the hook of App.catchSignal interrupted it, never under a
\* gateway that is to go on; and when the hook ends, neither thread runs.
THEOREM ShutdownIsOrderly == Spec => []OrderlyEnd
<1>1. Init => EndInv BY Zenon DEF Init, EndInv, OrderlyEnd
<1>2. EndInv => OrderlyEnd BY Zenon DEF EndInv
<1> QED BY <1>1, <1>2, EndStays, PTL DEF Spec
=============================================================================
