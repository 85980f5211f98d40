---------------------------- MODULE AdbFlowProofs ----------------------------
(***************************************************************************)
(* The credit of a stream: what adbd grants is spendable, on its way, in   *)
(* the buffer of adbd, or coming back.  Amounts are sums over queues; what *)
(* a sum is worth after a packet was put in or taken out is proved by      *)
(* induction, from the fact that a set of numbers has a least element.     *)
(*                                                                         *)
(* On top of that the stream layer implements FlowControl, in both         *)
(* directions: every step moves the credit of a stream as FlowControl      *)
(* allows, or leaves it alone.                                             *)
(***************************************************************************)
EXTENDS AdbFlow, AdbConnectionProofs, WellFoundedInduction

-----------------------------------------------------------------------------
(* Sums                                                                    *)

\* Induction on numbers, for a set instead of a predicate.
LEMMA Induction ==
    ASSUME NEW T, 0 \in T, \A n \in Nat : n \in T => n + 1 \in T
    PROVE  Nat \subseteq T
<1> SUFFICES ASSUME Nat \ T # {} PROVE FALSE
  OBVIOUS
<1>1. PICK x \in Nat \ T : \A y \in Nat \ T : ~(<<y, x>> \in OpToRel(<, Nat))
  BY WFMin, NatLessThanWellFounded
<1>2. \A y \in Nat \ T : ~(y < x)
  BY <1>1 DEF OpToRel
<1>3. x # 0 /\ x \in Nat
  BY <1>1
<1>4. x - 1 \in Nat /\ x - 1 < x
  BY <1>3
<1>5. x - 1 \in T
  BY <1>2, <1>4
<1>6. (x - 1) + 1 \in T
  BY <1>4, <1>5
<1>7. (x - 1) + 1 = x
  BY <1>3
<1>8. QED
  BY <1>1, <1>6, <1>7

\* f holds the sums of the first elements of ns.
Sums(ns, f) == /\ f \in [0..Len(ns) -> Int] /\ f[0] = 0
               /\ \A i \in 1..Len(ns) : f[i] = f[i - 1] + ns[i]

\* There is such a function,
LEMMA SumsExist ==
    ASSUME NEW ns \in Seq(Int)
    PROVE  \E f : Sums(ns, f)
<1> DEFINE Sum(n, f) == /\ f \in [0..n -> Int] /\ f[0] = 0
                        /\ \A i \in 1..n : f[i] = f[i - 1] + ns[i]
           T == {n \in Nat : n <= Len(ns) => \E f : Sum(n, f)}
<1>0. Len(ns) \in Nat
  OBVIOUS
<1>1. 0 \in T
  <2>1. Sum(0, [i \in 0..0 |-> 0])
    OBVIOUS
  <2>2. QED
    BY <2>1
<1>2. ASSUME NEW n \in Nat, n \in T PROVE n + 1 \in T
  <2>1. SUFFICES ASSUME n + 1 <= Len(ns) PROVE \E f : Sum(n + 1, f)
    OBVIOUS
  <2>2. PICK f : Sum(n, f)
    BY <1>0, <1>2, <2>1
  <2> DEFINE g == [i \in 0..(n + 1) |-> IF i = n + 1 THEN f[n] + ns[n + 1] ELSE f[i]]
  <2>3. f[n] \in Int /\ ns[n + 1] \in Int
    BY <1>0, <2>1, <2>2
  <2>4. \A i \in 0..(n + 1) : i = n + 1 \/ (i \in 0..n /\ i # n + 1)
    OBVIOUS
  <2>5. g \in [0..(n + 1) -> Int]
    BY <2>2, <2>3, <2>4
  <2>6. g[0] = 0
    BY <2>2
  <2>7. ASSUME NEW i \in 1..(n + 1) PROVE g[i] = g[i - 1] + ns[i]
    <3>1. i \in 0..(n + 1) /\ i - 1 \in 0..n /\ i - 1 # n + 1 /\ i - 1 \in 0..(n + 1)
      OBVIOUS
    <3>2. g[i - 1] = f[i - 1]
      BY <3>1
    <3>3. CASE i = n + 1
      BY <3>1, <3>2, <3>3
    <3>4. CASE i # n + 1
      <4>1. i \in 1..n /\ g[i] = f[i]
        BY <3>1, <3>4
      <4>2. QED
        BY <2>2, <3>2, <4>1
    <3>5. QED
      BY <3>3, <3>4
  <2>8. QED
    <3> HIDE DEF g
    <3>1. QED
      BY <2>5, <2>6, <2>7
<1>3. Len(ns) \in T
  <2> HIDE DEF T
  <2>1. QED
    BY <1>0, <1>1, <1>2, Induction
<1>4. QED
  BY <1>0, <1>3 DEF Sums

\* and only one.
LEMMA SumsUnique ==
    ASSUME NEW ns \in Seq(Int), NEW f, NEW g, Sums(ns, f), Sums(ns, g)
    PROVE  f = g
<1> DEFINE T == {n \in Nat : n <= Len(ns) => f[n] = g[n]}
<1>0. Len(ns) \in Nat
  OBVIOUS
<1>1. 0 \in T
  BY DEF Sums
<1>2. ASSUME NEW n \in Nat, n \in T PROVE n + 1 \in T
  <2>1. SUFFICES ASSUME n + 1 <= Len(ns) PROVE f[n + 1] = g[n + 1]
    OBVIOUS
  <2>2. n + 1 \in 1..Len(ns) /\ (n + 1) - 1 = n /\ n <= Len(ns)
    BY <1>0, <2>1
  <2>3. f[n] = g[n]
    BY <1>2, <2>2
  <2>4. QED
    BY <2>2, <2>3 DEF Sums
<1>3. Nat \subseteq T
  <2> HIDE DEF T
  <2>1. QED
    BY <1>1, <1>2, Induction
<1>4. \A i \in 0..Len(ns) : f[i] = g[i]
  BY <1>0, <1>3
<1>5. QED
  BY <1>4 DEF Sums

\* Total is its last value.
LEMMA TotalIs ==
    ASSUME NEW ns \in Seq(Int), NEW f, Sums(ns, f)
    PROVE  Total(ns) = f[Len(ns)] /\ Total(ns) \in Int
<1> DEFINE Body(h) == [i \in 0..Len(ns) |-> IF i = 0 THEN 0 ELSE h[i - 1] + ns[i]]
           sum == CHOOSE h : h = Body(h)
<1>0. Len(ns) \in Nat
  OBVIOUS
<1>1. f = Body(f)
  <2>1. \A i \in 0..Len(ns) : i = 0 \/ i \in 1..Len(ns)
    BY <1>0
  <2>2. \A i \in 0..Len(ns) : f[i] = Body(f)[i]
    BY <1>0, <2>1 DEF Sums
  <2>3. QED
    BY <2>2 DEF Sums
<1>2. sum = Body(sum)
  <2> HIDE DEF Body
  <2>1. QED
    BY <1>1
<1>3. Sums(ns, sum)
  <2> HIDE DEF sum
  <2>1. \A i \in 0..Len(ns) : sum[i] = IF i = 0 THEN 0 ELSE sum[i - 1] + ns[i]
    BY <1>2
  <2>2. sum[0] = 0 /\ \A i \in 1..Len(ns) : sum[i] = sum[i - 1] + ns[i]
    BY <1>0, <2>1
  <2>3. DOMAIN sum = 0..Len(ns) /\ sum = [i \in 0..Len(ns) |-> sum[i]]
    BY <1>2
  <2> DEFINE T == {n \in Nat : n <= Len(ns) => sum[n] \in Int}
  <2>4. 0 \in T
    BY <2>2
  <2>5. ASSUME NEW n \in Nat, n \in T PROVE n + 1 \in T
    <3>1. SUFFICES ASSUME n + 1 <= Len(ns) PROVE sum[n + 1] \in Int
      OBVIOUS
    <3>2. n + 1 \in 1..Len(ns) /\ (n + 1) - 1 = n /\ n <= Len(ns)
      BY <1>0, <3>1
    <3>3. sum[n] \in Int /\ ns[n + 1] \in Int
      BY <2>5, <3>2
    <3>4. QED
      BY <2>2, <3>2, <3>3
  <2>6. Nat \subseteq T
    <3> HIDE DEF T
    <3>1. QED
      BY <2>4, <2>5, Induction
  <2>7. \A i \in 0..Len(ns) : sum[i] \in Int
    BY <1>0, <2>6
  <2>8. sum \in [0..Len(ns) -> Int]
    BY <2>3, <2>7
  <2>9. QED
    BY <2>2, <2>8 DEF Sums
<1>4. sum = f
  <2> HIDE DEF sum
  <2>1. QED
    BY <1>3, SumsUnique
<1>5. Total(ns) = sum[Len(ns)]
  BY DEF Total
<1>6. f[Len(ns)] \in Int
  BY <1>0 DEF Sums
<1>7. QED
  BY <1>4, <1>5, <1>6

\* A sum is a number.
LEMMA TotalType == ASSUME NEW ns \in Seq(Int) PROVE Total(ns) \in Int
  BY SumsExist, TotalIs

\* Nothing adds up to nothing.
LEMMA TotalEmpty == ASSUME NEW ns \in Seq(Int), Len(ns) = 0 PROVE Total(ns) = 0
<1>1. PICK f : Sums(ns, f)
  BY SumsExist
<1>2. QED
  BY <1>1, TotalIs DEF Sums

\* A number at the end is added.
LEMMA TotalAppend ==
    ASSUME NEW ns \in Seq(Int), NEW ms \in Seq(Int), Len(ms) = Len(ns) + 1,
           \A i \in 1..Len(ns) : ms[i] = ns[i]
    PROVE  Total(ms) = Total(ns) + ms[Len(ms)]
<1>0. Len(ns) \in Nat /\ Len(ms) \in Nat
  OBVIOUS
<1>1. PICK f : Sums(ms, f)
  BY SumsExist
<1> DEFINE g == [i \in 0..Len(ns) |-> f[i]]
<1>2. \A i \in 0..Len(ns) : i \in 0..Len(ms)
  BY <1>0
<1>3. Sums(ns, g)
  <2>1. g \in [0..Len(ns) -> Int] /\ g[0] = 0
    BY <1>0, <1>1, <1>2 DEF Sums
  <2>2. ASSUME NEW i \in 1..Len(ns) PROVE g[i] = g[i - 1] + ns[i]
    <3>1. i \in 0..Len(ns) /\ i - 1 \in 0..Len(ns) /\ i \in 1..Len(ms)
      BY <1>0
    <3>2. QED
      BY <1>1, <3>1 DEF Sums
  <2>3. QED
    BY <2>1, <2>2 DEF Sums
<1>4. Total(ns) = f[Len(ns)]
  <2>1. Total(ns) = g[Len(ns)]
    <3> HIDE DEF g
    <3>1. QED
      BY <1>3, TotalIs
  <2>2. QED
    BY <1>0, <2>1
<1>5. Total(ms) = f[Len(ms)]
  BY <1>1, TotalIs
<1>6. Len(ms) \in 1..Len(ms) /\ Len(ms) - 1 = Len(ns)
  BY <1>0
<1>7. QED
  BY <1>1, <1>4, <1>5, <1>6 DEF Sums

\* A number at the front is added.
LEMMA TotalTail ==
    ASSUME NEW ns \in Seq(Int), NEW ms \in Seq(Int), Len(ms) = Len(ns) + 1,
           \A i \in 1..Len(ns) : ms[i + 1] = ns[i]
    PROVE  Total(ms) = ms[1] + Total(ns)
<1>0. Len(ns) \in Nat /\ Len(ms) \in Nat
  OBVIOUS
<1>1. PICK f : Sums(ms, f)
  BY SumsExist
<1> DEFINE a == ms[1]
           g == [i \in 0..Len(ns) |-> f[i + 1] - a]
<1>2. a \in Int /\ \A i \in 0..Len(ns) : i + 1 \in 0..Len(ms) /\ f[i + 1] \in Int
  <2>1. 1 \in 1..Len(ms)
    BY <1>0
  <2>2. \A i \in 0..Len(ns) : i + 1 \in 0..Len(ms)
    BY <1>0
  <2>3. \A j \in 0..Len(ms) : f[j] \in Int
    BY <1>1 DEF Sums
  <2>4. QED
    BY <2>1, <2>2, <2>3
<1>3. f[1] = a
  <2>1. 1 \in 1..Len(ms) /\ 1 - 1 = 0
    BY <1>0
  <2>2. f[1] = f[0] + ms[1] /\ f[0] = 0
    BY <1>1, <2>1 DEF Sums
  <2>3. QED
    BY <1>2, <2>2
<1>4. Sums(ns, g)
  <2>1. g \in [0..Len(ns) -> Int]
    <3> HIDE DEF a
    <3>1. QED
      BY <1>2
  <2>2. g[0] = 0
    <3> HIDE DEF a
    <3>1. QED
      BY <1>0, <1>2, <1>3
  <2>3. ASSUME NEW i \in 1..Len(ns) PROVE g[i] = g[i - 1] + ns[i]
    <3>1. /\ i \in 0..Len(ns) /\ i - 1 \in 0..Len(ns) /\ (i - 1) + 1 = i
          /\ i + 1 \in 1..Len(ms) /\ (i + 1) - 1 = i
      BY <1>0
    <3>2. f[i + 1] = f[i] + ns[i]
      BY <1>1, <3>1 DEF Sums
    <3>3. ns[i] \in Int
      OBVIOUS
    <3>4. f[(i - 1) + 1] \in Int /\ f[i + 1] \in Int
      BY <1>2, <3>1
    <3>5. f[i] \in Int
      BY <3>1, <3>4
    <3>6. g[i] = f[i + 1] - a /\ g[i - 1] = f[i] - a
      BY <3>1
    <3>7. \A x, y, z, b \in Int : x = y + z => x - b = (y - b) + z
      OBVIOUS
    <3>8. f[i + 1] - a = (f[i] - a) + ns[i]
      BY <1>2, <3>2, <3>3, <3>4, <3>5, <3>7, SMTT(30)
    <3>9. QED
      BY <3>6, <3>8
  <2>4. QED
    BY <2>1, <2>2, <2>3 DEF Sums
<1>5. Total(ns) = f[Len(ns) + 1] - a
  <2>1. Total(ns) = g[Len(ns)]
    <3> HIDE DEF g
    <3>1. QED
      BY <1>4, TotalIs
  <2>2. QED
    BY <1>0, <2>1
<1>6. Total(ms) = f[Len(ms)] /\ Total(ms) \in Int
  BY <1>1, TotalIs
<1> HIDE DEF a
<1>7. Total(ms) = a + Total(ns)
  BY <1>0, <1>2, <1>5, <1>6
<1>8. QED
  BY <1>7 DEF a

\* Numbers that are not negative do not add up to less than nothing.
LEMMA TotalNat == ASSUME NEW ns \in Seq(Nat) PROVE Total(ns) \in Nat
<1>0. Len(ns) \in Nat /\ ns \in Seq(Int) /\ \A i \in 1..Len(ns) : ns[i] \in Nat
  OBVIOUS
<1>1. PICK f : Sums(ns, f)
  BY <1>0, SumsExist
<1> DEFINE T == {n \in Nat : n <= Len(ns) => f[n] \in Nat}
<1>2. 0 \in T
  BY <1>1 DEF Sums
<1>3. ASSUME NEW n \in Nat, n \in T PROVE n + 1 \in T
  <2>1. SUFFICES ASSUME n + 1 <= Len(ns) PROVE f[n + 1] \in Nat
    OBVIOUS
  <2>2. n + 1 \in 1..Len(ns) /\ (n + 1) - 1 = n /\ n <= Len(ns)
    BY <1>0, <2>1
  <2>3. f[n] \in Nat /\ ns[n + 1] \in Nat
    BY <1>0, <1>3, <2>2
  <2>4. QED
    BY <1>1, <2>2, <2>3 DEF Sums
<1>4. Nat \subseteq T
  <2> HIDE DEF T
  <2>1. QED
    BY <1>2, <1>3, Induction
<1>5. f[Len(ns)] \in Nat
  BY <1>0, <1>4
<1>6. QED
  BY <1>0, <1>1, <1>5, TotalIs

\* Equal numbers add up to a multiple: nothing to nothing, ones to their number.
LEMMA TotalSame ==
    ASSUME NEW ns \in Seq(Int), NEW k \in {0, 1}, \A i \in 1..Len(ns) : ns[i] = k
    PROVE  Total(ns) = IF k = 0 THEN 0 ELSE Len(ns)
<1>0. Len(ns) \in Nat
  OBVIOUS
<1> DEFINE f == [i \in 0..Len(ns) |-> IF k = 0 THEN 0 ELSE i]
<1>1. Sums(ns, f)
  <2>1. f \in [0..Len(ns) -> Int] /\ f[0] = 0
    BY <1>0
  <2>2. ASSUME NEW i \in 1..Len(ns) PROVE f[i] = f[i - 1] + ns[i]
    <3>1. i \in 0..Len(ns) /\ i - 1 \in 0..Len(ns) /\ ns[i] = k /\ i \in Int
      BY <1>0
    <3>2. CASE k = 0
      BY <3>1, <3>2
    <3>3. CASE k = 1
      BY <3>1, <3>3
    <3>4. QED
      BY <3>2, <3>3
  <2>3. QED
    BY <2>1, <2>2 DEF Sums
<1>2. Total(ns) = f[Len(ns)]
  <2> HIDE DEF f
  <2>1. QED
    BY <1>1, TotalIs
<1>3. QED
  BY <1>0, <1>2

-----------------------------------------------------------------------------
(* Sums over queues                                                        *)

Packets == HostPackets \cup DevicePackets
Kinds == {"WRTE", "OKAY"}

\* No packet carries less than nothing.
LEMMA ShareType ==
    ASSUME NEW p \in Packets, NEW s, NEW cmd \in Kinds PROVE Share(p, s, cmd) \in Nat
<1>1. CASE p.cmd # cmd \/ p.s # s \/ (cmd = "OKAY" /\ DelayedAck = (p.len = Bare))
  BY <1>1 DEF Share
<1>2. CASE ~(p.cmd # cmd \/ p.s # s \/ (cmd = "OKAY" /\ DelayedAck = (p.len = Bare)))
  <2>1. Share(p, s, cmd) = Unit(p.len)
    BY <1>2 DEF Share
  <2>2. p.cmd = "WRTE" \/ (p.cmd = "OKAY" /\ (DelayedAck => p.len # Bare))
    BY <1>2 DEF Kinds
  <2>3. p.cmd = "WRTE" => p.len \in Nat
    BY DEF Packets, HostPackets, DevicePackets
  <2>4. p.cmd = "OKAY" => p.len \in Nat \/ p.len = Bare
    BY DEF Packets, HostPackets, DevicePackets
  <2>5. DelayedAck => p.len \in Nat
    BY <2>2, <2>3, <2>4
  <2>6. QED
    BY <2>1, <2>5 DEF Unit
<1>3. QED
  BY <1>1, <1>2

\* The shares of the packets of a queue.
LEMMA SharesType ==
    ASSUME NEW q \in Seq(Packets), NEW s, NEW cmd \in Kinds
    PROVE  LET ns == [i \in DOMAIN q |-> Share(q[i], s, cmd)] IN
           /\ ns \in Seq(Nat) /\ ns \in Seq(Int) /\ Len(ns) = Len(q)
           /\ \A i \in 1..Len(q) : ns[i] = Share(q[i], s, cmd)
<1> DEFINE ns == [i \in DOMAIN q |-> Share(q[i], s, cmd)]
<1>1. Len(q) \in Nat /\ DOMAIN q = 1..Len(q) /\ \A i \in 1..Len(q) : q[i] \in Packets
  OBVIOUS
<1>2. \A i \in 1..Len(q) : Share(q[i], s, cmd) \in Nat
  BY <1>1, ShareType
<1>3. ns \in [1..Len(q) -> Nat]
  BY <1>1, <1>2
<1>4. ns \in Seq(Nat) /\ ns \in Seq(Int) /\ Len(ns) = Len(q)
  <2> HIDE DEF ns
  <2>1. \A T : ns \in [1..Len(q) -> T] => ns \in Seq(T)
    BY <1>1, SeqDef
  <2>2. ns \in [1..Len(q) -> Int]
    BY <1>3
  <2>3. DOMAIN ns = 1..Len(q)
    BY <1>3
  <2>4. Len(ns) = Len(q)
    BY <1>1, <1>3, <2>1, <2>3, LenProperties
  <2>5. QED
    BY <1>3, <2>1, <2>2, <2>4
<1>5. QED
  BY <1>1, <1>4

\* An amount is a number.
LEMMA AmountType ==
    ASSUME NEW q \in Seq(Packets), NEW s, NEW cmd \in Kinds PROVE Amount(q, s, cmd) \in Nat
  BY SharesType, TotalNat DEF Amount

\* What a packet put into a queue adds,
LEMMA AmountAppend ==
    ASSUME NEW q \in Seq(Packets), NEW p \in Packets, NEW s, NEW cmd \in Kinds
    PROVE  Amount(Append(q, p), s, cmd) = Amount(q, s, cmd) + Share(p, s, cmd)
<1> DEFINE r == Append(q, p)
           ns == [i \in DOMAIN q |-> Share(q[i], s, cmd)]
           ms == [i \in DOMAIN r |-> Share(r[i], s, cmd)]
<1>1. /\ r \in Seq(Packets) /\ Len(r) = Len(q) + 1 /\ Len(q) \in Nat
      /\ \A i \in 1..Len(q) : r[i] = q[i]
      /\ r[Len(q) + 1] = p
  OBVIOUS
<1> HIDE DEF r
<1>2. /\ ns \in Seq(Int) /\ Len(ns) = Len(q) /\ \A i \in 1..Len(q) : ns[i] = Share(q[i], s, cmd)
      /\ ms \in Seq(Int) /\ Len(ms) = Len(r) /\ \A i \in 1..Len(r) : ms[i] = Share(r[i], s, cmd)
  BY <1>1, SharesType, ZenonT(60)
<1>3. Amount(q, s, cmd) = Total(ns) /\ Amount(r, s, cmd) = Total(ms)
  BY DEF Amount
<1> HIDE DEF ns, ms
<1>4. \A i \in 1..Len(ns) : ms[i] = ns[i]
  BY <1>1, <1>2
<1>5. ms[Len(ms)] = Share(p, s, cmd)
  BY <1>1, <1>2
<1>6. Total(ms) = Total(ns) + ms[Len(ms)]
  BY <1>1, <1>2, <1>4, TotalAppend
<1>7. QED
  BY <1>3, <1>5, <1>6 DEF r

\* and one taken from it takes away.
LEMMA AmountTail ==
    ASSUME NEW q \in Seq(Packets), q # <<>>, NEW s, NEW cmd \in Kinds
    PROVE  Amount(q, s, cmd) = Share(Head(q), s, cmd) + Amount(Tail(q), s, cmd)
<1> DEFINE r == Tail(q)
           ns == [i \in DOMAIN r |-> Share(r[i], s, cmd)]
           ms == [i \in DOMAIN q |-> Share(q[i], s, cmd)]
<1>1. /\ r \in Seq(Packets) /\ Len(q) = Len(r) + 1 /\ Len(r) \in Nat
      /\ \A i \in 1..Len(r) : q[i + 1] = r[i]
      /\ Head(q) = q[1]
  OBVIOUS
<1> HIDE DEF r
<1>2. /\ ns \in Seq(Int) /\ Len(ns) = Len(r) /\ \A i \in 1..Len(r) : ns[i] = Share(r[i], s, cmd)
      /\ ms \in Seq(Int) /\ Len(ms) = Len(q) /\ \A i \in 1..Len(q) : ms[i] = Share(q[i], s, cmd)
  <2>1. /\ ns \in Seq(Int) /\ Len(ns) = Len(r)
        /\ \A i \in 1..Len(r) : ns[i] = Share(r[i], s, cmd)
    <3>1. r \in Seq(Packets)
      BY <1>1
    <3>2. QED
      BY <3>1, SharesType, ZenonT(60)
  <2>2. /\ ms \in Seq(Int) /\ Len(ms) = Len(q)
        /\ \A i \in 1..Len(q) : ms[i] = Share(q[i], s, cmd)
    BY SharesType, ZenonT(60)
  <2>3. QED
    BY <2>1, <2>2
<1>3. Amount(r, s, cmd) = Total(ns) /\ Amount(q, s, cmd) = Total(ms)
  BY DEF Amount
<1> HIDE DEF ns, ms
<1>4. \A i \in 1..Len(ns) : ms[i + 1] = ns[i]
  <2>1. \A i \in 1..Len(r) : i + 1 \in 1..Len(q)
    BY <1>1
  <2>2. QED
    BY <1>1, <1>2, <2>1
<1>5. ms[1] = Share(Head(q), s, cmd)
  <2>1. 1 \in 1..Len(q)
    BY <1>1
  <2>2. QED
    BY <1>1, <1>2, <2>1
<1>6. Total(ms) = ms[1] + Total(ns)
  BY <1>1, <1>2, <1>4, TotalTail
<1>7. QED
  BY <1>3, <1>5, <1>6 DEF r

\* A queue in which nothing is for s carries nothing for it.
LEMMA AmountNone ==
    ASSUME NEW q \in Seq(Packets), NEW s, NEW cmd \in Kinds,
           \A p \in On(q) : p.cmd = cmd => p.s # s
    PROVE  Amount(q, s, cmd) = 0
<1> DEFINE ns == [i \in DOMAIN q |-> Share(q[i], s, cmd)]
<1>1. ns \in Seq(Int) /\ Len(ns) = Len(q) /\ \A i \in 1..Len(q) : ns[i] = Share(q[i], s, cmd)
  BY SharesType, ZenonT(60)
<1>2. \A i \in 1..Len(q) : Share(q[i], s, cmd) = 0
  BY DEF On, Share
<1>3. Amount(q, s, cmd) = Total(ns)
  BY DEF Amount
<1> HIDE DEF ns
<1>4. QED
  BY <1>1, <1>2, <1>3, TotalSame

\* What the chunks of a buffer count for.
LEMMA UnitsType ==
    ASSUME NEW b \in Seq(Nat)
    PROVE  LET ns == [i \in DOMAIN b |-> Unit(b[i])] IN
           /\ ns \in Seq(Nat) /\ ns \in Seq(Int) /\ Len(ns) = Len(b)
           /\ \A i \in 1..Len(b) : ns[i] = Unit(b[i])
<1> DEFINE ns == [i \in DOMAIN b |-> Unit(b[i])]
<1>1. Len(b) \in Nat /\ DOMAIN b = 1..Len(b) /\ \A i \in 1..Len(b) : b[i] \in Nat
  OBVIOUS
<1>2. \A i \in 1..Len(b) : Unit(b[i]) \in Nat
  BY <1>1 DEF Unit
<1>3. ns \in [1..Len(b) -> Nat]
  BY <1>1, <1>2
<1>4. ns \in Seq(Nat) /\ ns \in Seq(Int) /\ Len(ns) = Len(b)
  <2> HIDE DEF ns
  <2>1. \A T : ns \in [1..Len(b) -> T] => ns \in Seq(T)
    BY <1>1, SeqDef
  <2>2. ns \in [1..Len(b) -> Int]
    BY <1>3
  <2>3. DOMAIN ns = 1..Len(b)
    BY <1>3
  <2>4. Len(ns) = Len(b)
    BY <1>1, <1>3, <2>1, <2>3, LenProperties
  <2>5. QED
    BY <1>3, <2>1, <2>2, <2>4
<1>5. QED
  BY <1>1, <1>4

\* A buffer holds a number of bytes or packets,
LEMMA BufferedType == ASSUME NEW b \in Seq(Nat) PROVE Buffered(b) \in Nat
  BY UnitsType, TotalNat DEF Buffered

\* none if it is empty,
LEMMA BufferedEmpty == Buffered(<<>>) = 0
<1> DEFINE b == <<>>
           ns == [i \in DOMAIN b |-> Unit(b[i])]
<1>1. b \in Seq(Nat) /\ Len(b) = 0
  OBVIOUS
<1> HIDE DEF b
<1>2. ns \in Seq(Int) /\ Len(ns) = Len(b)
  BY <1>1, UnitsType
<1>3. Buffered(b) = Total(ns)
  BY DEF Buffered
<1> HIDE DEF ns
<1>4. Buffered(b) = 0
  BY <1>1, <1>2, <1>3, TotalEmpty
<1>5. QED
  BY <1>4 DEF b

\* one chunk more after it was appended,
LEMMA BufferedAppend ==
    ASSUME NEW b \in Seq(Nat), NEW n \in Nat
    PROVE  Buffered(Append(b, n)) = Buffered(b) + Unit(n)
<1> DEFINE r == Append(b, n)
           ns == [i \in DOMAIN b |-> Unit(b[i])]
           ms == [i \in DOMAIN r |-> Unit(r[i])]
<1>1. /\ r \in Seq(Nat) /\ Len(r) = Len(b) + 1 /\ Len(b) \in Nat
      /\ \A i \in 1..Len(b) : r[i] = b[i]
      /\ r[Len(b) + 1] = n
  OBVIOUS
<1> HIDE DEF r
<1>2. /\ ns \in Seq(Int) /\ Len(ns) = Len(b) /\ \A i \in 1..Len(b) : ns[i] = Unit(b[i])
      /\ ms \in Seq(Int) /\ Len(ms) = Len(r) /\ \A i \in 1..Len(r) : ms[i] = Unit(r[i])
  BY <1>1, UnitsType
<1>3. Buffered(b) = Total(ns) /\ Buffered(r) = Total(ms)
  BY DEF Buffered
<1> HIDE DEF ns, ms
<1>4. \A i \in 1..Len(ns) : ms[i] = ns[i]
  BY <1>1, <1>2
<1>5. ms[Len(ms)] = Unit(n)
  BY <1>1, <1>2
<1>6. Total(ms) = Total(ns) + ms[Len(ms)]
  BY <1>1, <1>2, <1>4, TotalAppend
<1>7. QED
  BY <1>3, <1>5, <1>6 DEF r

\* and one less after it was taken.
LEMMA BufferedTail ==
    ASSUME NEW b \in Seq(Nat), b # <<>>
    PROVE  Buffered(b) = Unit(Head(b)) + Buffered(Tail(b))
<1> DEFINE r == Tail(b)
           ns == [i \in DOMAIN r |-> Unit(r[i])]
           ms == [i \in DOMAIN b |-> Unit(b[i])]
<1>1. /\ r \in Seq(Nat) /\ Len(b) = Len(r) + 1 /\ Len(r) \in Nat
      /\ \A i \in 1..Len(r) : b[i + 1] = r[i]
      /\ Head(b) = b[1]
  OBVIOUS
<1> HIDE DEF r
<1>2. /\ ns \in Seq(Int) /\ Len(ns) = Len(r) /\ \A i \in 1..Len(r) : ns[i] = Unit(r[i])
      /\ ms \in Seq(Int) /\ Len(ms) = Len(b) /\ \A i \in 1..Len(b) : ms[i] = Unit(b[i])
  BY <1>1, UnitsType
<1>3. Buffered(r) = Total(ns) /\ Buffered(b) = Total(ms)
  BY DEF Buffered
<1> HIDE DEF ns, ms
<1>4. \A i \in 1..Len(ns) : ms[i + 1] = ns[i]
  <2>1. \A i \in 1..Len(r) : i + 1 \in 1..Len(b)
    BY <1>1
  <2>2. QED
    BY <1>1, <1>2, <2>1
<1>5. ms[1] = Unit(Head(b))
  <2>1. 1 \in 1..Len(b)
    BY <1>1
  <2>2. QED
    BY <1>1, <1>2, <2>1
<1>6. Total(ms) = ms[1] + Total(ns)
  BY <1>1, <1>2, <1>4, TotalTail
<1>7. QED
  BY <1>3, <1>5, <1>6 DEF r

-----------------------------------------------------------------------------
(* What the streams and the packets on the wire say of each other          *)

\* adbd has not accepted the stream: nothing has been granted or sent.
Told(s) == sock[s] = "none" =>
    /\ opened[s] # "resolved" /\ availableSendBytes[s] = 0 /\ ~writeReady[s]
    /\ devBuf[s] = <<>> /\ incoming[s] = <<>>
    /\ \A p \in On(inq) : p.cmd \in Kinds => p.s # s

\* Nor has it if open() was rejected without the stream being closed.
Rejected(s) == opened[s] = "rejected" /\ ~closed[s] => sock[s] = "none" /\ NoOpen(s)

\* Chunks are not empty, acknowledgements of the host are of the mode in use.
Sizes(s) == \A i \in 1..Len(incoming[s]) : incoming[s][i] > 0
HostSays(p) == /\ p.cmd = "OPEN" /\ DelayedAck => p.len = RecvWindow
               /\ p.cmd = "OKAY" => opened[p.s] = "resolved" /\ DelayedAck # (p.len = Bare)
DeviceSays(p) == p.cmd = "WRTE" => p.len > 0

LinkOf(s) == Told(s) /\ Rejected(s) /\ Sizes(s)

LinkInv == /\ \A s \in Streams : LinkOf(s)
           /\ \A p \in On(outq) : HostSays(p)
           /\ \A p \in On(inq) : DeviceSays(p)

\* What the state of a stream may do in a step,
LinkStep(s) ==
    /\ sock'[s] = "none" => /\ sock[s] = "none" /\ (opened'[s] = "resolved" => opened[s] = "resolved")
                            /\ availableSendBytes'[s] = availableSendBytes[s]
                            /\ writeReady'[s] = writeReady[s]
                            /\ devBuf'[s] = devBuf[s] /\ incoming'[s] = incoming[s]
    /\ opened[s] = "resolved" => opened'[s] = "resolved"
    /\ Rejected(s)' /\ Sizes(s)'

\* and what the packets may do that it puts on the wire.
OutSays == \A p \in On(outq') : p \in On(outq) \/ HostSays(p)'
InSays  == \A p \in On(inq') : p \in On(inq) \/ (p.cmd \in Kinds => sock'[p.s] # "none" /\ DeviceSays(p))

\* A step that keeps to both keeps the invariant.
LEMMA LinkKept ==
    ASSUME TInv, LinkInv, OutSays, InSays, \A s \in Streams : LinkStep(s)
    PROVE  LinkInv'
<1>1. On(outq)' = On(outq') /\ On(inq)' = On(inq')
  BY DEF On
<1>2. ASSUME NEW s \in Streams PROVE LinkOf(s)'
  <2>1. Told(s) /\ LinkStep(s)
    BY DEF LinkInv, LinkOf
  <2>2. Told(s)'
    <3>1. SUFFICES ASSUME sock'[s] = "none"
                   PROVE  /\ opened'[s] # "resolved" /\ availableSendBytes'[s] = 0 /\ ~writeReady'[s]
                          /\ devBuf'[s] = <<>> /\ incoming'[s] = <<>>
                          /\ \A p \in On(inq') : p.cmd \in Kinds => p.s # s
      BY <1>1 DEF Told, Kinds
    <3>2. QED
      BY <2>1, <3>1 DEF Told, LinkStep, InSays
  <2>3. QED
    BY <2>1, <2>2 DEF LinkOf, LinkStep
<1>3. ASSUME NEW p \in On(outq') PROVE HostSays(p)'
  <2>1. CASE p \in On(outq)
    <3>1. p.s \in Streams /\ HostSays(p)
      BY <2>1, OnTypes, HostPacketFields DEF LinkInv
    <3>2. opened[p.s] = "resolved" => opened'[p.s] = "resolved"
      BY <3>1 DEF LinkStep
    <3>3. QED
      BY <3>1, <3>2 DEF HostSays
  <2>2. QED
    BY <1>3, <2>1 DEF OutSays
<1>4. \A p \in On(inq') : DeviceSays(p)
  BY DEF InSays, LinkInv, DeviceSays, Kinds
<1>5. \A p \in On(inq)' : DeviceSays(p)'
  BY <1>1, <1>4 DEF DeviceSays
<1>6. QED
  BY <1>1, <1>2, <1>3, <1>5 DEF LinkInv

\* The packets the host sends: none, one fewer, or one that keeps its word.
LEMMA HostSpeaks ==
    ASSUME TInv,
           \/ UNCHANGED outq
           \/ outq # <<>> /\ outq' = Tail(outq)
           \/ \E p \in HostPackets : Send(p) /\ HostSays(p)'
    PROVE  OutSays
<1>1. outq \in Seq(HostPackets)
  BY DEF TInv, TypeOK
<1>2. CASE UNCHANGED outq
  BY <1>2 DEF OutSays
<1>3. CASE outq # <<>> /\ outq' = Tail(outq)
  BY <1>1, <1>3, OnTail DEF OutSays
<1>4. CASE \E p \in HostPackets : Send(p) /\ HostSays(p)'
  <2>1. PICK p \in HostPackets : Send(p) /\ HostSays(p)'
    BY <1>4
  <2>2. On(outq') = On(outq) \cup {p}
    BY <1>1, <2>1, OnAppend DEF Send
  <2>3. QED
    BY <2>1, <2>2 DEF OutSays
<1>5. QED
  BY <1>2, <1>3, <1>4

\* The packets of adbd: none, one fewer, none any more, or one of a stream it
\* has accepted.
LEMMA DeviceSpeaks ==
    ASSUME TInv,
           \/ UNCHANGED inq
           \/ inq' = <<>>
           \/ inq # <<>> /\ inq' = Tail(inq)
           \/ \E p : Emit(p) /\ (p.cmd \in Kinds => sock'[p.s] # "none" /\ DeviceSays(p))
    PROVE  InSays
<1>1. inq \in Seq(DevicePackets)
  BY DEF TInv, TypeOK
<1>2. CASE UNCHANGED inq
  BY <1>2 DEF InSays
<1>3. CASE inq' = <<>>
  <2>1. On(inq') = {}
    BY <1>3 DEF On
  <2>2. QED
    BY <2>1 DEF InSays
<1>4. CASE inq # <<>> /\ inq' = Tail(inq)
  BY <1>1, <1>4, OnTail DEF InSays
<1>5. CASE \E p : Emit(p) /\ (p.cmd \in Kinds => sock'[p.s] # "none" /\ DeviceSays(p))
  <2>1. PICK p : Emit(p) /\ (p.cmd \in Kinds => sock'[p.s] # "none" /\ DeviceSays(p))
    BY <1>5
  <2>2. On(inq') = On(inq) \cup {p}
    BY <2>1, EmitOn
  <2>3. QED
    BY <2>1, <2>2 DEF InSays
<1>6. QED
  BY <1>2, <1>3, <1>4, <1>5

\* A stream the step leaves alone, but perhaps closes.
LEMMA LinkSame ==
    ASSUME TInv, LinkInv, NEW s \in Streams,
           sock'[s] = sock[s], opened'[s] = opened[s],
           availableSendBytes'[s] = availableSendBytes[s], writeReady'[s] = writeReady[s],
           devBuf'[s] = devBuf[s], incoming'[s] = incoming[s],
           closed[s] => closed'[s], NoOpen(s) => NoOpen(s)'
    PROVE  LinkStep(s)
<1>1. Rejected(s) /\ Sizes(s)
  BY DEF LinkInv, LinkOf
<1>2. Rejected(s)'
  BY <1>1 DEF Rejected
<1>3. Sizes(s)'
  BY <1>1 DEF Sizes
<1>4. QED
  BY <1>2, <1>3 DEF LinkStep

\* A stream of which adbd has spoken, or which was handed out: adbd has
\* accepted it, and its amounts may change.
LEMMA LinkAccepted ==
    ASSUME TInv, LinkInv, NEW s \in Streams,
           sock[s] # "none", sock'[s] # "none",
           opened'[s] = opened[s] \/ opened'[s] = "resolved",
           closed[s] => closed'[s], Sizes(s)'
    PROVE  LinkStep(s)
<1>1. Rejected(s)
  BY DEF LinkInv, LinkOf
<1>2. Rejected(s)'
  BY <1>1 DEF Rejected
<1>3. QED
  BY <1>2 DEF LinkStep

\* The packet a handler is called with is of a stream adbd has accepted.
LEMMA HeardAccepted ==
    ASSUME TInv, LinkInv, NEW cmd \in Kinds, Receive(cmd)
    PROVE  /\ Head(inq) \in On(inq) /\ Head(inq).s \in Streams /\ sock[Head(inq).s] # "none"
           /\ inq \in Seq(DevicePackets) /\ inq # <<>> /\ inq' = Tail(inq) /\ Head(inq).cmd = cmd
<1>1. inq \in Seq(DevicePackets) /\ inq # <<>> /\ inq' = Tail(inq) /\ Head(inq).cmd = cmd
  BY DEF TInv, TypeOK, Receive
<1>2. Head(inq) \in On(inq)
  BY <1>1, OnTail
<1>3. Head(inq).s \in Streams
  BY <1>1, <1>2, OnTypes, DevicePacketFields DEF Kinds
<1>4. QED
  BY <1>1, <1>2, <1>3 DEF LinkInv, LinkOf, Told

\* _onClose on a set of streams, whatever the step does to the queues.
LEMMA OnCloseLink ==
    ASSUME TInv, CloseInv, LinkInv, NEW S \in SUBSET Streams, NEW err, OnClose(S, err),
           UNCHANGED <<sock, sendVars, devBuf, incoming>>,
           \A s \in Streams : NoOpen(s) => NoOpen(s)', OutSays, InSays
    PROVE  LinkInv'
<1>1. /\ opened \in [Streams -> {"no", "pending", "resolved", "rejected"}]
      /\ closed \in [Streams -> BOOLEAN]
  BY DEF TInv, TypeOK
<1>2. ASSUME NEW s \in Streams PROVE LinkStep(s)
  <2>1. closed'[s] = (closed[s] \/ s \in S)
    BY <1>1 DEF OnClose, CloseStreams
  <2>2. \/ opened'[s] = opened[s]
        \/ opened'[s] = "rejected" /\ s \in S /\ ~remoteId[s]
    BY <1>1 DEF OnClose
  <2>3. opened[s] = "resolved" => remoteId[s]
    BY DEF CloseInv, Known
  <2>4. Rejected(s) /\ Sizes(s)
    BY DEF LinkInv, LinkOf
  <2>5. Rejected(s)'
    BY <2>1, <2>2, <2>4 DEF Rejected
  <2>6. Sizes(s)'
    BY <2>4 DEF Sizes
  <2>7. QED
    BY <2>2, <2>3, <2>5, <2>6 DEF LinkStep, sendVars
<1>3. QED
  BY <1>2, LinkKept

\* The calls of the application: open(),
LEMMA OpenLink == ASSUME TInv, CloseInv, LinkInv, NEW t \in Streams, Open(t) PROVE LinkInv'
<1> DEFINE p == OpenPacket(t)
<1>1. /\ opened[t] = "no" /\ opened' = [opened EXCEPT ![t] = "pending"] /\ Send(p)
      /\ UNCHANGED <<sock, sendVars, devBuf, incoming, closed, inq>>
  BY DEF Open, recvVars, devVars
<1>2. p \in HostPackets /\ p.cmd = "OPEN" /\ p.s = t /\ (DelayedAck => p.len = RecvWindow)
  BY OpenPacketType DEF OpenPacket
<1> HIDE DEF p
<1>3. OutSays
  <2>1. HostSays(p)'
    BY <1>2 DEF HostSays
  <2>2. QED
    BY <1>1, <1>2, <2>1, HostSpeaks
<1>4. InSays
  BY <1>1, DeviceSpeaks
<1>5. opened'[t] = "pending" /\ \A s \in Streams : s # t => opened'[s] = opened[s]
  BY <1>1 DEF TInv, TypeOK
<1>6. ASSUME NEW s \in Streams PROVE LinkStep(s)
  <2>1. CASE s # t
    <3>1. NoOpen(s) => NoOpen(s)'
      <4>1. outq \in Seq(HostPackets)
        BY DEF TInv, TypeOK
      <4>2. On(outq') = On(outq) \cup {p}
        BY <1>1, <1>2, <4>1, OnAppend DEF Send
      <4>3. On(outq)' = On(outq')
        BY DEF On
      <4>4. QED
        BY <1>2, <2>1, <4>2, <4>3 DEF NoOpen
    <3>2. QED
      BY <1>1, <1>5, <2>1, <3>1, LinkSame DEF sendVars
  <2>2. CASE s = t
    <3>1. Sizes(s) /\ Sizes(s)' /\ Rejected(s)'
      BY <1>1, <1>5, <2>2 DEF LinkInv, LinkOf, Sizes, Rejected
    <3>2. QED
      BY <1>1, <1>5, <2>2, <3>1 DEF LinkStep, sendVars
  <2>3. QED
    BY <2>1, <2>2
<1>7. QED
  BY <1>3, <1>4, <1>6, LinkKept

\* read(),
LEMMA ReadLink == ASSUME TInv, CloseInv, LinkInv, NEW t \in Streams, Read(t) PROVE LinkInv'
<1>1. /\ UNCHANGED <<sock, sendVars, devBuf, closed, opened, inq, outq>>
      /\ \/ UNCHANGED incoming
         \/ incoming[t] # <<>> /\ incoming' = [incoming EXCEPT ![t] = Tail(incoming[t])]
  BY DEF Read, Take, HasChunk, recvVars, devVars, wireVars
<1>2. \A s \in Streams : NoOpen(s) => NoOpen(s)'
  BY <1>1, NoOpenKept
<1>3. OutSays /\ InSays
  BY <1>1, HostSpeaks, DeviceSpeaks
<1>4. incoming \in [Streams -> Seq(Nat)]
  BY DEF TInv, TypeOK
<1>5. ASSUME NEW s \in Streams PROVE LinkStep(s)
  <2>1. CASE incoming'[s] = incoming[s]
    BY <1>1, <1>2, <2>1, LinkSame DEF sendVars
  <2>2. CASE incoming'[s] # incoming[s]
    <3>1. incoming[s] # <<>> /\ incoming'[s] = Tail(incoming[s])
      BY <1>1, <1>4, <2>2
    <3>2. sock[s] # "none"
      BY <3>1 DEF LinkInv, LinkOf, Told
    <3>3. Sizes(s)'
      <4>1. PICK b : b = incoming[s]
        OBVIOUS
      <4>2. b \in Seq(Nat) /\ b # <<>>
        BY <1>4, <3>1, <4>1
      <4>3. \A i \in 1..Len(b) : b[i] > 0
        BY <4>1 DEF LinkInv, LinkOf, Sizes
      <4>4. \A i \in 1..Len(Tail(b)) : i + 1 \in 1..Len(b) /\ Tail(b)[i] = b[i + 1]
        BY <4>2
      <4>5. QED
        BY <3>1, <4>1, <4>3, <4>4 DEF Sizes
    <3>4. QED
      BY <1>1, <3>2, <3>3, LinkAccepted
  <2>3. QED
    BY <2>1, <2>2
<1>6. QED
  BY <1>3, <1>5, LinkKept

\* and close() of a stream or of the connection; so do the A_CLSE of adbd and
\* the failure of the connection.
LEMMA ClosesLink ==
    ASSUME TInv, CloseInv, LinkInv,
           (\E t \in Streams : Close(t)) \/ CloseConnection \/ HandleClose \/ FailConnection
    PROVE  LinkInv'
<1>1. ASSUME NEW t \in Streams, Close(t) PROVE LinkInv'
  <2>1. /\ OnClose({t}, FALSE) /\ Send(ClosePacket(t, "close"))
        /\ UNCHANGED <<sock, sendVars, devBuf, incoming, inq>>
    BY <1>1 DEF Close, recvVars, devVars
  <2>2. ClosePacket(t, "close") \in HostPackets /\ ClosePacket(t, "close").cmd = "CLSE"
    BY ClosePacketType DEF ClosePacket
  <2>3. HostSays(ClosePacket(t, "close"))'
    BY DEF HostSays, ClosePacket
  <2>4. OutSays /\ InSays /\ \A s \in Streams : NoOpen(s) => NoOpen(s)'
    BY <2>1, <2>2, <2>3, HostSpeaks, DeviceSpeaks, NoOpenKept
  <2>5. {t} \in SUBSET Streams
    BY <1>1
  <2>6. QED
    BY <2>1, <2>4, <2>5, OnCloseLink
<1>2. CASE CloseConnection \/ FailConnection
  <2>1. /\ OnClose(streams, TRUE) /\ UNCHANGED <<sock, sendVars, devBuf, incoming, outq>>
        /\ UNCHANGED inq \/ inq' = <<>>
    BY <1>2 DEF CloseConnection, FailConnection, recvVars, devVars, wireVars
  <2>2. OutSays /\ InSays /\ \A s \in Streams : NoOpen(s) => NoOpen(s)'
    BY <2>1, HostSpeaks, DeviceSpeaks, NoOpenKept
  <2>3. streams \in SUBSET Streams
    BY DEF TInv, TypeOK
  <2>4. QED
    BY <2>1, <2>2, <2>3, OnCloseLink
<1>3. CASE HandleClose
  <2>0. PICK t : t = Head(inq).s
    OBVIOUS
  <2>1. /\ t \in Streams /\ inq # <<>> /\ inq' = Tail(inq)
        /\ UNCHANGED <<sock, sendVars, devBuf, incoming, outq>>
        /\ OnClose({t}, FALSE) \/ UNCHANGED onCloseVars
    BY <1>3, <2>0, Received DEF HandleClose, Receive, recvVars, devVars
  <2>2. OutSays /\ InSays /\ \A s \in Streams : NoOpen(s) => NoOpen(s)'
    BY <2>1, HostSpeaks, DeviceSpeaks, NoOpenKept
  <2>3. CASE OnClose({t}, FALSE)
    <3>1. {t} \in SUBSET Streams
      BY <2>1
    <3>2. QED
      BY <2>1, <2>2, <2>3, <3>1, OnCloseLink
  <2>4. CASE UNCHANGED onCloseVars
    <3>1. \A s \in Streams : LinkStep(s)
      BY <2>1, <2>2, <2>4, LinkSame DEF sendVars, onCloseVars
    <3>2. QED
      BY <2>2, <3>1, LinkKept
  <2>5. QED
    BY <2>1, <2>3, <2>4
<1>4. QED
  BY <1>1, <1>2, <1>3

\* A writer that resumes sends on a stream it was handed.
LEMMA ResumeLink == ASSUME TInv, CloseInv, LinkInv, NEW w \in Writers, Resume(w) PROVE LinkInv'
<1> DEFINE t == StreamOf[w]
           left == Payload[w] - offset[w]
           n == IF left < MaxPayload THEN left ELSE MaxPayload
<1>1. /\ UNCHANGED <<sock, devBuf, incoming, closed, opened, inq>> /\ pc[w] = "granted"
      /\ \/ UNCHANGED <<sendVars, outq>>
         \/ Spend(t, n) /\ Send(WritePacket(w, n))
  BY DEF Resume, recvVars, devVars
<1>2. t \in Streams /\ opened[t] = "resolved"
  BY <1>1, ConstantsOK DEF CloseInv, Asked, Constants
<1>3. sock[t] # "none"
  BY <1>2 DEF LinkInv, LinkOf, Told
<1>4. n \in Nat
  <2>1. offset[w] < Payload[w] /\ offset[w] \in Nat
    BY <1>1 DEF TInv, OffsetOK, TypeOK
  <2>2. QED
    BY <2>1, ConstantsOK DEF Constants
<1>5. PICK p : p = WritePacket(w, n)
  OBVIOUS
<1>6. p \in HostPackets /\ p.cmd = "WRTE"
  <2> HIDE DEF n
  <2>1. QED
    BY <1>4, <1>5, WritePacketType DEF WritePacket
<1>7. UNCHANGED outq \/ Send(p)
  BY <1>1, <1>5
<1>8. OutSays /\ InSays /\ \A s \in Streams : NoOpen(s) => NoOpen(s)'
  <2>1. HostSays(p)'
    BY <1>6 DEF HostSays
  <2>2. QED
    BY <1>1, <1>6, <1>7, <2>1, HostSpeaks, DeviceSpeaks, NoOpenKept
<1>9. ASSUME NEW s \in Streams PROVE LinkStep(s)
  <2>1. CASE s # t
    <3>1. availableSendBytes'[s] = availableSendBytes[s] /\ writeReady'[s] = writeReady[s]
      <4> HIDE DEF t, n
      <4>1. QED
        BY <1>1, <2>1 DEF Spend, sendVars, TInv, TypeOK
    <3>2. QED
      BY <1>1, <1>8, <3>1, LinkSame
  <2>2. CASE s = t
    <3>1. Sizes(s)'
      BY <1>1 DEF LinkInv, LinkOf, Sizes
    <3>2. QED
      BY <1>1, <1>3, <2>2, <3>1, LinkAccepted
  <2>3. QED
    BY <2>1, <2>2
<1>10. QED
  BY <1>8, <1>9, LinkKept

\* An acknowledgement is of the flow-control mode in use.
LEMMA FlushAckLink == ASSUME TInv, CloseInv, LinkInv, NEW t \in Streams, FlushAck(t) PROVE LinkInv'
<1>1. /\ UNCHANGED <<sock, sendVars, devBuf, incoming, closed, opened, inq>>
      /\ UNCHANGED outq \/ (pendingAck[t] # 0 /\ Send(OkayPacket(t, pendingAck[t])))
  BY DEF FlushAck, AckDue, onCloseVars, devVars
<1>2. pendingAck[t] \in Nat /\ (pendingAck[t] # 0 => opened[t] = "resolved")
  BY DEF TInv, TypeOK, CloseInv, Known
<1>3. PICK p : p = OkayPacket(t, pendingAck[t])
  OBVIOUS
<1>4. /\ p \in HostPackets /\ p.cmd = "OKAY" /\ p.s = t /\ DelayedAck # (p.len = Bare)
  <2>1. p.cmd = "OKAY" /\ p.s = t /\ p.len = IF DelayedAck THEN pendingAck[t] ELSE Bare
    BY <1>3 DEF OkayPacket
  <2>2. pendingAck[t] # Bare
    BY <1>2 DEF Bare
  <2>3. DelayedAck \in BOOLEAN
    BY ConstantsOK DEF Constants
  <2>4. QED
    BY <1>2, <1>3, <2>1, <2>2, <2>3, OkayPacketType
<1>5. OutSays /\ InSays /\ \A s \in Streams : NoOpen(s) => NoOpen(s)'
  <2>1. pendingAck[t] # 0 => HostSays(p)'
    BY <1>1, <1>2, <1>4 DEF HostSays
  <2>2. QED
    BY <1>1, <1>3, <1>4, <2>1, HostSpeaks, DeviceSpeaks, NoOpenKept
<1>6. \A s \in Streams : LinkStep(s)
  BY <1>1, <1>5, LinkSame DEF sendVars
<1>7. QED
  BY <1>5, <1>6, LinkKept

\* A_OKAY: an open() may resolve, of a stream adbd has accepted.
LEMMA HandleOkayLink == ASSUME TInv, CloseInv, LinkInv, HandleOkay PROVE LinkInv'
<1>0. PICK t, n : t = Head(inq).s /\ n = Head(inq).len
  OBVIOUS
<1>1. /\ t \in Streams /\ sock[t] # "none" /\ inq # <<>> /\ inq' = Tail(inq)
      /\ UNCHANGED <<sock, devBuf, incoming>>
      /\ \/ OnOkay(t, n) /\ UNCHANGED outq
         \/ Send(ClosePacket(t, "loop")) /\ UNCHANGED <<sendVars, onCloseVars>>
  BY <1>0, HeardAccepted DEF HandleOkay, Kinds, recvVars, devVars
<1>2. ClosePacket(t, "loop") \in HostPackets /\ ClosePacket(t, "loop").cmd = "CLSE"
  BY <1>1, ClosePacketType DEF ClosePacket
<1>3. OutSays /\ InSays /\ \A s \in Streams : NoOpen(s) => NoOpen(s)'
  <2>1. HostSays(ClosePacket(t, "loop"))'
    BY DEF HostSays, ClosePacket
  <2>2. QED
    BY <1>1, <1>2, <2>1, HostSpeaks, DeviceSpeaks, NoOpenKept
<1>4. CASE UNCHANGED <<sendVars, onCloseVars>>
  <2>1. \A s \in Streams : LinkStep(s)
    BY <1>1, <1>3, <1>4, LinkSame DEF sendVars, onCloseVars
  <2>2. QED
    BY <1>3, <2>1, LinkKept
<1>5. CASE OnOkay(t, n)
  <2>1. /\ opened \in [Streams -> {"no", "pending", "resolved", "rejected"}]
        /\ closed \in [Streams -> BOOLEAN]
        /\ availableSendBytes \in [Streams -> Int] /\ writeReady \in [Streams -> BOOLEAN]
    BY DEF TInv, TypeOK
  <2>2. /\ opened' = [opened EXCEPT ![t] = IF @ = "pending" THEN "resolved" ELSE @]
        /\ CloseStreams({t}, TRUE) \/ UNCHANGED closed
        /\ availableSendBytes' = availableSendBytes \/ Credited(t, n)
        /\ writeReady' = writeReady \/ writeReady' = [writeReady EXCEPT ![t] = TRUE]
    BY <1>5 DEF OnOkay, sendVars
  <2>3. \A s \in Streams : closed[s] => closed'[s]
    BY <2>1, <2>2 DEF CloseStreams
  <2>4. ASSUME NEW s \in Streams PROVE LinkStep(s)
    <3>1. CASE s # t
      <4>1. opened'[s] = opened[s]
        BY <2>1, <2>2, <3>1
      <4>2. availableSendBytes'[s] = availableSendBytes[s] /\ writeReady'[s] = writeReady[s]
        BY <2>1, <2>2, <3>1 DEF Credited
      <4>3. QED
        BY <1>1, <1>3, <2>3, <4>1, <4>2, LinkSame
    <3>2. CASE s = t
      <4>1. opened'[t] = opened[t] \/ opened'[t] = "resolved"
        BY <1>1, <2>1, <2>2
      <4>2. Sizes(t)'
        BY <1>1 DEF LinkInv, LinkOf, Sizes
      <4>3. QED
        BY <1>1, <2>3, <3>2, <4>1, <4>2, LinkAccepted
    <3>3. QED
      BY <3>1, <3>2
  <2>5. QED
    BY <1>3, <2>4, LinkKept
<1>6. QED
  BY <1>1, <1>4, <1>5

\* A_WRTE: a chunk that is not empty joins the others.
LEMMA HandleWriteLink == ASSUME TInv, CloseInv, LinkInv, HandleWrite PROVE LinkInv'
<1>0. PICK t, n : t = Head(inq).s /\ n = Head(inq).len
  OBVIOUS
<1>1. /\ t \in Streams /\ sock[t] # "none" /\ inq # <<>> /\ inq' = Tail(inq)
      /\ Head(inq) \in On(inq) /\ Head(inq).cmd = "WRTE"
  BY HeardAccepted, <1>0 DEF HandleWrite, Kinds
<1>2. /\ UNCHANGED <<sock, sendVars, devBuf, closed, opened, outq>>
      /\ \/ UNCHANGED incoming
         \/ incoming' = [incoming EXCEPT ![t] = Append(incoming[t], n)]
         \/ incoming' = [incoming EXCEPT ![t] = Tail(Append(incoming[t], n))]
  BY <1>0 DEF HandleWrite, Take, recvVars, devVars
<1>3. n \in Nat /\ n > 0
  BY <1>0, <1>1, OnTypes, DevicePacketFields DEF LinkInv, DeviceSays
<1>4. OutSays /\ InSays /\ \A s \in Streams : NoOpen(s) => NoOpen(s)'
  BY <1>1, <1>2, HostSpeaks, DeviceSpeaks, NoOpenKept
<1>5. incoming \in [Streams -> Seq(Nat)]
  BY DEF TInv, TypeOK
<1>6. ASSUME NEW s \in Streams PROVE LinkStep(s)
  <2>1. CASE incoming'[s] = incoming[s]
    BY <1>2, <1>4, <2>1, LinkSame DEF sendVars
  <2>2. CASE incoming'[s] # incoming[s]
    <3>1. s = t
      BY <1>2, <1>5, <2>2
    <3>2. PICK b : b = incoming[t]
      OBVIOUS
    <3>3. b \in Seq(Nat) /\ \A i \in 1..Len(b) : b[i] > 0
      BY <1>1, <1>5, <3>2 DEF LinkInv, LinkOf, Sizes
    <3>4. \A i \in 1..Len(Append(b, n)) : Append(b, n)[i] > 0
      <4>1. \A i \in 1..Len(Append(b, n)) : i \in 1..Len(b) \/ i = Len(b) + 1
        BY <1>3, <3>3
      <4>2. \A i \in 1..Len(b) : Append(b, n)[i] = b[i]
        BY <1>3, <3>3
      <4>3. Append(b, n)[Len(b) + 1] = n
        BY <1>3, <3>3
      <4>4. QED
        BY <1>3, <3>3, <4>1, <4>2, <4>3
    <3>5. \A i \in 1..Len(Tail(Append(b, n))) : Tail(Append(b, n))[i] > 0
      <4> DEFINE r == Append(b, n)
      <4>1. r \in Seq(Nat) /\ r # <<>>
        BY <1>3, <3>3, AppendProperties
      <4> HIDE DEF r
      <4>2. \A i \in 1..Len(Tail(r)) : i + 1 \in 1..Len(r) /\ Tail(r)[i] = r[i + 1]
        BY <4>1
      <4>3. \A i \in 1..Len(r) : r[i] > 0
        BY <3>4 DEF r
      <4>4. \A i \in 1..Len(Tail(r)) : Tail(r)[i] > 0
        BY <4>2, <4>3
      <4>5. QED
        BY <4>4 DEF r
    <3>6. incoming'[t] = Append(b, n) \/ incoming'[t] = Tail(Append(b, n))
      BY <1>1, <1>2, <1>5, <2>2, <3>1, <3>2
    <3>7. Sizes(t)'
      BY <3>4, <3>5, <3>6 DEF Sizes
    <3>8. QED
      BY <1>1, <1>2, <3>1, <3>7, LinkAccepted
  <2>3. QED
    BY <2>1, <2>2
<1>7. QED
  BY <1>4, <1>6, LinkKept

\* The A_OPEN at the head of the queue is the only one of its stream.
LEMMA OpenGone ==
    ASSUME TInv, CloseInv, outq # <<>>, outq' = Tail(outq), Head(outq).cmd = "OPEN",
           NEW t, t = Head(outq).s
    PROVE  NoOpen(t)'
<1>1. outq \in Seq(HostPackets)
  BY DEF TInv, TypeOK
<1>2. /\ Len(outq) \in Nat /\ Len(outq) >= 1 /\ Head(outq) = outq[1] /\ Len(outq') = Len(outq) - 1
      /\ \A i \in 1..(Len(outq) - 1) : outq'[i] = outq[i + 1]
  BY <1>1, OnTail
<1>3. ASSUME NEW i \in 1..(Len(outq) - 1), outq[i + 1].cmd = "OPEN", outq[i + 1].s = t
      PROVE  FALSE
  <2>1. i + 1 \in 1..Len(outq) /\ 1 \in 1..Len(outq) /\ i + 1 # 1
    BY <1>2
  <2>2. i + 1 = 1
    BY <1>2, <1>3, <2>1 DEF CloseInv, Queue, OpenOnce
  <2>3. QED
    BY <2>1, <2>2
<1>4. On(outq)' = On(outq')
  BY DEF On
<1>5. \A p \in On(outq') : \E i \in 1..(Len(outq) - 1) : p = outq[i + 1]
  BY <1>2 DEF On
<1>6. \A p \in On(outq') : p.cmd = "OPEN" => p.s # t
  BY <1>3, <1>5
<1>7. QED
  BY <1>4, <1>6 DEF NoOpen

\* A write that fails: an open() whose A_OPEN never left was not accepted.
LEMMA WriteFailsLink == ASSUME TInv, CloseInv, LinkInv, WriteFails PROVE LinkInv'
<1>0. PICK p : p = Head(outq)
  OBVIOUS
<1>1. /\ outq # <<>> /\ outq' = Tail(outq)
      /\ UNCHANGED <<sock, sendVars, devBuf, incoming, inq>>
      /\ \/ UNCHANGED <<opened, closed>>
         \/ p.cmd = "OPEN" /\ opened' = [opened EXCEPT ![p.s] = "rejected"] /\ UNCHANGED closed
         \/ OnClose({p.s}, TRUE)
  BY <1>0 DEF WriteFails, recvVars, onCloseVars, devVars
<1>2. OutSays /\ InSays /\ \A s \in Streams : NoOpen(s) => NoOpen(s)'
  BY <1>1, HostSpeaks, DeviceSpeaks, NoOpenKept
<1>3. p \in On(outq) /\ p.s \in Streams /\ Queued(p)
  <2>1. outq \in Seq(HostPackets)
    BY DEF TInv, TypeOK
  <2>2. QED
    BY <1>0, <1>1, <2>1, OnTail, OnTypes, HostPacketFields DEF CloseInv, Queue
<1>4. CASE UNCHANGED <<opened, closed>>
  <2>1. \A s \in Streams : LinkStep(s)
    BY <1>1, <1>2, <1>4, LinkSame DEF sendVars
  <2>2. QED
    BY <1>2, <2>1, LinkKept
<1>5. CASE p.cmd = "OPEN" /\ opened' = [opened EXCEPT ![p.s] = "rejected"] /\ UNCHANGED closed
  <2>1. \A s \in Streams : s # p.s => opened'[s] = opened[s]
    BY <1>5 DEF TInv, TypeOK
  <2>2. opened'[p.s] = "rejected" /\ opened[p.s] # "resolved" /\ sock[p.s] = "none"
    BY <1>3, <1>5 DEF TInv, TypeOK, Queued, Unheard
  <2>3. NoOpen(p.s)'
    <3>1. PICK t : t = p.s
      OBVIOUS
    <3>2. NoOpen(t)'
      BY <1>0, <1>1, <1>5, <3>1, OpenGone
    <3>3. QED
      BY <3>1, <3>2
  <2>4. ASSUME NEW s \in Streams PROVE LinkStep(s)
    <3>1. CASE s # p.s
      BY <1>1, <1>2, <1>5, <2>1, <3>1, LinkSame DEF sendVars
    <3>2. CASE s = p.s
      <4>1. Rejected(s)'
        BY <1>1, <2>2, <2>3, <3>2 DEF Rejected
      <4>2. Sizes(s)'
        BY <1>1 DEF LinkInv, LinkOf, Sizes
      <4>3. QED
        BY <1>1, <2>2, <3>2, <4>1, <4>2 DEF LinkStep, sendVars
    <3>3. QED
      BY <3>1, <3>2
  <2>5. QED
    BY <1>2, <2>4, LinkKept
<1>6. CASE OnClose({p.s}, TRUE)
  <2>1. {p.s} \in SUBSET Streams
    BY <1>3
  <2>2. QED
    BY <1>1, <1>2, <1>6, <2>1, OnCloseLink
<1>7. QED
  BY <1>1, <1>4, <1>5, <1>6

\* adbd takes the A_OPEN of a stream that may still be accepted.
LEMMA DevOpenLink == ASSUME TInv, CloseInv, LinkInv, DevOpen PROVE LinkInv'
<1>0. PICK t : t = Head(outq).s
  OBVIOUS
<1>1. /\ Transfer("OPEN") /\ outq # <<>> /\ outq' = Tail(outq) /\ Head(outq).cmd = "OPEN"
      /\ UNCHANGED <<sendVars, incoming, closed, opened, devBuf>>
      /\ \/ sock' = [sock EXCEPT ![t] = "open"] /\ \E n : Emit([cmd |-> "OKAY", s |-> t, len |-> n])
         \/ UNCHANGED sock /\ Emit([cmd |-> "CLSE", s |-> t])
  BY <1>0 DEF DevOpen, Transfer, hostVars, recvVars, onCloseVars
<1>2. t \in Streams /\ Head(outq) \in On(outq)
  <2>1. outq \in Seq(HostPackets)
    BY DEF TInv, TypeOK
  <2>2. QED
    BY <1>0, <1>1, <2>1, OnTail, TransferTypes
<1>3. sock[t] = "none" /\ ~NoOpen(t)
  BY <1>0, <1>1, <1>2 DEF CloseInv, Queue, Queued, Unheard, NoOpen
<1>4. sock \in [Streams -> {"none", "open", "closed"}]
  BY DEF TInv, TypeOK
<1>5. OutSays /\ \A s \in Streams : NoOpen(s) => NoOpen(s)'
  BY <1>1, HostSpeaks, NoOpenKept
<1>6. InSays
  <2>1. CASE sock' = [sock EXCEPT ![t] = "open"] /\ \E n : Emit([cmd |-> "OKAY", s |-> t, len |-> n])
    <3>1. PICK n : Emit([cmd |-> "OKAY", s |-> t, len |-> n])
      BY <2>1
    <3>2. sock'[t] # "none"
      BY <1>2, <1>4, <2>1
    <3>3. PICK x : x = [cmd |-> "OKAY", s |-> t, len |-> n]
      OBVIOUS
    <3>4. Emit(x) /\ x.cmd = "OKAY" /\ x.s = t
      BY <3>1, <3>3
    <3>5. QED
      BY <3>2, <3>4, DeviceSpeaks DEF DeviceSays
  <2>2. CASE UNCHANGED sock /\ Emit([cmd |-> "CLSE", s |-> t])
    <3>1. PICK x : x = [cmd |-> "CLSE", s |-> t]
      OBVIOUS
    <3>2. Emit(x) /\ x.cmd = "CLSE"
      BY <2>2, <3>1
    <3>3. QED
      BY <3>2, DeviceSpeaks DEF Kinds
  <2>3. QED
    BY <1>1, <2>1, <2>2
<1>7. ASSUME NEW s \in Streams PROVE LinkStep(s)
  <2>1. CASE sock'[s] = sock[s]
    BY <1>1, <1>5, <2>1, LinkSame DEF sendVars
  <2>2. CASE sock'[s] # sock[s]
    <3>1. s = t /\ sock'[s] # "none"
      BY <1>1, <1>2, <1>4, <2>2
    <3>2. Rejected(s)'
      BY <1>1, <1>3, <3>1 DEF LinkInv, LinkOf, Rejected
    <3>3. Sizes(s)'
      BY <1>1 DEF LinkInv, LinkOf, Sizes
    <3>4. QED
      BY <1>1, <3>1, <3>2, <3>3 DEF LinkStep
  <2>3. QED
    BY <2>1, <2>2
<1>8. QED
  BY <1>5, <1>6, <1>7, LinkKept

\* adbd takes an A_WRTE, an A_OKAY or an A_CLSE.
LEMMA ReceivesLink ==
    ASSUME TInv, CloseInv, LinkInv, DevReceiveWrite \/ DevReceiveOkay \/ DevReceiveClose
    PROVE  LinkInv'
<1>0. PICK t : t = Head(outq).s
  OBVIOUS
<1>1. /\ outq # <<>> /\ outq' = Tail(outq) /\ UNCHANGED <<sendVars, incoming, closed, opened>>
      /\ \E cmd : Transfer(cmd)
  BY DEF DevReceiveWrite, DevReceiveOkay, DevReceiveClose, Transfer, hostVars, recvVars, onCloseVars
<1>2. t \in Streams
  BY <1>0, <1>1, TransferTypes
<1>3. /\ sock \in [Streams -> {"none", "open", "closed"}]
      /\ devBuf \in [Streams -> Seq(Nat)]
  BY DEF TInv, TypeOK
<1>4. /\ UNCHANGED <<sock, devBuf>> \/ sock[t] = "open"
      /\ UNCHANGED inq \/ Emit([cmd |-> "CLSE", s |-> t])
      /\ \A s \in Streams : s # t => sock'[s] = sock[s] /\ devBuf'[s] = devBuf[s]
      /\ sock'[t] = sock[t] \/ sock'[t] = "closed"
  <2>1. CASE DevReceiveWrite
    <3>1. /\ UNCHANGED <<sock, inq>>
          /\ devBuf' = [devBuf EXCEPT ![t] = IF sock[t] = "open" THEN Append(@, Head(outq).len) ELSE @]
      BY <1>0, <2>1 DEF DevReceiveWrite
    <3>2. \A s \in Streams : s # t => devBuf'[s] = devBuf[s]
      BY <1>3, <3>1
    <3>3. sock[t] # "open" => devBuf' = devBuf
      BY <1>3, <3>1
    <3>4. QED
      BY <3>1, <3>2, <3>3
  <2>2. CASE DevReceiveOkay
    BY <2>2 DEF DevReceiveOkay
  <2>3. CASE DevReceiveClose
    <3>1. \/ UNCHANGED <<sock, devBuf, inq>>
          \/ /\ sock[t] = "open" /\ sock' = [sock EXCEPT ![t] = "closed"]
             /\ devBuf' = [devBuf EXCEPT ![t] = <<>>] /\ Emit([cmd |-> "CLSE", s |-> t])
      BY <1>0, <2>3 DEF DevReceiveClose
    <3>2. QED
      BY <1>2, <1>3, <3>1
  <2>4. QED
    BY <2>1, <2>2, <2>3
<1>5. OutSays /\ \A s \in Streams : NoOpen(s) => NoOpen(s)'
  BY <1>1, HostSpeaks, NoOpenKept
<1>6. InSays
  <2>1. PICK x : x = [cmd |-> "CLSE", s |-> t]
    OBVIOUS
  <2>2. QED
    BY <1>4, <2>1, DeviceSpeaks DEF Kinds
<1>7. ASSUME NEW s \in Streams PROVE LinkStep(s)
  <2>1. CASE sock'[s] = sock[s] /\ devBuf'[s] = devBuf[s]
    BY <1>1, <1>5, <2>1, LinkSame DEF sendVars
  <2>2. CASE ~(sock'[s] = sock[s] /\ devBuf'[s] = devBuf[s])
    <3>1. s = t /\ sock[s] = "open" /\ sock'[s] # "none"
      BY <1>4, <2>2
    <3>2. Sizes(s)'
      BY <1>1 DEF LinkInv, LinkOf, Sizes
    <3>3. QED
      BY <1>1, <3>1, <3>2, LinkAccepted
  <2>3. QED
    BY <2>1, <2>2
<1>8. QED
  BY <1>5, <1>6, <1>7, LinkKept

\* adbd consumes, writes chunks that are not empty, closes or misbehaves.
LEMMA DeviceLink ==
    ASSUME TInv, CloseInv, LinkInv, NEW t \in Streams,
           DevConsume(t) \/ DevWrite(t) \/ DevClose(t) \/ DevMisbehave(t)
    PROVE  LinkInv'
<1>1. /\ UNCHANGED <<sendVars, incoming, closed, opened, outq>> /\ sock[t] = "open"
      /\ UNCHANGED sock \/ sock' = [sock EXCEPT ![t] = "closed"]
      /\ UNCHANGED devBuf \/ devBuf' = [devBuf EXCEPT ![t] = <<>>]
                          \/ devBuf' = [devBuf EXCEPT ![t] = Tail(@)]
  BY DEF DevConsume, DevWrite, DevClose, DevMisbehave, hostVars, recvVars, onCloseVars
<1>2. /\ sock \in [Streams -> {"none", "open", "closed"}]
      /\ devBuf \in [Streams -> Seq(Nat)]
  BY DEF TInv, TypeOK
<1>3. sock'[t] # "none" /\ \A s \in Streams : s # t => sock'[s] = sock[s] /\ devBuf'[s] = devBuf[s]
  BY <1>1, <1>2
<1>4. \E x : Emit(x) /\ (x.cmd \in Kinds => x.s = t /\ DeviceSays(x))
  <2>1. CASE DevConsume(t)
    <3>1. PICK n : Emit([cmd |-> "OKAY", s |-> t, len |-> n])
      BY <2>1 DEF DevConsume
    <3>2. QED
      BY <3>1 DEF DeviceSays
  <2>2. CASE DevWrite(t)
    <3>1. PICK n \in DevSizes : Emit([cmd |-> "WRTE", s |-> t, len |-> n])
      BY <2>2 DEF DevWrite
    <3>2. n > 0
      BY ConstantsOK DEF Constants
    <3>3. QED
      BY <3>1, <3>2 DEF DeviceSays
  <2>3. CASE DevClose(t)
    BY <2>3 DEF DevClose, Kinds
  <2>4. CASE DevMisbehave(t)
    <3>1. Emit([cmd |-> "BAD"]) \/ \E n : Emit([cmd |-> "OKAY", s |-> t, len |-> n])
      BY <2>4 DEF DevMisbehave
    <3>2. CASE Emit([cmd |-> "BAD"])
      BY <3>2 DEF Kinds
    <3>3. CASE \E n : Emit([cmd |-> "OKAY", s |-> t, len |-> n])
      <4>1. PICK n : Emit([cmd |-> "OKAY", s |-> t, len |-> n])
        BY <3>3
      <4>2. QED
        BY <4>1 DEF DeviceSays
    <3>4. QED
      BY <3>1, <3>2, <3>3
  <2>5. QED
    BY <2>1, <2>2, <2>3, <2>4
<1>5. OutSays /\ InSays /\ \A s \in Streams : NoOpen(s) => NoOpen(s)'
  BY <1>1, <1>3, <1>4, HostSpeaks, DeviceSpeaks, NoOpenKept
<1>6. ASSUME NEW s \in Streams PROVE LinkStep(s)
  <2>1. CASE s # t
    BY <1>1, <1>3, <1>5, <2>1, LinkSame DEF sendVars
  <2>2. CASE s = t
    <3>1. Sizes(s)'
      BY <1>1 DEF LinkInv, LinkOf, Sizes
    <3>2. QED
      BY <1>1, <1>3, <2>2, <3>1, LinkAccepted
  <2>3. QED
    BY <2>1, <2>2
<1>7. QED
  BY <1>5, <1>6, LinkKept

\* The invariant holds when the handshake is over,
LEMMA InitLinkInv == Init => LinkInv
<1> SUFFICES ASSUME Init PROVE LinkInv
  OBVIOUS
<1>1. On(inq) = {} /\ On(outq) = {}
  BY DEF Init, On
<1>2. \A s \in Streams : Told(s)
  BY <1>1 DEF Init, Told
<1>3. \A s \in Streams : Rejected(s)
  BY DEF Init, Rejected
<1>4. ASSUME NEW s \in Streams PROVE Sizes(s)
  <2>1. Len(incoming[s]) = 0
    BY DEF Init
  <2>2. 1..Len(incoming[s]) = {}
    BY <2>1
  <2>3. QED
    BY <2>2 DEF Sizes
<1>5. QED
  BY <1>1, <1>2, <1>3, <1>4 DEF LinkInv, LinkOf

\* and in every step.
LEMMA NextLinkInv == TInv /\ CloseInv /\ LinkInv /\ [Next]_vars => LinkInv'
<1> SUFFICES ASSUME TInv, CloseInv, LinkInv, [Next]_vars PROVE LinkInv'
  OBVIOUS
<1>0. ASSUME UNCHANGED <<sock, sendVars, devBuf, incoming, closed, opened, outq>>,
             UNCHANGED inq \/ inq' = <<>>
      PROVE  LinkInv'
  <2>1. OutSays /\ InSays /\ \A s \in Streams : NoOpen(s) => NoOpen(s)'
    BY <1>0, HostSpeaks, DeviceSpeaks, NoOpenKept
  <2>2. \A s \in Streams : LinkStep(s)
    BY <1>0, <2>1, LinkSame DEF sendVars
  <2>3. QED
    BY <2>1, <2>2, LinkKept
<1>1. CASE AppStep
  <2>1. ASSUME NEW w \in Writers, Write(w) PROVE LinkInv'
    BY <1>0, <2>1 DEF Write, recvVars, wireVars, devVars
  <2>2. QED
    BY <1>1, <2>1, OpenLink, ReadLink, ClosesLink DEF AppStep
<1>2. CASE HostStep
  <2>1. CASE WriteDone
    BY <1>0, <2>1 DEF WriteDone, recvVars, devVars
  <2>2. QED
    BY <1>2, <2>1, ResumeLink, FlushAckLink, HandleOkayLink, HandleWriteLink, ClosesLink,
       WriteFailsLink DEF HostStep, WriteFailsUnplugged
<1>3. CASE DevTransfer
  BY <1>3, DevOpenLink, ReceivesLink DEF DevTransfer
<1>4. CASE EnvStep \/ \E s \in Streams : DevConsume(s)
  <2>1. CASE Unplug
    BY <1>0, <2>1 DEF Unplug, recvVars, onCloseVars, devVars
  <2>2. QED
    BY <1>4, <2>1, WriteFailsLink, DeviceLink DEF EnvStep, WriteStalls
<1>5. CASE UNCHANGED vars
  BY <1>0, <1>5 DEF vars, recvVars, onCloseVars, wireVars, devVars
<1>6. QED
  BY <1>1, <1>2, <1>3, <1>4, <1>5 DEF Next

-----------------------------------------------------------------------------
(* How a step moves the credit of a stream                                 *)

\* What may be sent, what was sent and not consumed, what comes back.
Unread(s)    == Amount(outq, s, "WRTE") + Buffered(devBuf[s])
Returning(s) == Amount(inq, s, "OKAY")
Carried(s)   == Permission(s) + Unread(s) + Returning(s)

Live(s) == linkUp /\ sock[s] = "open" /\ ~closed[s]

Solo(s) == \A v, w \in WritersOf(s) : v = w

\* A write() call that holds a permission can use it.
Granted(s) == \A w \in WritersOf(s) : pc[w] = "granted" /\ ~closed[s] => Permission(s) > 0

Within(s) == Carried(s) <= Unit(Credit)
Exact(s)  == Live(s) /\ ~MayStall => Carried(s) = Unit(Credit)

CreditOf(s) == /\ Solo(s) => Granted(s)
               /\ DelayedAck \/ Solo(s) => Within(s) /\ Exact(s)

CreditInv == \A s \in Streams : CreditOf(s)

Holds(s)       == UNCHANGED <<Permission(s), Unread(s), Returning(s)>>
Sends(s, n)    == /\ Solo(s) => Permission(s) > 0
                  /\ Permission(s)' = Permission(s) - n /\ Unread(s)' = Unread(s) + n
                  /\ UNCHANGED Returning(s)
Consumes(s, n) == /\ n <= Unread(s)
                  /\ Unread(s)' = Unread(s) - n /\ Returning(s)' = Returning(s) + n
                  /\ UNCHANGED Permission(s)
Acks(s, n)     == /\ n <= Returning(s)
                  /\ Returning(s)' = Returning(s) - n /\ Permission(s)' = Permission(s) + n
                  /\ UNCHANGED Unread(s)
Loses(s)       == Carried(s)' <= Carried(s) /\ (Live(s) /\ Live(s)' => MayStall)
Begins(s)      == /\ ~Live(s) /\ sock[s] = "none"
                  /\ Permission(s)' = 0 /\ Unread(s)' = 0 /\ Returning(s)' = Unit(Credit)

Moves(s) ==
    \/ Begins(s)
    \/ /\ Live(s)' => Live(s)
       /\ \/ Holds(s) \/ Loses(s)
          \/ \E n \in 1..Unit(MaxPayload) : Sends(s, n)
          \/ \E n \in Nat : Consumes(s, n) \/ Acks(s, n)

\* The amounts are numbers.
LEMMA LedgerTypes ==
    ASSUME TInv, NEW s \in Streams
    PROVE  /\ Permission(s) \in Int /\ (~DelayedAck => Permission(s) \in {0, 1})
           /\ Amount(outq, s, "WRTE") \in Nat /\ Buffered(devBuf[s]) \in Nat
           /\ Unread(s) \in Nat /\ Returning(s) \in Nat /\ Carried(s) \in Int
<1>1. /\ outq \in Seq(Packets) /\ inq \in Seq(Packets) /\ devBuf[s] \in Seq(Nat)
      /\ availableSendBytes[s] \in Int
  BY DEF TInv, TypeOK, Packets
<1>2. "WRTE" \in Kinds /\ "OKAY" \in Kinds
  BY DEF Kinds
<1>3. Amount(outq, s, "WRTE") \in Nat /\ Amount(inq, s, "OKAY") \in Nat
  BY <1>1, <1>2, AmountType
<1>4. Buffered(devBuf[s]) \in Nat
  BY <1>1, BufferedType
<1>5. Permission(s) \in Int /\ (~DelayedAck => Permission(s) \in {0, 1})
  BY <1>1 DEF Permission
<1>6. Unread(s) \in Nat /\ Returning(s) \in Nat
  BY <1>3, <1>4 DEF Unread, Returning
<1>7. QED
  BY <1>3, <1>4, <1>5, <1>6 DEF Carried

\* They are after a step, too.
LEMMA LedgerTypesNext ==
    ASSUME TInv', NEW s \in Streams
    PROVE  /\ Permission(s)' \in Int /\ Unread(s)' \in Nat /\ Returning(s)' \in Nat
           /\ Carried(s)' \in Int
<1>1. /\ outq' \in Seq(Packets) /\ inq' \in Seq(Packets) /\ devBuf'[s] \in Seq(Nat)
      /\ availableSendBytes'[s] \in Int
  BY DEF TInv, TypeOK, Packets
<1>2. "WRTE" \in Kinds /\ "OKAY" \in Kinds
  BY DEF Kinds
<1>3. Amount(outq', s, "WRTE") \in Nat /\ Amount(inq', s, "OKAY") \in Nat
  BY <1>1, <1>2, AmountType
<1>4. /\ Amount(outq, s, "WRTE")' = Amount(outq', s, "WRTE")
      /\ Amount(inq, s, "OKAY")' = Amount(inq', s, "OKAY")
  BY DEF Amount, Total, Share, Unit
<1>5. Buffered(devBuf[s])' \in Nat
  <2>1. Buffered(devBuf[s])' = Buffered(devBuf'[s])
    BY DEF Buffered, Total, Unit
  <2>2. QED
    BY <1>1, <2>1, BufferedType
<1>6. Permission(s)' \in Int
  BY <1>1 DEF Permission
<1>7. Unread(s)' \in Nat /\ Returning(s)' \in Nat
  BY <1>3, <1>4, <1>5 DEF Unread, Returning
<1>8. QED
  BY <1>6, <1>7 DEF Carried

\* A packet of another stream, of another kind or of the wrong mode has no
\* share in an amount.
LEMMA NoShare ==
    ASSUME NEW p, NEW s, NEW cmd,
           p.cmd # cmd \/ p.s # s \/ (p.cmd = "OKAY" /\ DelayedAck = (p.len = Bare))
    PROVE  Share(p, s, cmd) = 0
  BY DEF Share

\* What a step makes of the amounts in the queue of the host,
LEMMA OutAmount ==
    ASSUME TInv, NEW s, NEW cmd \in Kinds
    PROVE  /\ Amount(outq, s, cmd) \in Nat
           /\ UNCHANGED outq => Amount(outq, s, cmd)' = Amount(outq, s, cmd)
           /\ \A p \in HostPackets : /\ Share(p, s, cmd) \in Nat
                                     /\ Send(p) => Amount(outq, s, cmd)' = Amount(outq, s, cmd) + Share(p, s, cmd)
           /\ outq # <<>> /\ outq' = Tail(outq) =>
                /\ Amount(outq, s, cmd) = Share(Head(outq), s, cmd) + Amount(outq, s, cmd)'
                /\ Share(Head(outq), s, cmd) \in Nat /\ Amount(outq, s, cmd)' \in Nat
<1>1. outq \in Seq(HostPackets) /\ outq \in Seq(Packets)
  BY DEF TInv, TypeOK, Packets
<1>2. Amount(outq, s, cmd)' = Amount(outq', s, cmd)
  BY DEF Amount, Total, Share, Unit
<1>3. Amount(outq, s, cmd) \in Nat
  BY <1>1, AmountType
<1>4. UNCHANGED outq => Amount(outq, s, cmd)' = Amount(outq, s, cmd)
  BY <1>2
<1>5. ASSUME NEW p \in HostPackets
      PROVE  /\ Share(p, s, cmd) \in Nat
             /\ Send(p) => Amount(outq, s, cmd)' = Amount(outq, s, cmd) + Share(p, s, cmd)
  <2>1. p \in Packets
    BY DEF Packets
  <2>2. Share(p, s, cmd) \in Nat
    BY <2>1, ShareType
  <2>3. Send(p) => Amount(outq', s, cmd) = Amount(outq, s, cmd) + Share(p, s, cmd)
    BY <1>1, <2>1, AmountAppend DEF Send
  <2>4. QED
    BY <1>2, <2>2, <2>3
<1>6. ASSUME outq # <<>>, outq' = Tail(outq)
      PROVE  /\ Amount(outq, s, cmd) = Share(Head(outq), s, cmd) + Amount(outq, s, cmd)'
             /\ Share(Head(outq), s, cmd) \in Nat /\ Amount(outq, s, cmd)' \in Nat
  <2>1. Head(outq) \in Packets /\ Tail(outq) \in Seq(Packets)
    BY <1>1, <1>6
  <2>2. Share(Head(outq), s, cmd) \in Nat /\ Amount(Tail(outq), s, cmd) \in Nat
    BY <2>1, ShareType, AmountType
  <2>3. Amount(outq, s, cmd) = Share(Head(outq), s, cmd) + Amount(Tail(outq), s, cmd)
    BY <1>1, <1>6, AmountTail
  <2>4. QED
    BY <1>2, <1>6, <2>2, <2>3
<1>7. QED
  BY <1>3, <1>4, <1>5, <1>6

\* and in that of adbd.
LEMMA InAmount ==
    ASSUME TInv, NEW s, NEW cmd \in Kinds
    PROVE  /\ Amount(inq, s, cmd) \in Nat
           /\ UNCHANGED inq => Amount(inq, s, cmd)' = Amount(inq, s, cmd)
           /\ inq' = <<>> => Amount(inq, s, cmd)' = 0
           /\ \A p \in DevicePackets : /\ Share(p, s, cmd) \in Nat
                                       /\ Emit(p) => Amount(inq, s, cmd)' = Amount(inq, s, cmd) + Share(p, s, cmd)
           /\ inq # <<>> /\ inq' = Tail(inq) =>
                /\ Amount(inq, s, cmd) = Share(Head(inq), s, cmd) + Amount(inq, s, cmd)'
                /\ Share(Head(inq), s, cmd) \in Nat /\ Amount(inq, s, cmd)' \in Nat
<1>1. inq \in Seq(DevicePackets) /\ inq \in Seq(Packets)
  BY DEF TInv, TypeOK, Packets
<1>2. Amount(inq, s, cmd)' = Amount(inq', s, cmd)
  BY DEF Amount, Total, Share, Unit
<1>3. Amount(inq, s, cmd) \in Nat
  BY <1>1, AmountType
<1>4. UNCHANGED inq => Amount(inq, s, cmd)' = Amount(inq, s, cmd)
  BY <1>2
<1>5. inq' = <<>> => Amount(inq, s, cmd)' = 0
  <2>1. ASSUME NEW q, q = <<>> PROVE Amount(q, s, cmd) = 0
    <3>1. q \in Seq(Packets) /\ Len(q) = 0
      BY <2>1
    <3>2. 1..Len(q) = {}
      BY <3>1
    <3>3. QED
      BY <3>1, <3>2, AmountNone DEF On
  <2>2. QED
    BY <1>2, <2>1
<1>6. ASSUME NEW p \in DevicePackets
      PROVE  /\ Share(p, s, cmd) \in Nat
             /\ Emit(p) => Amount(inq, s, cmd)' = Amount(inq, s, cmd) + Share(p, s, cmd)
  <2>1. p \in Packets
    BY DEF Packets
  <2>2. Share(p, s, cmd) \in Nat
    BY <2>1, ShareType
  <2>3. Emit(p) => Amount(inq', s, cmd) = Amount(inq, s, cmd) + Share(p, s, cmd)
    BY <1>1, <2>1, AmountAppend DEF Emit
  <2>4. QED
    BY <1>2, <2>2, <2>3
<1>7. ASSUME inq # <<>>, inq' = Tail(inq)
      PROVE  /\ Amount(inq, s, cmd) = Share(Head(inq), s, cmd) + Amount(inq, s, cmd)'
             /\ Share(Head(inq), s, cmd) \in Nat /\ Amount(inq, s, cmd)' \in Nat
  <2>1. Head(inq) \in Packets /\ Tail(inq) \in Seq(Packets)
    BY <1>1, <1>7
  <2>2. Share(Head(inq), s, cmd) \in Nat /\ Amount(Tail(inq), s, cmd) \in Nat
    BY <2>1, ShareType, AmountType
  <2>3. Amount(inq, s, cmd) = Share(Head(inq), s, cmd) + Amount(Tail(inq), s, cmd)
    BY <1>1, <1>7, AmountTail
  <2>4. QED
    BY <1>2, <1>7, <2>2, <2>3
<1>8. QED
  BY <1>3, <1>4, <1>5, <1>6, <1>7

\* Steps that put nothing for s into a queue and take nothing for it out.
OutSame(s, cmd) ==
    \/ UNCHANGED outq
    \/ \E p \in HostPackets : Send(p) /\ Share(p, s, cmd) = 0
    \/ outq # <<>> /\ outq' = Tail(outq) /\ Share(Head(outq), s, cmd) = 0
InSame(s, cmd) ==
    \/ UNCHANGED inq
    \/ \E p \in DevicePackets : Emit(p) /\ Share(p, s, cmd) = 0
    \/ inq # <<>> /\ inq' = Tail(inq) /\ Share(Head(inq), s, cmd) = 0

\* They leave its amounts alone.
LEMMA SameAmounts ==
    ASSUME TInv, NEW s, NEW cmd \in Kinds
    PROVE  /\ OutSame(s, cmd) => Amount(outq, s, cmd)' = Amount(outq, s, cmd)
           /\ InSame(s, cmd) => Amount(inq, s, cmd)' = Amount(inq, s, cmd)
<1>1. ASSUME OutSame(s, cmd) PROVE Amount(outq, s, cmd)' = Amount(outq, s, cmd)
  <2>1. CASE \E p \in HostPackets : Send(p) /\ Share(p, s, cmd) = 0
    BY <2>1, OutAmount
  <2>2. CASE outq # <<>> /\ outq' = Tail(outq) /\ Share(Head(outq), s, cmd) = 0
    BY <2>2, OutAmount
  <2>3. QED
    BY <1>1, <2>1, <2>2, OutAmount DEF OutSame
<1>2. ASSUME InSame(s, cmd) PROVE Amount(inq, s, cmd)' = Amount(inq, s, cmd)
  <2>1. CASE \E p \in DevicePackets : Emit(p) /\ Share(p, s, cmd) = 0
    BY <2>1, InAmount
  <2>2. CASE inq # <<>> /\ inq' = Tail(inq) /\ Share(Head(inq), s, cmd) = 0
    BY <2>2, InAmount
  <2>3. QED
    BY <1>2, <2>1, <2>2, InAmount DEF InSame
<1>3. QED
  BY <1>1, <1>2

\* No stream comes to life but by an A_OPEN.
LEMMA LiveKept ==
    ASSUME NEW s, linkUp' => linkUp, sock'[s] = "open" => sock[s] = "open", closed[s] => closed'[s]
    PROVE  Live(s)' => Live(s)
  BY DEF Live

\* A step that carries nothing for s.
LEMMA NothingCarried ==
    ASSUME TInv, NEW s \in Streams, Live(s)' => Live(s),
           availableSendBytes'[s] = availableSendBytes[s], writeReady'[s] = writeReady[s],
           devBuf'[s] = devBuf[s], OutSame(s, "WRTE"), InSame(s, "OKAY")
    PROVE  Moves(s)
<1>1. /\ Amount(outq, s, "WRTE")' = Amount(outq, s, "WRTE")
      /\ Amount(inq, s, "OKAY")' = Amount(inq, s, "OKAY")
  BY SameAmounts DEF Kinds
<1>2. Buffered(devBuf[s])' = Buffered(devBuf[s])
  BY DEF Buffered, Total, Unit
<1>3. Permission(s)' = Permission(s)
  BY DEF Permission
<1>4. Holds(s)
  BY <1>1, <1>2, <1>3 DEF Holds, Unread, Returning
<1>5. QED
  BY <1>4 DEF Moves

\* _onClose reopens no stream.
LEMMA ClosedStays ==
    ASSUME TInv, NEW S \in SUBSET Streams, NEW err, OnClose(S, err) \/ CloseStreams(S, err)
    PROVE  \A s \in Streams : (closed[s] => closed'[s]) /\ (s \in S => closed'[s])
<1>1. closed \in [Streams -> BOOLEAN] /\ CloseStreams(S, err)
  BY DEF TInv, TypeOK, OnClose
<1>2. QED
  BY <1>1 DEF CloseStreams

\* What adbd emits for s is a packet.
LEMMA EmittedTypes ==
    ASSUME NEW s \in Streams
    PROVE  /\ [cmd |-> "CLSE", s |-> s] \in DevicePackets /\ [cmd |-> "BAD"] \in DevicePackets
           /\ \A n \in Nat \cup {Bare} : [cmd |-> "OKAY", s |-> s, len |-> n] \in DevicePackets
           /\ \A n \in Nat : [cmd |-> "WRTE", s |-> s, len |-> n] \in DevicePackets
  BY DEF DevicePackets

\* Steps of the page that neither spend nor receive credit.
LEMMA IdleMoves ==
    ASSUME TInv, CloseInv, LinkInv, NEW s \in Streams,
           \/ \E w \in Writers : Write(w)
           \/ \E t \in Streams : Open(t) \/ Read(t) \/ Close(t) \/ FlushAck(t)
           \/ HandleWrite \/ HandleClose \/ FailConnection \/ WriteDone
    PROVE  Moves(s)
<1>1. /\ UNCHANGED <<availableSendBytes, writeReady, devBuf, sock, linkUp>>
  BY Zenon DEF Write, Open, Read, Close, FlushAck, HandleWrite, HandleClose, FailConnection, WriteDone,
     sendVars, devVars, wireVars
<1>2. closed[s] => closed'[s]
  <2>1. \/ UNCHANGED closed
        \/ \E S \in SUBSET Streams, err \in BOOLEAN : OnClose(S, err)
    <3>1. ASSUME NEW t \in Streams, Close(t) PROVE \E S \in SUBSET Streams, err \in BOOLEAN : OnClose(S, err)
      <4>1. OnClose({t}, FALSE) /\ {t} \in SUBSET Streams
        BY <3>1 DEF Close
      <4>2. QED
        BY <4>1
    <3>2. CASE HandleClose
      <4>1. PICK t : t = Head(inq).s
        OBVIOUS
      <4>2. t \in Streams
        BY <3>2, <4>1, Received DEF HandleClose
      <4>3. OnClose({t}, FALSE) \/ UNCHANGED closed
        BY <3>2, <4>1 DEF HandleClose, onCloseVars
      <4>4. {t} \in SUBSET Streams
        BY <4>2
      <4>5. QED
        BY <4>3, <4>4
    <3>3. CASE FailConnection
      <4>1. OnClose(streams, TRUE) /\ streams \in SUBSET Streams
        BY <3>3 DEF FailConnection, TInv, TypeOK
      <4>2. QED
        BY <4>1
    <3>4. QED
      BY <3>1, <3>2, <3>3 DEF Write, Open, Read, FlushAck, HandleWrite, WriteDone, onCloseVars
  <2>2. QED
    BY <2>1, ClosedStays
<1>3. OutSame(s, "WRTE")
  <2>1. ASSUME NEW p \in HostPackets, p.cmd # "WRTE", Send(p) PROVE OutSame(s, "WRTE")
    BY <2>1, NoShare DEF OutSame
  <2>2. ASSUME NEW t \in Streams, Open(t) PROVE OutSame(s, "WRTE")
    <3>1. OpenPacket(t) \in HostPackets /\ OpenPacket(t).cmd = "OPEN" /\ Send(OpenPacket(t))
      BY <2>2, OpenPacketType DEF Open, OpenPacket
    <3>2. QED
      BY <2>1, <3>1
  <2>3. ASSUME NEW t \in Streams, Close(t) PROVE OutSame(s, "WRTE")
    <3>1. /\ ClosePacket(t, "close") \in HostPackets /\ ClosePacket(t, "close").cmd = "CLSE"
          /\ Send(ClosePacket(t, "close"))
      BY <2>3, ClosePacketType DEF Close, ClosePacket
    <3>2. QED
      BY <2>1, <3>1
  <2>4. ASSUME NEW t \in Streams, FlushAck(t) PROVE OutSame(s, "WRTE")
    <3>1. UNCHANGED outq \/ Send(OkayPacket(t, pendingAck[t]))
      BY <2>4 DEF FlushAck
    <3>2. OkayPacket(t, pendingAck[t]) \in HostPackets /\ OkayPacket(t, pendingAck[t]).cmd = "OKAY"
      BY OkayPacketType DEF TInv, TypeOK, OkayPacket
    <3>3. QED
      BY <2>1, <3>1, <3>2 DEF OutSame
  <2>5. QED
    BY <2>2, <2>3, <2>4 DEF OutSame, Write, Read, HandleWrite, HandleClose, FailConnection, WriteDone,
       wireVars
<1>4. InSame(s, "OKAY")
  <2>1. CASE HandleWrite \/ HandleClose
    <3>1. inq # <<>> /\ inq' = Tail(inq) /\ Head(inq).cmd \in {"WRTE", "CLSE"}
      BY <2>1 DEF HandleWrite, HandleClose, Receive
    <3>2. Share(Head(inq), s, "OKAY") = 0
      BY <3>1, NoShare
    <3>3. QED
      BY <3>1, <3>2 DEF InSame
  <2>2. QED
    BY <2>1 DEF InSame, Write, Open, Read, Close, FlushAck, FailConnection, WriteDone, wireVars
<1>5. Live(s)' => Live(s)
  BY <1>1, <1>2, LiveKept
<1>6. QED
  BY <1>1, <1>3, <1>4, <1>5, NothingCarried

\* The link is lost, and with it what adbd has sent.
LEMMA LinkLostMoves ==
    ASSUME TInv, NEW s \in Streams, Unplug \/ CloseConnection
    PROVE  Moves(s)
<1>1. ~linkUp' /\ inq' = <<>> /\ UNCHANGED <<availableSendBytes, writeReady, devBuf, outq>>
  BY DEF Unplug, CloseConnection, sendVars, devVars
<1>2. /\ Amount(outq, s, "WRTE")' = Amount(outq, s, "WRTE")
      /\ Amount(inq, s, "OKAY")' = 0
  BY <1>1, OutAmount, InAmount DEF Kinds
<1>3. /\ Permission(s)' = Permission(s) /\ Unread(s)' = Unread(s) /\ Returning(s)' = 0
  <2>1. Buffered(devBuf[s])' = Buffered(devBuf[s])
    BY <1>1 DEF Buffered, Total, Unit
  <2>2. QED
    BY <1>1, <1>2, <2>1 DEF Permission, Unread, Returning
<1>4. Permission(s) \in Int /\ Unread(s) \in Nat /\ Returning(s) \in Nat
  BY LedgerTypes
<1>5. Carried(s)' <= Carried(s)
  BY <1>3, <1>4 DEF Carried
<1>6. ~Live(s)'
  BY <1>1 DEF Live
<1>7. QED
  BY <1>5, <1>6 DEF Moves, Loses

\* A chunk is not empty and not longer than MaxPayload.
LEMMA ChunkUnits ==
    ASSUME TInv, NEW w \in Writers, pc[w] = "granted"
    PROVE  LET left == Payload[w] - offset[w]
               n == IF left < MaxPayload THEN left ELSE MaxPayload
           IN  n \in Nat /\ n # 0 /\ Unit(n) \in 1..Unit(MaxPayload)
<1> DEFINE left == Payload[w] - offset[w]
           n == IF left < MaxPayload THEN left ELSE MaxPayload
<1>1. left \in Nat /\ left # 0
  <2>1. offset[w] < Payload[w] /\ offset[w] \in Nat
    BY DEF TInv, OffsetOK, TypeOK
  <2>2. QED
    BY <2>1, ConstantsOK DEF Constants
<1>2. MaxPayload \in Nat \ {0}
  BY ConstantsOK DEF Constants
<1> HIDE DEF left
<1>3. n \in Nat /\ n # 0 /\ n <= MaxPayload
  BY <1>1, <1>2
<1> HIDE DEF n
<1>4. Unit(n) \in 1..Unit(MaxPayload)
  BY <1>2, <1>3 DEF Unit
<1>5. QED
  BY <1>3, <1>4 DEF n, left

\* A writer that resumes spends what it sends.
LEMMA ResumeMoves ==
    ASSUME TInv, CloseInv, LinkInv, CreditInv, NEW s \in Streams, DelayedAck \/ Solo(s),
           NEW w \in Writers, Resume(w)
    PROVE  Moves(s)
<1> DEFINE t == StreamOf[w]
           left == Payload[w] - offset[w]
           n == IF left < MaxPayload THEN left ELSE MaxPayload
<1>1. /\ UNCHANGED <<devBuf, sock, closed, linkUp, inq>> /\ pc[w] = "granted"
      /\ \/ UNCHANGED <<sendVars, outq>>
         \/ ~closed[t] /\ Spend(t, n) /\ Send(WritePacket(w, n))
  BY DEF Resume, Usable, devVars
<1>2. n \in Nat /\ n # 0 /\ Unit(n) \in 1..Unit(MaxPayload)
  BY <1>1, ChunkUnits
<1> HIDE DEF n
<1>3. t \in Streams
  BY ConstantsOK DEF Constants
<1>4. PICK p : p = WritePacket(w, n)
  OBVIOUS
<1>5. p \in HostPackets /\ p.cmd = "WRTE" /\ p.s = t /\ p.len = n
  BY <1>2, <1>4, WritePacketType DEF WritePacket
<1>6. Live(s)' => Live(s)
  BY <1>1, LiveKept
<1>7. InSame(s, "OKAY")
  BY <1>1 DEF InSame
<1>8. CASE UNCHANGED <<sendVars, outq>>
  BY <1>1, <1>6, <1>7, <1>8, NothingCarried DEF OutSame, sendVars
<1>9. CASE s # t /\ Spend(t, n) /\ Send(p)
  <2>1. availableSendBytes'[s] = availableSendBytes[s] /\ writeReady'[s] = writeReady[s]
    BY <1>3, <1>9 DEF Spend, TInv, TypeOK
  <2>2. OutSame(s, "WRTE")
    BY <1>5, <1>9, NoShare DEF OutSame
  <2>3. QED
    BY <1>1, <1>6, <1>7, <2>1, <2>2, NothingCarried
<1>10. CASE s = t /\ ~closed[t] /\ Spend(t, n) /\ Send(p)
  <2>1. Amount(outq, s, "WRTE")' = Amount(outq, s, "WRTE") + Unit(n)
    <3>1. Share(p, s, "WRTE") = Unit(n)
      BY <1>5, <1>10 DEF Share
    <3>2. QED
      BY <1>5, <1>10, <3>1, OutAmount DEF Kinds
  <2>2. Solo(s) => Permission(s) > 0
    <3>1. w \in WritersOf(s)
      BY <1>10 DEF WritersOf
    <3>2. Solo(s) => Granted(s)
      BY DEF CreditInv, CreditOf
    <3>3. QED
      BY <1>1, <1>10, <3>1, <3>2 DEF Granted
  <2>3. Permission(s)' = Permission(s) - Unit(n)
    <3>1. CASE DelayedAck
      <4>1. availableSendBytes'[s] = availableSendBytes[s] - n
        BY <1>3, <1>10, <3>1 DEF Spend, TInv, TypeOK
      <4>2. QED
        BY <3>1, <4>1 DEF Permission, Unit
    <3>2. CASE ~DelayedAck
      <4>1. Permission(s) = 1
        BY <2>2, <3>2 DEF Permission
      <4>2. ~writeReady'[s]
        BY <1>3, <1>10 DEF Spend, TInv, TypeOK
      <4>3. Permission(s)' = 0 /\ Unit(n) = 1
        BY <3>2, <4>2 DEF Permission, Unit
      <4>4. QED
        BY <4>1, <4>3
    <3>3. QED
      BY <3>1, <3>2
  <2>4. Unread(s)' = Unread(s) + Unit(n)
    <3>1. Buffered(devBuf[s])' = Buffered(devBuf[s])
      BY <1>1 DEF Buffered, Total, Unit
    <3>2. Amount(outq, s, "WRTE") \in Nat /\ Buffered(devBuf[s]) \in Nat
      BY LedgerTypes
    <3>3. PICK u : u = Unit(n) /\ u \in Nat
      BY <1>2 DEF Unit
    <3>4. QED
      BY <2>1, <3>1, <3>2, <3>3 DEF Unread
  <2>5. Returning(s)' = Returning(s)
    BY <1>1, InAmount DEF Returning, Kinds
  <2>6. Sends(s, Unit(n))
    BY <2>2, <2>3, <2>4, <2>5 DEF Sends
  <2>7. QED
    BY <1>2, <1>6, <2>6 DEF Moves
<1>11. QED
  BY <1>1, <1>4, <1>8, <1>9, <1>10

\* A_OKAY: an acknowledgement may be spent again, unless the stream is shut.
LEMMA HandleOkayMoves ==
    ASSUME TInv, CloseInv, LinkInv, CreditInv, NEW s \in Streams, DelayedAck \/ Solo(s), HandleOkay
    PROVE  Moves(s)
<1>0. PICK p, t, n : p = Head(inq) /\ t = p.s /\ n = p.len
  OBVIOUS
<1>1. /\ t \in Streams /\ sock[t] # "none" /\ inq # <<>> /\ inq' = Tail(inq) /\ p.cmd = "OKAY"
      /\ UNCHANGED <<sock, devBuf, linkUp>>
      /\ \/ OnOkay(t, n) /\ UNCHANGED outq
         \/ /\ t \notin streams /\ Send(ClosePacket(t, "loop")) /\ UNCHANGED <<sendVars, onCloseVars>>
  BY <1>0, HeardAccepted DEF HandleOkay, Kinds, recvVars, devVars
<1>2. n \in Nat \/ n = Bare
  <2>1. p \in DevicePackets
    BY <1>0, <1>1, HeardAccepted DEF HandleOkay, Kinds, TInv, TypeOK
  <2>2. QED
    BY <1>0, <1>1, <2>1, DevicePacketFields
<1>3. closed[s] => closed'[s]
  <2>1. CloseStreams({t}, TRUE) \/ UNCHANGED closed
    BY <1>1 DEF OnOkay, onCloseVars
  <2>2. {t} \in SUBSET Streams
    BY <1>1
  <2>3. QED
    BY <2>1, <2>2, ClosedStays
<1>4. Live(s)' => Live(s)
  BY <1>1, <1>3, LiveKept
<1>5. OutSame(s, "WRTE")
  <2>1. ClosePacket(t, "loop") \in HostPackets /\ ClosePacket(t, "loop").cmd = "CLSE"
    BY <1>1, ClosePacketType DEF ClosePacket
  <2>2. Share(ClosePacket(t, "loop"), s, "WRTE") = 0
    BY <2>1, NoShare
  <2>3. QED
    BY <1>1, <2>1, <2>2 DEF OutSame
<1>6. /\ availableSendBytes \in [Streams -> Int] /\ writeReady \in [Streams -> BOOLEAN]
  BY DEF TInv, TypeOK
<1>7. /\ Returning(s) = Share(p, s, "OKAY") + Returning(s)'
      /\ Share(p, s, "OKAY") \in Nat /\ Returning(s)' \in Nat
  BY <1>0, <1>1, InAmount DEF Returning, Kinds
<1>8. Unread(s)' = Unread(s)
  <2>1. Buffered(devBuf[s])' = Buffered(devBuf[s])
    BY <1>1 DEF Buffered, Total, Unit
  <2>2. QED
    BY <1>5, <2>1, SameAmounts DEF Unread, Kinds
<1>9. CASE s # t
  <2>1. availableSendBytes'[s] = availableSendBytes[s] /\ writeReady'[s] = writeReady[s]
    BY <1>1, <1>6, <1>9 DEF OnOkay, Credited, sendVars
  <2>2. InSame(s, "OKAY")
    BY <1>0, <1>1, <1>9, NoShare DEF InSame
  <2>3. QED
    BY <1>1, <1>4, <1>5, <2>1, <2>2, NothingCarried
<1>10. CASE s = t /\ t \notin streams /\ UNCHANGED <<sendVars, onCloseVars>>
  <2>1. closed[s]
    <3>1. opened[s] # "no"
      BY <1>0, <1>10, Received DEF HandleOkay
    <3>2. Shut(s)
      BY <1>10, <3>1 DEF CloseInv, Known
    <3>3. QED
      BY <1>1, <1>10, <3>2 DEF Shut, LinkInv, LinkOf, Rejected
  <2>2. Permission(s)' = Permission(s)
    BY <1>10 DEF Permission, sendVars
  <2>3. Permission(s) \in Int /\ Unread(s) \in Nat
    BY LedgerTypes
  <2>4. Carried(s)' <= Carried(s)
    BY <1>7, <1>8, <2>2, <2>3 DEF Carried
  <2>5. ~Live(s)
    BY <2>1 DEF Live
  <2>6. QED
    BY <1>4, <2>4, <2>5 DEF Moves, Loses
<1>11. CASE s = t /\ OnOkay(t, n)
  <2>1. CASE DelayedAck = (n = Bare)
    <3>1. UNCHANGED sendVars
      BY <1>11, <2>1 DEF OnOkay
    <3>2. InSame(s, "OKAY")
      BY <1>0, <1>1, <2>1, NoShare DEF InSame
    <3>3. QED
      BY <1>1, <1>4, <1>5, <3>1, <3>2, NothingCarried DEF sendVars
  <2>2. CASE DelayedAck /\ n # Bare
    <3>1. n \in Nat /\ Share(p, s, "OKAY") = n
      BY <1>0, <1>1, <1>2, <1>11, <2>2 DEF Share, Unit
    <3>2. Credited(t, n)
      BY <1>11, <2>2 DEF OnOkay
    <3>3. Permission(s)' = Permission(s) + n
      BY <1>6, <1>11, <2>2, <3>2 DEF Credited, Permission
    <3>4. Acks(s, n)
      <4>1. Returning(s)' = Returning(s) - n /\ n <= Returning(s)
        BY <1>7, <3>1
      <4>2. QED
        BY <1>8, <3>3, <4>1 DEF Acks
    <3>5. QED
      BY <1>4, <3>1, <3>4 DEF Moves
  <2>3. CASE ~DelayedAck /\ n = Bare
    <3>1. Share(p, s, "OKAY") = 1
      BY <1>0, <1>1, <1>11, <2>3 DEF Share, Unit
    <3>2. writeReady' = [writeReady EXCEPT ![t] = TRUE]
      BY <1>11, <2>3 DEF OnOkay
    <3>3. Permission(s)' = 1
      BY <1>6, <1>11, <2>3, <3>2 DEF Permission
    <3>4. Permission(s) = 0
      <4>1. Permission(s) \in {0, 1} /\ Unread(s) \in Nat
        BY <2>3, LedgerTypes
      <4>2. Carried(s) <= 1
        BY <2>3 DEF CreditInv, CreditOf, Within, Unit
      <4>3. QED
        BY <1>7, <3>1, <4>1, <4>2 DEF Carried
    <3>5. Acks(s, 1)
      <4>1. Returning(s)' = Returning(s) - 1 /\ 1 <= Returning(s)
        BY <1>7, <3>1
      <4>2. QED
        BY <1>8, <3>3, <3>4, <4>1 DEF Acks
    <3>6. QED
      BY <1>4, <3>5 DEF Moves
  <2>4. QED
    BY <1>11, <2>1, <2>2, <2>3 DEF OnOkay
<1>12. QED
  BY <1>1, <1>9, <1>10, <1>11

\* A write that fails loses the credit of its chunk: the link is gone, or the
\* transfer has stalled.
LEMMA WriteFailsMoves ==
    ASSUME TInv, NEW s \in Streams, WriteFails, ~linkUp \/ MayStall
    PROVE  Moves(s)
<1>0. PICK p : p = Head(outq)
  OBVIOUS
<1>1. /\ outq # <<>> /\ outq' = Tail(outq)
      /\ UNCHANGED <<sock, sendVars, devBuf, inq, linkUp>>
      /\ UNCHANGED closed \/ OnClose({p.s}, TRUE)
  BY <1>0 DEF WriteFails, onCloseVars, devVars
<1>2. p \in HostPackets /\ p.s \in Streams
  BY <1>0, <1>1, HeadTailType, HostPacketFields DEF TInv, TypeOK
<1>3. Live(s)' => Live(s)
  <2>1. {p.s} \in SUBSET Streams
    BY <1>2
  <2>2. closed[s] => closed'[s]
    BY <1>1, <2>1, ClosedStays
  <2>3. QED
    BY <1>1, <2>2, LiveKept
<1>4. /\ Amount(outq, s, "WRTE") = Share(p, s, "WRTE") + Amount(outq, s, "WRTE")'
      /\ Share(p, s, "WRTE") \in Nat /\ Amount(outq, s, "WRTE")' \in Nat
  BY <1>0, <1>1, OutAmount DEF Kinds
<1>5. Permission(s)' = Permission(s) /\ Returning(s)' = Returning(s)
  BY <1>1, InAmount DEF Permission, sendVars, Returning, Kinds
<1>6. Buffered(devBuf[s])' = Buffered(devBuf[s])
  BY <1>1 DEF Buffered, Total, Unit
<1>7. Carried(s)' <= Carried(s)
  <2>1. /\ Permission(s) \in Int /\ Returning(s) \in Nat
        /\ Amount(outq, s, "WRTE") \in Nat /\ Buffered(devBuf[s]) \in Nat
    BY LedgerTypes
  <2>2. Unread(s)' <= Unread(s) /\ Unread(s)' \in Int /\ Unread(s) \in Int
    BY <1>4, <1>6, <2>1 DEF Unread
  <2>3. QED
    BY <1>5, <2>1, <2>2 DEF Carried
<1>8. Live(s) => MayStall
  BY DEF Live
<1>9. QED
  BY <1>3, <1>7, <1>8 DEF Moves, Loses

\* adbd takes the A_OPEN, and grants the credit if it accepts the service.
LEMMA DevOpenMoves ==
    ASSUME TInv, CloseInv, LinkInv, NEW s \in Streams, DevOpen PROVE Moves(s)
<1>0. PICK p, t : p = Head(outq) /\ t = p.s
  OBVIOUS
<1> DEFINE a == [cmd |-> "OKAY", s |-> t, len |-> IF DelayedAck THEN Credit ELSE Bare]
           c == [cmd |-> "CLSE", s |-> t]
<1>1. /\ Transfer("OPEN") /\ outq # <<>> /\ outq' = Tail(outq) /\ p.cmd = "OPEN"
      /\ UNCHANGED <<sendVars, closed, opened, devBuf, linkUp>>
      /\ (sock' = [sock EXCEPT ![t] = "open"] /\ Emit(a)) \/ (UNCHANGED sock /\ Emit(c))
  BY <1>0 DEF DevOpen, Transfer, hostVars, onCloseVars
<1>2. t \in Streams /\ p \in On(outq)
  <2>1. outq \in Seq(HostPackets)
    BY DEF TInv, TypeOK
  <2>2. QED
    BY <1>0, <1>1, <2>1, OnTail, TransferTypes
<1>3. /\ sock[t] = "none" /\ opened[t] # "resolved"
      /\ \A x \in On(inq) : x.cmd # "BAD" => x.s # t
  BY <1>0, <1>1, <1>2 DEF CloseInv, Queue, Queued, Unheard
<1>4. sock \in [Streams -> {"none", "open", "closed"}]
  BY DEF TInv, TypeOK
<1>5. OutSame(s, "WRTE")
  <2>1. Share(p, s, "WRTE") = 0
    BY <1>1, NoShare
  <2>2. QED
    BY <1>0, <1>1, <2>1 DEF OutSame
<1>6. Credit \in Nat \ {0} /\ DelayedAck \in BOOLEAN
  BY ConstantsOK DEF Constants
<1>7. a \in DevicePackets /\ a.cmd = "OKAY" /\ a.s = t /\ c \in DevicePackets /\ c.cmd = "CLSE"
      /\ a.len = (IF DelayedAck THEN Credit ELSE Bare)
  <2>1. (IF DelayedAck THEN Credit ELSE Bare) \in Nat \cup {Bare}
    BY <1>6
  <2>2. QED
    BY <1>2, <2>1, EmittedTypes
<1> HIDE DEF a, c
<1>8. CASE s # t \/ (UNCHANGED sock /\ Emit(c))
  <2>1. InSame(s, "OKAY")
    <3>1. Share(c, s, "OKAY") = 0
      BY <1>7, NoShare
    <3>2. s # t => Share(a, s, "OKAY") = 0
      BY <1>7, NoShare
    <3>3. QED
      BY <1>1, <1>7, <1>8, <3>1, <3>2 DEF InSame
  <2>2. Live(s)' => Live(s)
    <3>1. sock'[s] = sock[s]
      BY <1>1, <1>4, <1>8
    <3>2. QED
      BY <1>1, <3>1, LiveKept
  <2>3. QED
    BY <1>1, <1>5, <2>1, <2>2, NothingCarried DEF sendVars
<1>9. CASE s = t /\ sock' = [sock EXCEPT ![t] = "open"] /\ Emit(a)
  <2>1. availableSendBytes[s] = 0 /\ ~writeReady[s] /\ devBuf[s] = <<>>
    BY <1>3, <1>9 DEF LinkInv, LinkOf, Told
  <2>2. Permission(s)' = 0
    BY <1>1, <2>1 DEF Permission, sendVars
  <2>3. Unread(s)' = 0
    <3>1. Amount(outq, s, "WRTE") = 0
      <4>1. outq \in Seq(Packets)
        BY DEF TInv, TypeOK, Packets
      <4>2. \A x \in On(outq) : x.cmd = "WRTE" => x.s # s
        BY <1>3, <1>9 DEF CloseInv, Queue, Queued, Sent
      <4>3. QED
        BY <4>1, <4>2, AmountNone DEF Kinds
    <3>2. Amount(outq, s, "WRTE")' = 0
      BY <1>5, <3>1, SameAmounts DEF Kinds
    <3>3. Buffered(devBuf[s])' = 0
      <4>1. Buffered(devBuf[s])' = Buffered(devBuf[s])
        BY <1>1 DEF Buffered, Total, Unit
      <4>2. QED
        BY <2>1, <4>1, BufferedEmpty
    <3>4. QED
      BY <3>2, <3>3 DEF Unread
  <2>4. Returning(s)' = Unit(Credit)
    <3>1. Amount(inq, s, "OKAY") = 0
      <4>1. inq \in Seq(Packets)
        BY DEF TInv, TypeOK, Packets
      <4>2. \A x \in On(inq) : x.cmd = "OKAY" => x.s # s
        BY <1>3, <1>9
      <4>3. QED
        BY <4>1, <4>2, AmountNone DEF Kinds
    <3>2. Share(a, s, "OKAY") = Unit(Credit)
      <4>1. Credit # Bare
        BY <1>6 DEF Bare
      <4>2. QED
        BY <1>6, <1>7, <1>9, <4>1 DEF Share, Unit
    <3>3. Amount(inq, s, "OKAY")' = Amount(inq, s, "OKAY") + Share(a, s, "OKAY")
      BY <1>7, <1>9, InAmount DEF Kinds
    <3>4. Unit(Credit) \in Nat
      BY <1>6 DEF Unit
    <3>5. QED
      BY <3>1, <3>2, <3>3, <3>4 DEF Returning
  <2>5. ~Live(s)
    BY <1>3, <1>9 DEF Live
  <2>6. QED
    BY <1>3, <1>9, <2>2, <2>3, <2>4, <2>5 DEF Moves, Begins
<1>10. QED
  BY <1>1, <1>8, <1>9

\* adbd takes a chunk into its buffer, unless it has closed the stream.
LEMMA ReceiveWriteMoves ==
    ASSUME TInv, NEW s \in Streams, DevReceiveWrite PROVE Moves(s)
<1>0. PICK p, t : p = Head(outq) /\ t = p.s
  OBVIOUS
<1>1. /\ Transfer("WRTE") /\ outq # <<>> /\ outq' = Tail(outq) /\ p.cmd = "WRTE"
      /\ UNCHANGED <<sendVars, closed, sock, linkUp, inq>>
      /\ devBuf' = [devBuf EXCEPT ![t] = IF sock[t] = "open" THEN Append(@, p.len) ELSE @]
  BY <1>0 DEF DevReceiveWrite, Transfer, hostVars, onCloseVars
<1>2. t \in Streams /\ p.len \in Nat
  BY <1>0, <1>1, TransferTypes
<1>3. devBuf \in [Streams -> Seq(Nat)]
  BY DEF TInv, TypeOK
<1>4. Live(s)' => Live(s)
  BY <1>1, LiveKept
<1>5. InSame(s, "OKAY")
  BY <1>1 DEF InSame
<1>6. CASE s # t
  <2>1. OutSame(s, "WRTE")
    BY <1>0, <1>1, <1>6, NoShare DEF OutSame
  <2>2. devBuf'[s] = devBuf[s]
    BY <1>1, <1>3, <1>6
  <2>3. QED
    BY <1>1, <1>4, <1>5, <2>1, <2>2, NothingCarried DEF sendVars
<1>7. CASE s = t
  <2>1. Share(p, s, "WRTE") = Unit(p.len)
    BY <1>0, <1>1, <1>7 DEF Share
  <2>2. /\ Amount(outq, s, "WRTE") = Unit(p.len) + Amount(outq, s, "WRTE")'
        /\ Unit(p.len) \in Nat /\ Amount(outq, s, "WRTE")' \in Nat
    BY <1>0, <1>1, <2>1, OutAmount DEF Kinds
  <2>3. Permission(s)' = Permission(s) /\ Returning(s)' = Returning(s)
    BY <1>1, InAmount DEF Permission, sendVars, Returning, Kinds
  <2>4. Buffered(devBuf[s])' = Buffered(devBuf'[s])
    BY DEF Buffered, Total, Unit
  <2>5. Buffered(devBuf[s]) \in Nat /\ Permission(s) \in Int /\ Returning(s) \in Nat
    BY LedgerTypes
  <2>6. CASE sock[t] = "open"
    <3>1. devBuf'[s] = Append(devBuf[s], p.len) /\ devBuf[s] \in Seq(Nat)
      BY <1>1, <1>2, <1>3, <1>7, <2>6
    <3>2. Buffered(devBuf[s])' = Buffered(devBuf[s]) + Unit(p.len)
      BY <1>2, <2>4, <3>1, BufferedAppend
    <3>3. Unread(s)' = Unread(s)
      BY <2>2, <2>5, <3>2 DEF Unread
    <3>4. QED
      BY <1>4, <2>3, <3>3 DEF Moves, Holds
  <2>7. CASE sock[t] # "open"
    <3>1. devBuf'[s] = devBuf[s]
      BY <1>1, <1>2, <1>3, <1>7, <2>7
    <3>2. Unread(s)' <= Unread(s) /\ Unread(s)' \in Nat /\ Unread(s) \in Nat
      BY <2>2, <2>4, <2>5, <3>1 DEF Unread
    <3>3. Carried(s)' <= Carried(s)
      BY <2>3, <2>5, <3>2 DEF Carried
    <3>4. ~Live(s)
      BY <1>7, <2>7 DEF Live
    <3>5. QED
      BY <1>4, <3>3, <3>4 DEF Moves, Loses
  <2>8. QED
    BY <2>6, <2>7
<1>8. QED
  BY <1>6, <1>7

\* adbd closes a stream, of its own or because the host asks it to: what it
\* has not consumed is dropped.
LEMMA ShutMoves ==
    ASSUME TInv, NEW s \in Streams, NEW t \in Streams, OutSame(s, "WRTE"),
           UNCHANGED <<sendVars, closed, linkUp>>,
           sock' = [sock EXCEPT ![t] = "closed"], devBuf' = [devBuf EXCEPT ![t] = <<>>],
           Emit([cmd |-> "CLSE", s |-> t])
    PROVE  Moves(s)
<1>1. /\ sock \in [Streams -> {"none", "open", "closed"}]
      /\ devBuf \in [Streams -> Seq(Nat)]
  BY DEF TInv, TypeOK
<1>2. InSame(s, "OKAY")
  <2>1. PICK c : c = [cmd |-> "CLSE", s |-> t]
    OBVIOUS
  <2>2. c \in DevicePackets /\ c.cmd = "CLSE" /\ Emit(c)
    BY <2>1, EmittedTypes
  <2>3. QED
    BY <2>2, NoShare DEF InSame
<1>3. Live(s)' => Live(s)
  <2>1. sock'[s] = "open" => sock[s] = "open"
    BY <1>1
  <2>2. QED
    BY <2>1, LiveKept
<1>4. CASE s # t
  <2>1. devBuf'[s] = devBuf[s]
    BY <1>1, <1>4
  <2>2. QED
    BY <1>2, <1>3, <2>1, NothingCarried DEF sendVars
<1>5. CASE s = t
  <2>1. Buffered(devBuf[s])' = 0
    <3>1. Buffered(devBuf[s])' = Buffered(devBuf'[s])
      BY DEF Buffered, Total, Unit
    <3>2. devBuf'[s] = <<>>
      BY <1>1, <1>5
    <3>3. QED
      BY <3>1, <3>2, BufferedEmpty
  <2>2. /\ Amount(outq, s, "WRTE")' = Amount(outq, s, "WRTE")
        /\ Returning(s)' = Returning(s) /\ Permission(s)' = Permission(s)
    BY <1>2, SameAmounts DEF Kinds, Returning, Permission, sendVars
  <2>3. /\ Buffered(devBuf[s]) \in Nat /\ Permission(s) \in Int /\ Returning(s) \in Nat
        /\ Amount(outq, s, "WRTE") \in Nat
    BY LedgerTypes
  <2>4. Unread(s)' <= Unread(s) /\ Unread(s)' \in Nat /\ Unread(s) \in Nat
    BY <2>1, <2>2, <2>3 DEF Unread
  <2>5. Carried(s)' <= Carried(s)
    BY <2>2, <2>3, <2>4 DEF Carried
  <2>6. ~Live(s)'
    BY <1>1, <1>5 DEF Live
  <2>7. QED
    BY <2>5, <2>6 DEF Moves, Loses
<1>6. QED
  BY <1>4, <1>5

\* adbd takes an A_OKAY or an A_CLSE.
LEMMA ReceiveOtherMoves ==
    ASSUME TInv, NEW s \in Streams, DevReceiveOkay \/ DevReceiveClose PROVE Moves(s)
<1>0. PICK p, t : p = Head(outq) /\ t = p.s
  OBVIOUS
<1>1. /\ outq # <<>> /\ outq' = Tail(outq) /\ p.cmd \in {"OKAY", "CLSE"} /\ (\E cmd : Transfer(cmd))
      /\ UNCHANGED <<sendVars, closed, linkUp>>
      /\ \/ UNCHANGED <<sock, devBuf, inq>>
         \/ /\ sock' = [sock EXCEPT ![t] = "closed"] /\ devBuf' = [devBuf EXCEPT ![t] = <<>>]
            /\ Emit([cmd |-> "CLSE", s |-> t])
  BY <1>0 DEF DevReceiveOkay, DevReceiveClose, Transfer, hostVars, onCloseVars
<1>2. t \in Streams
  BY <1>0, <1>1, TransferTypes
<1>3. OutSame(s, "WRTE")
  <2>1. Share(p, s, "WRTE") = 0
    BY <1>1, NoShare
  <2>2. QED
    BY <1>0, <1>1, <2>1 DEF OutSame
<1>4. CASE UNCHANGED <<sock, devBuf, inq>>
  <2>1. Live(s)' => Live(s)
    BY <1>1, <1>4, LiveKept
  <2>2. InSame(s, "OKAY")
    BY <1>4 DEF InSame
  <2>3. QED
    BY <1>1, <1>3, <1>4, <2>1, <2>2, NothingCarried DEF sendVars
<1>5. QED
  BY <1>1, <1>2, <1>3, <1>4, ShutMoves

\* adbd consumes a chunk and acknowledges it.
LEMMA ConsumeMoves ==
    ASSUME TInv, NEW s \in Streams, NEW t \in Streams, DevConsume(t) PROVE Moves(s)
<1> DEFINE n == Head(devBuf[t])
           a == [cmd |-> "OKAY", s |-> t, len |-> IF DelayedAck THEN n ELSE Bare]
<1>1. /\ UNCHANGED <<sendVars, closed, linkUp, outq, sock>> /\ devBuf[t] # <<>>
      /\ devBuf' = [devBuf EXCEPT ![t] = Tail(devBuf[t])] /\ Emit(a)
  BY DEF DevConsume, hostVars, onCloseVars
<1>2. devBuf \in [Streams -> Seq(Nat)]
  BY DEF TInv, TypeOK
<1>3. n \in Nat
  <2>1. devBuf[t] \in Seq(Nat)
    BY <1>2
  <2>2. QED
    BY <1>1, <2>1, HeadTailType
<1>4. a \in DevicePackets /\ a.cmd = "OKAY" /\ a.s = t
      /\ a.len = (IF DelayedAck THEN n ELSE Bare)
  <2> HIDE DEF n
  <2>1. (IF DelayedAck THEN n ELSE Bare) \in Nat \cup {Bare}
    BY <1>3
  <2>2. QED
    BY <2>1, EmittedTypes
<1>5. Live(s)' => Live(s)
  BY <1>1, LiveKept
<1>6. OutSame(s, "WRTE")
  BY <1>1 DEF OutSame
<1>7. CASE s # t
  <2> HIDE DEF a
  <2>1. InSame(s, "OKAY")
    BY <1>1, <1>4, <1>7, NoShare DEF InSame
  <2>2. devBuf'[s] = devBuf[s]
    BY <1>1, <1>2, <1>7
  <2>3. QED
    BY <1>1, <1>5, <1>6, <2>1, <2>2, NothingCarried DEF sendVars
<1>8. CASE s = t
  <2>1. Returning(s)' = Returning(s) + Unit(n)
    <3> HIDE DEF n, a
    <3>1. Share(a, s, "OKAY") = Unit(n)
      <4>1. DelayedAck \in BOOLEAN /\ n # Bare
        BY <1>3, ConstantsOK DEF Constants, Bare
      <4>2. QED
        BY <1>4, <1>8, <4>1 DEF Share, Unit
    <3>2. QED
      BY <1>1, <1>4, <3>1, InAmount DEF Returning, Kinds
  <2>2. devBuf[s] \in Seq(Nat) /\ devBuf[s] # <<>> /\ devBuf'[s] = Tail(devBuf[s]) /\ n = Head(devBuf[s])
    BY <1>1, <1>2, <1>8
  <2> HIDE DEF n, a
  <2>3. Buffered(devBuf[s]) = Unit(n) + Buffered(devBuf[s])'
    <3>1. Buffered(devBuf[s])' = Buffered(devBuf'[s])
      BY DEF Buffered, Total, Unit
    <3>2. QED
      BY <2>2, <3>1, BufferedTail
  <2>4. Buffered(devBuf[s])' \in Nat
    <3>1. Buffered(devBuf[s])' = Buffered(devBuf'[s])
      BY DEF Buffered, Total, Unit
    <3>2. devBuf'[s] \in Seq(Nat)
      BY <2>2
    <3>3. QED
      BY <3>1, <3>2, BufferedType
  <2>5. Unit(n) \in Nat /\ Amount(outq, s, "WRTE") \in Nat
    BY <1>3, LedgerTypes DEF Unit
  <2>6. Amount(outq, s, "WRTE")' = Amount(outq, s, "WRTE")
    BY <1>6, SameAmounts DEF Kinds
  <2>7. Unread(s)' = Unread(s) - Unit(n) /\ Unit(n) <= Unread(s)
    BY <2>3, <2>4, <2>5, <2>6 DEF Unread
  <2>8. Permission(s)' = Permission(s)
    BY <1>1 DEF Permission, sendVars
  <2>9. Consumes(s, Unit(n))
    BY <2>1, <2>7, <2>8 DEF Consumes
  <2>10. QED
    BY <1>5, <2>5, <2>9 DEF Moves
<1>9. QED
  BY <1>7, <1>8

\* adbd writes, closes, or acknowledges in the wrong mode.
LEMMA DeviceMoves ==
    ASSUME TInv, NEW s \in Streams, NEW t \in Streams, DevWrite(t) \/ DevClose(t) \/ DevMisbehave(t)
    PROVE  Moves(s)
<1>1. OutSame(s, "WRTE") /\ UNCHANGED <<sendVars, closed, linkUp>>
  BY DEF DevWrite, DevClose, DevMisbehave, OutSame, hostVars, onCloseVars
<1>2. CASE DevClose(t)
  BY <1>1, <1>2, ShutMoves DEF DevClose
<1>3. CASE DevWrite(t) \/ DevMisbehave(t)
  <2>1. UNCHANGED <<sock, devBuf>>
    BY <1>3 DEF DevWrite, DevMisbehave
  <2>2. InSame(s, "OKAY")
    <3>1. CASE DevWrite(t)
      <4>1. PICK n \in DevSizes : Emit([cmd |-> "WRTE", s |-> t, len |-> n])
        BY <3>1 DEF DevWrite
      <4>2. PICK p : p = [cmd |-> "WRTE", s |-> t, len |-> n]
        OBVIOUS
      <4>3. n \in Nat
        BY ConstantsOK DEF Constants
      <4>4. p \in DevicePackets /\ p.cmd = "WRTE" /\ Emit(p)
        BY <4>1, <4>2, <4>3, EmittedTypes
      <4>5. QED
        BY <4>4, NoShare DEF InSame
    <3>2. CASE DevMisbehave(t) /\ Emit([cmd |-> "BAD"])
      <4>1. PICK p : p = [cmd |-> "BAD"]
        OBVIOUS
      <4>2. p \in DevicePackets /\ p.cmd = "BAD" /\ Emit(p)
        BY <3>2, <4>1, EmittedTypes
      <4>3. QED
        BY <4>2, NoShare DEF InSame
    <3>3. CASE Emit([cmd |-> "OKAY", s |-> t, len |-> IF DelayedAck THEN Bare ELSE 1])
      <4>1. PICK n : n = IF DelayedAck THEN Bare ELSE 1
        OBVIOUS
      <4>2. PICK p : p = [cmd |-> "OKAY", s |-> t, len |-> n]
        OBVIOUS
      <4>3. n \in Nat \cup {Bare} /\ DelayedAck = (n = Bare)
        <5>1. DelayedAck \in BOOLEAN /\ Bare # 1
          BY ConstantsOK DEF Constants, Bare
        <5>2. QED
          BY <4>1, <5>1
      <4>4. p \in DevicePackets /\ p.cmd = "OKAY" /\ p.len = n /\ Emit(p)
        BY <3>3, <4>1, <4>2, <4>3, EmittedTypes
      <4>5. QED
        BY <4>3, <4>4, NoShare DEF InSame
    <3>4. QED
      BY <1>3, <3>1, <3>2, <3>3 DEF DevMisbehave
  <2>3. Live(s)' => Live(s)
    BY <1>1, <2>1, LiveKept
  <2>4. QED
    BY <1>1, <2>1, <2>2, <2>3, NothingCarried DEF sendVars
<1>4. QED
  BY <1>2, <1>3

\* Every step moves the credit of a stream in one of these ways.
LEMMA NextMoves ==
    ASSUME TInv, CloseInv, LinkInv, CreditInv, [Next]_vars, NEW s \in Streams, DelayedAck \/ Solo(s)
    PROVE  Moves(s)
<1>1. CASE AppStep
  BY <1>1, IdleMoves, LinkLostMoves DEF AppStep
<1>2. CASE HostStep
  BY <1>2, IdleMoves, ResumeMoves, HandleOkayMoves, WriteFailsMoves DEF HostStep, WriteFailsUnplugged
<1>3. CASE DevTransfer
  BY <1>3, DevOpenMoves, ReceiveWriteMoves, ReceiveOtherMoves DEF DevTransfer
<1>4. CASE EnvStep \/ \E t \in Streams : DevConsume(t)
  BY <1>4, WriteFailsMoves, LinkLostMoves, DeviceMoves, ConsumeMoves DEF EnvStep, WriteStalls
<1>5. CASE UNCHANGED vars
  <2>1. UNCHANGED <<sendVars, closed, linkUp, sock, devBuf, outq, inq>>
    BY <1>5 DEF vars, onCloseVars, wireVars, devVars
  <2>2. Live(s)' => Live(s)
    BY <2>1, LiveKept
  <2>3. OutSame(s, "WRTE") /\ InSame(s, "OKAY")
    BY <2>1 DEF OutSame, InSame
  <2>4. QED
    BY <2>1, <2>2, <2>3, NothingCarried DEF sendVars
<1>6. QED
  BY <1>1, <1>2, <1>3, <1>4, <1>5 DEF Next

-----------------------------------------------------------------------------
(* Permissions that can be used                                            *)

\* Steps that grant no write() call anything and spend nothing.
LEMMA GrantedKept ==
    ASSUME NEW s \in Streams, Granted(s), closed[s] => closed'[s],
           availableSendBytes'[s] = availableSendBytes[s], writeReady'[s] = writeReady[s],
           \A w \in WritersOf(s) : pc'[w] = "granted" => pc[w] = "granted" \/ closed[s] \/ Permission(s) > 0
    PROVE  Granted(s)'
<1>1. Permission(s)' = Permission(s)
  BY DEF Permission
<1>2. QED
  BY <1>1 DEF Granted, WritersOf

\* The permission check passes with a permission only.
LEMMA AwaitGrants ==
    ASSUME TInv, NEW s \in Streams, AwaitSendPermission(s) = "granted"
    PROVE  Permission(s) > 0
<1>1. MaySend(s)
  BY DEF AwaitSendPermission
<1>2. QED
  BY <1>1 DEF MaySend, HasBudget, Permission

\* A write() call that is granted a permission on a stream of its own can use
\* it when it resumes: no other call spends it in between.
LEMMA NextGranted ==
    ASSUME TInv, CloseInv, LinkInv, NEW s \in Streams, Solo(s), Granted(s), [Next]_vars
    PROVE  Granted(s)'
<1>0. /\ closed \in [Streams -> BOOLEAN]
      /\ pc \in [Writers -> {"idle", "waiting", "granted", "sending", "done", "failed"}]
      /\ availableSendBytes \in [Streams -> Int] /\ writeReady \in [Streams -> BOOLEAN]
      /\ StreamOf \in [Writers -> Streams]
  BY ConstantsOK DEF TInv, TypeOK, Constants
<1>1. ASSUME UNCHANGED sendVars, UNCHANGED closed,
             \A w \in Writers : pc'[w] = "granted" => pc[w] = "granted"
      PROVE  Granted(s)'
  BY <1>1, GrantedKept DEF sendVars, WritersOf
<1>2. ASSUME NEW S \in SUBSET Streams, NEW err, OnClose(S, err), UNCHANGED sendVars PROVE Granted(s)'
  <2>1. closed[s] => closed'[s]
    BY <1>2, ClosedStays
  <2>2. \A w \in Writers : pc'[w] = "granted" => pc[w] = "granted"
    BY <1>0, <1>2 DEF OnClose, CloseStreams
  <2>3. QED
    BY <1>2, <2>1, <2>2, GrantedKept DEF sendVars, WritersOf
<1>3. CASE AppStep
  <2>1. ASSUME NEW w \in Writers, Write(w) PROVE Granted(s)'
    <3>1. UNCHANGED sendVars /\ UNCHANGED closed
          /\ pc' = [pc EXCEPT ![w] = AwaitSendPermission(StreamOf[w])]
      BY <2>1 DEF Write
    <3>2. \A v \in WritersOf(s) : pc'[v] = "granted" => pc[v] = "granted" \/ Permission(s) > 0
      <4>1. SUFFICES ASSUME NEW v \in WritersOf(s), pc'[v] = "granted", pc[v] # "granted"
                     PROVE  Permission(s) > 0
        OBVIOUS
      <4>2. v = w /\ AwaitSendPermission(StreamOf[w]) = "granted" /\ StreamOf[w] = s
        BY <1>0, <2>1, <3>1, <4>1 DEF WritersOf
      <4>3. QED
        BY <4>2, AwaitGrants
    <3>3. QED
      BY <3>1, <3>2, GrantedKept DEF sendVars
  <2>2. ASSUME NEW t \in Streams, Open(t) \/ Read(t) PROVE Granted(s)'
    BY <1>1, <2>2 DEF Open, Read
  <2>3. ASSUME NEW t \in Streams, Close(t) PROVE Granted(s)'
    <3>1. {t} \in SUBSET Streams /\ OnClose({t}, FALSE) /\ UNCHANGED sendVars
      BY <2>3 DEF Close
    <3>2. QED
      BY <1>2, <3>1
  <2>4. CASE CloseConnection
    <3>1. streams \in SUBSET Streams /\ OnClose(streams, TRUE) /\ UNCHANGED sendVars
      BY <2>4 DEF CloseConnection, TInv, TypeOK
    <3>2. QED
      BY <1>2, <3>1
  <2>5. QED
    BY <1>3, <2>1, <2>2, <2>3, <2>4 DEF AppStep
<1>4. ASSUME NEW w \in Writers, Resume(w) PROVE Granted(s)'
  <2> DEFINE t == StreamOf[w]
             left == Payload[w] - offset[w]
             n == IF left < MaxPayload THEN left ELSE MaxPayload
  <2>1. /\ UNCHANGED closed
        /\ UNCHANGED sendVars \/ Spend(t, n)
        /\ \A v \in Writers : pc'[v] = "granted" => pc[v] = "granted" /\ v # w
    BY <1>0, <1>4 DEF Resume
  <2> HIDE DEF n
  <2>2. t \in Streams
    BY <1>0
  <2>3. CASE s # t
    <3>1. availableSendBytes'[s] = availableSendBytes[s] /\ writeReady'[s] = writeReady[s]
      BY <1>0, <2>1, <2>3 DEF Spend, sendVars
    <3>2. \A v \in Writers : pc'[v] = "granted" => pc[v] = "granted"
      BY <2>1
    <3>3. closed[s] => closed'[s]
      BY <2>1
    <3>4. QED
      BY <3>1, <3>2, <3>3, GrantedKept DEF WritersOf
  <2>4. CASE s = t
    <3>1. \A v \in WritersOf(s) : v = w
      BY <2>4 DEF Solo, WritersOf
    <3>2. QED
      BY <2>1, <3>1 DEF Granted, WritersOf
  <2>5. QED
    BY <2>3, <2>4
<1>5. CASE HandleOkay
  <2>0. PICK t, n : t = Head(inq).s /\ n = Head(inq).len
    OBVIOUS
  <2>1. /\ t \in Streams
        /\ OnOkay(t, n) \/ UNCHANGED <<sendVars, onCloseVars>>
    BY <1>5, <2>0, HeardAccepted DEF HandleOkay, Kinds
  <2>2. CASE UNCHANGED <<sendVars, onCloseVars>>
    BY <1>1, <2>2 DEF onCloseVars
  <2>3. CASE CloseStreams({t}, TRUE) /\ UNCHANGED sendVars
    <3>1. closed[s] => closed'[s]
      BY <1>0, <2>3 DEF CloseStreams
    <3>2. \A w \in Writers : pc'[w] = "granted" => pc[w] = "granted"
      BY <1>0, <2>3 DEF CloseStreams
    <3>3. QED
      BY <2>3, <3>1, <3>2, GrantedKept DEF sendVars, WritersOf
  <2>4. CASE /\ DelayedAck /\ n # Bare /\ Credited(t, n) /\ UNCHANGED <<writeReady, closed>>
             /\ IF HasBudget(availableSendBytes[t] + n) THEN ReleaseWriters(t) ELSE UNCHANGED pc
    <3>1. n \in Nat
      <4>1. Receive("OKAY")
        BY <1>5 DEF HandleOkay
      <4>2. inq # <<>> /\ Head(inq).cmd = "OKAY"
        BY <4>1 DEF Receive
      <4>3. Head(inq) \in DevicePackets
        BY <4>2, HeadTailType DEF TInv, TypeOK
      <4>4. QED
        BY <2>0, <2>4, <4>2, <4>3, DevicePacketFields
    <3>2. CASE s # t
      <4>1. availableSendBytes'[s] = availableSendBytes[s] /\ writeReady'[s] = writeReady[s]
        BY <1>0, <2>4, <3>2 DEF Credited
      <4>2. \A w \in WritersOf(s) : pc'[w] = pc[w]
        BY <1>0, <2>4, <3>2 DEF ReleaseWriters, WritersOf
      <4>3. QED
        BY <2>4, <4>1, <4>2, GrantedKept
    <3>3. CASE s = t
      <4>1. Permission(s)' = availableSendBytes[s] + n /\ Permission(s) = availableSendBytes[s]
        BY <1>0, <2>1, <2>4, <3>3 DEF Credited, Permission
      <4>2. CASE availableSendBytes[s] + n > 0
        BY <4>1, <4>2 DEF Granted
      <4>3. CASE ~(availableSendBytes[s] + n > 0)
        <5>1. UNCHANGED pc /\ UNCHANGED closed
          BY <2>4, <3>3, <4>3 DEF HasBudget
        <5>2. availableSendBytes[s] \in Int
          BY <1>0
        <5>3. ~(Permission(s) > 0)
          BY <3>1, <4>1, <4>3, <5>2
        <5>4. QED
          BY <5>1, <5>3 DEF Granted, WritersOf
      <4>4. QED
        BY <4>2, <4>3
    <3>4. QED
      BY <3>2, <3>3
  <2>5. CASE /\ ~DelayedAck /\ writeReady' = [writeReady EXCEPT ![t] = TRUE] /\ ReleaseWriters(t)
             /\ UNCHANGED <<availableSendBytes, closed>>
    <3>1. CASE s # t
      <4>1. writeReady'[s] = writeReady[s]
        BY <1>0, <2>5, <3>1
      <4>2. \A w \in WritersOf(s) : pc'[w] = pc[w]
        BY <1>0, <2>5, <3>1 DEF ReleaseWriters, WritersOf
      <4>3. QED
        BY <2>5, <4>1, <4>2, GrantedKept
    <3>2. CASE s = t
      <4>1. Permission(s)' = 1
        BY <1>0, <2>5, <3>2 DEF Permission
      <4>2. QED
        BY <4>1 DEF Granted
    <3>3. QED
      BY <3>1, <3>2
  <2>6. QED
    BY <2>1, <2>2, <2>3, <2>4, <2>5 DEF OnOkay
<1>6. CASE WriteDone
  <2>1. UNCHANGED sendVars /\ UNCHANGED closed
        /\ \/ UNCHANGED pc
           \/ pc' = [pc EXCEPT ![completing.by] = IF offset[completing.by] + MaxPayload >= Payload[completing.by]
                                                  THEN "done" ELSE AwaitSendPermission(StreamOf[completing.by])]
    BY <1>6 DEF WriteDone
  <2>2. \A v \in WritersOf(s) : pc'[v] = "granted" => pc[v] = "granted" \/ Permission(s) > 0
    <3>1. SUFFICES ASSUME NEW v \in WritersOf(s), pc'[v] = "granted", pc[v] # "granted"
                   PROVE  Permission(s) > 0
      OBVIOUS
    <3>2. v \in Writers /\ StreamOf[v] = s
      BY <3>1 DEF WritersOf
    <3>3. AwaitSendPermission(StreamOf[v]) = "granted"
      BY <1>0, <2>1, <3>1, <3>2
    <3>4. QED
      BY <3>2, <3>3, AwaitGrants
  <2>3. QED
    BY <2>1, <2>2, GrantedKept DEF sendVars
<1>7. CASE WriteFails
  <2>0. PICK p : p = Head(outq)
    OBVIOUS
  <2>1. /\ UNCHANGED sendVars
        /\ \/ UNCHANGED closed /\ (UNCHANGED pc \/ pc' = [pc EXCEPT ![p.by] = "failed"])
           \/ OnClose({p.s}, TRUE)
    BY <1>7, <2>0 DEF WriteFails, onCloseVars
  <2>2. {p.s} \in SUBSET Streams
    <3>1. outq # <<>>
      BY <1>7 DEF WriteFails
    <3>2. p \in HostPackets
      BY <2>0, <3>1, HeadTailType DEF TInv, TypeOK
    <3>3. QED
      BY <3>2, HostPacketFields
  <2>3. CASE UNCHANGED closed /\ (UNCHANGED pc \/ pc' = [pc EXCEPT ![p.by] = "failed"])
    <3>1. \A w \in Writers : pc'[w] = "granted" => pc[w] = "granted"
      BY <1>0, <2>3
    <3>2. QED
      BY <1>1, <2>1, <2>3, <3>1
  <2>4. QED
    BY <1>2, <2>1, <2>2, <2>3
<1>8. CASE HandleClose \/ FailConnection
  <2>1. CASE HandleClose
    <3>1. PICK t : t = Head(inq).s
      OBVIOUS
    <3>2. t \in Streams
      BY <2>1, <3>1, Received DEF HandleClose
    <3>3. UNCHANGED sendVars /\ (OnClose({t}, FALSE) \/ UNCHANGED onCloseVars)
      BY <2>1, <3>1 DEF HandleClose
    <3>4. {t} \in SUBSET Streams
      BY <3>2
    <3>5. CASE UNCHANGED onCloseVars
      BY <1>1, <3>3, <3>5 DEF onCloseVars
    <3>6. QED
      BY <1>2, <3>3, <3>4, <3>5
  <2>2. CASE FailConnection
    <3>1. streams \in SUBSET Streams /\ OnClose(streams, TRUE) /\ UNCHANGED sendVars
      BY <2>2 DEF FailConnection, TInv, TypeOK
    <3>2. QED
      BY <1>2, <3>1
  <2>3. QED
    BY <1>8, <2>1, <2>2
<1>9. CASE HostStep
  <2>1. ASSUME NEW t \in Streams, FlushAck(t) PROVE Granted(s)'
    BY <1>1, <2>1 DEF FlushAck, onCloseVars
  <2>2. CASE HandleWrite
    BY <1>1, <2>2 DEF HandleWrite
  <2>3. QED
    BY <1>4, <1>5, <1>6, <1>7, <1>8, <1>9, <2>1, <2>2 DEF HostStep, WriteFailsUnplugged
<1>10. CASE DevTransfer \/ EnvStep \/ \E t \in Streams : DevConsume(t)
  <2>1. CASE WriteStalls
    BY <1>7, <2>1 DEF WriteStalls
  <2>2. CASE ~WriteStalls
    <3>1. UNCHANGED <<sendVars, closed, pc>>
      BY <1>10, <2>2 DEF DevTransfer, EnvStep, DevOpen, DevReceiveWrite, DevReceiveOkay, DevReceiveClose,
         DevConsume, DevWrite, DevClose, DevMisbehave, Unplug, hostVars, onCloseVars
    <3>2. QED
      BY <1>1, <3>1
  <2>3. QED
    BY <2>1, <2>2
<1>11. CASE UNCHANGED vars
  BY <1>1, <1>11 DEF vars, onCloseVars
<1>12. QED
  BY <1>3, <1>9, <1>10, <1>11 DEF Next

-----------------------------------------------------------------------------
(* The credit of a stream                                                  *)

\* Nothing has been granted when the handshake is over,
LEMMA InitCreditInv == Init => CreditInv
<1> SUFFICES ASSUME Init, NEW s \in Streams PROVE CreditOf(s)
  BY DEF CreditInv
<1>1. outq = <<>> /\ inq = <<>> /\ devBuf[s] = <<>> /\ availableSendBytes[s] = 0 /\ ~writeReady[s]
      /\ sock[s] = "none"
  BY DEF Init
<1>2. Permission(s) = 0
  BY <1>1 DEF Permission
<1>3. Unread(s) = 0 /\ Returning(s) = 0
  <2>1. ASSUME NEW q, q = <<>>, NEW cmd \in Kinds PROVE Amount(q, s, cmd) = 0
    <3>1. q \in Seq(Packets) /\ Len(q) = 0
      BY <2>1
    <3>2. 1..Len(q) = {}
      BY <3>1
    <3>3. QED
      BY <3>1, <3>2, AmountNone DEF On
  <2>2. Amount(outq, s, "WRTE") = 0 /\ Amount(inq, s, "OKAY") = 0
    BY <1>1, <2>1 DEF Kinds
  <2>3. QED
    BY <1>1, <2>2, BufferedEmpty DEF Unread, Returning
<1>4. Within(s)
  <2>1. Unit(Credit) \in Nat
    BY ConstantsOK DEF Constants, Unit
  <2>2. QED
    BY <1>2, <1>3, <2>1 DEF Within, Carried
<1>5. Exact(s)
  BY <1>1 DEF Exact, Live
<1>6. Granted(s)
  BY DEF Init, Granted, WritersOf
<1>7. QED
  BY <1>4, <1>5, <1>6 DEF CreditOf

\* and no step creates credit, or loses it on a stream that stays open.
LEMMA NextCreditInv ==
    TInv /\ CloseInv /\ LinkInv /\ CreditInv /\ [Next]_vars => CreditInv'
<1> SUFFICES ASSUME TInv, CloseInv, LinkInv, CreditInv, [Next]_vars, NEW s \in Streams
             PROVE  CreditOf(s)'
  BY DEF CreditInv
<1>1. CreditOf(s)
  BY DEF CreditInv
<1>2. Solo(s)' <=> Solo(s)
  BY DEF Solo, WritersOf
<1>3. Solo(s) => Granted(s)'
  BY <1>1, NextGranted DEF CreditOf
<1>4. ASSUME DelayedAck \/ Solo(s) PROVE Within(s)' /\ Exact(s)'
  <2>1. Moves(s) /\ Within(s) /\ Exact(s)
    BY <1>1, <1>4, NextMoves DEF CreditOf
  <2>2. PICK g : g = Unit(Credit)
    OBVIOUS
  <2>3. g \in Nat /\ Unit(Credit)' = g
    BY <2>2, ConstantsOK DEF Constants, Unit
  <2>4. PICK P \in Int, U \in Nat, R \in Nat :
            P = Permission(s) /\ U = Unread(s) /\ R = Returning(s)
    BY LedgerTypes
  <2>5. PICK Pn, Un, Rn : Pn = Permission(s)' /\ Un = Unread(s)' /\ Rn = Returning(s)'
    OBVIOUS
  <2>6. Carried(s) = P + U + R /\ Carried(s)' = Pn + Un + Rn
    BY <2>4, <2>5 DEF Carried
  <2>7. P + U + R <= g /\ (Live(s) /\ ~MayStall => P + U + R = g)
    BY <2>1, <2>2, <2>6 DEF Within, Exact
  <2>8. Pn + Un + Rn <= g /\ (Live(s)' /\ ~MayStall => Pn + Un + Rn = g)
    <3>1. CASE Begins(s)
      <4>1. Pn = 0 /\ Un = 0 /\ Rn = g
        BY <2>2, <2>5, <3>1 DEF Begins
      <4>2. QED
        BY <2>3, <4>1
    <3>2. CASE (Live(s)' => Live(s)) /\ Pn + Un + Rn = P + U + R
      BY <2>7, <3>2
    <3>3. CASE (Live(s)' => Live(s)) /\ Loses(s)
      <4>1. Pn + Un + Rn <= P + U + R
        BY <2>6, <3>3 DEF Loses
      <4>2. PICK k \in Int : k = Pn + Un + Rn
        <5>1. Carried(s)' \in Int
          <6>1. TInv'
            BY NextTInv
          <6>2. QED
            BY <6>1, LedgerTypesNext
        <5>2. QED
          BY <2>6, <5>1
      <4>3. QED
        BY <2>3, <2>7, <3>3, <4>1, <4>2 DEF Loses
    <3>5. ASSUME NEW n \in 1..Unit(MaxPayload), Sends(s, n) PROVE Pn + Un + Rn = P + U + R
      <4>1. Pn = P - n /\ Un = U + n /\ Rn = R
        BY <2>4, <2>5, <3>5 DEF Sends
      <4>2. n \in Int
        BY ConstantsOK DEF Constants, Unit
      <4>3. QED
        BY <4>1, <4>2
    <3>6. ASSUME NEW n \in Nat, Consumes(s, n) \/ Acks(s, n) PROVE Pn + Un + Rn = P + U + R
      <4>1. CASE Consumes(s, n)
        <5>1. Pn = P /\ Un = U - n /\ Rn = R + n
          BY <2>4, <2>5, <4>1 DEF Consumes
        <5>2. QED
          BY <5>1
      <4>2. CASE Acks(s, n)
        <5>1. Pn = P + n /\ Un = U /\ Rn = R - n
          BY <2>4, <2>5, <4>2 DEF Acks
        <5>2. QED
          BY <5>1
      <4>3. QED
        BY <3>6, <4>1, <4>2
    <3>4. CASE (Live(s)' => Live(s)) /\ Holds(s)
      <4>1. Pn = P /\ Un = U /\ Rn = R
        BY <2>4, <2>5, <3>4 DEF Holds
      <4>2. QED
        BY <3>2, <3>4, <4>1
    <3>7. QED
      BY <2>1, <3>1, <3>2, <3>3, <3>4, <3>5, <3>6 DEF Moves
  <2>9. QED
    BY <2>3, <2>6, <2>8 DEF Within, Exact
<1>5. QED
  BY <1>2, <1>3, <1>4 DEF CreditOf

\* The stream invariants together.
FlowInv == TInv /\ CloseInv /\ LinkInv /\ CreditInv

\* They hold from the first state on, in every step.
LEMMA FlowInvHolds == (Init => FlowInv) /\ (FlowInv /\ [Next]_vars => FlowInv')
<1>1. Init => FlowInv
  BY InitTInv, InitCloseInv, InitLinkInv, InitCreditInv DEF FlowInv
<1>2. FlowInv /\ [Next]_vars => FlowInv'
  BY NextTInv, NextCloseInv, NextLinkInv, NextCreditInv DEF FlowInv
<1>3. QED
  BY <1>1, <1>2

\* What adbd grants is spendable, on its way, in its buffer or coming back: no
\* interleaving of write() calls, acknowledgements and closes creates credit,
\* and only a stalled transfer loses any.  In classic mode a stream needs its
\* write() calls one at a time: two of them may pass on one permission.
THEOREM CreditIsConserved ==
    (DelayedAck \/ \A s \in Streams : Solo(s)) => (Spec => []SendCreditConserved)
<1> SUFFICES ASSUME DelayedAck \/ \A s \in Streams : Solo(s) PROVE Spec => []SendCreditConserved
  OBVIOUS
<1>1. FlowInv => SendCreditConserved
  <2>1. SUFFICES ASSUME FlowInv, NEW s \in Streams, sock[s] = "open", ~closed[s], linkUp
                 PROVE  LET total == Permission(s) + Amount(outq, s, "WRTE") + Buffered(devBuf[s])
                                       + Amount(inq, s, "OKAY")
                            grant == IF DelayedAck THEN Credit ELSE 1
                        IN  total <= grant /\ (~MayStall => total = grant)
    BY DEF SendCreditConserved
  <2>2. Within(s) /\ Exact(s) /\ Live(s)
    BY <2>1 DEF FlowInv, CreditInv, CreditOf, Live
  <2>3. /\ Permission(s) \in Int /\ Amount(outq, s, "WRTE") \in Nat /\ Buffered(devBuf[s]) \in Nat
        /\ Returning(s) \in Nat
    BY <2>1, LedgerTypes DEF FlowInv
  <2>4. Permission(s) + Amount(outq, s, "WRTE") + Buffered(devBuf[s]) + Amount(inq, s, "OKAY") = Carried(s)
    BY <2>3 DEF Carried, Unread, Returning
  <2>5. QED
    BY <2>2, <2>4 DEF Within, Exact, Unit
<1>2. QED
  BY <1>1, FlowInvHolds, PTL DEF Spec

-----------------------------------------------------------------------------
(* The phases of a stream                                                  *)

\* No step opens again what was closed, plugs the cable in, or lets adbd
\* accept a stream twice.
LEMMA Onward ==
    ASSUME TInv, CloseInv, LinkInv, [Next]_vars, NEW s \in Streams
    PROVE  /\ closed[s] => closed'[s]
           /\ ~linkUp => ~linkUp'
           /\ sock[s] = "closed" => sock'[s] = "closed"
           /\ sock[s] = "open" => sock'[s] \in {"open", "closed"}
<1>1. ~linkUp => ~linkUp'
  BY DEF Next, HostStep, AppStep, DevTransfer, EnvStep, Resume, FlushAck, HandleOkay, HandleWrite,
     HandleClose, FailConnection, WriteDone, WriteFailsUnplugged, WriteStalls, WriteFails, Write, Open,
     Read, Close, CloseConnection, DevOpen, DevReceiveWrite, DevReceiveOkay, DevReceiveClose, Unplug,
     DevWrite, DevClose, DevMisbehave, DevConsume, vars, wireVars
<1>2. closed[s] => closed'[s]
  <2>1. ASSUME NEW S \in SUBSET Streams, NEW err, OnClose(S, err) \/ CloseStreams(S, err)
        PROVE  closed[s] => closed'[s]
    BY <2>1, ClosedStays
  <2>2. ASSUME NEW t \in Streams, Close(t) PROVE closed[s] => closed'[s]
    <3>1. {t} \in SUBSET Streams /\ OnClose({t}, FALSE)
      BY <2>2 DEF Close
    <3>2. QED
      BY <2>1, <3>1
  <2>3. CASE CloseConnection \/ FailConnection
    <3>1. streams \in SUBSET Streams /\ OnClose(streams, TRUE)
      BY <2>3 DEF CloseConnection, FailConnection, TInv, TypeOK
    <3>2. QED
      BY <2>1, <3>1
  <2>4. CASE HandleClose \/ HandleOkay
    <3>1. PICK t, n : t = Head(inq).s /\ n = Head(inq).len
      OBVIOUS
    <3>2. t \in Streams
      BY <2>4, <3>1, Received DEF HandleClose, HandleOkay
    <3>3. {t} \in SUBSET Streams
      BY <3>2
    <3>4. CASE HandleClose
      <4>1. UNCHANGED closed \/ OnClose({t}, FALSE)
        BY <3>1, <3>4 DEF HandleClose, onCloseVars
      <4>2. QED
        BY <2>1, <3>3, <4>1
    <3>5. CASE HandleOkay
      <4>1. OnOkay(t, n) \/ UNCHANGED closed
        BY <3>1, <3>5 DEF HandleOkay, onCloseVars
      <4>2. UNCHANGED closed \/ CloseStreams({t}, TRUE)
        BY <4>1 DEF OnOkay
      <4>3. QED
        BY <2>1, <3>3, <4>2
    <3>6. QED
      BY <2>4, <3>4, <3>5
  <2>5. CASE WriteFails
    <3>1. PICK p : p = Head(outq)
      OBVIOUS
    <3>2. outq # <<>> /\ (UNCHANGED closed \/ OnClose({p.s}, TRUE))
      BY <2>5, <3>1 DEF WriteFails, onCloseVars
    <3>3. p \in HostPackets
      BY <3>1, <3>2, HeadTailType DEF TInv, TypeOK
    <3>4. {p.s} \in SUBSET Streams
      BY <3>3, HostPacketFields
    <3>5. QED
      BY <2>1, <3>2, <3>4
  <2>6. QED
    BY <2>2, <2>3, <2>4, <2>5 DEF Next, HostStep, AppStep, DevTransfer, EnvStep, Resume, FlushAck,
       HandleWrite, WriteDone, WriteFailsUnplugged, WriteStalls, Write, Open, Read, DevOpen,
       DevReceiveWrite, DevReceiveOkay, DevReceiveClose, Unplug, DevWrite, DevClose, DevMisbehave,
       DevConsume, vars, hostVars, onCloseVars
<1>3. /\ sock[s] = "closed" => sock'[s] = "closed"
      /\ sock[s] = "open" => sock'[s] \in {"open", "closed"}
  <2>0. sock \in [Streams -> {"none", "open", "closed"}]
    BY DEF TInv, TypeOK
  <2>1. CASE DevOpen
    <3>1. PICK t : t = Head(outq).s
      OBVIOUS
    <3>2. outq # <<>> /\ Head(outq).cmd = "OPEN"
      BY <2>1 DEF DevOpen, Transfer
    <3>3. Head(outq) \in On(outq)
      BY <3>2, OnTail DEF TInv, TypeOK
    <3>4. sock[t] = "none"
      BY <3>1, <3>2, <3>3 DEF CloseInv, Queue, Queued, Unheard
    <3>5. UNCHANGED sock \/ sock' = [sock EXCEPT ![t] = "open"]
      BY <2>1, <3>1 DEF DevOpen
    <3>6. QED
      BY <2>0, <3>4, <3>5
  <2>2. CASE ~DevOpen
    <3>1. UNCHANGED sock \/ \E t : sock' = [sock EXCEPT ![t] = "closed"]
      BY <2>2 DEF Next, HostStep, AppStep, DevTransfer, EnvStep, Resume, FlushAck, HandleOkay, HandleWrite,
         HandleClose, FailConnection, WriteDone, WriteFailsUnplugged, WriteStalls, WriteFails, Write, Open,
         Read, Close, CloseConnection, DevReceiveWrite, DevReceiveOkay, DevReceiveClose, Unplug,
         DevWrite, DevClose, DevMisbehave, DevConsume, vars, devVars
    <3>2. QED
      BY <2>0, <3>1
  <2>3. QED
    BY <2>1, <2>2
<1>4. QED
  BY <1>1, <1>2, <1>3

\* What Phase and WhileRunning say, before and after a step.
LEMMA Phases ==
    ASSUME NEW s \in Streams
    PROVE  LET over == closed[s] \/ sock[s] = "closed" \/ ~linkUp IN
           /\ Phase(s) = IF Live(s) THEN "open" ELSE IF over THEN "closed" ELSE "idle"
           /\ Phase(s)' = IF Live(s)' THEN "open" ELSE IF over' THEN "closed" ELSE "idle"
           /\ Running(s) = Live(s) /\ Running(s)' = Live(s)'
  BY DEF Phase, Running, Live

\* A stream is accepted once, and once it is not open any more it stays so.
LEMMA PhaseSteps ==
    ASSUME TInv, TInv', CloseInv, LinkInv, [Next]_vars, NEW s \in Streams
    PROVE  /\ Live(s) /\ Live(s)' => Phase(s) = "open" /\ Phase(s)' = "open"
           /\ Live(s) /\ ~Live(s)' => Phase(s) = "open" /\ Phase(s)' = "closed"
           /\ ~Live(s) /\ Live(s)' => Phase(s) = "idle" /\ Phase(s)' = "open"
           /\ ~Live(s) /\ ~Live(s)' =>
                Phase(s)' = Phase(s) \/ (Phase(s) # "closed" /\ Phase(s)' = "closed")
<1>1. /\ sock[s] \in {"none", "open", "closed"} /\ sock'[s] \in {"none", "open", "closed"}
      /\ linkUp \in BOOLEAN /\ linkUp' \in BOOLEAN /\ closed[s] \in BOOLEAN /\ closed'[s] \in BOOLEAN
  BY DEF TInv, TypeOK
<1>2. QED
  BY <1>1, Onward, Phases DEF Live

-----------------------------------------------------------------------------
(* Host to adbd: write() spends what adbd grants                           *)

\* A stream whose write() calls come one at a time overdraws its permission
\* by less than one chunk.
Affordable ==
    Solo(Stream) /\ Live(Stream) /\ ~MayStall => Permission(Stream) > -Unit(MaxPayload)

\* It has no permission before it is accepted,
LEMMA InitAffordable == Init => Affordable
  BY StreamAssumption DEF Init, Affordable, Live

\* and spends no more than one chunk beyond what it has.
LEMMA NextAffordable == FlowInv /\ Affordable /\ [Next]_vars => Affordable'
<1> DEFINE s == Stream
<1>1. SUFFICES ASSUME FlowInv, Affordable, [Next]_vars, Solo(s), Live(s)', ~MayStall
               PROVE  Permission(s)' > -Unit(MaxPayload)
  BY DEF Affordable, Solo, WritersOf
<1> HIDE DEF s
<1>2. s \in Streams
  BY StreamAssumption DEF s
<1>3. Moves(s)
  BY <1>1, <1>2, NextMoves DEF FlowInv
<1>4. PICK P \in Int, U \in Nat, R \in Nat : P = Permission(s) /\ U = Unread(s) /\ R = Returning(s)
  BY <1>1, <1>2, LedgerTypes DEF FlowInv
<1>5. PICK m \in Nat \ {0} : m = Unit(MaxPayload)
  BY ConstantsOK DEF Constants, Unit
<1>6. CASE Begins(s)
  BY <1>5, <1>6 DEF Begins
<1>7. CASE Live(s)
  <2>1. P > -m
    BY <1>1, <1>4, <1>5, <1>7 DEF Affordable, s
  <2>2. CASE Holds(s)
    BY <1>4, <1>5, <2>1, <2>2 DEF Holds
  <2>3. CASE Loses(s)
    BY <1>1, <1>7, <2>3 DEF Loses
  <2>4. ASSUME NEW n \in 1..Unit(MaxPayload), Sends(s, n) PROVE Permission(s)' > -Unit(MaxPayload)
    <3>1. P > 0 /\ Permission(s)' = P - n
      BY <1>1, <1>4, <2>4 DEF Sends
    <3>2. n \in 1..m
      BY <1>5
    <3>3. P - n > -m
      BY <3>1, <3>2
    <3>4. QED
      BY <1>5, <3>1, <3>3
  <2>5. ASSUME NEW n \in Nat, Consumes(s, n) \/ Acks(s, n) PROVE Permission(s)' > -Unit(MaxPayload)
    <3>1. Permission(s)' = P \/ Permission(s)' = P + n
      BY <1>4, <2>5 DEF Consumes, Acks
    <3>2. P + n > -m
      BY <1>5, <2>1
    <3>3. QED
      BY <1>5, <2>1, <3>1, <3>2
  <2>6. QED
    BY <1>3, <1>7, <2>2, <2>3, <2>4, <2>5 DEF Moves, Begins
<1>8. QED
  BY <1>1, <1>3, <1>6, <1>7 DEF Moves

\* Before it is accepted a stream is idle.
LEMMA SenderInit == Init => ToDevice!Init
<1> SUFFICES ASSUME Init PROVE ToDevice!Init
  OBVIOUS
<1>1. sock[Stream] = "none" /\ ~closed[Stream] /\ linkUp
  BY StreamAssumption DEF Init
<1>2. QED
  BY <1>1 DEF ToDevice!Init, Phase, WhileRunning, Running

\* A step of the program is a step of FlowControl for the stream, or none.
LEMMA SenderStep ==
    Solo(Stream) /\ ~MayStall /\ FlowInv /\ FlowInv' /\ Affordable /\ [Next]_vars
      => [ToDevice!Next]_(ToDevice!fvars)
<1> DEFINE s == Stream
<1>1. SUFFICES ASSUME Solo(s), ~MayStall, FlowInv, FlowInv', Affordable, [Next]_vars
               PROVE  [ToDevice!Next]_(ToDevice!fvars)
  OBVIOUS
<1>2. s \in Streams
  BY StreamAssumption
<1>3. /\ Moves(s) /\ (Live(s) => Carried(s) = Unit(Credit) /\ Permission(s) > -Unit(MaxPayload))
  BY <1>1, <1>2, NextMoves DEF FlowInv, CreditInv, CreditOf, Exact, Affordable
<1>4. PICK P \in Int, U \in Nat, R \in Nat : P = Permission(s) /\ U = Unread(s) /\ R = Returning(s)
  BY <1>1, <1>2, LedgerTypes DEF FlowInv
<1>5. PICK g, m \in Nat \ {0} : g = Unit(Credit) /\ m = Unit(MaxPayload)
  BY ConstantsOK DEF Constants, Unit
<1>6. PICK Pn, Un, Rn : Pn = Permission(s)' /\ Un = Unread(s)' /\ Rn = Returning(s)'
  OBVIOUS
<1> DEFINE permit == WhileRunning(s, Permission(s))
           unread == WhileRunning(s, Amount(outq, s, "WRTE") + Buffered(devBuf[s]))
           owed   == WhileRunning(s, Amount(inq, s, "OKAY"))
<1>7. /\ permit = (IF Live(s) THEN P ELSE 0) /\ permit' = (IF Live(s)' THEN Pn ELSE 0)
      /\ unread = (IF Live(s) THEN U ELSE 0) /\ unread' = (IF Live(s)' THEN Un ELSE 0)
      /\ owed = (IF Live(s) THEN R ELSE 0) /\ owed' = (IF Live(s)' THEN Rn ELSE 0)
  BY <1>2, <1>4, <1>6, Phases DEF WhileRunning, Unread, Returning
<1>8. CASE Live(s) /\ Live(s)'
  <2>1. Phase(s) = "open" /\ Phase(s)' = "open"
    BY <1>1, <1>2, <1>8, PhaseSteps DEF FlowInv
  <2>2. permit = P /\ unread = U /\ owed = R /\ permit' = Pn /\ unread' = Un /\ owed' = Rn
    BY <1>7, <1>8
  <2>3. P + U + R = g /\ P > -m
    BY <1>3, <1>4, <1>5, <1>8 DEF Carried
  <2>4. U < g + m /\ R < g + m
    BY <1>5, <2>3
  <2> HIDE DEF permit, unread, owed
  <2>5. CASE Pn = P /\ Un = U /\ Rn = R
    BY <2>1, <2>2, <2>5 DEF ToDevice!fvars, permit, unread, owed
  <2>6. ASSUME NEW n \in 1..m, P > 0, Pn = P - n, Un = U + n, Rn = R PROVE ToDevice!Next
    <3>1. ToDevice!SendChunk(n)
      BY <2>1, <2>2, <2>6 DEF ToDevice!SendChunk, permit, unread, owed
    <3>2. QED
      BY <1>5, <3>1 DEF ToDevice!Next
  <2>7. ASSUME NEW n \in Nat \ {0}, n <= U, Pn = P, Un = U - n, Rn = R + n PROVE ToDevice!Next
    <3>1. ToDevice!Consume(n)
      BY <2>1, <2>2, <2>7 DEF ToDevice!Consume, permit, unread, owed
    <3>2. n \in 1..(g + m)
      BY <1>5, <2>4, <2>7
    <3>3. QED
      BY <1>5, <3>1, <3>2 DEF ToDevice!Next
  <2>8. ASSUME NEW n \in Nat \ {0}, n <= R, Pn = P + n, Un = U, Rn = R - n PROVE ToDevice!Next
    <3>1. ToDevice!Acknowledge(n)
      BY <2>1, <2>2, <2>8 DEF ToDevice!Acknowledge, permit, unread, owed
    <3>2. n \in 1..(g + m)
      BY <1>5, <2>4, <2>8
    <3>3. QED
      BY <1>5, <3>1, <3>2 DEF ToDevice!Next
  <2>9. \/ Pn = P /\ Un = U /\ Rn = R
        \/ \E n \in 1..m : P > 0 /\ Pn = P - n /\ Un = U + n /\ Rn = R
        \/ \E n \in Nat \ {0} : n <= U /\ Pn = P /\ Un = U - n /\ Rn = R + n
        \/ \E n \in Nat \ {0} : n <= R /\ Pn = P + n /\ Un = U /\ Rn = R - n
    <3>1. ~Begins(s) /\ ~Loses(s)
      BY <1>1, <1>8 DEF Begins, Loses
    <3>2. CASE Holds(s)
      BY <1>4, <1>6, <3>2 DEF Holds
    <3>3. ASSUME NEW n \in 1..Unit(MaxPayload), Sends(s, n)
          PROVE  n \in 1..m /\ P > 0 /\ Pn = P - n /\ Un = U + n /\ Rn = R
      BY <1>1, <1>4, <1>5, <1>6, <3>3 DEF Sends
    <3>4. ASSUME NEW n \in Nat, Consumes(s, n)
          PROVE  n <= U /\ Pn = P /\ Un = U - n /\ Rn = R + n
      BY <1>4, <1>6, <3>4 DEF Consumes
    <3>5. ASSUME NEW n \in Nat, Acks(s, n)
          PROVE  n <= R /\ Pn = P + n /\ Un = U /\ Rn = R - n
      BY <1>4, <1>6, <3>5 DEF Acks
    <3>6. P - 0 = P /\ P + 0 = P /\ U - 0 = U /\ R + 0 = R /\ R - 0 = R
      OBVIOUS
    <3>7. ASSUME NEW n \in Nat, Consumes(s, n) \/ Acks(s, n)
          PROVE  \/ Pn = P /\ Un = U /\ Rn = R
                 \/ n # 0 /\ n <= U /\ Pn = P /\ Un = U - n /\ Rn = R + n
                 \/ n # 0 /\ n <= R /\ Pn = P + n /\ Un = U /\ Rn = R - n
      BY <3>4, <3>5, <3>6, <3>7
    <3>8. QED
      BY <1>3, <3>1, <3>2, <3>3, <3>7 DEF Moves
  <2>10. QED
    BY <2>5, <2>6, <2>7, <2>8, <2>9
<1>9. CASE Live(s) /\ ~Live(s)'
  <2>1. Phase(s) = "open" /\ Phase(s)' = "closed"
    BY <1>1, <1>2, <1>9, PhaseSteps DEF FlowInv
  <2>2. ToDevice!End
    BY <1>7, <1>9, <2>1 DEF ToDevice!End
  <2>3. QED
    BY <2>2 DEF ToDevice!Next
<1>10. CASE ~Live(s) /\ Live(s)'
  <2>1. Phase(s) = "idle" /\ Phase(s)' = "open"
    BY <1>1, <1>2, <1>10, PhaseSteps DEF FlowInv
  <2>2. Pn = 0 /\ Un = 0 /\ Rn = g
    BY <1>3, <1>5, <1>6, <1>10 DEF Moves, Begins
  <2>3. ToDevice!Begin
    BY <1>5, <1>7, <1>10, <2>1, <2>2 DEF ToDevice!Begin
  <2>4. QED
    BY <2>3 DEF ToDevice!Next
<1>11. CASE ~Live(s) /\ ~Live(s)'
  <2>1. Phase(s)' = Phase(s) \/ (Phase(s) # "closed" /\ Phase(s)' = "closed")
    BY <1>1, <1>2, <1>11, PhaseSteps DEF FlowInv
  <2>2. CASE Phase(s)' = Phase(s)
    BY <1>7, <1>11, <2>2 DEF ToDevice!fvars
  <2>3. CASE Phase(s) # "closed" /\ Phase(s)' = "closed"
    <3>1. ToDevice!End
      BY <1>7, <1>11, <2>3 DEF ToDevice!End
    <3>2. QED
      BY <3>1 DEF ToDevice!Next
  <2>4. QED
    BY <2>1, <2>2, <2>3
<1>12. QED
  BY <1>8, <1>9, <1>10, <1>11

\* Host to adbd, a stream whose write() calls come one at a time implements
\* FlowControl, with writes that do not stall half way: it sends on a positive
\* permission only, and what adbd has not consumed is never spent twice.
THEOREM SenderImplements ==
    Solo(Stream) /\ ~MayStall => (Spec => SendsWithinGrant)
<1> SUFFICES ASSUME Solo(Stream), ~MayStall PROVE Spec => SendsWithinGrant
  OBVIOUS
<1> DEFINE I == FlowInv /\ Affordable
<1>1. Init => I /\ ToDevice!Init
  BY FlowInvHolds, InitAffordable, SenderInit
<1>2. I /\ [Next]_vars => I'
  BY FlowInvHolds, NextAffordable
<1>3. I /\ I' /\ [Next]_vars => [ToDevice!Next]_(ToDevice!fvars)
  BY SenderStep
<1> HIDE DEF I
<1>4. QED
  BY <1>1, <1>2, <1>3, PTL DEF Spec, SendsWithinGrant, ToDevice!Spec

-----------------------------------------------------------------------------
(* adbd to host: read() frees what the host grants                         *)

\* What adbd sent and no read() returned, and what it is to be acknowledged.
Unseen(s) == Amount(inq, s, "WRTE") + Buffered(incoming[s])
Owing(s)  == Pending(s) + Amount(outq, s, "OKAY")

Rests(s)      == UNCHANGED <<devWindow[s], Unseen(s), Owing(s)>>
Writes(s, n)  == /\ devWindow[s] > 0
                 /\ devWindow'[s] = devWindow[s] - n /\ Unseen(s)' = Unseen(s) + n
                 /\ UNCHANGED Owing(s)
Reads(s, n)   == /\ n <= Unseen(s)
                 /\ Unseen(s)' = Unseen(s) - n /\ Owing(s)' = Owing(s) + n
                 /\ UNCHANGED devWindow[s]
Returns(s, n) == /\ n <= Owing(s)
                 /\ Owing(s)' = Owing(s) - n /\ devWindow'[s] = devWindow[s] + n
                 /\ UNCHANGED Unseen(s)
Accepts(s)    == devWindow'[s] = Unit(RecvWindow) /\ Unseen(s)' = 0 /\ Owing(s)' = 0

Receives(s) ==
    \/ Rests(s)
    \/ \E n \in 1..Unit(MaxDevChunk) : Writes(s, n)
    \/ \E n \in Nat : Reads(s, n) \/ Returns(s, n)

\* Each unit of the window is with adbd, unread or to be acknowledged; classic
\* streams have one unit, so adbd and an acknowledgement never have one each.
WindowOf(s) == Live(s) =>
    /\ devWindow[s] + Unseen(s) + Owing(s) = Unit(RecvWindow)
    /\ devWindow[s] > -Unit(MaxDevChunk)
    /\ ~DelayedAck => devWindow[s] \in {0, 1}

\* The amounts are numbers,
LEMMA WindowTypes ==
    ASSUME TInv, NEW s \in Streams
    PROVE  /\ devWindow[s] \in Int /\ Unseen(s) \in Nat /\ Owing(s) \in Nat /\ Pending(s) \in Nat
           /\ Amount(inq, s, "WRTE") \in Nat /\ Amount(outq, s, "OKAY") \in Nat
           /\ Buffered(incoming[s]) \in Nat /\ incoming[s] \in Seq(Nat) /\ pendingAck[s] \in Nat
<1>1. devWindow[s] \in Int /\ incoming[s] \in Seq(Nat) /\ pendingAck[s] \in Nat
  BY DEF TInv, TypeOK
<1>2. Amount(inq, s, "WRTE") \in Nat /\ Amount(outq, s, "OKAY") \in Nat
  BY OutAmount, InAmount DEF Kinds
<1>3. Buffered(incoming[s]) \in Nat
  BY <1>1, BufferedType
<1>4. Pending(s) \in Nat
  BY <1>1 DEF Pending
<1>5. QED
  BY <1>1, <1>2, <1>3, <1>4 DEF Unseen, Owing

\* and so are the constants they are compared with.
LEMMA WindowConstants ==
    /\ RecvWindow \in Nat \ {0} /\ MaxDevChunk \in Nat \ {0} /\ DelayedAck \in BOOLEAN
    /\ \A n \in DevSizes : n \in Nat /\ n # 0 /\ n <= MaxDevChunk
  BY ConstantsOK, MaxDevChunkAssumption DEF Constants

\* A step that receives, reads and acknowledges nothing for s.
LEMMA NothingReceived ==
    ASSUME TInv, NEW s \in Streams,
           devWindow'[s] = devWindow[s], incoming'[s] = incoming[s], pendingAck'[s] = pendingAck[s],
           OutSame(s, "OKAY"), InSame(s, "WRTE")
    PROVE  Rests(s)
<1>1. /\ Amount(outq, s, "OKAY")' = Amount(outq, s, "OKAY")
      /\ Amount(inq, s, "WRTE")' = Amount(inq, s, "WRTE")
  BY SameAmounts DEF Kinds
<1>2. Buffered(incoming[s])' = Buffered(incoming[s])
  BY DEF Buffered, Total, Unit
<1>3. Pending(s)' = Pending(s)
  BY DEF Pending
<1>4. QED
  BY <1>1, <1>2, <1>3 DEF Rests, Unseen, Owing

\* A chunk is handed out: what it counts is owed from now on.
LEMMA TakeReads ==
    ASSUME TInv, NEW s \in Streams, Live(s), WindowOf(s),
           NEW buf \in Seq(Nat), buf # <<>>, Head(buf) > 0, Take(s, buf),
           devWindow'[s] = devWindow[s], OutSame(s, "OKAY"),
           Amount(inq, s, "WRTE")' \in Nat,
           Amount(inq, s, "WRTE")' + Buffered(buf) = Unseen(s)
    PROVE  \E n \in Nat : Reads(s, n)
<1>1. PICK h \in Nat : h = Head(buf) /\ h > 0
  <2>1. Head(buf) \in Nat
    BY HeadTailType
  <2>2. QED
    BY <2>1
<1>2. /\ incoming'[s] = Tail(buf) /\ pendingAck'[s] = pendingAck[s] + h
  <2>1. incoming \in [Streams -> Seq(Nat)] /\ pendingAck \in [Streams -> Nat]
    BY DEF TInv, TypeOK
  <2>2. QED
    BY <1>1, <2>1 DEF Take, Owe
<1>3. PICK n \in Nat : n = Unit(h) /\ n > 0 /\ n = IF DelayedAck THEN h ELSE 1
  <2>1. Unit(h) \in Nat /\ Unit(h) > 0
    BY <1>1 DEF Unit
  <2>2. QED
    BY <2>1 DEF Unit
<1>4. Buffered(buf) = n + Buffered(incoming[s])' /\ Buffered(incoming[s])' \in Nat
  <2>1. Buffered(incoming[s])' = Buffered(incoming'[s])
    BY DEF Buffered, Total, Unit
  <2>2. Tail(buf) \in Seq(Nat)
    BY HeadTailType
  <2>3. Buffered(Tail(buf)) \in Nat /\ Buffered(buf) = Unit(Head(buf)) + Buffered(Tail(buf))
    BY <2>2, BufferedType, BufferedTail
  <2>4. QED
    BY <1>1, <1>2, <1>3, <2>1, <2>3
<1>5. PICK A \in Nat, B \in Nat : A = Amount(inq, s, "WRTE")' /\ B = Buffered(incoming[s])'
  BY <1>4
<1>6. Unseen(s) = A + (n + B) /\ Unseen(s)' = A + B
  BY <1>4, <1>5 DEF Unseen
<1>7. n <= Unseen(s) /\ Unseen(s)' = Unseen(s) - n
  BY <1>6
<1>8. Pending(s)' = Pending(s) + n
  <2>1. CASE DelayedAck
    BY <1>2, <1>3, <2>1 DEF Pending
  <2>2. CASE ~DelayedAck
    <3>1. PICK W \in {0, 1}, U \in Nat, O \in Nat : W = devWindow[s] /\ U = Unseen(s) /\ O = Owing(s)
      BY <2>2, WindowTypes DEF WindowOf
    <3>2. W + U + O = 1 /\ U >= 1
      BY <1>3, <1>7, <2>2, <3>1 DEF WindowOf, Unit
    <3>3. O = 0
      BY <3>1, <3>2
    <3>4. Pending(s) = 0
      BY <3>1, <3>3, WindowTypes DEF Owing
    <3>5. pendingAck[s] + h # 0
      <4>1. PICK k \in Nat : k = pendingAck[s]
        BY WindowTypes
      <4>2. k + h # 0
        BY <1>1
      <4>3. QED
        BY <4>1, <4>2
    <3>6. Pending(s)' = 1
      BY <1>2, <2>2, <3>5 DEF Pending
    <3>7. QED
      BY <1>3, <2>2, <3>4, <3>6
  <2>3. QED
    BY <2>1, <2>2
<1>9. Amount(outq, s, "OKAY")' = Amount(outq, s, "OKAY")
  BY SameAmounts DEF Kinds
<1>10. Owing(s)' = Owing(s) + n
  BY <1>8, <1>9, WindowTypes DEF Owing
<1>11. QED
  BY <1>7, <1>10 DEF Reads

\* Steps of the page that receive and acknowledge nothing.
LEMMA IdleReceives ==
    ASSUME TInv, CloseInv, LinkInv, NEW s \in Streams,
           \/ \E w \in Writers : Write(w) \/ Resume(w)
           \/ \E t \in Streams : Open(t) \/ Close(t)
           \/ HandleOkay \/ HandleClose \/ FailConnection \/ WriteDone
    PROVE  Rests(s)
<1>1. UNCHANGED <<recvVars, devVars>>
  BY Zenon DEF Write, Resume, Open, Close, HandleOkay, HandleClose, FailConnection, WriteDone
<1>2. OutSame(s, "OKAY")
  <2>1. ASSUME NEW p \in HostPackets, p.cmd # "OKAY", Send(p) PROVE OutSame(s, "OKAY")
    BY <2>1, NoShare DEF OutSame
  <2>2. ASSUME NEW t \in Streams, Open(t) PROVE OutSame(s, "OKAY")
    <3>1. OpenPacket(t) \in HostPackets /\ OpenPacket(t).cmd = "OPEN" /\ Send(OpenPacket(t))
      BY <2>2, OpenPacketType DEF Open, OpenPacket
    <3>2. QED
      BY <2>1, <3>1
  <2>3. ASSUME NEW t \in Streams, NEW b \in {"close", "loop"}, Send(ClosePacket(t, b))
        PROVE  OutSame(s, "OKAY")
    <3>1. ClosePacket(t, b) \in HostPackets /\ ClosePacket(t, b).cmd = "CLSE"
      BY ClosePacketType DEF ClosePacket
    <3>2. QED
      BY <2>1, <2>3, <3>1
  <2>4. ASSUME NEW t \in Streams, Close(t) PROVE OutSame(s, "OKAY")
    <3>1. Send(ClosePacket(t, "close"))
      BY <2>4 DEF Close
    <3>2. QED
      BY <2>3, <3>1
  <2>5. ASSUME NEW w \in Writers, Resume(w) PROVE OutSame(s, "OKAY")
    <3>1. PICK n : /\ n = IF Payload[w] - offset[w] < MaxPayload THEN Payload[w] - offset[w] ELSE MaxPayload
                   /\ n \in Nat /\ (UNCHANGED outq \/ Send(WritePacket(w, n)))
      BY <2>5, ChunkUnits DEF Resume
    <3>2. WritePacket(w, n) \in HostPackets /\ WritePacket(w, n).cmd = "WRTE"
      BY <3>1, WritePacketType DEF WritePacket
    <3>3. QED
      BY <2>1, <3>1, <3>2 DEF OutSame
  <2>6. CASE HandleOkay
    <3>1. PICK t : t = Head(inq).s
      OBVIOUS
    <3>2. t \in Streams /\ (UNCHANGED outq \/ Send(ClosePacket(t, "loop")))
      BY <2>6, <3>1, Received DEF HandleOkay
    <3>3. QED
      BY <2>3, <3>2 DEF OutSame
  <2>7. QED
    BY <2>2, <2>4, <2>5, <2>6 DEF OutSame, Write, HandleClose, FailConnection, WriteDone, wireVars
<1>3. InSame(s, "WRTE")
  <2>1. CASE HandleOkay \/ HandleClose
    <3>1. inq # <<>> /\ inq' = Tail(inq) /\ Head(inq).cmd \in {"OKAY", "CLSE"}
      BY <2>1 DEF HandleOkay, HandleClose, Receive
    <3>2. Share(Head(inq), s, "WRTE") = 0
      BY <3>1, NoShare
    <3>3. QED
      BY <3>1, <3>2 DEF InSame
  <2>2. QED
    BY <2>1 DEF InSame, Write, Resume, Open, Close, FailConnection, WriteDone, wireVars
<1>4. QED
  BY <1>1, <1>2, <1>3, NothingReceived DEF recvVars, devVars

\* read() takes the first chunk, or none.
LEMMA ReadReceives ==
    ASSUME TInv, LinkInv, NEW s \in Streams, Live(s), WindowOf(s), NEW t \in Streams, Read(t)
    PROVE  Receives(s)
<1>1. /\ UNCHANGED recvVars \/ (incoming[t] # <<>> /\ Take(t, incoming[t]))
      /\ UNCHANGED <<devVars, outq, inq>>
  BY DEF Read, HasChunk, wireVars
<1>2. OutSame(s, "OKAY") /\ InSame(s, "WRTE") /\ devWindow'[s] = devWindow[s]
  BY <1>1 DEF OutSame, InSame, devVars
<1>3. CASE UNCHANGED recvVars
  BY <1>2, <1>3, NothingReceived DEF recvVars, Receives
<1>4. CASE incoming[t] # <<>> /\ Take(t, incoming[t])
  <2>1. CASE s # t
    <3>1. incoming'[s] = incoming[s] /\ pendingAck'[s] = pendingAck[s]
      BY <1>4, <2>1 DEF Take, Owe, TInv, TypeOK
    <3>2. QED
      BY <1>2, <3>1, NothingReceived DEF Receives
  <2>2. CASE s = t
    <3>1. PICK buf \in Seq(Nat) : buf = incoming[s]
      BY WindowTypes
    <3>2. buf # <<>> /\ Take(s, buf)
      BY <1>4, <2>2, <3>1
    <3>3. Head(buf) > 0
      <4>1. \A i \in 1..Len(buf) : buf[i] > 0
        BY <3>1 DEF LinkInv, LinkOf, Sizes
      <4>2. 1 \in 1..Len(buf) /\ Head(buf) = buf[1]
        BY <3>2
      <4>3. QED
        BY <4>1, <4>2
    <3>4. /\ Amount(inq, s, "WRTE")' = Amount(inq, s, "WRTE")
      BY <1>2, SameAmounts DEF Kinds
    <3>5. /\ Amount(inq, s, "WRTE")' \in Nat
          /\ Amount(inq, s, "WRTE")' + Buffered(buf) = Unseen(s)
      BY <3>1, <3>4, WindowTypes DEF Unseen
    <3>6. QED
      BY <1>2, <3>2, <3>3, <3>5, TakeReads DEF Receives
  <2>3. QED
    BY <2>1, <2>2
<1>5. QED
  BY <1>1, <1>3, <1>4

\* A stream in use is in the map: no chunk of it is dropped.
LEMMA LiveListed ==
    ASSUME TInv, CloseInv, LinkInv, NEW s \in Streams, Live(s) PROVE s \in streams
<1>1. sock[s] = "open" /\ ~closed[s]
  BY DEF Live
<1>2. opened[s] # "no"
  BY <1>1 DEF CloseInv, Known, Unheard
<1>3. opened[s] # "rejected"
  BY <1>1 DEF LinkInv, LinkOf, Rejected
<1>4. QED
  BY <1>1, <1>2, <1>3 DEF CloseInv, Known, Shut

\* A chunk arrives, and may be handed to a waiting reader at once.
LEMMA HandleWriteReceives ==
    ASSUME TInv, CloseInv, LinkInv, NEW s \in Streams, Live(s), WindowOf(s), HandleWrite
    PROVE  Receives(s)
<1>0. PICK p, t, n : p = Head(inq) /\ t = p.s /\ n = p.len
  OBVIOUS
<1>1. /\ t \in Streams /\ inq # <<>> /\ inq' = Tail(inq) /\ p \in On(inq) /\ p.cmd = "WRTE"
  BY <1>0, HeardAccepted DEF HandleWrite, Kinds
<1>2. /\ UNCHANGED <<devVars, outq>>
      /\ \/ t \notin streams /\ UNCHANGED recvVars
         \/ incoming' = [incoming EXCEPT ![t] = Append(incoming[t], n)] /\ UNCHANGED pendingAck
         \/ Take(t, Append(incoming[t], n))
  BY <1>0 DEF HandleWrite
<1>3. n \in Nat /\ n > 0
  BY <1>0, <1>1, OnTypes, DevicePacketFields DEF LinkInv, DeviceSays
<1>4. OutSame(s, "OKAY") /\ devWindow'[s] = devWindow[s]
  BY <1>2 DEF OutSame, devVars
<1>5. incoming \in [Streams -> Seq(Nat)] /\ pendingAck \in [Streams -> Nat]
  BY DEF TInv, TypeOK
<1>6. CASE s # t
  <2>1. incoming'[s] = incoming[s] /\ pendingAck'[s] = pendingAck[s]
    BY <1>2, <1>5, <1>6 DEF Take, Owe, recvVars
  <2>2. InSame(s, "WRTE")
    BY <1>0, <1>1, <1>6, NoShare DEF InSame
  <2>3. QED
    BY <1>4, <2>1, <2>2, NothingReceived DEF Receives
<1>7. CASE s = t
  <2>1. t \in streams
    BY <1>7, LiveListed
  <2>2. Share(p, s, "WRTE") = Unit(n)
    BY <1>0, <1>1, <1>7 DEF Share
  <2>3. /\ Amount(inq, s, "WRTE") = Unit(n) + Amount(inq, s, "WRTE")'
        /\ Unit(n) \in Nat /\ Amount(inq, s, "WRTE")' \in Nat
    BY <1>0, <1>1, <2>2, InAmount DEF Kinds
  <2>4. PICK buf : buf = Append(incoming[s], n)
    OBVIOUS
  <2>5. buf \in Seq(Nat) /\ buf # <<>> /\ Buffered(buf) = Buffered(incoming[s]) + Unit(n)
    BY <1>3, <2>4, WindowTypes, AppendType, BufferedAppend
  <2>6. Amount(inq, s, "WRTE")' + Buffered(buf) = Unseen(s)
    BY <2>3, <2>5, WindowTypes DEF Unseen
  <2>7. CASE incoming' = [incoming EXCEPT ![t] = Append(incoming[t], n)] /\ UNCHANGED pendingAck
    <3>1. incoming'[s] = buf
      BY <1>5, <1>7, <2>4, <2>7
    <3>2. Buffered(incoming[s])' = Buffered(incoming'[s])
      BY DEF Buffered, Total, Unit
    <3>3. Unseen(s)' = Unseen(s)
      BY <2>6, <3>1, <3>2 DEF Unseen
    <3>4. Amount(outq, s, "OKAY")' = Amount(outq, s, "OKAY")
      BY <1>4, SameAmounts DEF Kinds
    <3>5. Pending(s)' = Pending(s)
      BY <2>7 DEF Pending
    <3>6. QED
      BY <1>4, <3>3, <3>4, <3>5 DEF Receives, Rests, Owing
  <2>8. CASE Take(t, Append(incoming[t], n))
    <3>1. Take(s, buf)
      BY <1>7, <2>4, <2>8
    <3>2. Head(buf) > 0
      <4>1. PICK b \in Seq(Nat) : b = incoming[s]
        BY WindowTypes
      <4>2. \A i \in 1..Len(b) : b[i] > 0
        BY <4>1 DEF LinkInv, LinkOf, Sizes
      <4>3. Head(Append(b, n)) = IF b = <<>> THEN n ELSE b[1]
        <5>1. CASE b = <<>>
          BY <1>3, <5>1
        <5>2. CASE b # <<>>
          BY <1>3, <4>1, <5>2
        <5>3. QED
          BY <5>1, <5>2
      <4>4. b # <<>> => 1 \in 1..Len(b)
        BY <4>1
      <4>5. QED
        BY <1>3, <2>4, <4>1, <4>2, <4>3, <4>4
    <3>3. QED
      BY <1>4, <2>3, <2>5, <2>6, <3>1, <3>2, TakeReads DEF Receives
  <2>9. QED
    BY <1>2, <2>1, <2>7, <2>8
<1>8. QED
  BY <1>6, <1>7

\* An acknowledgement that is due leaves for adbd; it stays owed.
LEMMA FlushAckReceives ==
    ASSUME TInv, NEW s \in Streams, NEW t \in Streams, FlushAck(t) PROVE Rests(s)
<1>1. /\ UNCHANGED <<incoming, devVars, inq>>
      /\ \/ UNCHANGED <<pendingAck, outq>>
         \/ /\ pendingAck[t] # 0 /\ pendingAck' = [pendingAck EXCEPT ![t] = 0]
            /\ Send(OkayPacket(t, pendingAck[t]))
  BY DEF FlushAck, AckDue, ResetPending
<1>2. InSame(s, "WRTE") /\ devWindow'[s] = devWindow[s] /\ incoming'[s] = incoming[s]
  BY <1>1 DEF InSame, devVars
<1>3. CASE UNCHANGED <<pendingAck, outq>>
  <2>1. OutSame(s, "OKAY")
    BY <1>3 DEF OutSame
  <2>2. QED
    BY <1>2, <1>3, <2>1, NothingReceived
<1>4. CASE /\ pendingAck[t] # 0 /\ pendingAck' = [pendingAck EXCEPT ![t] = 0]
           /\ Send(OkayPacket(t, pendingAck[t]))
  <2>1. PICK k \in Nat \ {0} : k = pendingAck[t]
    BY <1>4 DEF TInv, TypeOK
  <2>2. PICK p \in HostPackets : p = OkayPacket(t, k)
    BY OkayPacketType
  <2>3. p.cmd = "OKAY" /\ p.s = t /\ p.len = (IF DelayedAck THEN k ELSE Bare) /\ Send(p)
    BY <1>4, <2>1, <2>2 DEF OkayPacket
  <2>4. CASE s # t
    <3>1. OutSame(s, "OKAY")
      BY <2>3, <2>4, NoShare DEF OutSame
    <3>2. pendingAck'[s] = pendingAck[s]
      BY <1>4, <2>4 DEF TInv, TypeOK
    <3>3. QED
      BY <1>2, <3>1, <3>2, NothingReceived
  <2>5. CASE s = t
    <3>1. Pending(s)' = 0 /\ Pending(s) = IF DelayedAck THEN k ELSE 1
      BY <1>4, <2>1, <2>5 DEF Pending, TInv, TypeOK
    <3>2. DelayedAck \in BOOLEAN /\ k # Bare
      BY WindowConstants DEF Bare
    <3>3. Share(p, s, "OKAY") = IF DelayedAck THEN k ELSE 1
      BY <2>3, <2>5, <3>2 DEF Share, Unit
    <3>4. Amount(outq, s, "OKAY")' = Amount(outq, s, "OKAY") + Share(p, s, "OKAY")
      BY <2>3, OutAmount DEF Kinds
    <3>5. Owing(s)' = Owing(s)
      <4>1. PICK a \in Nat, b \in Nat : a = Amount(outq, s, "OKAY") /\ b = Pending(s)
        BY WindowTypes
      <4>2. Amount(outq, s, "OKAY")' = a + b /\ Pending(s)' = 0
        BY <3>1, <3>3, <3>4, <4>1
      <4>3. 0 + (a + b) = b + a
        OBVIOUS
      <4>4. QED
        BY <4>1, <4>2, <4>3 DEF Owing
    <3>6. Unseen(s)' = Unseen(s)
      <4>1. Buffered(incoming[s])' = Buffered(incoming[s])
        BY <1>2 DEF Buffered, Total, Unit
      <4>2. QED
        BY <1>2, <4>1, SameAmounts DEF Unseen, Kinds
    <3>7. QED
      BY <1>2, <3>5, <3>6 DEF Rests
  <2>6. QED
    BY <2>4, <2>5
<1>5. QED
  BY <1>1, <1>3, <1>4

\* A transfer that fails loses no acknowledgement of a stream that stays open.
LEMMA WriteFailsReceives ==
    ASSUME TInv, NEW s \in Streams, Live(s)', WriteFails PROVE Rests(s)
<1>0. PICK p : p = Head(outq)
  OBVIOUS
<1>1. /\ outq # <<>> /\ outq' = Tail(outq) /\ UNCHANGED <<recvVars, devVars, inq>>
      /\ p.cmd = "OKAY" => OnClose({p.s}, TRUE)
  BY <1>0 DEF WriteFails
<1>2. p \in HostPackets
  BY <1>0, <1>1, HeadTailType DEF TInv, TypeOK
<1>3. p.cmd = "OKAY" => closed'[p.s]
  <2>1. {p.s} \in SUBSET Streams /\ p.s \in {p.s} /\ p.s \in Streams
    BY <1>2, HostPacketFields
  <2>2. QED
    BY <1>1, <2>1, ClosedStays
<1>4. Share(p, s, "OKAY") = 0
  BY <1>3, NoShare DEF Live
<1>5. OutSame(s, "OKAY") /\ InSame(s, "WRTE")
  BY <1>0, <1>1, <1>4 DEF OutSame, InSame
<1>6. QED
  BY <1>1, <1>5, NothingReceived DEF recvVars, devVars

\* adbd takes a packet: an A_OKAY pays what it acknowledges back.
LEMMA TransferReceives ==
    ASSUME TInv, LinkInv, NEW s \in Streams, Live(s), WindowOf(s),
           DevReceiveWrite \/ DevReceiveOkay \/ DevReceiveClose
    PROVE  Receives(s)
<1>0. PICK p, t : p = Head(outq) /\ t = p.s
  OBVIOUS
<1>1. outq # <<>> /\ outq' = Tail(outq) /\ UNCHANGED recvVars
  BY DEF DevReceiveWrite, DevReceiveOkay, DevReceiveClose, Transfer, hostVars
<1>2. p \in HostPackets /\ t \in Streams /\ p \in On(outq)
  <2>1. outq \in Seq(HostPackets)
    BY DEF TInv, TypeOK
  <2>2. p \in HostPackets /\ p \in On(outq)
    BY <1>0, <1>1, <2>1, HeadTailType, OnTail
  <2>3. QED
    BY <1>0, <2>2, HostPacketFields
<1>3. CASE DevReceiveWrite \/ DevReceiveClose
  <2>1. p.cmd \in {"WRTE", "CLSE"} /\ UNCHANGED devWindow
    BY <1>0, <1>3 DEF DevReceiveWrite, DevReceiveClose, Transfer
  <2>2. OutSame(s, "OKAY")
    BY <1>0, <1>1, <2>1, NoShare DEF OutSame
  <2>3. InSame(s, "WRTE")
    <3>1. PICK c : c = [cmd |-> "CLSE", s |-> t]
      OBVIOUS
    <3>2. UNCHANGED inq \/ Emit(c)
      BY <1>0, <1>3, <3>1 DEF DevReceiveWrite, DevReceiveClose
    <3>3. c \in DevicePackets /\ c.cmd = "CLSE"
      BY <1>2, <3>1, EmittedTypes
    <3>4. QED
      BY <3>2, <3>3, NoShare DEF InSame
  <2>4. QED
    BY <1>1, <2>1, <2>2, <2>3, NothingReceived DEF recvVars, Receives
<1>4. CASE DevReceiveOkay
  <2>1. /\ p.cmd = "OKAY" /\ UNCHANGED inq
        /\ devWindow' = [devWindow EXCEPT ![t] = IF DelayedAck THEN devWindow[t] + p.len ELSE 1]
    BY <1>0, <1>4 DEF DevReceiveOkay, Transfer
  <2>2. InSame(s, "WRTE")
    BY <2>1 DEF InSame
  <2>3. devWindow \in [Streams -> Int]
    BY DEF TInv, TypeOK
  <2>4. CASE s # t
    <3>1. OutSame(s, "OKAY")
      BY <1>0, <1>1, <2>4, NoShare DEF OutSame
    <3>2. devWindow'[s] = devWindow[s]
      BY <2>1, <2>3, <2>4
    <3>3. QED
      BY <1>1, <2>2, <3>1, <3>2, NothingReceived DEF recvVars, Receives
  <2>5. CASE s = t
    <3>1. p.len \in Nat \cup {Bare} /\ (DelayedAck <=> p.len # Bare)
      <4>1. p.len \in Nat \cup {Bare}
        BY <1>2, <2>1 DEF HostPackets
      <4>2. DelayedAck # (p.len = Bare)
        BY <1>2, <2>1 DEF LinkInv, HostSays
      <4>3. QED
        BY <4>1, <4>2, WindowConstants
    <3>2. PICK n \in Nat : n = IF DelayedAck THEN p.len ELSE 1
      BY <3>1
    <3>3. Share(p, s, "OKAY") = n
      BY <1>0, <2>1, <2>5, <3>1, <3>2, WindowConstants DEF Share, Unit
    <3>4. Amount(outq, s, "OKAY") = n + Amount(outq, s, "OKAY")' /\ Amount(outq, s, "OKAY")' \in Nat
      BY <1>0, <1>1, <3>3, OutAmount DEF Kinds
    <3>5. Pending(s)' = Pending(s)
      BY <1>1 DEF Pending, recvVars
    <3>6. n <= Owing(s) /\ Owing(s)' = Owing(s) - n
      BY <3>4, <3>5, WindowTypes DEF Owing
    <3>7. devWindow'[s] = devWindow[s] + n
      <4>1. CASE DelayedAck
        BY <1>2, <2>1, <2>3, <2>5, <3>2, <4>1
      <4>2. CASE ~DelayedAck
        <5>1. PICK W \in {0, 1}, U \in Nat, O \in Nat : W = devWindow[s] /\ U = Unseen(s) /\ O = Owing(s)
          BY <4>2, WindowTypes DEF WindowOf
        <5>2. W + U + O = 1 /\ O >= 1
          BY <3>2, <3>6, <4>2, <5>1 DEF WindowOf, Unit
        <5>3. W = 0
          BY <5>1, <5>2
        <5>4. devWindow'[s] = 1
          BY <1>2, <2>1, <2>3, <2>5, <4>2
        <5>5. QED
          BY <3>2, <4>2, <5>1, <5>3, <5>4
      <4>3. QED
        BY <4>1, <4>2
    <3>8. Unseen(s)' = Unseen(s)
      <4>1. Buffered(incoming[s])' = Buffered(incoming[s])
        BY <1>1 DEF Buffered, Total, Unit, recvVars
      <4>2. QED
        BY <2>2, <4>1, SameAmounts DEF Unseen, Kinds
    <3>9. QED
      BY <3>6, <3>7, <3>8 DEF Receives, Returns
  <2>6. QED
    BY <2>4, <2>5
<1>5. QED
  BY <1>3, <1>4

\* adbd accepts a stream: its window is all it has.
LEMMA DevOpenReceives ==
    ASSUME TInv, CloseInv, LinkInv, NEW s \in Streams, DevOpen
    PROVE  /\ Live(s) => Rests(s)
           /\ ~Live(s) /\ Live(s)' => Accepts(s)
<1>0. PICK p, t : p = Head(outq) /\ t = p.s
  OBVIOUS
<1>1. /\ outq # <<>> /\ outq' = Tail(outq) /\ p.cmd = "OPEN" /\ UNCHANGED <<recvVars, closed, linkUp>>
  BY <1>0 DEF DevOpen, Transfer, hostVars, onCloseVars
<1>2. p \in HostPackets /\ t \in Streams /\ p \in On(outq)
  <2>1. outq \in Seq(HostPackets)
    BY DEF TInv, TypeOK
  <2>2. p \in HostPackets /\ p \in On(outq)
    BY <1>0, <1>1, <2>1, HeadTailType, OnTail
  <2>3. QED
    BY <1>0, <2>2, HostPacketFields
<1>3. /\ sock[t] = "none" /\ opened[t] # "resolved"
      /\ \A x \in On(inq) : x.cmd # "BAD" => x.s # t
  BY <1>0, <1>1, <1>2 DEF CloseInv, Queue, Queued, Unheard
<1>4. OutSame(s, "OKAY")
  BY <1>0, <1>1, NoShare DEF OutSame
<1>5. InSame(s, "WRTE")
  <2>1. PICK n \in Nat \cup {Bare} : n = IF DelayedAck THEN Credit ELSE Bare
    BY ConstantsOK DEF Constants
  <2>2. PICK a, c : a = [cmd |-> "OKAY", s |-> t, len |-> n] /\ c = [cmd |-> "CLSE", s |-> t]
    OBVIOUS
  <2>3. Emit(a) \/ Emit(c)
    BY <1>0, <2>1, <2>2 DEF DevOpen
  <2>4. a \in DevicePackets /\ a.cmd = "OKAY" /\ c \in DevicePackets /\ c.cmd = "CLSE"
    BY <1>2, <2>2, EmittedTypes
  <2>5. QED
    BY <2>3, <2>4, NoShare DEF InSame
<1>6. devWindow \in [Streams -> Int] /\ sock \in [Streams -> {"none", "open", "closed"}]
  BY DEF TInv, TypeOK
<1>7. CASE s # t
  <2>1. devWindow'[s] = devWindow[s] /\ sock'[s] = sock[s]
    BY <1>0, <1>6, <1>7 DEF DevOpen
  <2>2. Rests(s)
    BY <1>1, <1>4, <1>5, <2>1, NothingReceived DEF recvVars
  <2>3. Live(s)' => Live(s)
    BY <1>1, <2>1 DEF Live
  <2>4. QED
    BY <2>2, <2>3
<1>8. CASE s = t
  <2>1. ~Live(s)
    BY <1>3, <1>8 DEF Live
  <2>2. SUFFICES ASSUME Live(s)' PROVE Accepts(s)
    BY <2>1
  <2>3. sock'[s] = "open"
    BY <2>2 DEF Live
  <2>4. devWindow'[s] = IF DelayedAck THEN p.len ELSE 1
    BY <1>0, <1>2, <1>3, <1>6, <1>8, <2>3 DEF DevOpen
  <2>5. DelayedAck => p.len = RecvWindow
    BY <1>1, <1>2 DEF LinkInv, HostSays
  <2>6. devWindow'[s] = Unit(RecvWindow)
    BY <2>4, <2>5 DEF Unit
  <2>7. Unseen(s)' = 0
    <3>1. incoming[s] = <<>> /\ \A x \in On(inq) : x.cmd = "WRTE" => x.s # s
      BY <1>3, <1>8 DEF LinkInv, LinkOf, Told
    <3>2. Amount(inq, s, "WRTE") = 0
      <4>1. inq \in Seq(Packets)
        BY DEF TInv, TypeOK, Packets
      <4>2. QED
        BY <3>1, <4>1, AmountNone DEF Kinds
    <3>3. Amount(inq, s, "WRTE")' = 0
      BY <1>5, <3>2, SameAmounts DEF Kinds
    <3>4. Buffered(incoming[s])' = Buffered(incoming[s])
      BY <1>1 DEF Buffered, Total, Unit, recvVars
    <3>5. QED
      BY <3>1, <3>3, <3>4, BufferedEmpty DEF Unseen
  <2>8. Owing(s)' = 0
    <3>1. pendingAck[s] = 0
      BY <1>3, <1>8 DEF CloseInv, Known
    <3>2. \A x \in On(outq) : x.cmd = "OKAY" => x.s # s
      BY <1>3, <1>8 DEF LinkInv, HostSays
    <3>3. Amount(outq, s, "OKAY") = 0
      <4>1. outq \in Seq(Packets)
        BY DEF TInv, TypeOK, Packets
      <4>2. QED
        BY <3>2, <4>1, AmountNone DEF Kinds
    <3>4. Amount(outq, s, "OKAY")' = 0
      BY <1>4, <3>3, SameAmounts DEF Kinds
    <3>5. Pending(s)' = 0
      BY <1>1, <3>1 DEF Pending, recvVars
    <3>6. QED
      BY <3>4, <3>5 DEF Owing
  <2>9. QED
    BY <2>6, <2>7, <2>8 DEF Accepts
<1>9. QED
  BY <1>7, <1>8

\* adbd writes, and spends what it writes; it consumes, closes, misbehaves.
LEMMA DeviceReceives ==
    ASSUME TInv, NEW s \in Streams, Live(s), WindowOf(s), NEW t \in Streams,
           DevWrite(t) \/ DevClose(t) \/ DevMisbehave(t) \/ DevConsume(t)
    PROVE  Receives(s)
<1>1. UNCHANGED <<recvVars, outq>>
  BY DEF DevWrite, DevClose, DevMisbehave, DevConsume, hostVars
<1>2. OutSame(s, "OKAY")
  BY <1>1 DEF OutSame
<1>3. devWindow \in [Streams -> Int] /\ devBuf \in [Streams -> Seq(Nat)]
  BY DEF TInv, TypeOK
<1>4. CASE UNCHANGED devWindow /\ \E p \in DevicePackets : Emit(p) /\ p.cmd # "WRTE"
  <2>1. InSame(s, "WRTE")
    BY <1>4, NoShare DEF InSame
  <2>2. QED
    BY <1>1, <1>2, <1>4, <2>1, NothingReceived DEF recvVars, Receives
<1>5. CASE DevClose(t) \/ DevMisbehave(t) \/ DevConsume(t)
  <2>1. UNCHANGED devWindow
    BY <1>5 DEF DevClose, DevMisbehave, DevConsume
  <2>2. ASSUME NEW n \in Nat \cup {Bare}, Emit([cmd |-> "OKAY", s |-> t, len |-> n])
        PROVE  \E p \in DevicePackets : Emit(p) /\ p.cmd # "WRTE"
    <3>1. PICK p : p = [cmd |-> "OKAY", s |-> t, len |-> n]
      OBVIOUS
    <3>2. p \in DevicePackets /\ p.cmd = "OKAY"
      BY <3>1, EmittedTypes
    <3>3. QED
      BY <2>2, <3>1, <3>2
  <2>3. CASE DevClose(t) \/ Emit([cmd |-> "BAD"])
    <3>1. PICK p, b : p = [cmd |-> "CLSE", s |-> t] /\ b = [cmd |-> "BAD"]
      OBVIOUS
    <3>2. p \in DevicePackets /\ p.cmd = "CLSE" /\ b \in DevicePackets /\ b.cmd = "BAD"
      BY <3>1, EmittedTypes
    <3>3. Emit(p) \/ Emit(b)
      BY <2>3, <3>1 DEF DevClose
    <3>4. QED
      BY <1>4, <2>1, <3>2, <3>3
  <2>4. CASE DevMisbehave(t)
    <3>1. PICK n \in Nat \cup {Bare} : n = IF DelayedAck THEN Bare ELSE 1
      OBVIOUS
    <3>2. Emit([cmd |-> "OKAY", s |-> t, len |-> n]) \/ Emit([cmd |-> "BAD"])
      BY <2>4, <3>1 DEF DevMisbehave
    <3>3. QED
      BY <1>4, <2>1, <2>2, <2>3, <3>2
  <2>5. CASE DevConsume(t)
    <3>1. devBuf[t] # <<>> /\ devBuf[t] \in Seq(Nat)
      BY <1>3, <2>5 DEF DevConsume
    <3>2. PICK h \in Nat : h = Head(devBuf[t])
      BY <3>1, HeadTailType
    <3>3. PICK n \in Nat \cup {Bare} : n = IF DelayedAck THEN h ELSE Bare
      OBVIOUS
    <3>4. Emit([cmd |-> "OKAY", s |-> t, len |-> n])
      BY <2>5, <3>2, <3>3 DEF DevConsume
    <3>5. QED
      BY <1>4, <2>1, <2>2, <3>4
  <2>6. QED
    BY <1>5, <2>3, <2>4, <2>5
<1>6. CASE DevWrite(t)
  <2>1. PICK n \in DevSizes :
            /\ devWindow[t] > 0
            /\ devWindow' = [devWindow EXCEPT ![t] = IF DelayedAck THEN devWindow[t] - n ELSE 0]
            /\ Emit([cmd |-> "WRTE", s |-> t, len |-> n])
    BY <1>6 DEF DevWrite
  <2>2. PICK p : p = [cmd |-> "WRTE", s |-> t, len |-> n]
    OBVIOUS
  <2>3. n \in Nat /\ n # 0 /\ n <= MaxDevChunk /\ MaxDevChunk \in Nat \ {0}
    BY WindowConstants
  <2>4. p \in DevicePackets /\ p.cmd = "WRTE" /\ p.s = t /\ p.len = n /\ Emit(p)
    BY <2>1, <2>2, <2>3, EmittedTypes
  <2>5. CASE s # t
    <3>1. InSame(s, "WRTE")
      BY <2>4, <2>5, NoShare DEF InSame
    <3>2. devWindow'[s] = devWindow[s]
      BY <1>3, <2>1, <2>5
    <3>3. QED
      BY <1>1, <1>2, <3>1, <3>2, NothingReceived DEF recvVars, Receives
  <2>6. CASE s = t
    <3>1. PICK u \in 1..Unit(MaxDevChunk) : u = Unit(n)
      BY <2>3 DEF Unit
    <3>2. Share(p, s, "WRTE") = u
      BY <2>4, <2>6, <3>1 DEF Share
    <3>3. Amount(inq, s, "WRTE")' = Amount(inq, s, "WRTE") + u
      BY <2>4, <3>2, InAmount DEF Kinds
    <3>4. Buffered(incoming[s])' = Buffered(incoming[s])
      BY <1>1 DEF Buffered, Total, Unit, recvVars
    <3>5. Unseen(s)' = Unseen(s) + u
      <4>1. PICK a \in Nat, b \in Nat : a = Amount(inq, s, "WRTE") /\ b = Buffered(incoming[s])
        BY WindowTypes
      <4>2. u \in Int
        BY <2>3, <3>1 DEF Unit
      <4>3. (a + u) + b = (a + b) + u
        BY <4>2
      <4>4. QED
        BY <3>3, <3>4, <4>1, <4>3 DEF Unseen
    <3>6. devWindow'[s] = devWindow[s] - u
      <4>1. CASE DelayedAck
        BY <1>3, <2>1, <2>6, <3>1, <4>1 DEF Unit
      <4>2. CASE ~DelayedAck
        <5>1. devWindow[s] = 1
          BY <2>1, <2>6, <4>2 DEF WindowOf
        <5>2. devWindow'[s] = 0 /\ u = 1
          BY <1>3, <2>1, <2>6, <3>1, <4>2 DEF Unit
        <5>3. QED
          BY <5>1, <5>2
      <4>3. QED
        BY <4>1, <4>2
    <3>7. Owing(s)' = Owing(s)
      BY <1>1, <1>2, SameAmounts DEF Owing, Pending, recvVars, Kinds
    <3>8. Writes(s, u)
      BY <2>1, <2>6, <3>5, <3>6, <3>7 DEF Writes
    <3>9. QED
      BY <3>8 DEF Receives
  <2>7. QED
    BY <2>5, <2>6
<1>7. QED
  BY <1>5, <1>6

\* While a stream is open every step receives, reads, acknowledges or does
\* none of it; the step that opens it fills the window.
LEMMA NextReceives ==
    ASSUME TInv, CloseInv, LinkInv, [Next]_vars, NEW s \in Streams, WindowOf(s), Live(s)'
    PROVE  IF Live(s) THEN Receives(s) ELSE Accepts(s)
<1>1. CASE DevOpen
  BY <1>1, DevOpenReceives DEF Receives
<1>2. CASE ~DevOpen
  <2>1. sock \in [Streams -> {"none", "open", "closed"}]
    BY DEF TInv, TypeOK
  <2>2. UNCHANGED sock \/ \E t : sock' = [sock EXCEPT ![t] = "closed"]
    BY <1>2 DEF Next, HostStep, AppStep, DevTransfer, EnvStep, Resume, FlushAck, HandleOkay, HandleWrite,
       HandleClose, FailConnection, WriteDone, WriteFailsUnplugged, WriteStalls, WriteFails, Write, Open,
       Read, Close, CloseConnection, DevReceiveWrite, DevReceiveOkay, DevReceiveClose, Unplug,
       DevWrite, DevClose, DevMisbehave, DevConsume, vars, devVars
  <2>3. sock[s] = "open"
    BY <2>1, <2>2 DEF Live
  <2>4. Live(s)
    BY <2>3, Onward DEF Live
  <2>5. CASE AppStep
    <3>1. ~CloseConnection
      BY DEF CloseConnection, Live
    <3>2. QED
      BY <2>4, <2>5, <3>1, IdleReceives, ReadReceives DEF AppStep, Receives
  <2>6. CASE HostStep
    BY <2>4, <2>6, IdleReceives, FlushAckReceives, HandleWriteReceives, WriteFailsReceives
       DEF HostStep, WriteFailsUnplugged, Receives
  <2>7. CASE DevTransfer
    BY <1>2, <2>4, <2>7, TransferReceives DEF DevTransfer
  <2>8. CASE EnvStep \/ \E t \in Streams : DevConsume(t)
    <3>1. ~Unplug
      BY DEF Unplug, Live
    <3>2. QED
      BY <2>4, <2>8, <3>1, WriteFailsReceives, DeviceReceives DEF EnvStep, WriteStalls, Receives
  <2>9. CASE UNCHANGED vars
    <3>1. UNCHANGED <<recvVars, devVars, outq, inq>>
      BY <2>9 DEF vars, wireVars
    <3>2. OutSame(s, "OKAY") /\ InSame(s, "WRTE")
      BY <3>1 DEF OutSame, InSame
    <3>3. QED
      BY <2>4, <3>1, <3>2, NothingReceived DEF recvVars, devVars, Receives
  <2>10. QED
    BY <2>4, <2>5, <2>6, <2>7, <2>8, <2>9 DEF Next
<1>3. QED
  BY <1>1, <1>2

\* No step creates or loses a unit of the window of a stream that stays open.
LEMMA NextWindow ==
    TInv /\ TInv' /\ CloseInv /\ LinkInv /\ WindowOf(Stream) /\ [Next]_vars => WindowOf(Stream)'
<1> DEFINE s == Stream
<1>1. SUFFICES ASSUME TInv, TInv', CloseInv, LinkInv, WindowOf(s), [Next]_vars, Live(s)'
               PROVE  /\ devWindow'[s] + Unseen(s)' + Owing(s)' = Unit(RecvWindow)
                      /\ devWindow'[s] > -Unit(MaxDevChunk)
                      /\ ~DelayedAck => devWindow'[s] \in {0, 1}
  BY DEF WindowOf, Unit
<1> HIDE DEF s
<1>2. s \in Streams
  BY StreamAssumption DEF s
<1>3. PICK g, m \in Nat \ {0} : g = Unit(RecvWindow) /\ m = Unit(MaxDevChunk) /\ (~DelayedAck => g = 1)
  BY WindowConstants DEF Unit
<1>4. CASE ~Live(s)
  <2>1. Accepts(s)
    BY <1>1, <1>2, <1>4, NextReceives
  <2>2. devWindow'[s] = g /\ Unseen(s)' = 0 /\ Owing(s)' = 0
    BY <1>3, <2>1 DEF Accepts
  <2>3. QED
    BY <1>3, <2>2
<1>5. CASE Live(s)
  <2>1. PICK W \in Int, U \in Nat, O \in Nat : W = devWindow[s] /\ U = Unseen(s) /\ O = Owing(s)
    BY <1>1, <1>2, WindowTypes
  <2>2. W + U + O = g /\ W > -m /\ (~DelayedAck => W \in {0, 1})
    BY <1>1, <1>3, <1>5, <2>1 DEF WindowOf
  <2>3. PICK Wn, Un, On1 : Wn = devWindow'[s] /\ Un = Unseen(s)' /\ On1 = Owing(s)'
    OBVIOUS
  <2>4. SUFFICES Wn + Un + On1 = g /\ Wn > -m /\ (~DelayedAck => Wn \in {0, 1})
    BY <1>3, <2>3
  <2>5. Receives(s)
    BY <1>1, <1>2, <1>5, NextReceives
  <2>6. CASE Rests(s)
    BY <2>1, <2>2, <2>3, <2>6 DEF Rests
  <2>7. ASSUME NEW n \in 1..Unit(MaxDevChunk), Writes(s, n)
        PROVE  Wn + Un + On1 = g /\ Wn > -m /\ (~DelayedAck => Wn \in {0, 1})
    <3>1. W > 0 /\ Wn = W - n /\ Un = U + n /\ On1 = O
      BY <2>1, <2>3, <2>7 DEF Writes
    <3>2. n \in 1..m /\ (~DelayedAck => n = 1)
      <4>1. n \in 1..m
        BY <1>3
      <4>2. ~DelayedAck => Unit(MaxDevChunk) = 1
        BY DEF Unit
      <4>3. ~DelayedAck => n = 1
        BY <4>2
      <4>4. QED
        BY <4>1, <4>3
    <3>3. QED
      BY <1>3, <2>2, <3>1, <3>2
  <2>8. ASSUME NEW n \in Nat, Reads(s, n) \/ Returns(s, n)
        PROVE  Wn + Un + On1 = g /\ Wn > -m /\ (~DelayedAck => Wn \in {0, 1})
    <3>1. CASE Reads(s, n)
      <4>1. Wn = W /\ Un = U - n /\ On1 = O + n
        BY <2>1, <2>3, <3>1 DEF Reads
      <4>2. QED
        BY <2>2, <4>1
    <3>2. CASE Returns(s, n)
      <4>1. n <= O /\ Wn = W + n /\ Un = U /\ On1 = O - n
        BY <2>1, <2>3, <3>2 DEF Returns
      <4>2. ~DelayedAck => W + n \in {0, 1}
        BY <1>3, <2>2, <4>1
      <4>3. QED
        BY <1>3, <2>2, <4>1, <4>2
    <3>3. QED
      BY <2>8, <3>1, <3>2
  <2>9. QED
    BY <2>5, <2>6, <2>7, <2>8 DEF Receives
<1>6. QED
  BY <1>4, <1>5

\* Before it is accepted a stream has no window.
LEMMA ReceiverInit == Init => WindowOf(Stream) /\ ToHost!Init
<1> SUFFICES ASSUME Init PROVE WindowOf(Stream) /\ ToHost!Init
  OBVIOUS
<1>1. sock[Stream] = "none" /\ ~closed[Stream] /\ linkUp
  BY StreamAssumption DEF Init
<1>2. QED
  BY <1>1 DEF ToHost!Init, Phase, WhileRunning, Running, WindowOf, Live

\* A step of the program is a step of FlowControl for the stream, or none.
LEMMA ReceiverStep ==
    TInv /\ TInv' /\ CloseInv /\ LinkInv /\ WindowOf(Stream) /\ [Next]_vars
      => [ToHost!Next]_(ToHost!fvars)
<1> DEFINE s == Stream
<1>1. SUFFICES ASSUME TInv, TInv', CloseInv, LinkInv, WindowOf(s), [Next]_vars
               PROVE  [ToHost!Next]_(ToHost!fvars)
  OBVIOUS
<1>2. s \in Streams
  BY StreamAssumption
<1>3. Live(s)' => IF Live(s) THEN Receives(s) ELSE Accepts(s)
  BY <1>1, <1>2, NextReceives
<1>4. PICK W \in Int, U \in Nat, O \in Nat : W = devWindow[s] /\ U = Unseen(s) /\ O = Owing(s)
  BY <1>1, <1>2, WindowTypes
<1>5. PICK g, m \in Nat \ {0} : g = Unit(RecvWindow) /\ m = Unit(MaxDevChunk)
  BY WindowConstants DEF Unit
<1>6. PICK Wn, Un, Ow : Wn = devWindow'[s] /\ Un = Unseen(s)' /\ Ow = Owing(s)'
  OBVIOUS
<1> DEFINE permit == WhileRunning(s, devWindow[s])
           unread == WhileRunning(s, Amount(inq, s, "WRTE") + Buffered(incoming[s]))
           owed   == WhileRunning(s, Pending(s) + Amount(outq, s, "OKAY"))
<1>7. /\ permit = (IF Live(s) THEN W ELSE 0) /\ permit' = (IF Live(s)' THEN Wn ELSE 0)
      /\ unread = (IF Live(s) THEN U ELSE 0) /\ unread' = (IF Live(s)' THEN Un ELSE 0)
      /\ owed = (IF Live(s) THEN O ELSE 0) /\ owed' = (IF Live(s)' THEN Ow ELSE 0)
  BY <1>2, <1>4, <1>6, Phases DEF WhileRunning, Unseen, Owing
<1>8. CASE Live(s) /\ Live(s)'
  <2>1. Phase(s) = "open" /\ Phase(s)' = "open"
    BY <1>1, <1>2, <1>8, PhaseSteps
  <2>2. permit = W /\ unread = U /\ owed = O /\ permit' = Wn /\ unread' = Un /\ owed' = Ow
    BY <1>7, <1>8
  <2>3. W + U + O = g /\ W > -m
    BY <1>1, <1>4, <1>5, <1>8 DEF WindowOf
  <2>4. U < g + m /\ O < g + m
    BY <1>5, <2>3
  <2> HIDE DEF permit, unread, owed
  <2>5. CASE Wn = W /\ Un = U /\ Ow = O
    BY <2>1, <2>2, <2>5 DEF ToHost!fvars, permit, unread, owed
  <2>6. ASSUME NEW n \in 1..m, W > 0, Wn = W - n, Un = U + n, Ow = O PROVE ToHost!Next
    <3>1. ToHost!SendChunk(n)
      BY <2>1, <2>2, <2>6 DEF ToHost!SendChunk, permit, unread, owed
    <3>2. QED
      BY <1>5, <3>1 DEF ToHost!Next
  <2>7. ASSUME NEW n \in Nat \ {0}, n <= U, Wn = W, Un = U - n, Ow = O + n PROVE ToHost!Next
    <3>1. ToHost!Consume(n)
      BY <2>1, <2>2, <2>7 DEF ToHost!Consume, permit, unread, owed
    <3>2. n \in 1..(g + m)
      BY <1>5, <2>4, <2>7
    <3>3. QED
      BY <1>5, <3>1, <3>2 DEF ToHost!Next
  <2>8. ASSUME NEW n \in Nat \ {0}, n <= O, Wn = W + n, Un = U, Ow = O - n PROVE ToHost!Next
    <3>1. ToHost!Acknowledge(n)
      BY <2>1, <2>2, <2>8 DEF ToHost!Acknowledge, permit, unread, owed
    <3>2. n \in 1..(g + m)
      BY <1>5, <2>4, <2>8
    <3>3. QED
      BY <1>5, <3>1, <3>2 DEF ToHost!Next
  <2>9. \/ Wn = W /\ Un = U /\ Ow = O
        \/ \E n \in 1..m : W > 0 /\ Wn = W - n /\ Un = U + n /\ Ow = O
        \/ \E n \in Nat \ {0} : n <= U /\ Wn = W /\ Un = U - n /\ Ow = O + n
        \/ \E n \in Nat \ {0} : n <= O /\ Wn = W + n /\ Un = U /\ Ow = O - n
    <3>1. Receives(s)
      BY <1>3, <1>8
    <3>2. CASE Rests(s)
      BY <1>4, <1>6, <3>2 DEF Rests
    <3>3. ASSUME NEW n \in 1..Unit(MaxDevChunk), Writes(s, n)
          PROVE  n \in 1..m /\ W > 0 /\ Wn = W - n /\ Un = U + n /\ Ow = O
      BY <1>4, <1>5, <1>6, <3>3 DEF Writes
    <3>4. ASSUME NEW n \in Nat, Reads(s, n)
          PROVE  n <= U /\ Wn = W /\ Un = U - n /\ Ow = O + n
      BY <1>4, <1>6, <3>4 DEF Reads
    <3>5. ASSUME NEW n \in Nat, Returns(s, n)
          PROVE  n <= O /\ Wn = W + n /\ Un = U /\ Ow = O - n
      BY <1>4, <1>6, <3>5 DEF Returns
    <3>6. W - 0 = W /\ W + 0 = W /\ U - 0 = U /\ O + 0 = O /\ O - 0 = O
      OBVIOUS
    <3>7. ASSUME NEW n \in Nat, Reads(s, n) \/ Returns(s, n)
          PROVE  \/ Wn = W /\ Un = U /\ Ow = O
                 \/ n # 0 /\ n <= U /\ Wn = W /\ Un = U - n /\ Ow = O + n
                 \/ n # 0 /\ n <= O /\ Wn = W + n /\ Un = U /\ Ow = O - n
      BY <3>4, <3>5, <3>6, <3>7
    <3>8. QED
      BY <3>1, <3>2, <3>3, <3>7 DEF Receives
  <2>10. QED
    BY <2>5, <2>6, <2>7, <2>8, <2>9
<1>9. CASE Live(s) /\ ~Live(s)'
  <2>1. Phase(s) = "open" /\ Phase(s)' = "closed"
    BY <1>1, <1>2, <1>9, PhaseSteps
  <2>2. ToHost!End
    BY <1>7, <1>9, <2>1 DEF ToHost!End
  <2>3. QED
    BY <2>2 DEF ToHost!Next
<1>10. CASE ~Live(s) /\ Live(s)'
  <2>1. Phase(s) = "idle" /\ Phase(s)' = "open"
    BY <1>1, <1>2, <1>10, PhaseSteps
  <2>2. Wn = g /\ Un = 0 /\ Ow = 0
    BY <1>3, <1>5, <1>6, <1>10 DEF Accepts
  <2>3. ToHost!Begin
    BY <1>5, <1>7, <1>10, <2>1, <2>2 DEF ToHost!Begin
  <2>4. QED
    BY <2>3 DEF ToHost!Next
<1>11. CASE ~Live(s) /\ ~Live(s)'
  <2>1. Phase(s)' = Phase(s) \/ (Phase(s) # "closed" /\ Phase(s)' = "closed")
    BY <1>1, <1>2, <1>11, PhaseSteps
  <2>2. CASE Phase(s)' = Phase(s)
    BY <1>7, <1>11, <2>2 DEF ToHost!fvars
  <2>3. CASE Phase(s) # "closed" /\ Phase(s)' = "closed"
    <3>1. ToHost!End
      BY <1>7, <1>11, <2>3 DEF ToHost!End
    <3>2. QED
      BY <3>1 DEF ToHost!Next
  <2>4. QED
    BY <2>1, <2>2, <2>3
<1>12. QED
  BY <1>8, <1>9, <1>10, <1>11

\* adbd to host, every stream implements FlowControl, whatever stalls and
\* whoever misbehaves: a chunk is acknowledged once, and only after a read()
\* call has returned it.
THEOREM ReceiverImplements == Spec => AcksWhatIsRead
<1> DEFINE I == TInv /\ CloseInv /\ LinkInv /\ WindowOf(Stream)
<1>1. Init => I /\ ToHost!Init
  BY InitTInv, InitCloseInv, InitLinkInv, ReceiverInit
<1>2. I /\ [Next]_vars => I'
  BY NextTInv, NextCloseInv, NextLinkInv, NextWindow
<1>3. I /\ I' /\ [Next]_vars => [ToHost!Next]_(ToHost!fvars)
  BY ReceiverStep
<1> HIDE DEF I
<1>4. QED
  BY <1>1, <1>2, <1>3, PTL DEF Spec, AcksWhatIsRead, ToHost!Spec

\* "... so that the device feels real backpressure instead of filling our heap"
\* (stream.js): while a stream is open, what is buffered for read() stays below
\* the window and one chunk, however slowly the application reads.
THEOREM HeapStaysBounded ==
    Spec => [](Live(Stream) => Buffered(incoming[Stream]) < Unit(RecvWindow) + Unit(MaxDevChunk))
<1> DEFINE I == TInv /\ CloseInv /\ LinkInv /\ WindowOf(Stream)
           B == Live(Stream) => Buffered(incoming[Stream]) < Unit(RecvWindow) + Unit(MaxDevChunk)
<1>1. Init => I
  BY InitTInv, InitCloseInv, InitLinkInv, ReceiverInit
<1>2. I /\ [Next]_vars => I'
  BY NextTInv, NextCloseInv, NextLinkInv, NextWindow
<1>3. I => B
  <2>1. SUFFICES ASSUME I, Live(Stream)
                 PROVE  Buffered(incoming[Stream]) < Unit(RecvWindow) + Unit(MaxDevChunk)
    OBVIOUS
  <2>2. PICK W \in Int, A \in Nat, B1 \in Nat, O \in Nat :
            /\ W = devWindow[Stream] /\ A = Amount(inq, Stream, "WRTE")
            /\ B1 = Buffered(incoming[Stream]) /\ O = Owing(Stream)
    BY <2>1, StreamAssumption, WindowTypes
  <2>3. PICK g, m \in Nat : g = Unit(RecvWindow) /\ m = Unit(MaxDevChunk)
    BY WindowConstants DEF Unit
  <2>4. W + (A + B1) + O = g /\ W > -m
    BY <2>1, <2>2, <2>3 DEF WindowOf, Unseen
  <2>5. B1 < g + m
    BY <2>4
  <2>6. QED
    BY <2>2, <2>3, <2>5
<1> HIDE DEF I, B
<1>4. Spec => []B
  BY <1>1, <1>2, <1>3, PTL DEF Spec
<1>5. QED
  BY <1>4 DEF B
=============================================================================
